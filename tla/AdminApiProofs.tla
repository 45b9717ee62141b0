---------------------------- MODULE AdminApiProofs ----------------------------
(***************************************************************************)
(* Any requests to the admin API, interleaved at will: one session per     *)
(* login, one call to Discord per access token, lists of guilds that are   *)
(* as recent as the code allows, and an audit log that tells the truth.    *)
(***************************************************************************)
EXTENDS AdminApi, TLAPS

Standings == {"manager", "member", None}
Cookies ==
    [session : {None} \cup [value : Logins, secret : Nat],
     state : {None} \cup [value : Logins, secret : Nat]]
Entries ==
    [fetchedAt : Nat, expiresAt : Nat, blockedUntil : Nat,
     guilds : [Guilds -> Standings]]
Replies ==
    [kind : {"guilds"}, guilds : [Guilds -> Standings]]
        \cup [kind : {"limited"}, after : RetryAfters] \cup [kind : {"failed"}]
Fields == {"at", "route", "user", "cookies", "query", "session", "asked",
           "began", "reply", "count", "limit", "threshold", "bundle"}

\* What a request knows; the fields of its own route are left open.
RequestShape(r) ==
    /\ DOMAIN req[r] = Fields
    /\ req[r].user \in Users \cup {None}
    /\ req[r].at # "idle" => req[r].user \in Users
    /\ req[r].cookies \in Cookies
    /\ req[r].query \in Requests \cup {None}
    /\ req[r].session \in Logins \cup {None}
    /\ req[r].asked \in Nat
    /\ req[r].began \in Nat
    /\ req[r].reply \in Replies \cup {None}

Shape ==
    /\ cast \in Casts
    /\ now \in Nat
    /\ secret \in Nat
    /\ standing \in [Users -> [Guilds -> Standings]]
    /\ lostAt \in [Users -> [Guilds -> Nat \cup {None}]]
    /\ jar \in [Users -> Cookies]
    /\ stateStore \subseteq Requests
    /\ cache \in [Logins -> Entries]
    /\ inflight \in [Logins -> Requests \cup {None}]
    /\ DOMAIN req = Requests
    /\ \A r \in Requests : RequestShape(r)

-----------------------------------------------------------------------------
(* Signing in: a state is in memory, with one callback, or spent. *)

SigningIn == {"exchange", "identify", "put session"}
Unspent == {"idle", "open", "session"}

StatesAreSpentOnce ==
    /\ \A q \in stateStore : req[q].at \notin Unspent
    /\ \A r \in Requests : req[r].at \in SigningIn =>
          /\ req[r].query \in Requests \ stateStore
          /\ req[req[r].query].at \notin Unspent
          /\ \A a \in opened : a[1] # req[r].query
          /\ \A s \in Requests :
                req[s].at \in SigningIn /\ req[s].query = req[r].query => s = r
    /\ \A a \in opened :
          /\ a[1] \in Requests \ stateStore
          /\ req[a[1]].at \notin Unspent
          /\ \A b \in opened : a[1] = b[1] => a = b

\* Tokens: cookies and sessions lead to the user who signed in.
Owned(t, u) ==
    /\ t \in Logins
    /\ t = Past => u = cast.signedIn
    /\ t \in Requests => req[t].at # "idle" /\ req[t].user = u
WithSession ==
    {"ask", "look", "fetch", "publish", "fallback", "wait", "woken", "access"}

TokensAreOwned ==
    /\ \A u \in Users : jar[u].session # None => Owned(jar[u].session.value, u)
    /\ \A r \in Requests :
          /\ req[r].cookies.session # None =>
                Owned(req[r].cookies.session.value, req[r].user)
          /\ req[r].session # None => Owned(req[r].session, req[r].user)
          /\ req[r].at \in WithSession => req[r].session # None

-----------------------------------------------------------------------------
(* The cached lists. *)

\* u managed g, or did so at time t.
Managed(u, g, t) ==
    \/ standing[u][g] = "manager"
    \/ lostAt[u][g] # None /\ t <= lostAt[u][g]
ManagedRecently(u, g, t) ==
    \/ standing[u][g] = "manager"
    \/ lostAt[u][g] # None /\ t <= lostAt[u][g] + StaleWhileRateLimited

\* The leader's call straddles at most one unit of time, and Discord does not
\* limit the rate while it goes on.
LeadersCall ==
    \A r \in Requests : req[r].at \in {"fetch", "publish"} =>
        /\ inflight[req[r].session] = r
        /\ cache[req[r].session].blockedUntil <= req[r].asked
        /\ req[r].asked <= req[r].began
        /\ req[r].began <= now /\ now <= req[r].began + 1

\* A list was true when it was fetched; it is fresh for its time, or as long as
\* Discord limits the rate.
ListsWereTrue ==
    /\ \A t \in Logins :
          /\ cache[t].fetchedAt <= now
          /\ \/ cache[t].expiresAt <= cache[t].fetchedAt + CacheTTL
             \/ cache[t].expiresAt <= cache[t].blockedUntil
          /\ t \in Requests /\ req[t].at = "idle" =>
                \A g \in Guilds : cache[t].guilds[g] # "manager"
          /\ \A u \in Users, g \in Guilds :
                Owned(t, u) /\ cache[t].guilds[g] = "manager" =>
                    Managed(u, g, cache[t].fetchedAt)
    /\ \A r \in Requests : req[r].asked <= now

Authorized == {"put config", "load config", "list", "manage", "count", "insert",
               "delete"}
IsList(reply) == reply.kind = "guilds"

RepliesWereTrue ==
    \A r \in Requests :
        /\ req[r].at = "publish" => req[r].reply \in Replies
        /\ req[r].at = "publish" /\ IsList(req[r].reply) =>
              \A g \in Guilds : req[r].reply.guilds[g] = "manager" =>
                  Managed(req[r].user, g, req[r].began)
        /\ req[r].at \in {"woken", "access"} => req[r].reply \in Replies
        /\ req[r].at = "access" => IsList(req[r].reply)
        /\ req[r].at \in {"woken", "access"} /\ IsList(req[r].reply) =>
              \A g \in Guilds : req[r].reply.guilds[g] = "manager" =>
                  ManagedRecently(req[r].user, g, req[r].asked)
        /\ req[r].at \in Authorized =>
              ManagedRecently(req[r].user, cast.guild, req[r].asked)

-----------------------------------------------------------------------------
(* The audit log. *)

AuditIsTrue ==
    /\ \A w \in warnings : w.id \in Requests =>
          \/ <<"warn.create", w.id>> \in audit
          \/ req[w.id].at \in {"audit", "refused", "lost"}
    /\ \A r \in Requests : req[r].at = "audit timeout" => r \in timedOut
    /\ \A r \in Requests : <<"warn.timeout", r>> \in audit => r \in timedOut

AdminInv ==
    /\ Shape
    /\ StatesAreSpentOnce
    /\ TokensAreOwned
    /\ LeadersCall
    /\ ListsWereTrue
    /\ RepliesWereTrue
    /\ AuditIsTrue

-----------------------------------------------------------------------------
(* How requests move. *)

Moved(r, place) ==
    /\ DOMAIN req' = Requests
    /\ \A q \in Requests \ {r} : req'[q] = req[q]
    /\ DOMAIN req'[r] = Fields
    /\ req'[r].at = place
    /\ req'[r].user = req[r].user
Keeps(r) ==
    /\ req'[r].query = req[r].query /\ req'[r].cookies = req[r].cookies
    /\ req'[r].session = req[r].session /\ req'[r].asked = req[r].asked
    /\ req'[r].began = req[r].began
Clears(r) ==
    /\ req'[r].query = None /\ req'[r].cookies = NoCookies
    /\ req'[r].session = None /\ req'[r].asked = 0
    /\ req'[r].began = 0 /\ req'[r].reply = None

\* The record of an idle request has the fields of every request.
LEMMA NoRequestFields == DOMAIN NoRequest = Fields
BY DEF NoRequest, Fields

\* Goto moves one request to a place and changes none of its other fields.
LEMMA GotoMoves ==
    ASSUME Shape, NEW r \in Requests, NEW place, Goto(r, place)
    PROVE  Moved(r, place) /\ Keeps(r) /\ req'[r].reply = req[r].reply
<1>1. DOMAIN req = Requests /\ DOMAIN req[r] = Fields
  BY DEF Shape, RequestShape
<1> QED BY <1>1 DEF Goto, Moved, Keeps, Fields

\* An answer moves one request to its end and clears what it carried.
LEMMA AnswerMoves ==
    ASSUME Shape, NEW r \in Requests, NEW how, req' = [req EXCEPT ![r] = Answer(r, how)]
    PROVE  Moved(r, how) /\ Clears(r)
<1>1. DOMAIN req = Requests
  BY DEF Shape
<1>2. req'[r] = Answer(r, how) /\ DOMAIN req' = Requests
      /\ \A q \in Requests \ {r} : req'[q] = req[q]
  BY <1>1
<1> QED BY <1>2 DEF Answer, NoRequest, Moved, Clears, Fields

\* Requests keep their shape whether they go on or are answered.
LEMMA MovedShape ==
    ASSUME Shape, NEW r \in Requests, NEW place, Moved(r, place), Keeps(r) \/ Clears(r),
           req[r].at # "idle", req'[r].reply \in Replies \cup {None}
    PROVE  \A q \in Requests : RequestShape(q)'
<1>1. \A q \in Requests \ {r} : RequestShape(q)'
  BY DEF Shape, RequestShape, Moved
<1>2. RequestShape(r)'
  <2>1. NoCookies \in Cookies
    BY DEF NoCookies, Cookies
  <2>2. RequestShape(r)
    BY DEF Shape
  <2> QED BY <2>1, <2>2 DEF RequestShape, Moved, Keeps, Clears
<1> QED BY <1>1, <1>2

-----------------------------------------------------------------------------
(* Steps that do not concern a part of the invariant. *)

\* A state stays spent as long as no step puts one back or starts a sign-in with it.
LEMMA SpentKept ==
    ASSUME Shape, StatesAreSpentOnce, UNCHANGED opened, stateStore' \subseteq stateStore,
           \A q \in Requests :
              /\ req'[q].at \in SigningIn =>
                    req[q].at \in SigningIn /\ req'[q].query = req[q].query
              /\ req[q].at \notin Unspent => req'[q].at \notin Unspent
    PROVE  StatesAreSpentOnce'
<1>1. stateStore \subseteq Requests
  BY DEF Shape
<1> QED BY <1>1 DEF StatesAreSpentOnce

\* Tokens stay with their owners in a step that hands out no session.
LEMMA TokensKept ==
    ASSUME Shape, TokensAreOwned, cast' = cast,
           \A u \in Users : jar'[u].session \in {jar[u].session, None},
           \A q \in Requests :
              /\ req[q].at # "idle" => req'[q].at # "idle"
              /\ req'[q].user = req[q].user
              /\ req'[q].cookies.session \in {req[q].cookies.session, None}
              /\ req'[q].session \in {req[q].session, None}
              /\ req'[q].at \in WithSession =>
                    req[q].at \in WithSession /\ req'[q].session = req[q].session
    PROVE  TokensAreOwned'
<1>1. \A t, u : Owned(t, u) => Owned(t, u)'
  BY DEF Owned
<1> QED BY <1>1 DEF TokensAreOwned

\* Leaders keep their calls in a step that starts and ends none.
LEMMA CallsKept ==
    ASSUME LeadersCall, UNCHANGED <<now, cache, inflight>>,
           \A q \in Requests : req'[q].at \in {"fetch", "publish"} =>
              /\ req[q].at \in {"fetch", "publish"}
              /\ req'[q].session = req[q].session /\ req'[q].asked = req[q].asked
              /\ req'[q].began = req[q].began
    PROVE  LeadersCall'
BY DEF LeadersCall

\* The cached lists stay true in a step that changes neither a list nor a standing.
LEMMA ListsKept ==
    ASSUME Shape, ListsWereTrue, UNCHANGED <<cast, now, cache, standing, lostAt>>,
           \A q \in Requests :
              /\ req'[q].at = "idle" <=> req[q].at = "idle"
              /\ req'[q].user = req[q].user
              /\ req'[q].asked \in {req[q].asked, 0, now}
    PROVE  ListsWereTrue'
<1>1. \A t, u : Owned(t, u)' => Owned(t, u)
  BY DEF Owned
<1>2. \A u, g, t : Managed(u, g, t)' <=> Managed(u, g, t)
  BY DEF Managed
<1>3. now \in Nat
  BY DEF Shape
<1> QED BY <1>1, <1>2, <1>3 DEF ListsWereTrue

\* The lists requests carry stay true in a step that hands none to a request.
LEMMA RepliesKept ==
    ASSUME RepliesWereTrue, UNCHANGED <<cast, standing, lostAt>>,
           \A q \in Requests :
              \/ req'[q] = req[q]
              \/ req'[q].at \notin {"publish", "woken", "access"} \cup Authorized
              \/ /\ req'[q].at \in Authorized /\ req[q].at \in Authorized
                 /\ req'[q].user = req[q].user /\ req'[q].asked = req[q].asked
    PROVE  RepliesWereTrue'
<1>1. \A u, g, t : Managed(u, g, t)' <=> Managed(u, g, t)
  BY DEF Managed
<1>2. \A u, g, t : ManagedRecently(u, g, t)' <=> ManagedRecently(u, g, t)
  BY DEF ManagedRecently
<1>3. "publish" \notin Authorized /\ "woken" \notin Authorized /\ "access" \notin Authorized
  BY DEF Authorized
<1> QED BY <1>1, <1>2, <1>3 DEF RepliesWereTrue, IsList

\* The audit stays true in a step that writes neither it nor what it tells of.
LEMMA AuditKept ==
    ASSUME AuditIsTrue, UNCHANGED <<warnings, audit, timedOut>>,
           \A q \in Requests :
              /\ req[q].at \in {"audit", "refused", "lost"} =>
                    req'[q].at \in {"audit", "refused", "lost"}
              /\ req'[q].at = "audit timeout" => req[q].at = "audit timeout"
    PROVE  AuditIsTrue'
BY DEF AuditIsTrue

\* A browser without cookies has no session.
LEMMA CookiesOfNone == NoCookies \in Cookies /\ NoCookies.session = None
BY DEF NoCookies, Cookies

\* A request goes on by itself: who signed in, the calls and the lists stay.
LEMMA GoesOn ==
    ASSUME AdminInv, NEW r \in Requests, NEW place, Moved(r, place),
           Keeps(r) \/ Clears(r),
           UNCHANGED <<cast, now, standing, lostAt, jar, secret, stateStore, cache,
                       inflight, opened>>,
           req'[r].reply \in Replies \cup {None},
           req[r].at # "idle", place \notin Unspent,
           place \in SigningIn \cup WithSession => Keeps(r),
           place \in SigningIn => req[r].at \in SigningIn,
           place \in WithSession => req[r].at \in WithSession,
           place \in {"fetch", "publish"} => req[r].at \in {"fetch", "publish"}
    PROVE  /\ Shape' /\ StatesAreSpentOnce' /\ TokensAreOwned'
           /\ LeadersCall' /\ ListsWereTrue'
<1>1. Shape /\ StatesAreSpentOnce /\ TokensAreOwned /\ LeadersCall /\ ListsWereTrue
  BY DEF AdminInv
<1>2. Clears(r) => req'[r].cookies.session = None
  BY CookiesOfNone DEF Clears
<1>3. place # "idle"
  BY DEF Unspent
<1>4. Shape'
  <2>1. \A q \in Requests : RequestShape(q)'
    BY <1>1, MovedShape
  <2> QED BY <1>1, <2>1 DEF Shape, Moved
<1>5. StatesAreSpentOnce'
  <2>1. \A q \in Requests :
            /\ req'[q].at \in SigningIn =>
                  req[q].at \in SigningIn /\ req'[q].query = req[q].query
            /\ req[q].at \notin Unspent => req'[q].at \notin Unspent
    BY DEF Moved, Keeps
  <2> QED BY <1>1, <2>1, SpentKept
<1>6. TokensAreOwned'
  <2>1. \A q \in Requests :
            /\ req[q].at # "idle" => req'[q].at # "idle"
            /\ req'[q].user = req[q].user
            /\ req'[q].cookies.session \in {req[q].cookies.session, None}
            /\ req'[q].session \in {req[q].session, None}
            /\ req'[q].at \in WithSession =>
                  req[q].at \in WithSession /\ req'[q].session = req[q].session
    BY <1>2, <1>3 DEF Moved, Keeps, Clears
  <2> QED BY <1>1, <2>1, TokensKept
<1>7. LeadersCall'
  <2>1. \A q \in Requests : req'[q].at \in {"fetch", "publish"} =>
            /\ req[q].at \in {"fetch", "publish"}
            /\ req'[q].session = req[q].session /\ req'[q].asked = req[q].asked
            /\ req'[q].began = req[q].began
    <3>1. place \in {"fetch", "publish"} => Keeps(r)
      BY DEF WithSession
    <3> QED BY <3>1 DEF Moved, Keeps
  <2> QED BY <1>1, <2>1, CallsKept
<1>8. ListsWereTrue'
  <2>1. \A q \in Requests :
            /\ req'[q].at = "idle" <=> req[q].at = "idle"
            /\ req'[q].user = req[q].user
            /\ req'[q].asked \in {req[q].asked, 0, now}
    BY <1>3 DEF Moved, Keeps, Clears
  <2> QED BY <1>1, <2>1, ListsKept
<1> QED BY <1>4, <1>5, <1>6, <1>7, <1>8

\* A request goes on by itself, and learns nothing that authorises it.
LEMMA PlainStep ==
    ASSUME AdminInv, NEW r \in Requests, NEW place, Moved(r, place),
           Keeps(r) \/ Clears(r),
           UNCHANGED <<cast, now, standing, lostAt, jar, secret, stateStore, cache,
                       inflight, opened>>,
           req'[r].reply \in {req[r].reply, None},
           req[r].at # "idle",
           place \notin Unspent \cup {"fetch", "publish", "woken", "access"},
           place \in SigningIn \cup WithSession \cup Authorized => Keeps(r),
           place \in SigningIn => req[r].at \in SigningIn,
           place \in WithSession => req[r].at \in WithSession,
           place \in Authorized => req[r].at \in Authorized,
           AuditIsTrue'
    PROVE  AdminInv'
<1>1. RepliesWereTrue'
  <2>1. RepliesWereTrue
    BY DEF AdminInv
  <2>2. \A q \in Requests :
            \/ req'[q] = req[q]
            \/ req'[q].at \notin {"publish", "woken", "access"} \cup Authorized
            \/ /\ req'[q].at \in Authorized /\ req[q].at \in Authorized
               /\ req'[q].user = req[q].user /\ req'[q].asked = req[q].asked
    BY DEF Moved, Keeps
  <2> QED BY <2>1, <2>2, RepliesKept
<1>2. req'[r].reply \in Replies \cup {None}
  BY DEF AdminInv, Shape, RequestShape
<1>3. Shape' /\ StatesAreSpentOnce' /\ TokensAreOwned' /\ LeadersCall' /\ ListsWereTrue'
  BY <1>2, GoesOn
<1> QED BY <1>1, <1>3 DEF AdminInv

\* The audit log does not change.
LEMMA QuietStep ==
    ASSUME AdminInv, NEW r \in Requests, NEW place, Moved(r, place),
           UNCHANGED <<warnings, audit, timedOut>>,
           req[r].at \notin {"audit", "refused", "lost"} \/ place = "refused",
           place # "audit timeout"
    PROVE  AuditIsTrue'
<1>1. \A q \in Requests :
          /\ req[q].at \in {"audit", "refused", "lost"} =>
                req'[q].at \in {"audit", "refused", "lost"}
          /\ req'[q].at = "audit timeout" => req[q].at = "audit timeout"
  BY DEF Moved
<1> QED BY <1>1, AuditKept DEF AdminInv

quietVars == <<cast, now, standing, lostAt, jar, secret, stateStore, cache, inflight,
               opened, warnings, audit, timedOut>>
Settled == {"idle", "audit", "refused", "lost"}

\* A step that changes one request's record alone leaves everything shared alone.
LEMMA OnlyRequestIsQuiet ==
    ASSUME OnlyRequest PROVE UNCHANGED quietVars
BY DEF OnlyRequest, quietVars, discordVars, cacheVars, storeVars, pastVars

\* Where a request may go when it learns nothing.
Onward(r, place) ==
    /\ place \notin Unspent \cup {"fetch", "publish", "woken", "access", "audit timeout"}
    /\ place \in SigningIn => req[r].at \in SigningIn
    /\ place \in WithSession => req[r].at \in WithSession
    /\ place \in Authorized => req[r].at \in Authorized

\* A request that goes on without touching anything shared keeps AdminInv.
LEMMA QuietMove ==
    ASSUME AdminInv, UNCHANGED quietVars, NEW r \in Requests, NEW place,
           Moved(r, place), Keeps(r), req'[r].reply \in {req[r].reply, None},
           req[r].at \notin Settled, Onward(r, place)
    PROVE  AdminInv'
<1>1. AuditIsTrue'
  BY QuietStep DEF quietVars, Onward, Settled
<1> QED BY <1>1, PlainStep DEF quietVars, Onward, Settled

\* So does one that goes to the next place,
LEMMA QuietGoto ==
    ASSUME AdminInv, UNCHANGED quietVars, NEW r \in Requests, NEW place,
           Goto(r, place), req[r].at \notin Settled, Onward(r, place)
    PROVE  AdminInv'
<1>1. Moved(r, place) /\ Keeps(r) /\ req'[r].reply = req[r].reply
  BY GotoMoves DEF AdminInv
<1> QED BY <1>1, QuietMove

\* and one that is answered.
LEMMA QuietAnswer ==
    ASSUME AdminInv, UNCHANGED quietVars, NEW r \in Requests,
           \/ Refuse(r) /\ req[r].at # "idle"
           \/ Done(r) /\ req[r].at \notin Settled
    PROVE  AdminInv'
<1>1. PICK how \in {"refused", "done"} :
          /\ req' = [req EXCEPT ![r] = Answer(r, how)]
          /\ req[r].at # "idle"
          /\ how = "done" => req[r].at \notin Settled
  BY DEF Refuse, Done, Settled
<1>2. Moved(r, how) /\ Clears(r)
  BY <1>1, AnswerMoves DEF AdminInv
<1>3. how \notin Unspent \cup SigningIn \cup WithSession \cup Authorized
  BY DEF Unspent, SigningIn, WithSession, Authorized
<1>4. AuditIsTrue'
  BY <1>1, <1>2, QuietStep DEF quietVars, Settled
<1>5. req'[r].reply = None
  BY <1>2 DEF Clears
<1> QED BY <1>1, <1>2, <1>3, <1>4, <1>5, PlainStep DEF quietVars

-----------------------------------------------------------------------------
(* The actions that teach a request nothing. *)

USE DEF At

\* The two calls to Discord of a sign-in (finishAuth, auth.go) keep AdminInv.
LEMMA SignInGoesOn ==
    ASSUME AdminInv, NEW r \in Requests, ExchangeCode(r) \/ FetchUser(r)
    PROVE  AdminInv'
<1>1. UNCHANGED quietVars
  BY OnlyRequestIsQuiet DEF ExchangeCode, FetchUser
<1>2. CASE ExchangeCode(r)
  <2>1. req[r].at \notin Settled /\ req[r].at # "idle" /\ Onward(r, "identify")
    BY <1>2 DEF ExchangeCode, Settled, Onward, Unspent, SigningIn, WithSession, Authorized
  <2> QED BY <1>1, <1>2, <2>1, QuietGoto, QuietAnswer DEF ExchangeCode
<1>3. CASE FetchUser(r)
  <2>1. req[r].at \notin Settled /\ req[r].at # "idle" /\ Onward(r, "put session")
    BY <1>3 DEF FetchUser, Settled, Onward, Unspent, SigningIn, WithSession, Authorized
  <2> QED BY <1>1, <1>3, <2>1, QuietGoto, QuietAnswer DEF FetchUser
<1> QED BY <1>2, <1>3

\* A request without a session that is valid is refused, and AdminInv kept.
LEMMA NoSession ==
    ASSUME AdminInv, NEW r \in Requests, SessionRefused(r) \/ SessionExpired(r)
    PROVE  AdminInv'
<1>1. UNCHANGED quietVars
  <2>1. CASE SessionRefused(r)
    BY <2>1, OnlyRequestIsQuiet DEF SessionRefused
  <2>2. CASE SessionExpired(r)
    BY <2>2 DEF SessionExpired, quietVars, discordVars, cacheVars, pastVars
  <2> QED BY <2>1, <2>2
<1>2. req[r].at \notin Settled /\ req[r].at # "idle" /\ (Done(r) \/ Refuse(r))
  BY DEF SessionRefused, SessionExpired, Settled
<1> QED BY <1>1, <1>2, QuietAnswer

\* A request for guilds that is refused, or whose client hangs up, keeps AdminInv.
LEMMA ListRefused ==
    ASSUME AdminInv, NEW r \in Requests, RefuseBlocked(r) \/ HangUp(r)
    PROVE  AdminInv'
<1>1. UNCHANGED quietVars
  BY OnlyRequestIsQuiet DEF RefuseBlocked, HangUp
<1>2. Refuse(r) /\ req[r].at # "idle"
  BY DEF RefuseBlocked, HangUp
<1> QED BY <1>1, <1>2, QuietAnswer

\* Joining a call that is under way keeps AdminInv.
LEMMA Joins ==
    ASSUME AdminInv, NEW r \in Requests, Join(r)
    PROVE  AdminInv'
<1>1. UNCHANGED quietVars
  BY OnlyRequestIsQuiet DEF Join
<1>2. Goto(r, "wait") /\ req[r].at \notin Settled /\ Onward(r, "wait")
  BY DEF Join, Settled, Onward, Unspent, SigningIn, WithSession, Authorized
<1> QED BY <1>1, <1>2, QuietGoto

\* The steps of a manager's request that write nothing but a configuration keep AdminInv.
LEMMA ManagersAct ==
    ASSUME AdminInv, NEW r \in Requests,
           List(r) \/ Manage(r) \/ PutConfig(r) \/ CountWarnings(r)
    PROVE  AdminInv'
<1>1. UNCHANGED quietVars
  <2>1. CASE PutConfig(r)
    BY <2>1 DEF PutConfig, quietVars, discordVars, cacheVars
  <2>2. CASE List(r) \/ Manage(r) \/ CountWarnings(r)
    BY <2>2, OnlyRequestIsQuiet DEF List, Manage, CountWarnings
  <2> QED BY <2>1, <2>2
<1>2. req[r].at \notin Settled /\ req[r].at # "idle"
  BY DEF List, Manage, PutConfig, CountWarnings, Settled
<1>3. CASE List(r) \/ Manage(r) \/ PutConfig(r)
  BY <1>1, <1>2, <1>3, QuietAnswer DEF List, Manage, PutConfig
<1>4. CASE CountWarnings(r)
  <2>1. CASE Refuse(r)
    BY <1>1, <1>2, <2>1, QuietAnswer
  <2>2. CASE req' = [req EXCEPT ![r].at = "insert",
                                ![r].count = Cardinality(WarningsIn(cast.guild))]
    <3> DEFINE rec == [req[r] EXCEPT !.at = "insert",
                                     !.count = Cardinality(WarningsIn(cast.guild))]
    <3>1. DOMAIN req = Requests /\ DOMAIN req[r] = Fields
      BY DEF AdminInv, Shape, RequestShape
    <3>2. req' = [req EXCEPT ![r] = rec]
      BY <2>2, <3>1
    <3>3. Moved(r, "insert") /\ Keeps(r) /\ req'[r].reply = req[r].reply
      BY <3>1, <3>2 DEF Moved, Keeps, Fields
    <3>4. Onward(r, "insert")
      BY <1>4 DEF CountWarnings, Onward, Unspent, SigningIn, WithSession, Authorized
    <3> QED BY <1>1, <1>2, <3>3, <3>4, QuietMove
  <2> QED BY <1>4, <2>1, <2>2 DEF CountWarnings
<1> QED BY <1>3, <1>4

\* Loading a configuration keeps AdminInv.
LEMMA ConfigLoaded ==
    ASSUME AdminInv, NEW r \in Requests, LoadConfig(r)
    PROVE  AdminInv'
<1>1. UNCHANGED quietVars
  BY OnlyRequestIsQuiet DEF LoadConfig
<1>2. req[r].at \notin Settled /\ req[r].at # "idle"
  BY DEF LoadConfig, Settled
<1>3. CASE Refuse(r)
  BY <1>1, <1>2, <1>3, QuietAnswer
<1>4. CASE \E limit, threshold : \E place \in {"count", "delete"} :
              req' = [req EXCEPT ![r].at = place, ![r].limit = limit,
                                 ![r].threshold = threshold]
  <2>1. PICK limit, threshold : \E place \in {"count", "delete"} :
              req' = [req EXCEPT ![r].at = place, ![r].limit = limit,
                                 ![r].threshold = threshold]
    BY <1>4
  <2>2. PICK place \in {"count", "delete"} :
              req' = [req EXCEPT ![r].at = place, ![r].limit = limit,
                                 ![r].threshold = threshold]
    BY <2>1
  <2> DEFINE rec == [req[r] EXCEPT !.at = place, !.limit = limit, !.threshold = threshold]
  <2>3. DOMAIN req = Requests /\ DOMAIN req[r] = Fields
    BY DEF AdminInv, Shape, RequestShape
  <2>4. req' = [req EXCEPT ![r] = rec]
    BY <2>2, <2>3
  <2>5. Moved(r, place) /\ Keeps(r) /\ req'[r].reply = req[r].reply
    BY <2>3, <2>4 DEF Moved, Keeps, Fields
  <2>6. Onward(r, place)
    BY DEF LoadConfig, Onward, Unspent, SigningIn, WithSession, Authorized
  <2> QED BY <1>1, <1>2, <2>5, <2>6, QuietMove
<1> QED BY <1>3, <1>4 DEF LoadConfig

\* The owner's requests keep AdminInv.
LEMMA OwnerActs ==
    ASSUME AdminInv, NEW r \in Requests, OwnerStep(r)
    PROVE  AdminInv'
<1>1. UNCHANGED quietVars
  <2>1. CASE Delegate(r) \/ CheckScaffold(r) \/ SignDir(r)
    BY <2>1, OnlyRequestIsQuiet DEF Delegate, CheckScaffold, SignDir
  <2>2. CASE SaveSettings(r) \/ MaterializeStarter(r) \/ WriteSignature(r)
    BY <2>2 DEF SaveSettings, MaterializeStarter, WriteSignature, quietVars,
                discordVars, cacheVars, pastVars
  <2> QED BY <2>1, <2>2 DEF OwnerStep
<1>2. req[r].at \notin Settled /\ req[r].at # "idle"
  BY DEF OwnerStep, Delegate, SaveSettings, CheckScaffold, MaterializeStarter,
         SignDir, WriteSignature, Settled
<1>3. Onward(r, "materialize") /\ Onward(r, "sign") /\ Onward(r, "write signature")
  BY DEF Onward, Unspent, SigningIn, WithSession, Authorized
<1>4. CASE SignDir(r) /\ ~Refuse(r)
  <2> DEFINE rec == [req[r] EXCEPT !.at = "write signature", !.bundle = starter.bundle]
  <2>1. DOMAIN req = Requests /\ DOMAIN req[r] = Fields
    BY DEF AdminInv, Shape, RequestShape
  <2>2. req' = [req EXCEPT ![r] = rec]
    BY <1>4, <2>1 DEF SignDir
  <2>3. Moved(r, "write signature") /\ Keeps(r) /\ req'[r].reply = req[r].reply
    BY <2>1, <2>2 DEF Moved, Keeps, Fields
  <2> QED BY <1>1, <1>2, <1>3, <2>3, QuietMove
<1>5. CASE Refuse(r) \/ Done(r)
  BY <1>1, <1>2, <1>5, QuietAnswer
<1>6. CASE Goto(r, "materialize") \/ Goto(r, "sign")
  BY <1>1, <1>2, <1>3, <1>6, QuietGoto
<1> QED BY <1>4, <1>5, <1>6 DEF OwnerStep, Delegate, SaveSettings, CheckScaffold,
                                MaterializeStarter, WriteSignature

-----------------------------------------------------------------------------
(* Warnings: rows, entries of the log and timeouts. *)

stillVars == <<cast, now, standing, lostAt, jar, secret, stateStore, cache, inflight,
               opened>>
WarningPlaces == {"audit", "timeout", "audit timeout", "audit delete"}

\* A step of a warning's request moves it on or answers it.
LEMMA AnswerOrGoto ==
    ASSUME Shape, NEW r \in Requests, NEW place,
           \/ place \in WarningPlaces /\ Goto(r, place)
           \/ place = "done" /\ Done(r)
           \/ place = "refused" /\ Refuse(r)
    PROVE  /\ Moved(r, place) /\ (Keeps(r) \/ Clears(r))
           /\ req'[r].reply \in {req[r].reply, None}
<1>1. CASE Goto(r, place)
  BY <1>1, GotoMoves
<1>2. CASE req' = [req EXCEPT ![r] = Answer(r, place)]
  <2>1. Moved(r, place) /\ Clears(r)
    BY <1>2, AnswerMoves
  <2> QED BY <2>1 DEF Clears
<1> QED BY <1>1, <1>2 DEF Done, Refuse

\* It keeps AdminInv if the audit stays true.
LEMMA WarningMove ==
    ASSUME AdminInv, NEW r \in Requests, NEW place, UNCHANGED stillVars,
           \/ place \in WarningPlaces /\ Goto(r, place)
           \/ place = "done" /\ Done(r)
           \/ place = "refused" /\ Refuse(r),
           req[r].at # "idle", AuditIsTrue'
    PROVE  AdminInv'
<1>1. /\ Moved(r, place) /\ (Keeps(r) \/ Clears(r))
      /\ req'[r].reply \in {req[r].reply, None}
  BY AnswerOrGoto DEF AdminInv
<1>2. place \notin Unspent \cup {"fetch", "publish", "woken", "access"}
                     \cup SigningIn \cup WithSession \cup Authorized
  BY DEF WarningPlaces, Unspent, SigningIn, WithSession, Authorized
<1> QED BY <1>1, <1>2, PlainStep DEF stillVars

\* Inserting a warning keeps AdminInv: the audit entry is still to come.
LEMMA WarningCreated ==
    ASSUME AdminInv, NEW r \in Requests, CreateWarning(r)
    PROVE  AdminInv'
<1>1. UNCHANGED stillVars /\ UNCHANGED <<audit, timedOut>> /\ req[r].at = "insert"
  BY DEF CreateWarning, stillVars, discordVars, cacheVars, pastVars
<1>2. Shape /\ AuditIsTrue
  BY DEF AdminInv
<1>3. CASE warnings' = warnings \cup {[id |-> r, guild |-> cast.guild]} /\ Goto(r, "audit")
  <2>1. Moved(r, "audit")
    BY <1>2, <1>3, GotoMoves
  <2>2. ASSUME NEW w \in warnings', w.id \in Requests
        PROVE  \/ <<"warn.create", w.id>> \in audit'
               \/ req'[w.id].at \in {"audit", "refused", "lost"}
    <3>1. CASE w \in warnings
      BY <1>1, <1>2, <2>1, <2>2, <3>1 DEF AuditIsTrue, Moved
    <3>2. CASE w = [id |-> r, guild |-> cast.guild]
      <4>1. w.id = r
        BY <3>2
      <4> QED BY <2>1, <4>1 DEF Moved
    <3> QED BY <1>3, <2>2, <3>1, <3>2
  <2>3. AuditIsTrue'
    BY <1>1, <1>2, <2>1, <2>2 DEF AuditIsTrue, Moved
  <2> QED BY <1>1, <1>3, <2>3, WarningMove DEF WarningPlaces
<1>4. CASE Refuse(r) /\ UNCHANGED warnings
  <2>1. Moved(r, "refused")
    BY <1>2, <1>4, AnswerMoves DEF Refuse
  <2>2. AuditIsTrue'
    BY <1>1, <1>4, <2>1, QuietStep
  <2> QED BY <1>1, <1>4, <2>2, WarningMove
<1> QED BY <1>3, <1>4 DEF CreateWarning

\* Its audit entry tells of a warning that was inserted.
LEMMA WarningAudited ==
    ASSUME AdminInv, NEW r \in Requests, AuditWarning(r)
    PROVE  AdminInv'
<1>1. UNCHANGED stillVars /\ UNCHANGED <<warnings, timedOut>> /\ req[r].at = "audit"
  BY DEF AuditWarning, stillVars, discordVars, cacheVars, pastVars
<1>2. Shape /\ AuditIsTrue
  BY DEF AdminInv
<1>3. ASSUME NEW place, audit' = audit \cup {<<"warn.create", r>>},
             \/ place = "timeout" /\ Goto(r, place)
             \/ place = "done" /\ Done(r)
      PROVE  AdminInv'
  <2>1. Moved(r, place)
    BY <1>2, <1>3, AnswerOrGoto DEF WarningPlaces
  <2>2. AuditIsTrue'
    BY <1>1, <1>2, <1>3, <2>1 DEF AuditIsTrue, Moved
  <2> QED BY <1>1, <1>3, <2>2, WarningMove DEF WarningPlaces
<1>4. CASE Refuse(r) /\ UNCHANGED audit
  <2>1. Moved(r, "refused")
    BY <1>2, <1>4, AnswerMoves DEF Refuse
  <2>2. AuditIsTrue'
    BY <1>1, <1>4, <2>1, QuietStep
  <2> QED BY <1>1, <1>4, <2>2, WarningMove
<1> QED BY <1>3, <1>4 DEF AuditWarning

\* A timeout keeps AdminInv, whether Discord grants it or not.
LEMMA MemberTimedOut ==
    ASSUME AdminInv, NEW r \in Requests, TimeoutMember(r)
    PROVE  AdminInv'
<1>1. UNCHANGED stillVars /\ UNCHANGED <<warnings, audit>> /\ req[r].at = "timeout"
  BY DEF TimeoutMember, stillVars, discordVars, cacheVars, storeVars
<1>2. Shape /\ AuditIsTrue
  BY DEF AdminInv
<1>3. CASE timedOut' = timedOut \cup {r} /\ Goto(r, "audit timeout")
  <2>1. Moved(r, "audit timeout")
    BY <1>2, <1>3, GotoMoves
  <2>2. AuditIsTrue'
    BY <1>1, <1>2, <1>3, <2>1 DEF AuditIsTrue, Moved
  <2> QED BY <1>1, <1>3, <2>2, WarningMove DEF WarningPlaces
<1>4. CASE Done(r) /\ UNCHANGED timedOut
  <2>1. Moved(r, "done")
    BY <1>2, <1>4, AnswerMoves DEF Done
  <2>2. AuditIsTrue'
    BY <1>1, <1>4, <2>1, QuietStep
  <2> QED BY <1>1, <1>4, <2>2, WarningMove
<1> QED BY <1>3, <1>4 DEF TimeoutMember

\* A timeout is audited only after it took effect.
LEMMA TimeoutAudited ==
    ASSUME AdminInv, NEW r \in Requests, AuditTimeout(r)
    PROVE  AdminInv'
<1>1. /\ UNCHANGED stillVars /\ UNCHANGED <<warnings, timedOut>>
      /\ req[r].at = "audit timeout" /\ Done(r)
      /\ audit' \in {audit, audit \cup {<<"warn.timeout", r>>}}
  BY DEF AuditTimeout, stillVars, discordVars, cacheVars, pastVars
<1>2. Shape /\ AuditIsTrue
  BY DEF AdminInv
<1>3. Moved(r, "done")
  BY <1>1, <1>2, AnswerMoves DEF Done
<1>4. AuditIsTrue'
  BY <1>1, <1>2, <1>3 DEF AuditIsTrue, Moved
<1> QED BY <1>1, <1>4, WarningMove

\* Deleting a warning keeps AdminInv.
LEMMA WarningDeleted ==
    ASSUME AdminInv, NEW r \in Requests, DeleteWarning(r)
    PROVE  AdminInv'
<1>1. UNCHANGED stillVars /\ UNCHANGED <<audit, timedOut>> /\ req[r].at = "delete"
  BY DEF DeleteWarning, stillVars, discordVars, cacheVars, pastVars
<1>2. Shape /\ AuditIsTrue
  BY DEF AdminInv
<1>3. CASE Goto(r, "audit delete")
  <2>1. Moved(r, "audit delete")
    BY <1>2, <1>3, GotoMoves
  <2>2. warnings' \subseteq warnings
    BY <1>3 DEF DeleteWarning
  <2>3. AuditIsTrue'
    BY <1>1, <1>2, <2>1, <2>2 DEF AuditIsTrue, Moved
  <2> QED BY <1>1, <1>3, <2>3, WarningMove DEF WarningPlaces
<1>4. CASE Refuse(r) /\ UNCHANGED warnings
  <2>1. Moved(r, "refused")
    BY <1>2, <1>4, AnswerMoves DEF Refuse
  <2>2. AuditIsTrue'
    BY <1>1, <1>4, <2>1, QuietStep
  <2> QED BY <1>1, <1>4, <2>2, WarningMove
<1> QED BY <1>3, <1>4 DEF DeleteWarning

\* The audit entry of a deletion follows the deletion.
LEMMA DeletionAudited ==
    ASSUME AdminInv, NEW r \in Requests, AuditDelete(r)
    PROVE  AdminInv'
<1>1. UNCHANGED stillVars /\ UNCHANGED <<warnings, timedOut>> /\ req[r].at = "audit delete"
  BY DEF AuditDelete, stillVars, discordVars, cacheVars, pastVars
<1>2. Shape /\ AuditIsTrue
  BY DEF AdminInv
<1>3. ASSUME NEW place \in {"done", "refused"},
             audit' \in {audit, audit \cup {<<"warn.delete", r>>}},
             \/ place = "done" /\ Done(r)
             \/ place = "refused" /\ Refuse(r)
      PROVE  AdminInv'
  <2>1. Moved(r, place)
    BY <1>2, <1>3, AnswerOrGoto
  <2>2. AuditIsTrue'
    BY <1>1, <1>2, <1>3, <2>1 DEF AuditIsTrue, Moved
  <2> QED BY <1>1, <1>3, <2>2, WarningMove
<1> QED BY <1>3 DEF AuditDelete

-----------------------------------------------------------------------------
(* Lists of guilds. *)

\* The entry that a request with a session looks at.
LEMMA EntryShape ==
    ASSUME AdminInv, NEW r \in Requests, req[r].at \in WithSession
    PROVE  /\ req[r].session \in Logins /\ Owned(req[r].session, req[r].user)
           /\ req[r].user \in Users
           /\ req[r].asked \in Nat /\ Entry(r) \in Entries
           /\ Entry(r).fetchedAt \in Nat /\ Entry(r).expiresAt \in Nat
           /\ Entry(r).blockedUntil \in Nat
           /\ Entry(r).guilds \in [Guilds -> Standings]
<1>1. req[r].at # "idle"
  BY DEF WithSession
<1>2. req[r].session # None /\ req[r].session \in Logins \cup {None}
      /\ req[r].asked \in Nat /\ req[r].user \in Users
  BY <1>1 DEF AdminInv, TokensAreOwned, Shape, RequestShape
<1>3. Owned(req[r].session, req[r].user)
  BY <1>2 DEF AdminInv, TokensAreOwned
<1>4. Entry(r) \in Entries
  BY <1>2 DEF AdminInv, Shape, Entry
<1> QED BY <1>2, <1>3, <1>4 DEF Entries

\* A list that is not too stale authorises.
LEMMA RecentList ==
    ASSUME AdminInv, NEW r \in Requests, req[r].at \in WithSession,
           req[r].asked <= Entry(r).fetchedAt + StaleWhileRateLimited,
           NEW g \in Guilds, Entry(r).guilds[g] = "manager"
    PROVE  ManagedRecently(req[r].user, g, req[r].asked)
<1>1. /\ req[r].session \in Logins /\ Owned(req[r].session, req[r].user)
      /\ req[r].user \in Users
      /\ req[r].asked \in Nat /\ Entry(r).fetchedAt \in Nat
  BY EntryShape
<1>2. Managed(req[r].user, g, Entry(r).fetchedAt)
  BY <1>1 DEF AdminInv, ListsWereTrue, Entry
<1>3. lostAt[req[r].user][g] \in Nat \cup {None}
  BY <1>1 DEF AdminInv, Shape
<1>4. StaleWhileRateLimited \in Nat
  BY TimesAreNatural
<1> QED BY <1>1, <1>2, <1>3, <1>4 DEF Managed, ManagedRecently

\* Served from the cache: fresh, or kept while Discord limits the rate.
LEMMA ServedIsRecent ==
    ASSUME AdminInv, NEW r \in Requests, ServeCached(r)
    PROVE  req[r].asked <= Entry(r).fetchedAt + StaleWhileRateLimited
<1>1. req[r].at \in WithSession
  BY DEF ServeCached, WithSession
<1>2. /\ req[r].session \in Logins /\ req[r].asked \in Nat
      /\ Entry(r).fetchedAt \in Nat /\ Entry(r).expiresAt \in Nat
      /\ Entry(r).blockedUntil \in Nat
  BY <1>1, EntryShape
<1>3. \/ Entry(r).expiresAt <= Entry(r).fetchedAt + CacheTTL
      \/ Entry(r).expiresAt <= Entry(r).blockedUntil
  BY <1>2 DEF AdminInv, ListsWereTrue, Entry
<1>4. StaleWhileRateLimited \in Nat /\ CacheTTL \in Nat /\ CacheTTL <= StaleWhileRateLimited
  BY TimesAreNatural
<1> QED BY <1>2, <1>3, <1>4 DEF ServeCached, Blocked, NotTooStale, Fresh

\* A request that takes a list which is true of its user keeps AdminInv.
LEMMA LearnsList ==
    ASSUME AdminInv, NEW r \in Requests, UNCHANGED quietVars, Moved(r, "access"), Keeps(r),
           req[r].at \in WithSession,
           req'[r].reply \in Replies, req'[r].reply.kind = "guilds",
           \A g \in Guilds : req'[r].reply.guilds[g] = "manager" =>
               ManagedRecently(req[r].user, g, req[r].asked)
    PROVE  AdminInv'
<1>1. req[r].at # "idle" /\ req[r].at \notin Settled
      /\ "access" \notin Unspent \cup SigningIn \cup Authorized
  BY DEF WithSession, Settled, Unspent, SigningIn, Authorized
<1>2. Shape' /\ StatesAreSpentOnce' /\ TokensAreOwned' /\ LeadersCall' /\ ListsWereTrue'
  BY <1>1, GoesOn DEF quietVars
<1>3. AuditIsTrue'
  BY <1>1, QuietStep DEF quietVars, Settled
<1>4. RepliesWereTrue'
  <2>1. \A u, g, t : Managed(u, g, t)' <=> Managed(u, g, t)
    BY DEF Managed, quietVars
  <2>2. \A u, g, t : ManagedRecently(u, g, t)' <=> ManagedRecently(u, g, t)
    BY DEF ManagedRecently, quietVars
  <2> QED BY <1>1, <2>1, <2>2 DEF AdminInv, RepliesWereTrue, IsList, Moved, Keeps, quietVars
<1> QED BY <1>2, <1>3, <1>4 DEF AdminInv

\* A list of guilds is a reply.
LEMMA ReplyIsList ==
    ASSUME NEW guilds \in [Guilds -> Standings]
    PROVE  /\ Reply(guilds) \in Replies
           /\ Reply(guilds).kind = "guilds" /\ Reply(guilds).guilds = guilds
BY DEF Reply, Replies

\* A list from the cache was true when it was fetched, which is not long ago.
LEMMA ListServed ==
    ASSUME AdminInv, NEW r \in Requests, ServeCached(r) \/ (Fallback(r) /\ NotTooStale(r))
    PROVE  AdminInv'
<1>1. UNCHANGED quietVars
  BY OnlyRequestIsQuiet DEF ServeCached, Fallback
<1>2. req[r].at \in WithSession
  BY DEF ServeCached, Fallback, WithSession
<1>3. req[r].asked <= Entry(r).fetchedAt + StaleWhileRateLimited
  BY ServedIsRecent DEF NotTooStale
<1>4. Entry(r).guilds \in [Guilds -> Standings]
  BY <1>2, EntryShape
<1>5. \A g \in Guilds : Entry(r).guilds[g] = "manager" =>
          ManagedRecently(req[r].user, g, req[r].asked)
  BY <1>2, <1>3, RecentList
<1> DEFINE rec == [req[r] EXCEPT !.at = "access", !.reply = Reply(Entry(r).guilds)]
<1>6. DOMAIN req = Requests /\ DOMAIN req[r] = Fields
  BY DEF AdminInv, Shape, RequestShape
<1>7. req' = [req EXCEPT ![r] = rec]
  BY <1>6 DEF ServeCached, Fallback
<1>8. Moved(r, "access") /\ Keeps(r) /\ req'[r].reply = Reply(Entry(r).guilds)
  BY <1>6, <1>7 DEF Moved, Keeps, Fields
<1> HIDE DEF rec
<1>9. /\ req'[r].reply \in Replies /\ req'[r].reply.kind = "guilds"
      /\ req'[r].reply.guilds = Entry(r).guilds
  BY <1>4, <1>8, ReplyIsList
<1> QED BY <1>1, <1>2, <1>5, <1>8, <1>9, LearnsList

\* When Discord limits the rate, an old list within its bound serves, or none.
LEMMA FellBack ==
    ASSUME AdminInv, NEW r \in Requests, Fallback(r)
    PROVE  AdminInv'
<1>1. CASE NotTooStale(r)
  BY <1>1, ListServed
<1>2. CASE ~NotTooStale(r)
  <2>1. UNCHANGED quietVars
    BY OnlyRequestIsQuiet DEF Fallback
  <2>2. Refuse(r) /\ req[r].at # "idle"
    BY <1>2 DEF Fallback
  <2> QED BY <2>1, <2>2, QuietAnswer
<1> QED BY <1>1, <1>2

\* A joined request takes its leader's reply, which is of its own user.
LEMMA Woke ==
    ASSUME AdminInv, NEW r \in Requests, Wake(r)
    PROVE  AdminInv'
<1>1. UNCHANGED quietVars
  BY OnlyRequestIsQuiet DEF Wake
<1>2. CASE req[r].reply.kind = "guilds"
  <2>1. Goto(r, "access") /\ req[r].at = "woken"
    BY <1>2 DEF Wake
  <2>2. Moved(r, "access") /\ Keeps(r) /\ req'[r].reply = req[r].reply
    BY <2>1, GotoMoves DEF AdminInv
  <2>3. /\ req[r].reply \in Replies
        /\ \A g \in Guilds : req[r].reply.guilds[g] = "manager" =>
              ManagedRecently(req[r].user, g, req[r].asked)
    BY <1>2, <2>1 DEF AdminInv, RepliesWereTrue, IsList
  <2>4. req[r].at \in WithSession
    BY <2>1 DEF WithSession
  <2> QED BY <1>1, <1>2, <2>2, <2>3, <2>4, LearnsList
<1>3. CASE req[r].reply.kind # "guilds"
  <2>1. Refuse(r) /\ req[r].at # "idle"
    BY <1>3 DEF Wake
  <2> QED BY <1>1, <2>1, QuietAnswer
<1> QED BY <1>2, <1>3

\* The request goes on to an action of its route, from the list it learned.
LEMMA Accessed ==
    ASSUME AdminInv, NEW r \in Requests, Access(r)
    PROVE  AdminInv'
<1>1. UNCHANGED quietVars
  BY OnlyRequestIsQuiet DEF Access
<1>2. req[r].at = "access" /\ req[r].at \notin Settled /\ req[r].at # "idle"
  BY DEF Access, Settled
<1>3. CASE Done(r) \/ Refuse(r)
  BY <1>1, <1>2, <1>3, QuietAnswer
<1>4. CASE ~On(r, {"guilds"}) /\ req[r].reply.guilds[cast.guild] = "manager"
  <2>1. PICK place \in {"put config", "load config", "list", "manage"} :
            req' = [req EXCEPT ![r].reply = None, ![r].at = place]
    BY <1>4 DEF Access
  <2> DEFINE rec == [req[r] EXCEPT !.reply = None, !.at = place]
  <2>2. DOMAIN req = Requests /\ DOMAIN req[r] = Fields
    BY DEF AdminInv, Shape, RequestShape
  <2>3. req' = [req EXCEPT ![r] = rec]
    BY <2>1, <2>2
  <2>4. Moved(r, place) /\ Keeps(r) /\ req'[r].reply = None
    BY <2>2, <2>3 DEF Moved, Keeps, Fields
  <2> HIDE DEF rec
  <2>5. place \notin Unspent \cup SigningIn \cup WithSession
        /\ place \notin {"fetch", "publish", "access", "woken", "audit timeout"}
    BY DEF Unspent, SigningIn, WithSession
  <2>6. Shape' /\ StatesAreSpentOnce' /\ TokensAreOwned' /\ LeadersCall' /\ ListsWereTrue'
    BY <1>1, <1>2, <2>4, <2>5, GoesOn DEF quietVars
  <2>7. AuditIsTrue'
    BY <1>1, <1>2, <2>4, <2>5, QuietStep DEF quietVars, Settled
  <2>8. cast.guild \in Guilds
    BY CastsAreWellFormed DEF AdminInv, Shape
  <2>9. ManagedRecently(req[r].user, cast.guild, req[r].asked)
    BY <1>2, <1>4, <2>8 DEF AdminInv, RepliesWereTrue, IsList
  <2>10. RepliesWereTrue'
    <3>1. \A u, g, t : Managed(u, g, t)' <=> Managed(u, g, t)
      BY <1>1 DEF Managed, quietVars
    <3>2. \A u, g, t : ManagedRecently(u, g, t)' <=> ManagedRecently(u, g, t)
      BY <1>1 DEF ManagedRecently, quietVars
    <3>3. /\ cast' = cast /\ req'[r].at = place
          /\ req'[r].user = req[r].user /\ req'[r].asked = req[r].asked
          /\ \A q \in Requests \ {r} : req'[q] = req[q]
      BY <1>1, <2>4 DEF Moved, Keeps, quietVars
    <3>4. RepliesWereTrue
      BY DEF AdminInv
    <3> QED BY <2>5, <2>9, <3>1, <3>2, <3>3, <3>4 DEF RepliesWereTrue, IsList
  <2> QED BY <2>6, <2>7, <2>10 DEF AdminInv
<1> QED BY <1>3, <1>4 DEF Access

\* Discord answers the leader: the list is true now.
LEMMA Fetched ==
    ASSUME AdminInv, NEW r \in Requests, FetchGuilds(r)
    PROVE  AdminInv'
<1>1. UNCHANGED quietVars
  BY OnlyRequestIsQuiet DEF FetchGuilds
<1>2. /\ req[r].at = "fetch" /\ req[r].at \notin Settled
      /\ req[r].at # "idle" /\ req[r].at \in WithSession
  BY DEF FetchGuilds, Settled, WithSession
<1>3. req[r].user \in Users /\ standing[req[r].user] \in [Guilds -> Standings]
  BY <1>2, EntryShape DEF AdminInv, Shape
<1>4. PICK reply \in {Reply(standing[req[r].user])}
                         \cup [kind : {"limited"}, after : RetryAfters]
                         \cup [kind : {"failed"}] :
          req' = [req EXCEPT ![r].at = "publish", ![r].reply = reply]
  BY DEF FetchGuilds
<1>5. reply \in Replies
  BY <1>3, ReplyIsList DEF Replies
<1>6. IsList(reply) => reply.guilds = standing[req[r].user]
  BY <1>3, ReplyIsList DEF IsList
<1> DEFINE rec == [req[r] EXCEPT !.at = "publish", !.reply = reply]
<1>7. DOMAIN req = Requests /\ DOMAIN req[r] = Fields
  BY DEF AdminInv, Shape, RequestShape
<1>8. req' = [req EXCEPT ![r] = rec]
  BY <1>4, <1>7
<1>9. Moved(r, "publish") /\ Keeps(r) /\ req'[r].reply = reply
  BY <1>7, <1>8 DEF Moved, Keeps, Fields
<1> HIDE DEF rec
<1>10. "publish" \notin Unspent \cup SigningIn \cup Authorized
  BY DEF Unspent, SigningIn, Authorized
<1>11. Shape' /\ StatesAreSpentOnce' /\ TokensAreOwned' /\ LeadersCall' /\ ListsWereTrue'
  BY <1>1, <1>2, <1>5, <1>9, <1>10, GoesOn DEF quietVars
<1>12. AuditIsTrue'
  BY <1>1, <1>2, <1>9, QuietStep DEF quietVars, Settled
<1>13. RepliesWereTrue'
  <2>1. \A u, g, t : Managed(u, g, t)' <=> Managed(u, g, t)
    BY <1>1 DEF Managed, quietVars
  <2>2. \A u, g, t : ManagedRecently(u, g, t)' <=> ManagedRecently(u, g, t)
    BY <1>1 DEF ManagedRecently, quietVars
  <2>3. IsList(req'[r].reply) => \A g \in Guilds :
            req'[r].reply.guilds[g] = "manager" => Managed(req[r].user, g, req[r].began)
    BY <1>6, <1>9 DEF Managed
  <2>4. req'[r].at = "publish" /\ req'[r].reply \in Replies
        /\ req'[r].user = req[r].user /\ req'[r].began = req[r].began
    BY <1>5, <1>9 DEF Moved, Keeps
  <2>5. \A q \in Requests \ {r} : req'[q] = req[q]
    BY <1>9 DEF Moved
  <2> HIDE DEF IsList
  <2> QED BY <1>1, <1>10, <2>1, <2>2, <2>3, <2>4, <2>5 DEF AdminInv, RepliesWereTrue, quietVars
<1> QED BY <1>11, <1>12, <1>13 DEF AdminInv

\* A request looks at the cache, or leads a call.
LEMMA Looks ==
    ASSUME AdminInv, NEW r \in Requests, NEW place \in {"look", "fetch"},
           Moved(r, place), req[r].at \in {"ask", "look"},
           req'[r].query = req[r].query, req'[r].cookies = req[r].cookies,
           req'[r].session = req[r].session, req'[r].reply = req[r].reply,
           req'[r].asked \in {req[r].asked, now}, req'[r].began \in {req[r].began, now},
           UNCHANGED <<cast, now, standing, lostAt, jar, secret, stateStore, cache,
                       opened, warnings, audit, timedOut>>,
           inflight' \in [Logins -> Requests \cup {None}], LeadersCall'
    PROVE  AdminInv'
<1>1. Shape /\ StatesAreSpentOnce /\ TokensAreOwned /\ ListsWereTrue /\ RepliesWereTrue
      /\ AuditIsTrue
  BY DEF AdminInv
<1>2. Shape'
  <2>1. RequestShape(r)'
    BY <1>1 DEF Shape, RequestShape, Moved
  <2>2. \A q \in Requests \ {r} : RequestShape(q)'
    BY <1>1 DEF Shape, RequestShape, Moved
  <2>3. \A q \in Requests : RequestShape(q)'
    BY <2>1, <2>2
  <2> QED BY <1>1, <2>3 DEF Shape, Moved
<1>3. StatesAreSpentOnce'
  <2>1. \A q \in Requests :
            /\ req'[q].at \in SigningIn =>
                  req[q].at \in SigningIn /\ req'[q].query = req[q].query
            /\ req[q].at \notin Unspent => req'[q].at \notin Unspent
    BY DEF Moved, SigningIn, Unspent
  <2> QED BY <1>1, <2>1, SpentKept
<1>4. TokensAreOwned'
  <2>1. \A q \in Requests :
            /\ req[q].at # "idle" => req'[q].at # "idle"
            /\ req'[q].user = req[q].user
            /\ req'[q].cookies.session \in {req[q].cookies.session, None}
            /\ req'[q].session \in {req[q].session, None}
            /\ req'[q].at \in WithSession =>
                  req[q].at \in WithSession /\ req'[q].session = req[q].session
    BY DEF Moved, WithSession
  <2> QED BY <1>1, <2>1, TokensKept
<1>5. ListsWereTrue'
  <2>1. \A q \in Requests :
            /\ req'[q].at = "idle" <=> req[q].at = "idle"
            /\ req'[q].user = req[q].user
            /\ req'[q].asked \in {req[q].asked, 0, now}
    BY DEF Moved
  <2> QED BY <1>1, <2>1, ListsKept
<1>6. RepliesWereTrue'
  <2>1. \A q \in Requests :
            \/ req'[q] = req[q]
            \/ req'[q].at \notin {"publish", "woken", "access"} \cup Authorized
    BY DEF Moved, Authorized
  <2> QED BY <1>1, <2>1, RepliesKept
<1>7. AuditIsTrue'
  BY QuietStep
<1> QED BY <1>2, <1>3, <1>4, <1>5, <1>6, <1>7 DEF AdminInv

\* Discord's answer is true at the moment of the call.
LEMMA Asked ==
    ASSUME AdminInv, NEW r \in Requests, Ask(r)
    PROVE  AdminInv'
<1>1. UNCHANGED quietVars
  BY OnlyRequestIsQuiet DEF Ask
<1> DEFINE rec == [req[r] EXCEPT !.at = "look", !.asked = now]
<1>2. DOMAIN req = Requests /\ DOMAIN req[r] = Fields
  BY DEF AdminInv, Shape, RequestShape
<1>3. req' = [req EXCEPT ![r] = rec]
  BY <1>2 DEF Ask
<1>4. /\ Moved(r, "look") /\ req'[r].query = req[r].query
      /\ req'[r].cookies = req[r].cookies /\ req'[r].session = req[r].session
      /\ req'[r].reply = req[r].reply /\ req'[r].asked = now
      /\ req'[r].began = req[r].began
  BY <1>2, <1>3 DEF Moved, Fields
<1> HIDE DEF rec
<1>5. LeadersCall'
  <2>1. \A q \in Requests : req'[q].at \in {"fetch", "publish"} => req'[q] = req[q]
    BY <1>4 DEF Moved
  <2> QED BY <1>1, <2>1, CallsKept DEF AdminInv, quietVars
<1>6. inflight' \in [Logins -> Requests \cup {None}]
  BY <1>1 DEF AdminInv, Shape, quietVars
<1>7. req[r].at = "ask"
  BY DEF Ask
<1> QED BY <1>1, <1>4, <1>5, <1>6, <1>7, Looks DEF quietVars

\* A request that finds neither a list nor a call becomes the only leader of its token.
LEMMA Led ==
    ASSUME AdminInv, NEW r \in Requests, Lead(r)
    PROVE  AdminInv'
<1>1. UNCHANGED <<cast, now, standing, lostAt, jar, secret, stateStore, cache,
                  opened, warnings, audit, timedOut>>
  BY DEF Lead, discordVars, storeVars, pastVars
<1>2. req[r].at = "look" /\ req[r].at \in WithSession
  BY DEF Lead, WithSession
<1>3. /\ req[r].session \in Logins /\ req[r].asked \in Nat /\ Entry(r).blockedUntil \in Nat
      /\ now \in Nat
  BY <1>2, EntryShape DEF AdminInv, Shape
<1> DEFINE rec == [req[r] EXCEPT !.at = "fetch", !.began = now]
<1>4. DOMAIN req = Requests /\ DOMAIN req[r] = Fields
  BY DEF AdminInv, Shape, RequestShape
<1>5. req' = [req EXCEPT ![r] = rec]
  BY <1>4 DEF Lead
<1>6. /\ Moved(r, "fetch") /\ req'[r].query = req[r].query
      /\ req'[r].cookies = req[r].cookies /\ req'[r].session = req[r].session
      /\ req'[r].reply = req[r].reply /\ req'[r].asked = req[r].asked
      /\ req'[r].began = now
  BY <1>4, <1>5 DEF Moved, Fields
<1> HIDE DEF rec
<1>7. inflight' \in [Logins -> Requests \cup {None}]
  BY DEF Lead, AdminInv, Shape
<1>8. inflight'[req[r].session] = r
      /\ \A t \in Logins \ {req[r].session} : inflight'[t] = inflight[t]
  BY <1>3 DEF Lead, AdminInv, Shape
<1>9. LeadersCall'
  <2>1. ASSUME NEW q \in Requests \ {r}, req[q].at \in {"fetch", "publish"}
        PROVE  inflight'[req[q].session] = q
    <3>1. req[q].session \in Logins
      BY <2>1, EntryShape DEF WithSession
    <3>2. inflight[req[q].session] = q
      BY <2>1 DEF AdminInv, LeadersCall
    <3>3. inflight[req[r].session] = None /\ q # None
      BY ConstantsAreDistinct DEF Lead, Logins
    <3> QED BY <1>8, <3>1, <3>2, <3>3
  <2>2. /\ cache[req[r].session].blockedUntil <= req[r].asked
        /\ req[r].asked <= now
    BY <1>3 DEF Lead, Blocked, Entry, AdminInv, ListsWereTrue
  <2>3. now <= now + 1 /\ now <= now
    BY <1>3
  <2>4. \A q \in Requests \ {r} : req'[q] = req[q]
    BY <1>6 DEF Moved
  <2> QED BY <1>1, <1>6, <1>8, <2>1, <2>2, <2>3, <2>4 DEF AdminInv, LeadersCall
<1> QED BY <1>1, <1>2, <1>6, <1>7, <1>9, Looks

-----------------------------------------------------------------------------
(* The leader publishes what Discord said. *)

\* A published entry is an entry.
LEMMA UpdatedShape ==
    ASSUME NEW entry \in Entries, NEW reply \in Replies, NEW asked \in Nat
    PROVE  Updated(entry, reply, asked) \in Entries
<1>1. CacheTTL \in Nat /\ RetryAfters \subseteq Nat
  BY TimesAreNatural
<1>2. CASE reply.kind = "guilds"
  <2>1. reply.guilds \in [Guilds -> Standings]
    BY <1>2 DEF Replies
  <2> QED BY <1>1, <1>2, <2>1 DEF Updated, Entries
<1>3. CASE reply.kind = "limited"
  <2>1. reply.after \in Nat
    BY <1>1, <1>3 DEF Replies
  <2> DEFINE expires == IF Nonempty(entry.guilds) /\ entry.expiresAt < asked + reply.after
                        THEN asked + reply.after ELSE entry.expiresAt
             rec == [entry EXCEPT !.blockedUntil = asked + reply.after,
                                  !.expiresAt = expires]
  <2>2. expires \in Nat /\ asked + reply.after \in Nat
    BY <2>1 DEF Entries
  <2> HIDE DEF expires
  <2>3. rec \in Entries
    BY <2>2 DEF Entries
  <2>4. Updated(entry, reply, asked) = rec
    BY <1>3 DEF Updated, Entries, expires
  <2> QED BY <2>3, <2>4
<1>4. CASE reply.kind \notin {"guilds", "limited"}
  BY <1>4 DEF Updated
<1> QED BY <1>2, <1>3, <1>4

\* Its times and its list: fetched when the leader asked, or as they were.
LEMMA UpdatedEntry ==
    ASSUME NEW entry \in Entries, NEW reply \in Replies, NEW asked \in Nat,
           entry.blockedUntil <= asked,
           \/ entry.expiresAt <= entry.fetchedAt + CacheTTL
           \/ entry.expiresAt <= entry.blockedUntil
    PROVE  LET new == Updated(entry, reply, asked)
           IN /\ \/ reply.kind = "guilds" /\ new.fetchedAt = asked
                    /\ new.guilds = reply.guilds
                 \/ new.fetchedAt = entry.fetchedAt /\ new.guilds = entry.guilds
              /\ \/ new.expiresAt <= new.fetchedAt + CacheTTL
                 \/ new.expiresAt <= new.blockedUntil
<1>1. CacheTTL \in Nat /\ RetryAfters \subseteq Nat
  BY TimesAreNatural
<1>2. CASE reply.kind = "guilds"
  BY <1>1, <1>2 DEF Updated
<1>3. CASE reply.kind = "limited"
  <2>1. reply.after \in Nat
    BY <1>1, <1>3 DEF Replies
  <2> DEFINE expires == IF Nonempty(entry.guilds) /\ entry.expiresAt < asked + reply.after
                        THEN asked + reply.after ELSE entry.expiresAt
             rec == [entry EXCEPT !.blockedUntil = asked + reply.after,
                                  !.expiresAt = expires]
  <2>2. entry.expiresAt \in Nat /\ entry.fetchedAt \in Nat /\ entry.blockedUntil \in Nat
    BY DEF Entries
  <2>3. Updated(entry, reply, asked) = rec
    BY <1>3 DEF Updated, Entries
  <2>4. /\ rec.fetchedAt = entry.fetchedAt /\ rec.guilds = entry.guilds
        /\ rec.blockedUntil = asked + reply.after /\ rec.expiresAt = expires
    BY DEF Entries
  <2>5. \/ expires <= entry.fetchedAt + CacheTTL
        \/ expires <= asked + reply.after
    BY <1>1, <2>1, <2>2
  <2> HIDE DEF rec, expires
  <2> QED BY <2>3, <2>4, <2>5
<1>4. CASE reply.kind \notin {"guilds", "limited"}
  BY <1>4 DEF Updated
<1> QED BY <1>2, <1>3, <1>4

\* Where the leader and those who wait are afterwards.
LEMMA PublishMoves ==
    ASSUME AdminInv, NEW r \in Requests, Publish(r)
    PROVE  /\ DOMAIN req' = Requests
           /\ DOMAIN req'[r] = Fields /\ req'[r].user = req[r].user
           /\ \/ /\ req[r].reply.kind = "guilds" /\ req'[r].at = "access"
                 /\ Keeps(r) /\ req'[r].reply = req[r].reply
              \/ req'[r].at = "fallback" /\ Keeps(r) /\ req'[r].reply = None
              \/ req'[r].at = "refused" /\ Clears(r)
           /\ \A q \in Requests \ {r} :
                 \/ req'[q] = req[q]
                 \/ /\ req[q].at = "wait" /\ req[q].session = req[r].session
                    /\ DOMAIN req'[q] = Fields /\ req'[q].user = req[q].user
                    /\ req'[q].at = "woken" /\ Keeps(q)
                    /\ req'[q].reply = req[r].reply
<1>1. DOMAIN req = Requests /\ \A q \in Requests : DOMAIN req[q] = Fields
  BY DEF AdminInv, Shape, RequestShape
<1> DEFINE t == req[r].session
           waiting == {f \in Requests : At(f, "wait") /\ req[f].session = t}
           mine == CASE req[r].reply.kind = "guilds" -> [req[r] EXCEPT !.at = "access"]
                     [] req[r].reply.kind = "limited" ->
                           [req[r] EXCEPT !.at = "fallback", !.reply = None]
                     [] OTHER -> Answer(r, "refused")
<1>2. req' = [f \in Requests |->
                 CASE f = r -> mine
                   [] f \in waiting ->
                        [req[f] EXCEPT !.at = "woken", !.reply = req[r].reply]
                   [] OTHER -> req[f]]
      /\ r \notin waiting
  BY DEF Publish
<1>3. DOMAIN req' = Requests /\ req'[r] = mine
  BY <1>2
<1>4. DOMAIN mine = Fields /\ mine.user = req[r].user
      /\ \/ /\ req[r].reply.kind = "guilds" /\ mine = [req[r] EXCEPT !.at = "access"]
         \/ mine = [req[r] EXCEPT !.at = "fallback", !.reply = None]
         \/ mine = Answer(r, "refused")
  BY <1>1 DEF Answer, NoRequest, Fields
<1>5. \A q \in Requests \ {r} :
         \/ req'[q] = req[q]
         \/ q \in waiting /\ req'[q] = [req[q] EXCEPT !.at = "woken", !.reply = req[r].reply]
  BY <1>2
<1> HIDE DEF mine
<1>6. \/ /\ req[r].reply.kind = "guilds" /\ req'[r].at = "access"
         /\ Keeps(r) /\ req'[r].reply = req[r].reply
      \/ req'[r].at = "fallback" /\ Keeps(r) /\ req'[r].reply = None
      \/ req'[r].at = "refused" /\ Clears(r)
  <2>1. CASE req[r].reply.kind = "guilds" /\ mine = [req[r] EXCEPT !.at = "access"]
    BY <1>1, <1>3, <2>1 DEF Keeps, Fields
  <2>2. CASE mine = [req[r] EXCEPT !.at = "fallback", !.reply = None]
    BY <1>1, <1>3, <2>2 DEF Keeps, Fields
  <2>3. CASE mine = Answer(r, "refused")
    BY <1>3, <2>3 DEF Answer, NoRequest, Clears
  <2> QED BY <1>4, <2>1, <2>2, <2>3
<1>7. \A q \in Requests \ {r} :
         \/ req'[q] = req[q]
         \/ /\ req[q].at = "wait" /\ req[q].session = req[r].session
            /\ DOMAIN req'[q] = Fields /\ req'[q].user = req[q].user
            /\ req'[q].at = "woken" /\ Keeps(q)
            /\ req'[q].reply = req[r].reply
  <2>1. ASSUME NEW q \in Requests \ {r}, q \in waiting,
               req'[q] = [req[q] EXCEPT !.at = "woken", !.reply = req[r].reply]
        PROVE  /\ req[q].at = "wait" /\ req[q].session = req[r].session
               /\ DOMAIN req'[q] = Fields /\ req'[q].user = req[q].user
               /\ req'[q].at = "woken" /\ Keeps(q)
               /\ req'[q].reply = req[r].reply
    <3>1. DOMAIN req[q] = Fields
      BY <1>1
    <3> QED BY <2>1, <3>1 DEF Keeps, Fields
  <2> HIDE DEF waiting
  <2> QED BY <1>5, <2>1
<1> QED BY <1>3, <1>4, <1>6, <1>7

\* Publishing puts the leader's reply in the cache, wakes who joined, and ends the call.
LEMMA Published ==
    ASSUME AdminInv, NEW r \in Requests, Publish(r)
    PROVE  AdminInv'
<1> DEFINE t == req[r].session
           reply == req[r].reply
<1>1. /\ UNCHANGED <<cast, now, standing, lostAt, jar, secret, stateStore, opened>>
      /\ UNCHANGED <<warnings, audit, timedOut>>
      /\ req[r].at = "publish"
      /\ inflight' = [inflight EXCEPT ![t] = None]
      /\ cache' = [cache EXCEPT ![t] = Updated(cache[t], reply, req[r].asked)]
  BY DEF Publish, discordVars, storeVars, pastVars
<1>2. Shape /\ StatesAreSpentOnce /\ TokensAreOwned /\ LeadersCall /\ ListsWereTrue
      /\ RepliesWereTrue /\ AuditIsTrue
  BY DEF AdminInv
<1>3. req[r].at \in WithSession
  BY <1>1 DEF WithSession
<1>4. /\ t \in Logins /\ Owned(t, req[r].user) /\ req[r].user \in Users
      /\ req[r].asked \in Nat /\ cache[t] \in Entries
      /\ cache[t].blockedUntil <= req[r].asked
      /\ \/ cache[t].expiresAt <= cache[t].fetchedAt + CacheTTL
         \/ cache[t].expiresAt <= cache[t].blockedUntil
  BY <1>1, <1>2, <1>3, EntryShape DEF LeadersCall, ListsWereTrue, Entry
<1>5. /\ reply \in Replies
      /\ reply.kind = "guilds" => \A g \in Guilds : reply.guilds[g] = "manager" =>
            Managed(req[r].user, g, req[r].began)
  BY <1>1, <1>2 DEF RepliesWereTrue, IsList
<1>6. /\ req[r].asked <= req[r].began /\ req[r].began \in Nat /\ now \in Nat
      /\ req[r].began <= now /\ now <= req[r].began + 1 /\ inflight[t] = r
  BY <1>1, <1>2 DEF LeadersCall, Shape, RequestShape
<1>7. /\ DOMAIN req' = Requests
      /\ DOMAIN req'[r] = Fields /\ req'[r].user = req[r].user
      /\ \/ /\ reply.kind = "guilds" /\ req'[r].at = "access"
            /\ Keeps(r) /\ req'[r].reply = reply
         \/ req'[r].at = "fallback" /\ Keeps(r) /\ req'[r].reply = None
         \/ req'[r].at = "refused" /\ Clears(r)
      /\ \A q \in Requests \ {r} :
            \/ req'[q] = req[q]
            \/ /\ req[q].at = "wait" /\ req[q].session = t
               /\ DOMAIN req'[q] = Fields /\ req'[q].user = req[q].user
               /\ req'[q].at = "woken" /\ Keeps(q)
               /\ req'[q].reply = reply
  BY PublishMoves
<1>8. cache'[t] = Updated(cache[t], reply, req[r].asked)
      /\ \A s \in Logins \ {t} : cache'[s] = cache[s] /\ inflight'[s] = inflight[s]
  BY <1>1, <1>2, <1>4 DEF Shape
<1> HIDE DEF t, reply
<1>9. Shape'
  <2>1. cache' \in [Logins -> Entries] /\ inflight' \in [Logins -> Requests \cup {None}]
    <3>1. Updated(cache[t], reply, req[r].asked) \in Entries
      BY <1>4, <1>5, UpdatedShape
    <3> QED BY <1>1, <1>2, <3>1 DEF Shape
  <2>2. ASSUME NEW q \in Requests PROVE RequestShape(q)'
    <3>1. RequestShape(q)
      BY <1>2 DEF Shape
    <3>2. CASE req'[q] = req[q]
      BY <3>1, <3>2 DEF RequestShape
    <3>3. CASE /\ DOMAIN req'[q] = Fields /\ req'[q].user = req[q].user
               /\ req[q].at # "idle" /\ (Keeps(q) \/ Clears(q))
               /\ req'[q].reply \in Replies \cup {None}
      BY <3>1, <3>3, CookiesOfNone DEF RequestShape, Keeps, Clears
    <3>4. CASE q = r
      <4>1. req'[r].reply \in Replies \cup {None}
        BY <1>5, <1>7 DEF Clears
      <4> QED BY <1>1, <1>7, <3>3, <3>4, <4>1
    <3> QED BY <1>5, <1>7, <3>2, <3>3, <3>4
  <2>3. /\ cast' = cast /\ now' = now /\ secret' = secret /\ standing' = standing
        /\ lostAt' = lostAt /\ jar' = jar /\ stateStore' = stateStore
    BY <1>1
  <2> QED BY <1>2, <1>7, <2>1, <2>2, <2>3 DEF Shape
<1>10. StatesAreSpentOnce'
  <2>1. \A q \in Requests :
            /\ req'[q].at \in SigningIn =>
                  req[q].at \in SigningIn /\ req'[q].query = req[q].query
            /\ req[q].at \notin Unspent => req'[q].at \notin Unspent
    BY <1>7 DEF SigningIn, Unspent
  <2>2. UNCHANGED opened /\ stateStore' \subseteq stateStore
    BY <1>1
  <2> QED BY <1>2, <2>1, <2>2, SpentKept
<1>11. TokensAreOwned'
  <2>1. Clears(r) => req'[r].cookies.session = None /\ req'[r].session = None
    BY CookiesOfNone DEF Clears
  <2>2. \A q \in Requests :
            /\ req[q].at # "idle" => req'[q].at # "idle"
            /\ req'[q].user = req[q].user
            /\ req'[q].cookies.session \in {req[q].cookies.session, None}
            /\ req'[q].session \in {req[q].session, None}
            /\ req'[q].at \in WithSession =>
                  req[q].at \in WithSession /\ req'[q].session = req[q].session
    BY <1>1, <1>7, <2>1 DEF Keeps, WithSession
  <2>3. cast' = cast /\ jar' = jar
    BY <1>1
  <2> QED BY <1>2, <2>2, <2>3, TokensKept
<1>12. LeadersCall'
  <2>1. ASSUME NEW q \in Requests, req'[q].at \in {"fetch", "publish"}
        PROVE  /\ inflight'[req'[q].session] = q
               /\ cache'[req'[q].session].blockedUntil <= req'[q].asked
               /\ req'[q].asked <= req'[q].began
               /\ req'[q].began <= now' /\ now' <= req'[q].began + 1
    <3>1. q # r /\ req'[q] = req[q]
      BY <1>7, <2>1
    <3>2. req[q].session \in Logins
      BY <2>1, <3>1, EntryShape DEF WithSession
    <3>3. inflight[req[q].session] = q
      BY <1>2, <2>1, <3>1 DEF LeadersCall
    <3>4. req[q].session # t
      BY <1>6, <3>1, <3>3
    <3> QED BY <1>1, <1>2, <1>8, <2>1, <3>1, <3>2, <3>4 DEF LeadersCall
  <2> QED BY <2>1 DEF LeadersCall
<1>13. ListsWereTrue'
  <2>1. \A s, u : Owned(s, u)' => Owned(s, u)
    BY <1>1, <1>7 DEF Owned
  <2>2. \A u, g, s : Managed(u, g, s)' <=> Managed(u, g, s)
    BY <1>1 DEF Managed
  <2>3. ASSUME NEW s \in Logins
        PROVE  /\ cache'[s].fetchedAt <= now
               /\ \/ cache'[s].expiresAt <= cache'[s].fetchedAt + CacheTTL
                  \/ cache'[s].expiresAt <= cache'[s].blockedUntil
               /\ s \in Requests /\ req'[s].at = "idle" =>
                     \A g \in Guilds : cache'[s].guilds[g] # "manager"
               /\ \A u \in Users, g \in Guilds :
                     Owned(s, u) /\ cache'[s].guilds[g] = "manager" =>
                         Managed(u, g, cache'[s].fetchedAt)
    <3>1. CASE s # t
      <4>1. cache'[s] = cache[s]
        BY <1>8, <3>1
      <4>2. s \in Requests /\ req'[s].at = "idle" => req[s].at = "idle"
        BY <1>7
      <4> QED BY <1>2, <4>1, <4>2 DEF ListsWereTrue
    <3>2. CASE s = t
      <4> DEFINE new == Updated(cache[t], reply, req[r].asked)
      <4>1. /\ \/ reply.kind = "guilds" /\ new.fetchedAt = req[r].asked
                  /\ new.guilds = reply.guilds
               \/ new.fetchedAt = cache[t].fetchedAt /\ new.guilds = cache[t].guilds
            /\ \/ new.expiresAt <= new.fetchedAt + CacheTTL
               \/ new.expiresAt <= new.blockedUntil
        BY <1>4, <1>5, UpdatedEntry
      <4> HIDE DEF new
      <4>2. cache'[s] = new
        BY <1>8, <3>2 DEF new
      <4>3. /\ cache[t].fetchedAt <= now
            /\ \A u \in Users, g \in Guilds :
                  Owned(t, u) /\ cache[t].guilds[g] = "manager" =>
                      Managed(u, g, cache[t].fetchedAt)
        BY <1>2, <1>4 DEF ListsWereTrue
      <4>4. s \in Requests => req'[s].at # "idle" /\ req[s].user = req[r].user
        BY <1>4, <1>7, <3>2 DEF Owned
      <4>5. \A u : Owned(t, u) => u = req[r].user
        BY <1>4, ConstantsAreDistinct DEF Owned, Logins
      <4>6. ASSUME NEW g \in Guilds, reply.kind = "guilds", reply.guilds[g] = "manager"
            PROVE  Managed(req[r].user, g, req[r].asked)
        <5>1. lostAt[req[r].user][g] \in Nat \cup {None}
          BY <1>2, <1>4 DEF Shape
        <5> QED BY <1>4, <1>5, <1>6, <4>6, <5>1 DEF Managed
      <4>7. req[r].asked <= now
        BY <1>2 DEF ListsWereTrue
      <4> QED BY <3>2, <4>1, <4>2, <4>3, <4>4, <4>5, <4>6, <4>7
    <3> QED BY <3>1, <3>2
  <2>4. \A q \in Requests : req'[q].asked <= now
    <3>1. req'[r].asked \in {req[r].asked, 0}
      BY <1>7 DEF Keeps, Clears
    <3>2. \A q \in Requests \ {r} : req'[q].asked = req[q].asked
      BY <1>7 DEF Keeps
    <3> QED BY <1>2, <1>6, <3>1, <3>2 DEF ListsWereTrue
  <2> QED BY <1>1, <2>1, <2>2, <2>3, <2>4 DEF ListsWereTrue
<1>14. RepliesWereTrue'
  <2>1. \A u, g, s : Managed(u, g, s)' <=> Managed(u, g, s)
    BY <1>1 DEF Managed
  <2>2. \A u, g, s : ManagedRecently(u, g, s)' <=> ManagedRecently(u, g, s)
    BY <1>1 DEF ManagedRecently
  <2>3. ASSUME NEW q \in Requests, req[q].session = t, req[q].at \in WithSession,
               NEW g \in Guilds, reply.kind = "guilds", reply.guilds[g] = "manager"
        PROVE  ManagedRecently(req[q].user, g, req[q].asked)
    <3>1. req[q].user = req[r].user
      <4>1. Owned(t, req[q].user)
        BY <2>3, EntryShape
      <4> QED BY <1>4, <4>1, ConstantsAreDistinct DEF Owned, Logins
    <3>2. Managed(req[r].user, g, req[r].began)
      BY <1>5, <2>3
    <3>3. lostAt[req[r].user][g] \in Nat \cup {None}
      BY <1>2, <1>4 DEF Shape
    <3>4. req[q].asked \in Nat /\ req[q].asked <= now
      BY <1>2 DEF Shape, RequestShape, ListsWereTrue
    <3>5. StaleWhileRateLimited \in Nat \ {0}
      BY TimesAreNatural
    <3> QED BY <1>6, <3>1, <3>2, <3>3, <3>4, <3>5 DEF Managed, ManagedRecently
  <2>4. {"access", "fallback", "refused", "woken"} \cap Authorized = {}
    BY DEF Authorized
  <2>5. ASSUME NEW q \in Requests, req'[q] # req[q]
        PROVE  /\ req'[q].at \notin {"publish"} \cup Authorized
               /\ req'[q].at \in {"woken", "access"} =>
                     /\ req'[q].reply = reply /\ req'[q].user = req[q].user
                     /\ req'[q].asked = req[q].asked
                     /\ req[q].session = t /\ req[q].at \in WithSession
               /\ req'[q].at = "access" => reply.kind = "guilds"
    BY <1>1, <1>7, <2>4, <2>5 DEF Keeps, WithSession, t
  <2>6. ASSUME NEW q \in Requests
        PROVE  /\ req'[q].at = "publish" => req'[q].reply \in Replies
               /\ req'[q].at = "publish" /\ IsList(req'[q].reply) =>
                     \A g \in Guilds : req'[q].reply.guilds[g] = "manager" =>
                         Managed(req'[q].user, g, req'[q].began)
               /\ req'[q].at \in {"woken", "access"} => req'[q].reply \in Replies
               /\ req'[q].at = "access" => IsList(req'[q].reply)
               /\ req'[q].at \in {"woken", "access"} /\ IsList(req'[q].reply) =>
                     \A g \in Guilds : req'[q].reply.guilds[g] = "manager" =>
                         ManagedRecently(req'[q].user, g, req'[q].asked)
               /\ req'[q].at \in Authorized =>
                     ManagedRecently(req'[q].user, cast.guild, req'[q].asked)
    <3>1. CASE req'[q] = req[q]
      BY <1>2, <3>1 DEF RepliesWereTrue
    <3>2. CASE req'[q] # req[q]
      BY <1>5, <2>3, <2>5, <3>2 DEF IsList
    <3> QED BY <3>1, <3>2
  <2> HIDE DEF IsList
  <2> QED BY <1>1, <2>1, <2>2, <2>6 DEF RepliesWereTrue
<1>15. AuditIsTrue'
  <2>1. \A q \in Requests :
            /\ req[q].at \in {"audit", "refused", "lost"} =>
                  req'[q].at \in {"audit", "refused", "lost"}
            /\ req'[q].at = "audit timeout" => req[q].at = "audit timeout"
    BY <1>1, <1>7
  <2> QED BY <1>1, <1>2, <2>1, AuditKept
<1> QED BY <1>9, <1>10, <1>11, <1>12, <1>13, <1>14, <1>15 DEF AdminInv

-----------------------------------------------------------------------------
(* Signing in and out. *)

\* A sign-in that goes on keeps AdminInv if it hands out only tokens of its user.
LEMMA SignInMove ==
    ASSUME AdminInv, NEW r \in Requests, NEW place \in {"exchange", "refused", "done"},
           Moved(r, place), Keeps(r) \/ Clears(r),
           req'[r].reply \in {req[r].reply, None},
           req[r].at \in {"open"} \cup SigningIn,
           UNCHANGED <<cast, now, standing, lostAt, secret, cache, inflight, warnings,
                       audit, timedOut>>,
           stateStore' \subseteq Requests, jar' \in [Users -> Cookies],
           \A u \in Users : jar'[u].session # None => Owned(jar'[u].session.value, u),
           StatesAreSpentOnce'
    PROVE  AdminInv'
<1>1. Shape /\ TokensAreOwned /\ LeadersCall /\ ListsWereTrue /\ RepliesWereTrue
  BY DEF AdminInv
<1>2. /\ req[r].at \notin Settled /\ req[r].at # "idle"
      /\ place \notin WithSession \cup Authorized \cup {"fetch", "publish", "idle"}
  BY DEF SigningIn, Settled, WithSession, Authorized
<1>3. Shape'
  <2>1. req'[r].reply \in Replies \cup {None}
    BY <1>1 DEF Shape, RequestShape
  <2>2. \A q \in Requests : RequestShape(q)'
    BY <1>1, <1>2, <2>1, MovedShape
  <2> QED BY <1>1, <2>2 DEF Shape, Moved
<1>4. TokensAreOwned'
  <2>1. \A t, u : Owned(t, u) => Owned(t, u)'
    BY <1>2 DEF Owned, Moved
  <2>2. Clears(r) => req'[r].cookies.session = None /\ req'[r].session = None
    BY CookiesOfNone DEF Clears
  <2>3. ASSUME NEW q \in Requests
        PROVE  /\ req'[q].cookies.session # None =>
                      Owned(req'[q].cookies.session.value, req'[q].user)
               /\ req'[q].session # None => Owned(req'[q].session, req'[q].user)
               /\ req'[q].at \in WithSession => req'[q].session # None
    <3>1. CASE req'[q] = req[q]
      BY <1>1, <3>1 DEF TokensAreOwned
    <3>2. CASE q = r
      BY <1>1, <1>2, <2>2, <3>2 DEF TokensAreOwned, Moved, Keeps
    <3> QED BY <3>1, <3>2 DEF Moved
  <2> HIDE DEF Owned
  <2> QED BY <2>1, <2>3 DEF TokensAreOwned
<1>5. LeadersCall'
  <2>1. \A q \in Requests : req'[q].at \in {"fetch", "publish"} => req'[q] = req[q]
    BY <1>2 DEF Moved
  <2> QED BY <1>1, <2>1, CallsKept
<1>6. ListsWereTrue'
  <2>1. \A q \in Requests :
            /\ req'[q].at = "idle" <=> req[q].at = "idle"
            /\ req'[q].user = req[q].user
            /\ req'[q].asked \in {req[q].asked, 0, now}
    BY <1>2 DEF Moved, Keeps, Clears
  <2> QED BY <1>1, <2>1, ListsKept
<1>7. RepliesWereTrue'
  <2>1. \A q \in Requests :
            \/ req'[q] = req[q]
            \/ req'[q].at \notin {"publish", "woken", "access"} \cup Authorized
    BY <1>2 DEF Moved, WithSession
  <2> QED BY <1>1, <2>1, RepliesKept
<1>8. AuditIsTrue'
  BY <1>2, QuietStep DEF Settled
<1> QED BY <1>3, <1>4, <1>5, <1>6, <1>7, <1>8 DEF AdminInv

\* The state stays with one callback at most.
LEMMA StateTaken ==
    ASSUME AdminInv, NEW r \in Requests, TakeState(r)
    PROVE  AdminInv'
<1> DEFINE state == Unsign(req[r].cookies.state)
           matches == cast.authConfigured /\ state # None /\ state = req[r].query
<1>1. /\ UNCHANGED <<cast, now, standing, lostAt, jar, secret, cache, inflight, opened,
                     warnings, audit, timedOut>>
      /\ req[r].at = "open" /\ req[r].at \notin Settled
      /\ stateStore' = IF matches THEN stateStore \ {state} ELSE stateStore
      /\ \/ matches /\ state \in stateStore /\ Goto(r, "exchange")
         \/ Refuse(r)
  BY DEF TakeState, Settled, discordVars, cacheVars, storeVars, pastVars
<1>2. Shape /\ StatesAreSpentOnce /\ TokensAreOwned
  BY DEF AdminInv
<1>3. /\ jar' \in [Users -> Cookies]
      /\ \A u \in Users : jar'[u].session # None => Owned(jar'[u].session.value, u)
      /\ stateStore' \subseteq stateStore /\ stateStore' \subseteq Requests
  BY <1>1, <1>2 DEF Shape, TokensAreOwned
<1>4. CASE matches /\ state \in stateStore /\ Goto(r, "exchange")
  <2>1. /\ Moved(r, "exchange") /\ Keeps(r) /\ req'[r].reply = req[r].reply
    BY <1>2, <1>4, GotoMoves
  <2>2. /\ req[r].query \in stateStore /\ stateStore' = stateStore \ {req[r].query}
    BY <1>1, <1>4
  <2> HIDE DEF state, matches
  <2>3. /\ req[r].at \in Unspent /\ "exchange" \notin Unspent /\ req[r].at \notin SigningIn
    BY <1>1 DEF Unspent, SigningIn
  <2>4. StatesAreSpentOnce'
    <3>1. \A q \in Requests : req[q].at \notin Unspent => q # r /\ req'[q] = req[q]
      BY <2>1, <2>3 DEF Moved
    <3>2. /\ req[r].query \in Requests /\ req[req[r].query].at \notin Unspent
          /\ \A a \in opened : a[1] # req[r].query
          /\ \A s \in Requests : req[s].at \in SigningIn => req[s].query # req[r].query
      BY <1>2, <2>2 DEF StatesAreSpentOnce, Shape
    <3>3. \A q \in stateStore' : req'[q].at \notin Unspent
      BY <1>2, <1>3, <3>1 DEF StatesAreSpentOnce
    <3>4. ASSUME NEW q \in Requests, req'[q].at \in SigningIn
          PROVE  /\ req'[q].query \in Requests \ stateStore'
                 /\ req'[req'[q].query].at \notin Unspent
                 /\ \A a \in opened : a[1] # req'[q].query
                 /\ \A s \in Requests :
                       req'[s].at \in SigningIn /\ req'[s].query = req'[q].query => s = q
      <4>1. CASE q = r
        <5>1. req'[q].query = req[r].query
          BY <2>1, <4>1 DEF Keeps
        <5>2. req[r].query # r
          BY <2>3, <3>2
        <5>3. \A s \in Requests \ {r} : req'[s] = req[s]
          BY <2>1 DEF Moved
        <5> HIDE DEF At
        <5>4. req[r].query \in Requests \ stateStore'
          BY <2>2, <3>2
        <5>5. req'[req[r].query].at \notin Unspent
          BY <3>2, <5>2, <5>3
        <5>6. ASSUME NEW s \in Requests \ {r}, req'[s].at \in SigningIn
              PROVE  req'[s].query # req[r].query
          <6>1. req'[s] = req[s]
            BY <5>3
          <6> QED BY <3>2, <5>6, <6>1
        <5> QED BY <3>2, <4>1, <5>1, <5>4, <5>5, <5>6
      <4>2. CASE q # r
        <5>1. req'[q] = req[q]
          BY <2>1, <4>2 DEF Moved
        <5>2. /\ req[q].query \in Requests \ stateStore
              /\ req[req[q].query].at \notin Unspent
              /\ \A a \in opened : a[1] # req[q].query
              /\ \A s \in Requests :
                    req[s].at \in SigningIn /\ req[s].query = req[q].query => s = q
          BY <1>2, <3>4, <5>1 DEF StatesAreSpentOnce
        <5>3. req'[r].query # req[q].query
          BY <2>1, <2>2, <5>2 DEF Keeps
        <5> QED BY <1>3, <2>1, <3>1, <5>1, <5>2, <5>3 DEF Moved
      <4> QED BY <4>1, <4>2
    <3>5. \A a \in opened :
              /\ a[1] \in Requests \ stateStore'
              /\ req'[a[1]].at \notin Unspent
              /\ \A b \in opened : a[1] = b[1] => a = b
      BY <1>2, <1>3, <3>1 DEF StatesAreSpentOnce
    <3> QED BY <1>1, <3>3, <3>4, <3>5 DEF StatesAreSpentOnce
  <2> QED BY <1>1, <1>3, <2>1, <2>4, SignInMove
<1>5. CASE Refuse(r)
  <2>1. Moved(r, "refused") /\ Clears(r)
    BY <1>2, <1>5, AnswerMoves DEF Refuse
  <2>2. StatesAreSpentOnce'
    <3>1. \A q \in Requests :
              /\ req'[q].at \in SigningIn =>
                    req[q].at \in SigningIn /\ req'[q].query = req[q].query
              /\ req[q].at \notin Unspent => req'[q].at \notin Unspent
      BY <2>1 DEF Moved, SigningIn, Unspent
    <3> QED BY <1>1, <1>2, <1>3, <3>1, SpentKept
  <2>3. req'[r].reply = None
    BY <2>1 DEF Clears
  <2> HIDE DEF state, matches
  <2> QED BY <1>1, <1>3, <2>1, <2>2, <2>3, SignInMove
<1> QED BY <1>1, <1>4, <1>5

\* A login's state is new.
LEMMA LoggedIn ==
    ASSUME AdminInv, NEW r \in Requests, Login(r)
    PROVE  AdminInv'
<1>1. /\ UNCHANGED <<cast, now, standing, lostAt, secret, cache, inflight, opened,
                     warnings, audit, timedOut>>
      /\ req[r].at = "open" /\ req[r].at \notin Settled /\ req[r].at # "idle"
  BY DEF Login, Settled, discordVars, cacheVars, storeVars, pastVars
<1>2. Shape /\ StatesAreSpentOnce /\ TokensAreOwned
  BY DEF AdminInv
<1>3. CASE Refuse(r) /\ UNCHANGED <<stateStore, jar>>
  BY <1>1, <1>3, QuietAnswer DEF quietVars
<1>4. CASE /\ Done(r) /\ stateStore' = stateStore \cup {r}
           /\ jar' = [jar EXCEPT ![req[r].user].state = Sign(r)]
  <2>1. Moved(r, "done") /\ Clears(r)
    BY <1>2, <1>4, AnswerMoves DEF Done
  <2>2. req'[r].reply = None
    BY <2>1 DEF Clears
  <2>3. req[r].user \in Users
    BY <1>1, <1>2 DEF Shape, RequestShape
  <2>4. jar' \in [Users -> Cookies]
        /\ \A u \in Users : jar'[u].session = jar[u].session
    <3> DEFINE mine == [jar[req[r].user] EXCEPT !.state = Sign(r)]
    <3>1. Sign(r) \in [value : Logins, secret : Nat]
      BY <1>2 DEF Sign, Logins, Shape
    <3>2. jar \in [Users -> Cookies] /\ jar[req[r].user] \in Cookies
      BY <1>2, <2>3 DEF Shape
    <3>3. mine \in Cookies /\ mine.session = jar[req[r].user].session
      BY <3>1, <3>2 DEF Cookies
    <3>4. jar' = [jar EXCEPT ![req[r].user] = mine]
      BY <1>4, <2>3, <3>2
    <3> HIDE DEF mine
    <3> QED BY <2>3, <3>2, <3>3, <3>4
  <2>5. \A u \in Users : jar'[u].session # None => Owned(jar'[u].session.value, u)
    BY <1>2, <2>4 DEF TokensAreOwned
  <2>6. StatesAreSpentOnce'
    <3>1. req[r].at \in Unspent /\ "done" \notin Unspent \cup SigningIn
      BY <1>1 DEF Unspent, SigningIn
    <3>2. \A q \in Requests \ {r} : req'[q] = req[q]
      BY <2>1 DEF Moved
    <3>3. req'[r].at = "done"
      BY <2>1 DEF Moved
    <3>4. \A q \in stateStore' : req'[q].at \notin Unspent
      BY <1>2, <1>4, <3>1, <3>2, <3>3 DEF StatesAreSpentOnce, Shape
    <3>5. ASSUME NEW q \in Requests, req'[q].at \in SigningIn
          PROVE  /\ req'[q].query \in Requests \ stateStore'
                 /\ req'[req'[q].query].at \notin Unspent
                 /\ \A a \in opened : a[1] # req'[q].query
                 /\ \A s \in Requests :
                       req'[s].at \in SigningIn /\ req'[s].query = req'[q].query => s = q
      <4>1. q # r /\ req'[q] = req[q]
        BY <3>1, <3>2, <3>3, <3>5
      <4>2. /\ req[q].query \in Requests \ stateStore
            /\ req[req[q].query].at \notin Unspent
            /\ \A a \in opened : a[1] # req[q].query
            /\ \A s \in Requests :
                  req[s].at \in SigningIn /\ req[s].query = req[q].query => s = q
        BY <1>2, <3>5, <4>1 DEF StatesAreSpentOnce
      <4>3. req[q].query # r
        BY <3>1, <4>2
      <4>4. ASSUME NEW s \in Requests, req'[s].at \in SigningIn,
                   req'[s].query = req[q].query
            PROVE  s = q
        <5>1. req'[s] = req[s]
          BY <3>1, <3>2, <3>3, <4>4
        <5> QED BY <4>2, <4>4, <5>1
      <4> QED BY <1>4, <3>2, <4>1, <4>2, <4>3, <4>4
    <3>6. \A a \in opened :
              /\ a[1] \in Requests \ stateStore'
              /\ req'[a[1]].at \notin Unspent
              /\ \A b \in opened : a[1] = b[1] => a = b
      BY <1>2, <1>4, <3>1, <3>2 DEF StatesAreSpentOnce
    <3> QED BY <1>1, <3>4, <3>5, <3>6 DEF StatesAreSpentOnce
  <2>7. stateStore' \subseteq Requests
    BY <1>2, <1>4 DEF Shape
  <2> QED BY <1>1, <2>1, <2>2, <2>4, <2>5, <2>6, <2>7, SignInMove
<1> QED BY <1>3, <1>4 DEF Login

\* A session is opened for the one callback that has the state.
LEMMA SessionPut ==
    ASSUME AdminInv, NEW r \in Requests, PutSession(r)
    PROVE  AdminInv'
<1>1. /\ UNCHANGED <<cast, now, standing, lostAt, secret, stateStore, cache, inflight,
                     warnings, audit, timedOut>>
      /\ req[r].at = "put session" /\ req[r].at \notin Settled /\ req[r].at # "idle"
      /\ req[r].at \in SigningIn
  BY DEF PutSession, Settled, SigningIn, discordVars, cacheVars
<1>2. Shape /\ StatesAreSpentOnce /\ TokensAreOwned
  BY DEF AdminInv
<1>3. CASE Refuse(r) /\ UNCHANGED <<opened, jar>>
  BY <1>1, <1>3, QuietAnswer DEF quietVars
<1>4. CASE /\ Done(r) /\ opened' = opened \cup {<<req[r].query, r>>}
           /\ jar' = [jar EXCEPT ![req[r].user] = [NoCookies EXCEPT !.session = Sign(r)]]
  <2>1. Moved(r, "done") /\ Clears(r)
    BY <1>2, <1>4, AnswerMoves DEF Done
  <2>2. req'[r].reply = None
    BY <2>1 DEF Clears
  <2>3. req[r].user \in Users
    BY <1>1, <1>2 DEF Shape, RequestShape
  <2>4. /\ jar' \in [Users -> Cookies]
        /\ \A u \in Users : jar'[u].session # None => Owned(jar'[u].session.value, u)
    <3> DEFINE mine == [NoCookies EXCEPT !.session = Sign(r)]
    <3>1. Sign(r) \in [value : Logins, secret : Nat] /\ Sign(r).value = r
      BY <1>2 DEF Sign, Logins, Shape
    <3>2. mine \in Cookies /\ mine.session = Sign(r)
      BY <3>1 DEF Cookies, NoCookies
    <3>3. jar' = [jar EXCEPT ![req[r].user] = mine] /\ jar \in [Users -> Cookies]
      BY <1>2, <1>4 DEF Shape
    <3>4. Owned(r, req[r].user)
      BY <1>1, ConstantsAreDistinct DEF Owned, Logins
    <3> HIDE DEF mine
    <3>5. jar' \in [Users -> Cookies]
      BY <2>3, <3>2, <3>3
    <3>6. ASSUME NEW u \in Users, jar'[u].session # None
          PROVE  Owned(jar'[u].session.value, u)
      <4>1. CASE u = req[r].user
        BY <3>1, <3>2, <3>3, <3>4, <4>1
      <4>2. CASE u # req[r].user
        BY <1>2, <3>3, <3>6, <4>2 DEF TokensAreOwned
      <4> QED BY <4>1, <4>2
    <3> QED BY <3>5, <3>6
  <2>5. StatesAreSpentOnce'
    <3>1. /\ req[r].query \in Requests \ stateStore
          /\ req[req[r].query].at \notin Unspent
          /\ \A a \in opened : a[1] # req[r].query
          /\ \A s \in Requests :
                req[s].at \in SigningIn /\ req[s].query = req[r].query => s = r
      BY <1>1, <1>2 DEF StatesAreSpentOnce
    <3>2. "done" \notin Unspent \cup SigningIn
      BY DEF Unspent, SigningIn
    <3>3. /\ \A q \in Requests \ {r} : req'[q] = req[q]
          /\ req'[r].at = "done"
      BY <2>1 DEF Moved
    <3>4. \A q \in Requests : req[q].at \notin Unspent => req'[q].at \notin Unspent
      BY <3>2, <3>3
    <3>5. \A q \in stateStore' : req'[q].at \notin Unspent
      BY <1>1, <1>2, <3>4 DEF StatesAreSpentOnce, Shape
    <3>6. ASSUME NEW q \in Requests, req'[q].at \in SigningIn
          PROVE  /\ req'[q].query \in Requests \ stateStore'
                 /\ req'[req'[q].query].at \notin Unspent
                 /\ \A a \in opened' : a[1] # req'[q].query
                 /\ \A s \in Requests :
                       req'[s].at \in SigningIn /\ req'[s].query = req'[q].query => s = q
      <4>1. q # r /\ req'[q] = req[q]
        BY <3>2, <3>3, <3>6
      <4>2. /\ req[q].query \in Requests \ stateStore
            /\ req[req[q].query].at \notin Unspent
            /\ \A a \in opened : a[1] # req[q].query
            /\ \A s \in Requests :
                  req[s].at \in SigningIn /\ req[s].query = req[q].query => s = q
        BY <1>2, <3>6, <4>1 DEF StatesAreSpentOnce
      <4>3. req[q].query # req[r].query
        BY <3>1, <3>6, <4>1
      <4>4. ASSUME NEW s \in Requests, req'[s].at \in SigningIn,
                   req'[s].query = req[q].query
            PROVE  s = q
        <5>1. req'[s] = req[s]
          BY <3>2, <3>3, <4>4
        <5> QED BY <4>2, <4>4, <5>1
      <4>5. \A a \in opened' : a[1] # req[q].query
        <5>1. <<req[r].query, r>>[1] = req[r].query
          OBVIOUS
        <5> QED BY <1>4, <4>2, <4>3, <5>1
      <4> QED BY <1>1, <3>4, <4>1, <4>2, <4>4, <4>5
    <3>7. ASSUME NEW a \in opened'
          PROVE  /\ a[1] \in Requests \ stateStore'
                 /\ req'[a[1]].at \notin Unspent
                 /\ \A b \in opened' : a[1] = b[1] => a = b
      <4>1. \A b \in opened :
                /\ b[1] \in Requests \ stateStore
                /\ req[b[1]].at \notin Unspent
                /\ \A c \in opened : b[1] = c[1] => b = c
        BY <1>2 DEF StatesAreSpentOnce
      <4>2. <<req[r].query, r>>[1] = req[r].query
        OBVIOUS
      <4>3. CASE a \in opened
        BY <1>1, <1>4, <3>1, <3>4, <4>1, <4>2, <4>3
      <4>4. CASE a = <<req[r].query, r>>
        BY <1>1, <1>4, <3>1, <3>4, <4>1, <4>2, <4>4
      <4> QED BY <1>4, <4>3, <4>4
    <3> QED BY <3>5, <3>6, <3>7 DEF StatesAreSpentOnce
  <2>6. stateStore' \subseteq Requests
    BY <1>1, <1>2 DEF Shape
  <2> QED BY <1>1, <2>1, <2>2, <2>4, <2>5, <2>6, SignInMove
<1> QED BY <1>3, <1>4 DEF PutSession

\* A logout keeps AdminInv.
LEMMA LoggedOut ==
    ASSUME AdminInv, NEW r \in Requests, Logout(r)
    PROVE  AdminInv'
<1>1. /\ UNCHANGED <<cast, now, standing, lostAt, secret, stateStore, cache, inflight,
                     opened, warnings, audit, timedOut>>
      /\ req[r].at = "open" /\ req[r].at # "idle" /\ Done(r)
      /\ jar' = [jar EXCEPT ![req[r].user].session = None]
  BY DEF Logout, discordVars, cacheVars, pastVars
<1>2. Shape /\ StatesAreSpentOnce /\ TokensAreOwned
  BY DEF AdminInv
<1>3. Moved(r, "done") /\ Clears(r)
  BY <1>1, <1>2, AnswerMoves DEF Done
<1>4. req'[r].reply = None
  BY <1>3 DEF Clears
<1>5. req[r].user \in Users
  BY <1>1, <1>2 DEF Shape, RequestShape
<1>6. /\ jar' \in [Users -> Cookies]
      /\ \A u \in Users : jar'[u].session \in {jar[u].session, None}
  <2> DEFINE mine == [jar[req[r].user] EXCEPT !.session = None]
  <2>1. jar \in [Users -> Cookies] /\ jar[req[r].user] \in Cookies
    BY <1>2, <1>5 DEF Shape
  <2>2. mine \in Cookies /\ mine.session = None
    BY <2>1 DEF Cookies
  <2>3. jar' = [jar EXCEPT ![req[r].user] = mine]
    BY <1>1, <1>5, <2>1
  <2> HIDE DEF mine
  <2> QED BY <1>5, <2>1, <2>2, <2>3
<1>7. \A u \in Users : jar'[u].session # None => Owned(jar'[u].session.value, u)
  BY <1>2, <1>6 DEF TokensAreOwned
<1>8. StatesAreSpentOnce'
  <2>1. \A q \in Requests :
            /\ req'[q].at \in SigningIn =>
                  req[q].at \in SigningIn /\ req'[q].query = req[q].query
            /\ req[q].at \notin Unspent => req'[q].at \notin Unspent
    BY <1>3 DEF Moved, SigningIn, Unspent
  <2> QED BY <1>1, <1>2, <2>1, SpentKept
<1>9. stateStore' \subseteq Requests
  BY <1>1, <1>2 DEF Shape
<1> QED BY <1>1, <1>3, <1>4, <1>6, <1>7, <1>8, <1>9, SignInMove

\* The session of a request is one that its user signed in for.
LEMMA SessionFound ==
    ASSUME AdminInv, NEW r \in Requests, SessionAccepted(r)
    PROVE  AdminInv'
<1>1. UNCHANGED quietVars
  BY OnlyRequestIsQuiet DEF SessionAccepted
<1>2. req[r].at = "session" /\ req[r].at \notin Settled /\ req[r].at # "idle"
  BY DEF SessionAccepted, Settled
<1>3. CASE Refuse(r) \/ Done(r)
  BY <1>1, <1>2, <1>3, QuietAnswer
<1>4. CASE \E place \in {"ask", "act"} :
              req' = [req EXCEPT ![r].at = place,
                                 ![r].session = Unsign(req[r].cookies.session),
                                 ![r].cookies = NoCookies]
  <2>1. PICK place \in {"ask", "act"} :
              req' = [req EXCEPT ![r].at = place,
                                 ![r].session = Unsign(req[r].cookies.session),
                                 ![r].cookies = NoCookies]
    BY <1>4
  <2> DEFINE s == Unsign(req[r].cookies.session)
             rec == [req[r] EXCEPT !.at = place, !.session = s, !.cookies = NoCookies]
  <2>2. Shape /\ StatesAreSpentOnce /\ TokensAreOwned /\ LeadersCall /\ ListsWereTrue
        /\ RepliesWereTrue
    BY DEF AdminInv
  <2>3. DOMAIN req = Requests /\ DOMAIN req[r] = Fields
    BY <2>2 DEF Shape, RequestShape
  <2>4. req' = [req EXCEPT ![r] = rec]
    BY <2>1, <2>3
  <2>5. s # None /\ s \in Logins /\ Owned(s, req[r].user)
    <3>1. s # None
      BY DEF SessionAccepted, Row
    <3>2. req[r].cookies.session # None /\ s = req[r].cookies.session.value
      BY <3>1 DEF Unsign
    <3> QED BY <2>2, <3>1, <3>2 DEF TokensAreOwned, Owned
  <2> HIDE DEF s
  <2>6. /\ Moved(r, place) /\ req'[r].session = s /\ req'[r].cookies = NoCookies
        /\ req'[r].query = req[r].query /\ req'[r].reply = req[r].reply
        /\ req'[r].asked = req[r].asked /\ req'[r].began = req[r].began
    BY <2>3, <2>4 DEF Moved, Fields
  <2> HIDE DEF rec
  <2>7. place \notin Unspent \cup SigningIn \cup Authorized
                       \cup {"idle", "fetch", "publish", "woken", "access", "audit timeout"}
    BY DEF Unspent, SigningIn, Authorized
  <2>8. Shape'
    <3>1. RequestShape(r)'
      BY <1>2, <2>2, <2>5, <2>6, CookiesOfNone DEF Shape, RequestShape, Moved
    <3>2. \A q \in Requests \ {r} : RequestShape(q)'
      BY <2>2, <2>6 DEF Shape, RequestShape, Moved
    <3>3. \A q \in Requests : RequestShape(q)'
      BY <3>1, <3>2
    <3> QED BY <1>1, <2>2, <2>6, <3>3 DEF Shape, Moved, quietVars
  <2>9. StatesAreSpentOnce'
    <3>1. \A q \in Requests :
              /\ req'[q].at \in SigningIn =>
                    req[q].at \in SigningIn /\ req'[q].query = req[q].query
              /\ req[q].at \notin Unspent => req'[q].at \notin Unspent
      BY <2>6, <2>7 DEF Moved
    <3> QED BY <1>1, <2>2, <3>1, SpentKept DEF quietVars
  <2>10. TokensAreOwned'
    <3>1. \A t, u : Owned(t, u) => Owned(t, u)'
      BY <1>1, <2>6, <2>7 DEF Owned, Moved, quietVars
    <3>2. ASSUME NEW q \in Requests
          PROVE  /\ req'[q].cookies.session # None =>
                        Owned(req'[q].cookies.session.value, req'[q].user)
                 /\ req'[q].session # None => Owned(req'[q].session, req'[q].user)
                 /\ req'[q].at \in WithSession => req'[q].session # None
      <4>1. CASE req'[q] = req[q]
        BY <2>2, <4>1 DEF TokensAreOwned
      <4>2. CASE q = r
        BY <2>5, <2>6, <4>2, CookiesOfNone DEF Moved
      <4> QED BY <2>6, <4>1, <4>2 DEF Moved
    <3>3. \A u \in Users : jar'[u].session # None => Owned(jar'[u].session.value, u)
      BY <1>1, <2>2 DEF TokensAreOwned, quietVars
    <3> HIDE DEF Owned
    <3> QED BY <3>1, <3>2, <3>3 DEF TokensAreOwned
  <2>11. LeadersCall'
    <3>1. \A q \in Requests : req'[q].at \in {"fetch", "publish"} => req'[q] = req[q]
      BY <2>6, <2>7 DEF Moved
    <3> QED BY <1>1, <2>2, <3>1, CallsKept DEF quietVars
  <2>12. ListsWereTrue'
    <3>1. \A q \in Requests :
              /\ req'[q].at = "idle" <=> req[q].at = "idle"
              /\ req'[q].user = req[q].user
              /\ req'[q].asked \in {req[q].asked, 0, now}
      BY <1>2, <2>6, <2>7 DEF Moved
    <3> QED BY <1>1, <2>2, <3>1, ListsKept DEF quietVars
  <2>13. RepliesWereTrue'
    <3>1. \A q \in Requests :
              \/ req'[q] = req[q]
              \/ req'[q].at \notin {"publish", "woken", "access"} \cup Authorized
      BY <2>6, <2>7 DEF Moved
    <3> QED BY <1>1, <2>2, <3>1, RepliesKept DEF quietVars
  <2>14. AuditIsTrue'
    BY <1>1, <1>2, <2>6, <2>7, QuietStep DEF quietVars, Settled
  <2> QED BY <2>8, <2>9, <2>10, <2>11, <2>12, <2>13, <2>14 DEF AdminInv
<1> QED BY <1>3, <1>4 DEF SessionAccepted

-----------------------------------------------------------------------------
(* Discord, the browsers, the clock and the process. *)

\* A request that begins carries its user's cookies, and keeps AdminInv.
LEMMA Began ==
    ASSUME AdminInv, NEW r \in Requests, Begin(r)
    PROVE  AdminInv'
<1>1. UNCHANGED quietVars /\ req[r].at = "idle"
  BY OnlyRequestIsQuiet DEF Begin
<1>2. Shape /\ StatesAreSpentOnce /\ TokensAreOwned /\ LeadersCall /\ ListsWereTrue
      /\ RepliesWereTrue /\ AuditIsTrue
  BY DEF AdminInv
<1>3. PICK c \in cast.calls : \E q \in Requests \cup {None} :
          /\ IF c.route = "callback"
             THEN q # None /\ req[q].route = "login" /\ At(q, "done")
             ELSE q = None
          /\ req' = [req EXCEPT ![r] =
                        [NoRequest EXCEPT
                            !.at = IF c.route \in OpenRoutes \ {"me"}
                                   THEN "open" ELSE "session",
                            !.route = c.route, !.user = c.user, !.query = q,
                            !.cookies = jar[c.user]]]
  BY DEF Begin
<1>4. PICK q0 \in Requests \cup {None} :
          req' = [req EXCEPT ![r] =
                        [NoRequest EXCEPT
                            !.at = IF c.route \in OpenRoutes \ {"me"}
                                   THEN "open" ELSE "session",
                            !.route = c.route, !.user = c.user, !.query = q0,
                            !.cookies = jar[c.user]]]
  BY <1>3
<1>5. c.user \in Users
  BY <1>2, CastsAreWellFormed DEF Shape
<1> DEFINE rec == [NoRequest EXCEPT
                      !.at = IF c.route \in OpenRoutes \ {"me"}
                             THEN "open" ELSE "session",
                      !.route = c.route, !.user = c.user, !.query = q0,
                      !.cookies = jar[c.user]]
<1>6. /\ DOMAIN rec = Fields /\ rec.at \in {"open", "session"} /\ rec.user = c.user
      /\ rec.query = q0 /\ rec.cookies = jar[c.user] /\ rec.session = None
      /\ rec.asked = 0 /\ rec.began = 0 /\ rec.reply = None
  BY DEF NoRequest, Fields
<1>7. req' = [req EXCEPT ![r] = rec]
  BY <1>4
<1> HIDE DEF rec
<1>8. DOMAIN req' = Requests /\ req'[r] = rec /\ \A q \in Requests \ {r} : req'[q] = req[q]
  BY <1>2, <1>7 DEF Shape
<1>9. rec.at \notin SigningIn \cup WithSession \cup Authorized
      /\ rec.at \in Unspent /\ req[r].at \in Unspent
  BY <1>1, <1>6 DEF SigningIn, WithSession, Authorized, Unspent
<1>10. Shape'
  <2>1. RequestShape(r)'
    BY <1>1, <1>2, <1>5, <1>6, <1>8 DEF Shape, RequestShape
  <2>2. \A q \in Requests \ {r} : RequestShape(q)'
    BY <1>2, <1>8 DEF Shape, RequestShape
  <2>3. \A q \in Requests : RequestShape(q)'
    BY <2>1, <2>2
  <2> QED BY <1>1, <1>2, <1>8, <2>3 DEF Shape, quietVars
<1>11. StatesAreSpentOnce'
  <2>1. \A q \in Requests :
            /\ req'[q].at \in SigningIn =>
                  req[q].at \in SigningIn /\ req'[q].query = req[q].query
            /\ req[q].at \notin Unspent => req'[q].at \notin Unspent
    BY <1>8, <1>9
  <2> QED BY <1>1, <1>2, <2>1, SpentKept DEF quietVars
<1>12. TokensAreOwned'
  <2>1. \A t, u : Owned(t, u) => Owned(t, u)'
    BY <1>1, <1>8 DEF Owned, quietVars
  <2>2. \A u \in Users : jar[u].session # None => Owned(jar[u].session.value, u)
    BY <1>2 DEF TokensAreOwned
  <2>3. ASSUME NEW q \in Requests
        PROVE  /\ req'[q].cookies.session # None =>
                      Owned(req'[q].cookies.session.value, req'[q].user)
               /\ req'[q].session # None => Owned(req'[q].session, req'[q].user)
               /\ req'[q].at \in WithSession => req'[q].session # None
    <3>1. CASE req'[q] = req[q]
      BY <1>2, <3>1 DEF TokensAreOwned
    <3>2. CASE q = r
      BY <1>5, <1>6, <1>8, <1>9, <2>2, <3>2
    <3> QED BY <1>8, <3>1, <3>2
  <2> HIDE DEF Owned
  <2> QED BY <1>1, <2>1, <2>2, <2>3 DEF TokensAreOwned, quietVars
<1>13. LeadersCall'
  <2>1. \A q \in Requests : req'[q].at \in {"fetch", "publish"} => req'[q] = req[q]
    BY <1>6, <1>8
  <2> QED BY <1>1, <1>2, <2>1, CallsKept DEF quietVars
<1>14. ListsWereTrue'
  <2>1. \A u, g, t : Managed(u, g, t)' <=> Managed(u, g, t)
    BY <1>1 DEF Managed, quietVars
  <2>2. \A t, u : t # r => (Owned(t, u)' <=> Owned(t, u))
    BY <1>1, <1>8 DEF Owned, quietVars
  <2>3. \A g \in Guilds : cache[r].guilds[g] # "manager"
    BY <1>1, <1>2 DEF ListsWereTrue, Logins
  <2>4. \A t \in Requests : req'[t].at = "idle" => req[t].at = "idle"
    BY <1>6, <1>8
  <2>5. \A q \in Requests : req'[q].asked \in {req[q].asked, 0}
    BY <1>6, <1>8
  <2>6. now \in Nat
    BY <1>2 DEF Shape
  <2> QED BY <1>1, <1>2, <2>1, <2>2, <2>3, <2>4, <2>5, <2>6 DEF ListsWereTrue, quietVars
<1>15. RepliesWereTrue'
  <2>1. \A q \in Requests :
            \/ req'[q] = req[q]
            \/ req'[q].at \notin {"publish", "woken", "access"} \cup Authorized
    BY <1>6, <1>8, <1>9
  <2> QED BY <1>1, <1>2, <2>1, RepliesKept DEF quietVars
<1>16. AuditIsTrue'
  <2>1. \A q \in Requests :
            /\ req[q].at \in {"audit", "refused", "lost"} =>
                  req'[q].at \in {"audit", "refused", "lost"}
            /\ req'[q].at = "audit timeout" => req[q].at = "audit timeout"
    BY <1>1, <1>6, <1>8
  <2> QED BY <1>1, <1>2, <2>1, AuditKept DEF quietVars
<1> QED BY <1>10, <1>11, <1>12, <1>13, <1>14, <1>15, <1>16 DEF AdminInv

\* What someone managed until now, he manages or ceased to manage since.
LEMMA Demoted ==
    ASSUME AdminInv, Demote
    PROVE  AdminInv'
<1>1. UNCHANGED <<cast, now, jar, secret, stateStore, cache, inflight, req, opened,
                  warnings, audit, timedOut>>
  BY DEF Demote, cacheVars, storeVars, pastVars
<1>2. Shape /\ StatesAreSpentOnce /\ TokensAreOwned /\ LeadersCall /\ ListsWereTrue
      /\ RepliesWereTrue /\ AuditIsTrue
  BY DEF AdminInv
<1>3. PICK u0 \in Users, g0 \in Guilds, as \in {"member", None} :
          /\ standing[u0][g0] = "manager"
          /\ standing' = [standing EXCEPT ![u0][g0] = as]
          /\ lostAt' = [lostAt EXCEPT ![u0][g0] = now]
  BY DEF Demote
<1>4. now \in Nat /\ now # None
  BY <1>2, ConstantsAreDistinct DEF Shape
<1>5. /\ standing' \in [Users -> [Guilds -> Standings]]
      /\ lostAt' \in [Users -> [Guilds -> Nat \cup {None}]]
      /\ lostAt'[u0][g0] = now
      /\ \A u \in Users, g \in Guilds : u # u0 \/ g # g0 =>
            standing'[u][g] = standing[u][g] /\ lostAt'[u][g] = lostAt[u][g]
  <2>1. /\ standing \in [Users -> [Guilds -> Standings]]
        /\ lostAt \in [Users -> [Guilds -> Nat \cup {None}]]
    BY <1>2 DEF Shape
  <2>2. as \in Standings
    BY DEF Standings
  <2> QED BY <1>3, <1>4, <2>1, <2>2
<1>6. ASSUME NEW u \in Users, NEW g \in Guilds, NEW t \in Nat, t <= now, Managed(u, g, t)
      PROVE  Managed(u, g, t)'
  <2>1. CASE u = u0 /\ g = g0
    BY <1>1, <1>4, <1>5, <1>6, <2>1 DEF Managed
  <2>2. CASE u # u0 \/ g # g0
    BY <1>5, <1>6, <2>2 DEF Managed
  <2> QED BY <2>1, <2>2
<1>7. ASSUME NEW u \in Users, NEW g \in Guilds, NEW t \in Nat, t <= now,
             ManagedRecently(u, g, t)
      PROVE  ManagedRecently(u, g, t)'
  <2>1. CASE u = u0 /\ g = g0
    BY <1>1, <1>4, <1>5, <1>7, <2>1, TimesAreNatural DEF ManagedRecently
  <2>2. CASE u # u0 \/ g # g0
    BY <1>5, <1>7, <2>2 DEF ManagedRecently
  <2> QED BY <2>1, <2>2
<1>8. Shape'
  BY <1>1, <1>2, <1>5 DEF Shape, RequestShape
<1>9. StatesAreSpentOnce' /\ TokensAreOwned' /\ LeadersCall' /\ AuditIsTrue'
  BY <1>1, <1>2 DEF StatesAreSpentOnce, TokensAreOwned, Owned, LeadersCall, AuditIsTrue
<1>10. ListsWereTrue'
  <2>1. ASSUME NEW t \in Logins, NEW u \in Users, NEW g \in Guilds, Owned(t, u),
               cache[t].guilds[g] = "manager"
        PROVE  Managed(u, g, cache[t].fetchedAt)'
    <3>1. cache[t].fetchedAt \in Nat /\ cache[t].fetchedAt <= now
      BY <1>2 DEF Shape, Entries, ListsWereTrue
    <3>2. Managed(u, g, cache[t].fetchedAt)
      BY <1>2, <2>1 DEF ListsWereTrue
    <3>3. \A x : x = cache[t].fetchedAt => Managed(u, g, x)'
      BY <1>6, <3>1, <3>2
    <3> QED BY <1>1, <3>3 DEF Managed
  <2>2. \A t, u : Owned(t, u)' <=> Owned(t, u)
    BY <1>1 DEF Owned
  <2> QED BY <1>1, <1>2, <2>1, <2>2 DEF ListsWereTrue
<1>11. RepliesWereTrue'
  <2>1. ASSUME NEW q \in Requests, req[q].at = "publish", IsList(req[q].reply),
               NEW g \in Guilds, req[q].reply.guilds[g] = "manager"
        PROVE  Managed(req[q].user, g, req[q].began)'
    <3>1. req[q].user \in Users /\ req[q].began \in Nat /\ req[q].began <= now
      BY <1>2, <2>1 DEF Shape, RequestShape, LeadersCall
    <3>2. Managed(req[q].user, g, req[q].began)
      BY <1>2, <2>1 DEF RepliesWereTrue
    <3>3. \A u, x : u = req[q].user /\ x = req[q].began => Managed(u, g, x)'
      BY <1>6, <3>1, <3>2
    <3> QED BY <1>1, <3>3 DEF Managed
  <2>2. ASSUME NEW q \in Requests, req[q].at # "idle", NEW g \in Guilds,
               ManagedRecently(req[q].user, g, req[q].asked)
        PROVE  ManagedRecently(req[q].user, g, req[q].asked)'
    <3>1. req[q].user \in Users /\ req[q].asked \in Nat /\ req[q].asked <= now
      BY <1>2, <2>2 DEF Shape, RequestShape, ListsWereTrue
    <3>2. \A u, x : u = req[q].user /\ x = req[q].asked => ManagedRecently(u, g, x)'
      BY <1>7, <2>2, <3>1
    <3> QED BY <1>1, <3>2 DEF ManagedRecently
  <2>3. cast.guild \in Guilds
    BY <1>2, CastsAreWellFormed DEF Shape
  <2>4. \A q \in Requests : req[q].at \in {"woken", "access"} \cup Authorized =>
            req[q].at # "idle"
    BY DEF Authorized
  <2>5. ASSUME NEW q \in Requests, req[q].at \in {"woken", "access"},
               IsList(req[q].reply), NEW g \in Guilds,
               req[q].reply.guilds[g] = "manager"
        PROVE  ManagedRecently(req[q].user, g, req[q].asked)'
    <3>1. ManagedRecently(req[q].user, g, req[q].asked)
      BY <1>2, <2>5 DEF RepliesWereTrue
    <3> QED BY <2>2, <2>4, <2>5, <3>1
  <2>6. ASSUME NEW q \in Requests, req[q].at \in Authorized
        PROVE  ManagedRecently(req[q].user, cast.guild, req[q].asked)'
    <3>1. ManagedRecently(req[q].user, cast.guild, req[q].asked)
      BY <1>2, <2>6 DEF RepliesWereTrue
    <3>2. \A g : g = cast.guild => ManagedRecently(req[q].user, g, req[q].asked)'
      BY <2>2, <2>3, <2>4, <2>6, <3>1
    <3> QED BY <1>1, <3>2 DEF ManagedRecently
  <2>7. \A q \in Requests :
            /\ req[q].at = "publish" => req[q].reply \in Replies
            /\ req[q].at \in {"woken", "access"} => req[q].reply \in Replies
            /\ req[q].at = "access" => IsList(req[q].reply)
    BY <1>2 DEF RepliesWereTrue
  <2> QED BY <1>1, <2>1, <2>5, <2>6, <2>7 DEF RepliesWereTrue, IsList
<1> QED BY <1>8, <1>9, <1>10, <1>11 DEF AdminInv

\* As time passes AdminInv is kept: what it says of times looks back.
LEMMA Ticked ==
    ASSUME AdminInv, Tick
    PROVE  AdminInv'
<1>1. /\ UNCHANGED <<cast, standing, lostAt, jar, secret, stateStore, cache, inflight, req,
                     opened, warnings, audit, timedOut>>
      /\ now' = now + 1
      /\ \A r \in Requests : req[r].at \in {"fetch", "publish"} => req[r].began = now
  BY DEF Tick, discordVars, cacheVars, storeVars, pastVars
<1>2. Shape /\ StatesAreSpentOnce /\ TokensAreOwned /\ LeadersCall /\ ListsWereTrue
      /\ RepliesWereTrue /\ AuditIsTrue
  BY DEF AdminInv
<1>3. now \in Nat
  BY <1>2 DEF Shape
<1>4. Shape'
  BY <1>1, <1>2, <1>3 DEF Shape, RequestShape
<1>5. StatesAreSpentOnce' /\ TokensAreOwned' /\ AuditIsTrue'
  BY <1>1, <1>2 DEF StatesAreSpentOnce, TokensAreOwned, Owned, AuditIsTrue
<1>6. LeadersCall'
  BY <1>1, <1>2, <1>3 DEF LeadersCall
<1>7. ListsWereTrue'
  <2>1. \A t \in Logins : cache[t].fetchedAt \in Nat
    BY <1>2 DEF Shape, Entries
  <2>2. \A r \in Requests : req[r].asked \in Nat
    BY <1>2 DEF Shape, RequestShape
  <2>3. \A t, u : Owned(t, u)' <=> Owned(t, u)
    BY <1>1 DEF Owned
  <2>4. \A u, g, t : Managed(u, g, t)' <=> Managed(u, g, t)
    BY <1>1 DEF Managed
  <2> QED BY <1>1, <1>2, <1>3, <2>1, <2>2, <2>3, <2>4 DEF ListsWereTrue
<1>8. RepliesWereTrue'
  BY <1>1, <1>2, RepliesKept
<1> QED BY <1>4, <1>5, <1>6, <1>7, <1>8 DEF AdminInv

\* A token nobody asked for has an entry that lists nothing.
LEMMA NoEntryShape ==
    /\ NoEntry \in Entries /\ NoEntry.fetchedAt = 0 /\ NoEntry.expiresAt = 0
    /\ \A g \in Guilds : NoEntry.guilds[g] # "manager"
BY ConstantsAreDistinct DEF NoEntry, Entries, Standings

\* A restart forgets the lists and the requests; the database and the browsers stay.
LEMMA Restarted ==
    ASSUME AdminInv, Restart
    PROVE  AdminInv'
<1>1. /\ UNCHANGED <<cast, now, standing, lostAt, jar, opened, warnings, audit, timedOut>>
      /\ secret' \in {0, 1} /\ stateStore' = {}
      /\ cache' = [t \in Logins |-> NoEntry]
      /\ inflight' = [t \in Logins |-> None]
  BY DEF Restart, discordVars, storeVars, pastVars
<1>2. Shape /\ StatesAreSpentOnce /\ TokensAreOwned /\ LeadersCall /\ ListsWereTrue
      /\ RepliesWereTrue /\ AuditIsTrue
  BY DEF AdminInv
<1>3. /\ DOMAIN req' = Requests
      /\ \A q \in Requests :
            \/ req'[q] = req[q] /\ req[q].at \in {"idle", "done", "refused", "lost"}
            \/ req'[q] = Answer(q, "lost") /\ req[q].at \notin {"idle", "done", "refused", "lost"}
  BY DEF Restart, Answered
<1>4. \A q \in Requests :
          /\ DOMAIN Answer(q, "lost") = Fields
          /\ Answer(q, "lost").at = "lost" /\ Answer(q, "lost").user = req[q].user
          /\ Answer(q, "lost").cookies = NoCookies /\ Answer(q, "lost").query = None
          /\ Answer(q, "lost").session = None /\ Answer(q, "lost").asked = 0
          /\ Answer(q, "lost").began = 0 /\ Answer(q, "lost").reply = None
  BY DEF Answer, NoRequest, Fields
<1>5. \A q \in Requests :
          \/ req'[q] = req[q] /\ req[q].at \in {"idle", "done", "refused", "lost"}
          \/ /\ req[q].at \notin {"idle", "done", "refused", "lost"}
             /\ DOMAIN req'[q] = Fields
             /\ req'[q].at = "lost" /\ req'[q].user = req[q].user
             /\ req'[q].cookies = NoCookies /\ req'[q].query = None
             /\ req'[q].session = None /\ req'[q].asked = 0
             /\ req'[q].began = 0 /\ req'[q].reply = None
  BY <1>3, <1>4
<1>6. {"done", "refused", "lost"} \cap Unspent = {}
      /\ {"idle", "done", "refused", "lost"} \cap (SigningIn \cup WithSession \cup Authorized) = {}
  BY DEF Unspent, SigningIn, WithSession, Authorized
<1>7. Shape'
  <2>1. \A q \in Requests : RequestShape(q)'
    <3>1. ASSUME NEW q \in Requests PROVE RequestShape(q)'
      <4>1. RequestShape(q)
        BY <1>2 DEF Shape
      <4>2. CASE req'[q] = req[q]
        BY <4>1, <4>2 DEF RequestShape
      <4>3. CASE req'[q] # req[q]
        BY <1>5, <4>1, <4>3, CookiesOfNone DEF RequestShape
      <4> QED BY <4>2, <4>3
    <3> QED BY <3>1
  <2>2. cache' \in [Logins -> Entries] /\ inflight' \in [Logins -> Requests \cup {None}]
    BY <1>1, NoEntryShape
  <2>3. stateStore' \subseteq Requests /\ secret' \in Nat
    BY <1>1
  <2> QED BY <1>1, <1>2, <1>3, <2>1, <2>2, <2>3 DEF Shape
<1>8. StatesAreSpentOnce'
  <2>1. \A q \in Requests :
            /\ req'[q].at \in SigningIn =>
                  req[q].at \in SigningIn /\ req'[q].query = req[q].query
            /\ req[q].at \notin Unspent => req'[q].at \notin Unspent
    BY <1>5, <1>6
  <2>2. stateStore' \subseteq stateStore
    BY <1>1
  <2> QED BY <1>1, <1>2, <2>1, <2>2, SpentKept
<1>9. TokensAreOwned'
  <2>1. \A q \in Requests :
            /\ req[q].at # "idle" => req'[q].at # "idle"
            /\ req'[q].user = req[q].user
            /\ req'[q].cookies.session \in {req[q].cookies.session, None}
            /\ req'[q].session \in {req[q].session, None}
            /\ req'[q].at \in WithSession =>
                  req[q].at \in WithSession /\ req'[q].session = req[q].session
    BY <1>5, <1>6, CookiesOfNone
  <2> QED BY <1>1, <1>2, <2>1, TokensKept
<1>10. LeadersCall'
  BY <1>5 DEF LeadersCall
<1>11. ListsWereTrue'
  <2>1. now \in Nat /\ CacheTTL \in Nat
    BY <1>2, TimesAreNatural DEF Shape
  <2>2. \A t \in Logins : cache'[t] = NoEntry
    BY <1>1
  <2>3. \A q \in Requests : req'[q].asked <= now
    BY <1>2, <1>5, <2>1 DEF ListsWereTrue
  <2> QED BY <1>1, <2>1, <2>2, <2>3, NoEntryShape DEF ListsWereTrue
<1>12. RepliesWereTrue'
  <2>1. \A q \in Requests :
            \/ req'[q] = req[q]
            \/ req'[q].at \notin {"publish", "woken", "access"} \cup Authorized
    BY <1>5, <1>6
  <2> QED BY <1>1, <1>2, <2>1, RepliesKept
<1>13. AuditIsTrue'
  <2>1. \A q \in Requests :
            /\ req[q].at \in {"audit", "refused", "lost"} =>
                  req'[q].at \in {"audit", "refused", "lost"}
            /\ req'[q].at = "audit timeout" => req[q].at = "audit timeout"
    BY <1>5
  <2> QED BY <1>1, <1>2, <2>1, AuditKept
<1> QED BY <1>7, <1>8, <1>9, <1>10, <1>11, <1>12, <1>13 DEF AdminInv

\* AdminInv speaks of quietVars and the requests alone.
LEMMA AdminUnchanged ==
    ASSUME AdminInv, UNCHANGED quietVars, UNCHANGED req
    PROVE  AdminInv'
<1>1. Shape' /\ StatesAreSpentOnce'
  BY DEF AdminInv, Shape, RequestShape, StatesAreSpentOnce, quietVars
<1>2. TokensAreOwned' /\ LeadersCall' /\ AuditIsTrue'
  BY DEF AdminInv, TokensAreOwned, Owned, LeadersCall, AuditIsTrue, quietVars
<1>3. ListsWereTrue' /\ RepliesWereTrue'
  BY ListsKept, RepliesKept DEF AdminInv, quietVars
<1> QED BY <1>1, <1>2, <1>3 DEF AdminInv

-----------------------------------------------------------------------------

\* AdminInv holds at first.
LEMMA AdminInitially == Init => AdminInv
<1> SUFFICES ASSUME Init PROVE AdminInv
  OBVIOUS
<1>1. /\ cast \in Casts /\ now = 0 /\ secret = 0 /\ stateStore = {} /\ audit = {}
      /\ opened = {}
      /\ standing = [u \in Users |-> [g \in Guilds |-> cast.standing]]
      /\ lostAt = [u \in Users |-> [g \in Guilds |-> None]]
      /\ inflight = [t \in Logins |-> None]
      /\ cache = [t \in Logins |-> IF t = Past /\ cast.cached THEN JustFetched ELSE NoEntry]
      /\ warnings = {[id |-> w, guild |-> cast.guild] : w \in EarlierWarnings}
  BY DEF Init
<1>2. cast.standing \in Standings /\ (cast.cached => cast.standing = "manager")
  BY <1>1, CastsAreWellFormed DEF Standings
<1>3. /\ JustFetched \in Entries /\ JustFetched.fetchedAt = 0
      /\ JustFetched.expiresAt = CacheTTL
  BY TimesAreNatural DEF JustFetched, NoEntry, Entries, Standings
<1>4. DOMAIN req = Requests /\ \A r \in Requests :
          /\ DOMAIN req[r] = Fields /\ req[r].at = "idle" /\ req[r].user = None
          /\ req[r].cookies = NoCookies /\ req[r].query = None
          /\ req[r].session = None /\ req[r].asked = 0
          /\ req[r].began = 0 /\ req[r].reply = None
  BY DEF Init, NoRequest, Fields
<1>5. /\ jar \in [Users -> Cookies]
      /\ \A u \in Users : \/ jar[u].session = None
                          \/ u = cast.signedIn /\ jar[u].session.value = Past
  <2> DEFINE cookie == [value |-> Past, secret |-> 0]
             mine == [NoCookies EXCEPT !.session = cookie]
  <2>1. cookie \in [value : Logins, secret : Nat] /\ cookie.value = Past
    BY DEF Logins
  <2>2. mine \in Cookies /\ mine.session = cookie
    BY <2>1 DEF NoCookies, Cookies
  <2>3. jar = [u \in Users |-> IF u = cast.signedIn THEN mine ELSE NoCookies]
    BY DEF Init
  <2> HIDE DEF cookie, mine
  <2> QED BY <2>1, <2>2, <2>3, CookiesOfNone
<1>6. Shape
  <2>1. \A r \in Requests : RequestShape(r)
    BY <1>4, CookiesOfNone DEF RequestShape
  <2>2. standing \in [Users -> [Guilds -> Standings]]
        /\ lostAt \in [Users -> [Guilds -> Nat \cup {None}]]
    BY <1>1, <1>2
  <2>3. cache \in [Logins -> Entries] /\ inflight \in [Logins -> Requests \cup {None}]
    BY <1>1, <1>3, NoEntryShape
  <2> QED BY <1>1, <1>4, <1>5, <2>1, <2>2, <2>3 DEF Shape
<1>7. StatesAreSpentOnce
  BY <1>1, <1>4 DEF StatesAreSpentOnce, SigningIn
<1>8. TokensAreOwned
  <2>1. \A u \in Users : jar[u].session # None => Owned(jar[u].session.value, u)
    BY <1>5, ConstantsAreDistinct DEF Owned, Logins
  <2> QED BY <1>4, <2>1, CookiesOfNone DEF TokensAreOwned, WithSession
<1>9. LeadersCall
  BY <1>4 DEF LeadersCall
<1>10. ListsWereTrue
  <2>1. ASSUME NEW t \in Logins
        PROVE  /\ cache[t].fetchedAt = 0
               /\ \/ cache[t].expiresAt = CacheTTL
                  \/ cache[t].expiresAt = 0
               /\ t \in Requests => \A g \in Guilds : cache[t].guilds[g] # "manager"
               /\ \A u \in Users, g \in Guilds :
                     cache[t].guilds[g] = "manager" => standing[u][g] = "manager"
    <3>1. CASE t = Past /\ cast.cached
      <4>1. cache[t] = JustFetched /\ t \notin Requests
        BY <1>1, <3>1, ConstantsAreDistinct
      <4>2. \A u \in Users, g \in Guilds : standing[u][g] = "manager"
        BY <1>1, <1>2, <3>1
      <4> QED BY <1>3, <4>1, <4>2
    <3>2. CASE ~(t = Past /\ cast.cached)
      <4>1. cache[t] = NoEntry
        BY <1>1, <3>2
      <4> QED BY <4>1, NoEntryShape
    <3> QED BY <3>1, <3>2
  <2>2. CacheTTL \in Nat
    BY TimesAreNatural
  <2> QED BY <1>1, <1>4, <2>1, <2>2 DEF ListsWereTrue, Managed
<1>11. RepliesWereTrue
  BY <1>4 DEF RepliesWereTrue, Authorized
<1>12. AuditIsTrue
  <2>1. \A w \in warnings : w.id \in EarlierWarnings
    BY <1>1
  <2> QED BY <1>1, <1>4, <2>1, ConstantsAreDistinct DEF AuditIsTrue
<1> QED BY <1>6, <1>7, <1>8, <1>9, <1>10, <1>11, <1>12 DEF AdminInv

\* Every step of the admin API keeps AdminInv.
LEMMA AdminStep ==
    ASSUME AdminInv, [Next]_vars
    PROVE  AdminInv'
<1>1. CASE UNCHANGED vars
  <2>1. UNCHANGED quietVars /\ UNCHANGED req
    BY <1>1 DEF vars, quietVars, discordVars, cacheVars, storeVars, pastVars
  <2> QED BY <2>1, AdminUnchanged
<1>2. CASE Demote
  BY <1>2, Demoted
<1>3. CASE ResolveOwner
  <2>1. UNCHANGED quietVars /\ UNCHANGED req
    BY <1>3 DEF ResolveOwner, quietVars, cacheVars, storeVars, pastVars
  <2> QED BY <2>1, AdminUnchanged
<1>4. CASE Tick
  BY <1>4, Ticked
<1>5. CASE Restart
  BY <1>5, Restarted
<1>6. ASSUME NEW r \in Requests,
             Begin(r) \/ SignInStep(r) \/ SessionStep(r)
      PROVE  AdminInv'
  BY <1>6, Began, LoggedIn, StateTaken, SignInGoesOn, SessionPut, LoggedOut, NoSession,
     SessionFound DEF SignInStep, SessionStep
<1>7. ASSUME NEW r \in Requests, GuildsStep(r)
      PROVE  AdminInv'
  BY <1>7, Asked, ListServed, ListRefused, Joins, Led, Fetched, Published, FellBack, Woke,
     Accessed DEF GuildsStep, FetchStep
<1>8. ASSUME NEW r \in Requests, GuildStep(r) \/ OwnerStep(r)
      PROVE  AdminInv'
  BY <1>8, ManagersAct, ConfigLoaded, WarningCreated, WarningAudited, MemberTimedOut,
     TimeoutAudited, WarningDeleted, DeletionAudited, OwnerActs DEF GuildStep
<1> QED BY <1>1, <1>2, <1>3, <1>4, <1>5, <1>6, <1>7, <1>8 DEF Next

\* Every reachable state of the admin API satisfies AdminInv.
LEMMA AdminInvHolds == Spec => []AdminInv
BY AdminInitially, AdminStep, PTL DEF Spec

\* However often Discord's redirect reaches the server and whichever callbacks
\* overlap, a login opens at most one session (auth.go, handleCallback).
THEOREM SessionsAreOpenedOnce == Spec => []OneSessionPerLogin
<1>1. AdminInv => OneSessionPerLogin
  BY DEF AdminInv, StatesAreSpentOnce, OneSessionPerLogin
<1> QED BY <1>1, AdminInvHolds, PTL

\* Whatever was cached, joined or fallen back to, a route of a guild goes on for
\* a user who managed the guild at most guildsStaleWhileRateLimited before he
\* asked (guilds/service.go, fetchGuildsCached and accessibleGuild).
THEOREM AuthorizationIsRecent == Spec => []AuthorizedRecently
<1>1. AdminInv => AuthorizedRecently
  BY DEF AdminInv, RepliesWereTrue, Authorized, ManagedRecently, AuthorizedRecently
<1> QED BY <1>1, AdminInvHolds, PTL

\* One request fetches the guilds of an access token, and it is the one that
\* others join (guilds/service.go, guildsInflight).
THEOREM OneLeader == Spec => []OneFetchPerToken
<1>1. AdminInv => OneFetchPerToken
  BY DEF AdminInv, LeadersCall, OneFetchPerToken
<1> QED BY <1>1, AdminInvHolds, PTL

\* A warning that its request reported as created is in the audit log, and the
\* log names only timeouts that happened (operations.go, CreateWarning).
THEOREM AuditIsHonest == Spec => []AuditTellsTruth
<1>1. AdminInv => AuditTellsTruth
  BY DEF AdminInv, AuditIsTrue, AuditTellsTruth
<1> QED BY <1>1, AdminInvHolds, PTL

-----------------------------------------------------------------------------
(* Types. *)

Documented ==
    /\ now \in 0 .. MaxTime
    /\ DOMAIN kv = Guilds
    /\ \A g \in Guilds :
          /\ DOMAIN kv[g] = Plugins
          /\ \A p \in Plugins : DOMAIN kv[g][p] \subseteq DOMAIN Default(p)

\* A document has no fields but those of its plugin's configuration.
LEMMA DocumentFields ==
    ASSUME NEW p, NEW given
    PROVE  DOMAIN Document(Normalize(p, given)) \subseteq DOMAIN Default(p)
<1>1. DOMAIN Normalize(p, given) = DOMAIN Default(p)
  BY DEF Normalize, Default
<1>2. DOMAIN Document(Normalize(p, given)) \subseteq DOMAIN Normalize(p, given)
  BY DEF Document
<1> QED BY <1>1, <1>2

\* Every step keeps the stored documents so.
LEMMA DocumentedStep ==
    ASSUME Documented, [Next]_vars
    PROVE  Documented'
<1>1. CASE UNCHANGED <<now, kv>>
  BY <1>1 DEF Documented
<1>2. CASE Tick
  <2>1. now' \in 0 .. MaxTime
    BY <1>2, TimesAreNatural DEF Tick, Documented
  <2> QED BY <1>2, <2>1 DEF Tick, Documented, storeVars
<1>3. ASSUME NEW r \in Requests, PutConfig(r)
      PROVE  Documented'
  <2>1. CASE UNCHANGED <<now, kv>>
    BY <1>1, <2>1
  <2>2. CASE \E p \in Plugins, given \in UNION {cast.configs[q] : q \in Plugins} :
                kv' = [kv EXCEPT ![cast.guild][p] = Document(Normalize(p, given))]
    <3>1. PICK p \in Plugins, given \in UNION {cast.configs[q] : q \in Plugins} :
                kv' = [kv EXCEPT ![cast.guild][p] = Document(Normalize(p, given))]
      BY <2>2
    <3>2. DOMAIN Document(Normalize(p, given)) \subseteq DOMAIN Default(p)
      BY DocumentFields
    <3> DEFINE doc == Document(Normalize(p, given))
    <3> HIDE DEF doc
    <3>3. kv' = [kv EXCEPT ![cast.guild][p] = doc] /\ DOMAIN doc \subseteq DOMAIN Default(p)
      BY <3>1, <3>2 DEF doc
    <3>4. now' = now
      BY <1>3 DEF PutConfig
    <3> QED BY <3>3, <3>4 DEF Documented
  <2>3. now' = now
    BY <1>3 DEF PutConfig
  <2> QED BY <1>3, <2>1, <2>2, <2>3 DEF PutConfig
<1>4. CASE Demote \/ ResolveOwner \/ Restart
  BY <1>1, <1>4 DEF Demote, ResolveOwner, Restart, storeVars
<1>5. ASSUME NEW r \in Requests, Begin(r) \/ SignInStep(r) \/ SessionStep(r)
      PROVE  UNCHANGED <<now, kv>>
  BY <1>5 DEF Begin, OnlyRequest, storeVars, SignInStep, SessionStep, Login, TakeState,
      ExchangeCode, FetchUser, PutSession, Logout, SessionRefused, SessionExpired,
      SessionAccepted
<1>6. ASSUME NEW r \in Requests, GuildsStep(r)
      PROVE  UNCHANGED <<now, kv>>
  BY <1>6 DEF OnlyRequest, storeVars, GuildsStep, FetchStep, Ask, ServeCached,
      RefuseBlocked, Join, Lead, FetchGuilds, Publish, Fallback, Wake, HangUp, Access
<1>7. ASSUME NEW r \in Requests, GuildStep(r), ~PutConfig(r)
      PROVE  UNCHANGED <<now, kv>>
  BY <1>7 DEF OnlyRequest, storeVars, GuildStep, List, Manage, LoadConfig, CountWarnings,
      CreateWarning, AuditWarning, TimeoutMember, AuditTimeout, DeleteWarning, AuditDelete
<1>8. ASSUME NEW r \in Requests, OwnerStep(r)
      PROVE  UNCHANGED <<now, kv>>
  BY <1>8 DEF OnlyRequest, storeVars, OwnerStep, Delegate, SaveSettings, CheckScaffold,
      MaterializeStarter, SignDir, WriteSignature
<1> QED BY <1>1, <1>2, <1>3, <1>4, <1>5, <1>6, <1>7, <1>8 DEF Next, vars, storeVars

\* Types, and documents that hold nothing but fields of a configuration
\* (guildconfig/config.go, Save).
THEOREM AdminTypesHold == Spec => []AdminTypeOK
<1>1. Init => Documented
  BY TimesAreNatural DEF Init, Documented, NoDocument
<1>2. AdminInv /\ Documented => AdminTypeOK
  BY DEF AdminInv, Shape, RequestShape, Documented, AdminTypeOK
<1> QED BY <1>1, <1>2, DocumentedStep, AdminInvHolds, PTL DEF Spec

=============================================================================
