------------------------------ MODULE AdminApi ------------------------------
(***************************************************************************)
(* The admin API that the dashboard calls (internal/adminapi): signing in  *)
(* through Discord's OAuth, sessions, the routes of guild managers and     *)
(* those of the bot's owner, the cached list of a user's guilds that       *)
(* authorises the former (guilds/service.go), the configuration of guilds  *)
(* (internal/guildconfig) and warnings.                                    *)
(*                                                                         *)
(* Each request runs in a goroutine of its own, so requests interleave     *)
(* between any two calls to the database or to Discord.  A random token is *)
(* unique: the OAuth state a login creates, and the session, session id    *)
(* and access token a callback creates, are named by the request.  Time is *)
(* counted in units of guildsCacheTTL.                                     *)
(***************************************************************************)
EXTENDS Naturals, FiniteSets

CONSTANTS
    Users,
    Guilds,
    Requests,
    Past,                   \* the login of an earlier run of the server
    EarlierWarnings,        \* warnings of earlier runs
    Casts,                  \* what takes part: the routes of the requests, who
                            \* sends them, what else may happen
    CacheTTL,               \* guildsCacheTTL
    StaleWhileRateLimited,  \* guildsStaleWhileRateLimited
    SessionTTL,
    RetryAfters,            \* the delays Discord asks for
    MaxTime,                \* bounds the clock
    None

Plugins == {"moderation", "wellness"}
Logins == Requests \cup {Past}

ASSUME ConstantsAreDistinct ==
    /\ Past \notin Requests
    /\ None \notin Logins
    /\ None \notin Nat
    /\ None # "manager"
    /\ EarlierWarnings \cap Requests = {}
ASSUME TimesAreNatural ==
    /\ CacheTTL \in Nat /\ SessionTTL \in Nat /\ MaxTime \in Nat
    /\ RetryAfters \subseteq Nat
    /\ StaleWhileRateLimited \in Nat \ {0} /\ CacheTTL <= StaleWhileRateLimited
\* A list that is cached from the start says what was true then.
ASSUME CastsAreWellFormed ==
    \A c \in Casts :
        /\ c.guild \in Guilds
        /\ c.standing \in {"manager", "member", None}
        /\ c.cached => c.standing = "manager"
        /\ \A call \in c.calls : call.user \in Users

\* The routes (routes.go) by what guards them.
OpenRoutes == {"login", "callback", "me", "logout"}
Listings == {"dashboard", "channels", "roles", "members", "emojis", "stickers",
             "warnings"}
ManagerRoutes == {"slowmode", "nick", "roles create", "roles edit",
                  "roles delete", "roles member", "purge"}
MediaRoutes == {"emojis create", "emojis edit", "emojis delete",
                "stickers create", "stickers edit", "stickers delete"}
GuildRoutes == {"guilds", "config", "warn", "unwarn"}
                   \cup Listings \cup ManagerRoutes \cup MediaRoutes
OwnerReads == {"status", "plugins", "search", "trusted keys"}
OwnerWrites == {"settings", "scaffold", "sign", "modules set", "plugins reload",
                "plugins install", "migrations up"}
OwnerRoutes == OwnerReads \cup OwnerWrites
\* The routes wrapped in withCSRF; those of the settings are not.
NeedsCSRF(route) ==
    route \in {"config", "warn", "unwarn"} \cup ManagerRoutes \cup MediaRoutes
                  \cup (OwnerWrites \ {"settings"})

VARIABLES
    cast,           \* what takes part in this behaviour
    now,
    \* Discord.
    standing,       \* what a user is in a guild: "manager", "member" or None
    lostAt,         \* when a user ceased to be a manager of a guild, or None
    owner,          \* the owner the bot resolved, or None
    \* Browsers.
    jar,            \* the session and state cookies of each user
    \* The server process.
    secret,         \* how many secrets there were: cookies of another are void
    stateStore,     \* OAuth states whose callback has not come
    cache,          \* the guild list of each access token
    inflight,       \* the request that fetches the list of an access token
    req,
    \* The database and the files.
    sessions,
    kv,             \* the guild_config document of each guild and plugin
    warnings,
    audit,
    settings,       \* who last wrote the files of module and permission settings
    starter,        \* the scaffolded plugin: its bundle, and what its signature covers
    \* What happened.
    opened,         \* the sessions opened, with the state each came from
    saved,          \* the configuration last accepted for a guild and plugin
    timedOut        \* the warnings after which Discord timed the member out

discordVars == <<standing, lostAt, owner>>
cacheVars == <<cache, inflight>>
storeVars == <<sessions, kv, warnings, audit, settings, starter>>
pastVars == <<opened, saved, timedOut>>
vars == <<cast, now, discordVars, jar, secret, stateStore, cacheVars, req,
          storeVars, pastVars>>

-----------------------------------------------------------------------------
(* The configuration of a guild (internal/guildconfig).  A request gives     *)
(* every field; 0 and FALSE stand for a field it leaves out.                 *)

Commands(p) == IF p = "moderation" THEN {"warn", "unwarn"}
                                   ELSE {"timezone", "checkin", "remind"}

Default(p) ==
    [enabled |-> TRUE,
     commands |-> [c \in Commands(p) |-> TRUE],
     limit |-> IF p = "moderation" THEN 3 ELSE 0,
     threshold |-> IF p = "moderation" THEN 3 ELSE 0,
     channels |-> p = "wellness"]

Clamp(value, fallback) ==
    CASE value = 0 -> fallback
      [] value > 20 -> 20
      [] OTHER -> value

MergedCommands(p, given) ==
    [c \in Commands(p) |-> IF c \in DOMAIN given THEN given[c] ELSE TRUE]

Normalize(p, cfg) ==
    [enabled |-> cfg.enabled,
     commands |-> MergedCommands(p, cfg.commands),
     limit |-> IF p = "moderation"
               THEN Clamp(cfg.limit, Default(p).limit) ELSE 0,
     threshold |-> IF p = "moderation"
                   THEN Clamp(cfg.threshold, Default(p).threshold) ELSE 0,
     channels |-> p = "wellness" /\ cfg.channels]

\* The document Save writes: the tags of PluginConfig omit zero values.
Document(cfg) ==
    LET Omitted(f) == \/ f \in {"limit", "threshold"} /\ cfg[f] = 0
                      \/ f = "channels" /\ ~cfg[f]
    IN [f \in {g \in DOMAIN cfg : ~Omitted(g)} |-> cfg[f]]

\* Load: what the document leaves out has its default.
Load(p, document) ==
    Normalize(p, [f \in DOMAIN Default(p) |->
                     IF f \in DOMAIN document THEN document[f]
                                              ELSE Default(p)[f]])

NoDocument == [f \in {} |-> None]

-----------------------------------------------------------------------------
(* State. *)

NoEntry == [fetchedAt |-> 0, expiresAt |-> 0, blockedUntil |-> 0,
            guilds |-> [g \in Guilds |-> None]]
JustFetched == [NoEntry EXCEPT !.expiresAt = CacheTTL,
                               !.guilds = [g \in Guilds |-> "manager"]]
NoCookies == [session |-> None, state |-> None]
NoRequest == [at |-> "idle", route |-> None, user |-> None,
              cookies |-> NoCookies, query |-> None, session |-> None,
              asked |-> 0, began |-> 0, reply |-> None, count |-> 0,
              limit |-> 0, threshold |-> 0, bundle |-> None]

\* A guild list that holds at least one guild (len(entry.guilds) > 0).
Nonempty(guilds) == \E g \in Guilds : guilds[g] # None

\* signCookieValue: a cookie is valid for the secret that signed it.
Sign(value) == [value |-> value, secret |-> secret]
Unsign(cookie) ==
    IF cookie # None /\ cookie.secret = secret THEN cookie.value ELSE None

Init ==
    /\ cast \in Casts
    /\ now = 0
    /\ standing = [u \in Users |-> [g \in Guilds |-> cast.standing]]
    /\ lostAt = [u \in Users |-> [g \in Guilds |-> None]]
    /\ owner = None
    /\ secret = 0
    /\ jar = [u \in Users |->
                 IF u = cast.signedIn
                 THEN [NoCookies EXCEPT !.session = [value |-> Past, secret |-> 0]]
                 ELSE NoCookies]
    /\ stateStore = {}
    /\ cache = [t \in Logins |-> IF t = Past /\ cast.cached THEN JustFetched ELSE NoEntry]
    /\ inflight = [t \in Logins |-> None]
    /\ req = [r \in Requests |-> NoRequest]
    /\ sessions = [s \in Logins |->
                      IF s = Past /\ cast.signedIn # None
                      THEN [user |-> cast.signedIn, expiresAt |-> SessionTTL]
                      ELSE None]
    /\ kv = [g \in Guilds |-> [p \in Plugins |-> NoDocument]]
    /\ warnings = {[id |-> w, guild |-> cast.guild] : w \in EarlierWarnings}
    /\ audit = {}
    /\ settings = None
    /\ starter = [bundle |-> None, signature |-> None]
    /\ opened = {}
    /\ saved = [g \in Guilds |-> [p \in Plugins |-> None]]
    /\ timedOut = {}

At(r, place) == req[r].at = place
On(r, routes) == req[r].route \in routes
Goto(r, place) == req' = [req EXCEPT ![r].at = place]
\* An answered request: what it knew is gone.
Answer(r, how) ==
    [NoRequest EXCEPT !.at = how, !.route = req[r].route, !.user = req[r].user]
Done(r) == req' = [req EXCEPT ![r] = Answer(r, "done")]
Refuse(r) == req' = [req EXCEPT ![r] = Answer(r, "refused")]
Answered(r) == req[r].at \in {"done", "refused", "lost"}

\* Only the request moves.
OnlyRequest ==
    UNCHANGED <<cast, now, discordVars, jar, secret, stateStore, cacheVars,
                storeVars, pastVars>>

May(what) == what \in cast.may

-----------------------------------------------------------------------------
(* Discord, the browsers, the clock and the process (external). *)

\* A user stops managing a guild, or leaves it.
Demote ==
    /\ May("demote")
    /\ \E u \in Users, g \in Guilds, as \in {"member", None} :
        /\ standing[u][g] = "manager"
        /\ standing' = [standing EXCEPT ![u][g] = as]
        /\ lostAt' = [lostAt EXCEPT ![u][g] = now]
    /\ UNCHANGED <<cast, now, owner, jar, secret, stateStore, cacheVars, req,
                   storeVars, pastVars>>

\* The bot learns who owns the application.
ResolveOwner ==
    /\ owner = None /\ cast.owner # None
    /\ owner' = cast.owner
    /\ UNCHANGED <<cast, now, standing, lostAt, jar, secret, stateStore,
                   cacheVars, req, storeVars, pastVars>>

\* The HTTP client gives up on Discord within a unit of time.
Tick ==
    /\ now < MaxTime /\ May("time")
    /\ \A r \in Requests : req[r].at \in {"fetch", "publish"} => req[r].began = now
    /\ now' = now + 1
    /\ UNCHANGED <<cast, discordVars, jar, secret, stateStore, cacheVars, req,
                   storeVars, pastVars>>

\* The server process ends and starts again; a generated secret is lost.
Restart ==
    /\ May("restart") /\ secret = 0
    /\ secret' \in {0, 1}
    /\ secret' = 0 => stateStore # {} \/ \E r \in Requests : req[r].at \notin {"idle", "lost"}
    /\ stateStore' = {}
    /\ cache' = [t \in Logins |-> NoEntry]
    /\ inflight' = [t \in Logins |-> None]
    /\ req' = [r \in Requests |->
                  IF At(r, "idle") \/ Answered(r) THEN req[r]
                  ELSE Answer(r, "lost")]
    /\ UNCHANGED <<cast, now, discordVars, jar, storeVars, pastVars>>

\* A browser sends a request with the cookies it has; a callback comes from a
\* redirect by Discord to a login that was answered, perhaps twice.
Begin(r) ==
    /\ At(r, "idle")
    /\ \E c \in cast.calls :
        /\ c.by = r
        /\ \E q \in Requests \cup {None} :
            /\ IF c.route = "callback"
               THEN q # None /\ req[q].route = "login" /\ At(q, "done")
               ELSE q = None
            /\ req' = [req EXCEPT ![r] =
                          [NoRequest EXCEPT
                              !.at = IF c.route \in OpenRoutes \ {"me"}
                                     THEN "open" ELSE "session",
                              !.route = c.route, !.user = c.user, !.query = q,
                              !.cookies = jar[c.user]]]
    /\ OnlyRequest

-----------------------------------------------------------------------------
(* Signing in and out (auth.go, auth/oauth.go). *)

\* handleLogin: authConfigured, then a state kept in memory and in a cookie.
Login(r) ==
    /\ At(r, "open") /\ On(r, {"login"})
    /\ IF cast.authConfigured
       THEN /\ Done(r)
            /\ stateStore' = stateStore \cup {r}
            /\ jar' = [jar EXCEPT ![req[r].user].state = Sign(r)]
       ELSE Refuse(r) /\ UNCHANGED <<stateStore, jar>>
    /\ UNCHANGED <<cast, now, discordVars, secret, cacheVars, storeVars, pastVars>>

\* Mutation: the state stays in memory for a second callback.
TakeState_Kept(r) ==
    LET state == Unsign(req[r].cookies.state)
        matches == cast.authConfigured /\ state # None /\ state = req[r].query
    IN /\ At(r, "open") /\ On(r, {"callback"})
       /\ IF matches /\ state \in stateStore THEN Goto(r, "exchange") ELSE Refuse(r)
       /\ OnlyRequest

\* handleCallback up to the end of the critical section: the state of the
\* cookie is the one Discord returned, and nobody took it.
TakeState(r) ==
    LET state == Unsign(req[r].cookies.state)
        matches == cast.authConfigured /\ state # None /\ state = req[r].query
    IN /\ At(r, "open") /\ On(r, {"callback"})
       /\ stateStore' = IF matches THEN stateStore \ {state} ELSE stateStore
       /\ IF matches /\ state \in stateStore THEN Goto(r, "exchange") ELSE Refuse(r)
       /\ UNCHANGED <<cast, now, discordVars, jar, secret, cacheVars, storeVars,
                      pastVars>>

\* No code because the user declined, or ExchangeCode.
ExchangeCode(r) ==
    /\ At(r, "exchange")
    /\ Goto(r, "identify") \/ Refuse(r)
    /\ OnlyRequest

FetchUser(r) ==
    /\ At(r, "identify")
    /\ Goto(r, "put session") \/ Refuse(r)
    /\ OnlyRequest

PutSession(r) ==
    /\ At(r, "put session")
    /\ \/ /\ Done(r)
          /\ sessions' = [sessions EXCEPT ![r] =
                 [user |-> req[r].user, expiresAt |-> now + SessionTTL]]
          /\ opened' = opened \cup {<<req[r].query, r>>}
          /\ jar' = [jar EXCEPT ![req[r].user] =
                        [NoCookies EXCEPT !.session = Sign(r)]]
       \/ May("faults") /\ Refuse(r) /\ UNCHANGED <<sessions, opened, jar>>
    /\ UNCHANGED <<cast, now, discordVars, secret, stateStore, cacheVars, kv,
                   warnings, audit, settings, starter, saved, timedOut>>

\* handleLogout: an error of the store is ignored.
Logout(r) ==
    LET s == Unsign(req[r].cookies.session)
    IN /\ At(r, "open") /\ On(r, {"logout"})
       /\ Done(r)
       /\ sessions' \in {IF s = None THEN sessions ELSE [sessions EXCEPT ![s] = None]}
                            \cup (IF May("faults") THEN {sessions} ELSE {})
       /\ jar' = [jar EXCEPT ![req[r].user].session = None]
       /\ UNCHANGED <<cast, now, discordVars, secret, stateStore, cacheVars, kv,
                      warnings, audit, settings, starter, pastVars>>

Row(r) == LET s == Unsign(req[r].cookies.session)
          IN IF s = None THEN None ELSE sessions[s]

\* readSession without a session: no cookie, another secret, no row, an error.
SessionRefused(r) ==
    /\ At(r, "session")
    /\ Row(r) = None \/ May("faults")
    /\ IF On(r, {"me"}) THEN Done(r) ELSE Refuse(r)
    /\ OnlyRequest

\* readSession of an expired row deletes all expired rows.
SessionExpired(r) ==
    /\ At(r, "session") /\ Row(r) # None
    /\ now >= Row(r).expiresAt
    /\ sessions' = [s \in Logins |->
                       IF sessions[s] # None /\ sessions[s].expiresAt <= now
                       THEN None ELSE sessions[s]]
    /\ IF On(r, {"me"}) THEN Done(r) ELSE Refuse(r)
    /\ UNCHANGED <<cast, now, discordVars, jar, secret, stateStore, cacheVars, kv,
                   warnings, audit, settings, starter, pastVars>>

\* withAuth, withOwner and withCSRF: the page may hold the token of another
\* session.  A GET needs none, and no handler behind withCSRF but that of the
\* sources asks for the method.
SessionAccepted(r) ==
    /\ At(r, "session") /\ Row(r) # None
    /\ now < Row(r).expiresAt
    /\ \E csrf \in {Unsign(req[r].cookies.session), None}, get \in BOOLEAN :
        LET allowed == /\ On(r, OwnerRoutes) => owner = Row(r).user
                       /\ NeedsCSRF(req[r].route) /\ ~get =>
                              csrf = Unsign(req[r].cookies.session)
        IN CASE ~allowed -> Refuse(r)
             [] allowed /\ On(r, {"me"}) -> Done(r)
             [] OTHER ->
                    req' = [req EXCEPT
                               ![r].at = IF On(r, GuildRoutes) THEN "ask" ELSE "act",
                               ![r].session = Unsign(req[r].cookies.session),
                               ![r].cookies = NoCookies]
    /\ OnlyRequest

-----------------------------------------------------------------------------
(* The guilds of a user (guilds/service.go, fetchGuildsCached). *)

Entry(r) == cache[req[r].session]
Blocked(r) == req[r].asked < Entry(r).blockedUntil

\* Mutation: an old list is served for as long as Discord limits the rate.
NotTooStale_Any(r) == Nonempty(Entry(r).guilds)

NotTooStale(r) ==
    /\ Nonempty(Entry(r).guilds)
    /\ req[r].asked <= Entry(r).fetchedAt + StaleWhileRateLimited
Fresh(r) == req[r].asked < Entry(r).expiresAt /\ Nonempty(Entry(r).guilds)

Reply(guilds) == [kind |-> "guilds", guilds |-> guilds]

\* now := time.Now(), before the lock.
Ask(r) ==
    /\ At(r, "ask")
    /\ req' = [req EXCEPT ![r].at = "look", ![r].asked = now]
    /\ OnlyRequest

ServeCached(r) ==
    /\ At(r, "look")
    /\ IF Blocked(r) THEN NotTooStale(r) ELSE Fresh(r)
    /\ req' = [req EXCEPT ![r].at = "access", ![r].reply = Reply(Entry(r).guilds)]
    /\ OnlyRequest

RefuseBlocked(r) ==
    /\ At(r, "look") /\ Blocked(r) /\ ~NotTooStale(r)
    /\ Refuse(r)
    /\ OnlyRequest

Join(r) ==
    /\ At(r, "look") /\ ~Blocked(r) /\ ~Fresh(r)
    /\ inflight[req[r].session] # None
    /\ Goto(r, "wait")
    /\ OnlyRequest

\* Mutation: a request fetches although another does.
Lead_Always(r) ==
    /\ At(r, "look") /\ ~Blocked(r) /\ ~Fresh(r)
    /\ inflight' = [inflight EXCEPT ![req[r].session] = r]
    /\ req' = [req EXCEPT ![r].at = "fetch", ![r].began = now]
    /\ UNCHANGED <<cast, now, discordVars, jar, secret, stateStore, cache,
                   storeVars, pastVars>>

Lead(r) ==
    /\ At(r, "look") /\ ~Blocked(r) /\ ~Fresh(r)
    /\ inflight[req[r].session] = None
    /\ inflight' = [inflight EXCEPT ![req[r].session] = r]
    /\ req' = [req EXCEPT ![r].at = "fetch", ![r].began = now]
    /\ UNCHANGED <<cast, now, discordVars, jar, secret, stateStore, cache,
                   storeVars, pastVars>>

\* FetchGuilds: Discord answers, or limits the rate, or the token is revoked, or
\* the call fails, for one because this request was cancelled.
FetchGuilds(r) ==
    /\ At(r, "fetch")
    /\ \E reply \in {Reply(standing[req[r].user])}
                       \cup [kind : {"limited"}, after : RetryAfters]
                       \cup [kind : {"failed"}] :
        req' = [req EXCEPT ![r].at = "publish", ![r].reply = reply]
    /\ OnlyRequest

\* The entry after a reply; now is still the time the leader asked.
Updated(entry, reply, asked) ==
    CASE reply.kind = "guilds" ->
            [fetchedAt |-> asked, expiresAt |-> asked + CacheTTL,
             blockedUntil |-> 0, guilds |-> reply.guilds]
      [] reply.kind = "limited" ->
            [entry EXCEPT
                !.blockedUntil = asked + reply.after,
                !.expiresAt = IF Nonempty(entry.guilds) /\ @ < asked + reply.after
                              THEN asked + reply.after ELSE @]
      [] OTHER -> entry

\* Mutation: the channel of those who wait is not closed when the call failed.
Publish_NotClosed(r) ==
    /\ At(r, "publish")
    /\ inflight' = [inflight EXCEPT ![req[r].session] = None]
    /\ cache' = [cache EXCEPT ![req[r].session] = Updated(@, req[r].reply, req[r].asked)]
    /\ IF req[r].reply.kind = "guilds" THEN Goto(r, "access") ELSE Refuse(r)
    /\ UNCHANGED <<cast, now, discordVars, jar, secret, stateStore, storeVars,
                   pastVars>>

\* The second critical section: those who wait are woken with the same reply.
Publish(r) ==
    LET t == req[r].session
        waiting == {f \in Requests : At(f, "wait") /\ req[f].session = t}
        mine == CASE req[r].reply.kind = "guilds" -> [req[r] EXCEPT !.at = "access"]
                  [] req[r].reply.kind = "limited" ->
                        [req[r] EXCEPT !.at = "fallback", !.reply = None]
                  [] OTHER -> Answer(r, "refused")
    IN /\ At(r, "publish")
       /\ inflight' = [inflight EXCEPT ![t] = None]
       /\ cache' = [cache EXCEPT ![t] = Updated(@, req[r].reply, req[r].asked)]
       /\ req' = [f \in Requests |->
                     CASE f = r -> mine
                       [] f \in waiting ->
                            [req[f] EXCEPT !.at = "woken", !.reply = req[r].reply]
                       [] OTHER -> req[f]]
       /\ UNCHANGED <<cast, now, discordVars, jar, secret, stateStore, storeVars,
                      pastVars>>

\* Only the leader falls back to an old list when Discord limits the rate.
Fallback(r) ==
    /\ At(r, "fallback")
    /\ IF NotTooStale(r)
       THEN req' = [req EXCEPT ![r].at = "access", ![r].reply = Reply(Entry(r).guilds)]
       ELSE Refuse(r)
    /\ OnlyRequest

Wake(f) ==
    /\ At(f, "woken")
    /\ IF req[f].reply.kind = "guilds" THEN Goto(f, "access") ELSE Refuse(f)
    /\ OnlyRequest

\* The client of a request that waits goes away.
HangUp(f) ==
    /\ At(f, "wait") /\ May("hang up")
    /\ Refuse(f)
    /\ OnlyRequest

\* accessibleGuild: the guild is one the user may manage.  What the route does
\* next needs no more checks of the user.
Access(r) ==
    LET may == req[r].reply.guilds[cast.guild] = "manager"
    IN /\ At(r, "access")
       /\ CASE On(r, {"guilds"}) -> Done(r)
            [] ~On(r, {"guilds"}) /\ ~may -> Refuse(r)
            [] OTHER ->
                 req' = [req EXCEPT ![r].reply = None,
                    ![r].at = CASE On(r, {"config"}) -> "put config"
                                [] On(r, {"warn", "unwarn"}) -> "load config"
                                [] On(r, Listings) -> "list"
                                [] OTHER -> "manage"]
       /\ OnlyRequest

-----------------------------------------------------------------------------
(* What the managers of a guild do (guilds/operations.go). *)

\* A listing, or 503 when the Discord runtime is not there.
List(r) ==
    /\ At(r, "list")
    /\ Done(r) \/ Refuse(r)
    /\ OnlyRequest

\* One call to Discord, unless there is no runtime or the content of a file does
\* not decode.  It names the guild, but for slowmode and purge, which name a
\* channel that nothing relates to the guild.
Manage(r) ==
    /\ At(r, "manage") /\ On(r, ManagerRoutes \cup MediaRoutes)
    /\ Done(r) \/ Refuse(r)
    /\ OnlyRequest

\* PutGuildConfig and Save: the document as a whole, whatever it was.
PutConfig(r) ==
    /\ At(r, "put config")
    /\ \/ \E p \in Plugins : \E given \in cast.configs[p] :
            LET cfg == Normalize(p, given)
            IN /\ kv' = [kv EXCEPT ![cast.guild][p] = Document(cfg)]
               /\ saved' = [saved EXCEPT ![cast.guild][p] = cfg]
               /\ Done(r)
       \/ May("faults") /\ Refuse(r) /\ UNCHANGED <<kv, saved>>
    /\ UNCHANGED <<cast, now, discordVars, jar, secret, stateStore, cacheVars,
                   sessions, warnings, audit, settings, starter, opened, timedOut>>

WarningsIn(g) == {w \in warnings : w.guild = g}

\* CreateWarning and DeleteWarning start with the configuration.
LoadConfig(r) ==
    LET cfg == Load("moderation", kv[cast.guild]["moderation"])
        enabled == cfg.enabled /\ cfg.commands[req[r].route]
    IN /\ At(r, "load config")
       /\ \/ /\ enabled
             /\ req' = [req EXCEPT
                           ![r].at = IF On(r, {"warn"}) THEN "count" ELSE "delete",
                           ![r].limit = cfg.limit, ![r].threshold = cfg.threshold]
          \/ (~enabled \/ May("faults")) /\ Refuse(r)
       /\ OnlyRequest

CountWarnings(r) ==
    LET n == Cardinality(WarningsIn(cast.guild))
    IN /\ At(r, "count")
       /\ IF n >= req[r].limit
          THEN Refuse(r)
          ELSE req' = [req EXCEPT ![r].at = "insert", ![r].count = n]
       /\ OnlyRequest

CreateWarning(r) ==
    /\ At(r, "insert")
    /\ \/ /\ warnings' = warnings \cup {[id |-> r, guild |-> cast.guild]}
          /\ Goto(r, "audit")
       \/ May("faults") /\ Refuse(r) /\ UNCHANGED warnings
    /\ UNCHANGED <<cast, now, discordVars, jar, secret, stateStore, cacheVars,
                   sessions, kv, audit, settings, starter, pastVars>>

\* Mutation: an error of the audit store is ignored, as for the other entry.
AuditWarning_Ignored(r) ==
    /\ At(r, "audit")
    /\ audit' \in {audit \cup {<<"warn.create", r>>}}
                     \cup (IF May("faults") THEN {audit} ELSE {})
    /\ IF req[r].count + 1 >= req[r].threshold THEN Goto(r, "timeout") ELSE Done(r)
    /\ UNCHANGED <<cast, now, discordVars, jar, secret, stateStore, cacheVars,
                   sessions, kv, warnings, settings, starter, pastVars>>

\* A warning that is not audited stays, and its request reports an error.
AuditWarning(r) ==
    /\ At(r, "audit")
    /\ \/ /\ audit' = audit \cup {<<"warn.create", r>>}
          /\ IF req[r].count + 1 >= req[r].threshold THEN Goto(r, "timeout") ELSE Done(r)
       \/ May("faults") /\ Refuse(r) /\ UNCHANGED audit
    /\ UNCHANGED <<cast, now, discordVars, jar, secret, stateStore, cacheVars,
                   sessions, kv, warnings, settings, starter, pastVars>>

\* A timeout that fails is told to the caller, and is no error.
TimeoutMember(r) ==
    /\ At(r, "timeout")
    /\ \/ timedOut' = timedOut \cup {r} /\ Goto(r, "audit timeout")
       \/ Done(r) /\ UNCHANGED timedOut
    /\ UNCHANGED <<cast, now, discordVars, jar, secret, stateStore, cacheVars,
                   storeVars, opened, saved>>

AuditTimeout(r) ==
    /\ At(r, "audit timeout")
    /\ Done(r)
    /\ audit' \in {audit \cup {<<"warn.timeout", r>>}}
                     \cup (IF May("faults") THEN {audit} ELSE {})
    /\ UNCHANGED <<cast, now, discordVars, jar, secret, stateStore, cacheVars,
                   sessions, kv, warnings, settings, starter, pastVars>>

\* DeleteWarning goes by the id alone; an id that does not exist is no error.
DeleteWarning(r) ==
    /\ At(r, "delete")
    /\ \/ /\ \E id \in Requests \cup EarlierWarnings :
                warnings' = {w \in warnings : w.id # id}
          /\ Goto(r, "audit delete")
       \/ May("faults") /\ Refuse(r) /\ UNCHANGED warnings
    /\ UNCHANGED <<cast, now, discordVars, jar, secret, stateStore, cacheVars,
                   sessions, kv, audit, settings, starter, pastVars>>

AuditDelete(r) ==
    /\ At(r, "audit delete")
    /\ \/ audit' = audit \cup {<<"warn.delete", r>>} /\ Done(r)
       \/ May("faults") /\ Refuse(r) /\ UNCHANGED audit
    /\ UNCHANGED <<cast, now, discordVars, jar, secret, stateStore, cacheVars,
                   sessions, kv, warnings, settings, starter, pastVars>>

-----------------------------------------------------------------------------
(* What the owner does (service).  The marketplace, the modules, reloads and *)
(* migrations are modelled in modules of their own: here they are delegated. *)

Delegate(r) ==
    /\ At(r, "act") /\ On(r, OwnerRoutes \ {"settings", "scaffold", "sign"})
    /\ Done(r) \/ Refuse(r)
    /\ OnlyRequest

\* WriteModulesFile and WritePolicyFile replace the file.
SaveSettings(r) ==
    /\ At(r, "act") /\ On(r, {"settings"})
    /\ settings' = r /\ Done(r)
    /\ UNCHANGED <<cast, now, discordVars, jar, secret, stateStore, cacheVars,
                   sessions, kv, warnings, audit, starter, pastVars>>

\* ScaffoldPlugin looks for the plugin before it writes the bundle.
CheckScaffold(r) ==
    /\ At(r, "act") /\ On(r, {"scaffold"})
    /\ IF starter.bundle = None THEN Goto(r, "materialize") ELSE Refuse(r)
    /\ OnlyRequest

\* The bundle of r becomes the active one; with Sign, SignPlugin follows.
MaterializeStarter(r) ==
    /\ At(r, "materialize")
    /\ \/ /\ starter' = [bundle |-> r, signature |-> None]
          /\ Goto(r, "sign") \/ Done(r)
       \/ May("faults") /\ Refuse(r) /\ UNCHANGED starter
    /\ UNCHANGED <<cast, now, discordVars, jar, secret, stateStore, cacheVars,
                   sessions, kv, warnings, audit, settings, pastVars>>

\* SignPlugin hashes the active bundle, or there is no key or no plugin.
SignDir(r) ==
    /\ At(r, "sign") \/ (At(r, "act") /\ On(r, {"sign"}))
    /\ \/ /\ starter.bundle # None
          /\ req' = [req EXCEPT ![r].at = "write signature",
                                ![r].bundle = starter.bundle]
       \/ Refuse(r)
    /\ OnlyRequest

\* WriteBundleSignature writes to the bundle that is active then.
WriteSignature(r) ==
    /\ At(r, "write signature")
    /\ starter' = [starter EXCEPT !.signature = req[r].bundle]
    /\ Done(r)
    /\ UNCHANGED <<cast, now, discordVars, jar, secret, stateStore, cacheVars,
                   sessions, kv, warnings, audit, settings, pastVars>>

-----------------------------------------------------------------------------

SignInStep(r) ==
    \/ Login(r) \/ TakeState(r) \/ ExchangeCode(r) \/ FetchUser(r)
    \/ PutSession(r) \/ Logout(r)
SessionStep(r) == SessionRefused(r) \/ SessionExpired(r) \/ SessionAccepted(r)
FetchStep(r) == FetchGuilds(r) \/ Publish(r)
GuildsStep(r) ==
    \/ Ask(r) \/ ServeCached(r) \/ RefuseBlocked(r) \/ Join(r) \/ Lead(r)
    \/ FetchStep(r) \/ Fallback(r) \/ Wake(r) \/ HangUp(r) \/ Access(r)
GuildStep(r) ==
    \/ List(r) \/ Manage(r) \/ PutConfig(r) \/ LoadConfig(r) \/ CountWarnings(r)
    \/ CreateWarning(r) \/ AuditWarning(r) \/ TimeoutMember(r)
    \/ AuditTimeout(r) \/ DeleteWarning(r) \/ AuditDelete(r)
OwnerStep(r) ==
    \/ Delegate(r) \/ SaveSettings(r) \/ CheckScaffold(r)
    \/ MaterializeStarter(r) \/ SignDir(r) \/ WriteSignature(r)

Next ==
    \/ Demote \/ ResolveOwner \/ Tick \/ Restart
    \/ \E r \in Requests :
        Begin(r) \/ SignInStep(r) \/ SessionStep(r) \/ GuildsStep(r)
           \/ GuildStep(r) \/ OwnerStep(r)

\* A leader's call to Discord ends (the HTTP client has a timeout) and its
\* goroutine goes on, and so do those it wakes.
Fairness == \A r \in Requests : WF_vars(FetchStep(r))

Spec == Init /\ [][Next]_vars /\ Fairness

-----------------------------------------------------------------------------
(* Properties. *)

\* Types of the state.
AdminTypeOK ==
    /\ now \in 0 .. MaxTime
    /\ stateStore \subseteq Requests
    /\ inflight \in [Logins -> Requests \cup {None}]
    /\ \A r \in Requests : req[r].session \in Logins \cup {None}
    /\ \A g \in Guilds : \A p \in Plugins : DOMAIN kv[g][p] \subseteq DOMAIN Default(p)

\* A login opens at most one session, however often Discord's redirect reaches
\* the server and whichever callbacks overlap (auth.go, handleCallback).
OneSessionPerLogin ==
    \A a, b \in opened : a[1] = b[1] => a = b

\* A request past the check of its guild comes from a user who managed that
\* guild at most StaleWhileRateLimited before the request asked, whatever was
\* cached, joined or fallen back to (guilds/service.go, fetchGuildsCached).
AuthorizedRecently ==
    \A r \in Requests :
        req[r].at \in {"put config", "load config", "list", "manage", "count",
                       "insert", "delete"} =>
            \/ standing[req[r].user][cast.guild] = "manager"
            \/ /\ lostAt[req[r].user][cast.guild] # None
               /\ req[r].asked <=
                      lostAt[req[r].user][cast.guild] + StaleWhileRateLimited

\* At most one call to Discord is out for an access token, and it is the one
\* that others join (guilds/service.go, guildsInflight).
OneFetchPerToken ==
    \A r \in Requests : req[r].at \in {"fetch", "publish"} =>
        inflight[req[r].session] = r

\* A warning that its request reported as created is in the audit log, and the
\* log names only timeouts that happened (operations.go, CreateWarning).
AuditTellsTruth ==
    /\ \A w \in warnings : w.id \in Requests =>
        \/ <<"warn.create", w.id>> \in audit
        \/ req[w.id].at \in {"audit", "refused", "lost"}
    /\ \A r \in Requests : <<"warn.timeout", r>> \in audit => r \in timedOut

\* A request that waits for another's call to Discord is answered, whatever that
\* call returns, or its server ends (guilds/service.go, fetchGuildsCached).
WaitersAnswered ==
    \A r \in Requests : At(r, "wait") ~> ~At(r, "wait")

\* The dashboard's switch and the plugin's answer say that a guild can disallow
\* channel reminders: a configuration that was accepted is the one loaded next
\* (guildconfig/config.go; wellness commands/remind.star).
ConfigIsKept ==
    \A g \in Guilds : \A p \in Plugins :
        saved[g][p] # None => Load(p, kv[g][p]) = saved[g][p]
=============================================================================
