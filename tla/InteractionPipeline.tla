-------------------------- MODULE InteractionPipeline --------------------------
(***************************************************************************)
(* What becomes of an interaction: from the dispatcher's slots through the *)
(* restrictions and cooldowns, the choice of a route, the plugin's         *)
(* admission and its program, to the replies that Discord accepts or       *)
(* refuses (runtime/discord/appcmd, pluginbridge, router, and effects.go of*)
(* runtime/plugins/host).  Events and jobs go the same way from the        *)
(* automation's limiter on.  The plugin is replaced while all of this runs.*)
(*                                                                         *)
(* A call to Discord or to the store is a step of its own; between two     *)
(* such calls a handler takes one step.  "acts" is what the users do,      *)
(* "loads" the bundles the plugin goes through, and "horizon" and "faults" *)
(* bound the clock and the calls that fail.                                *)
(***************************************************************************)
EXTENDS PluginContract, InteractionDispatcher

CONSTANTS
    Definitions,        \* the definitions of the plugin's bundles
    Casts,              \* the situations that are explored
    SlashCooldown, ComponentCooldown, ModalCooldown,
    Bypass,             \* command names without a cooldown
    Overrides,          \* cooldowns of single commands, by path
    Burst,              \* tokens of the automation's limiter
    EventSlots          \* maximumConcurrentPluginEvents

ASSUME CooldownsAreTimes ==
    /\ SlashCooldown \in Nat /\ ComponentCooldown \in Nat /\ ModalCooldown \in Nat
    /\ \A path \in DOMAIN Overrides : Overrides[path] \in Nat
    /\ Burst \in Nat \ {0} /\ EventSlots \in Nat \ {0}

\* A bundle has a definition; state keys that its manifest was accepted with; code for
\* routes, and rules for the routes of its checks: what a program returns is a list,
\* and what a check denies with is a message.
ASSUME DefinitionsAreWellFormed ==
    \A n \in DOMAIN Definitions :
        /\ n # 0 /\ IsDefinition(Definitions[n])
        /\ NoRepeats(Definitions[n].keys, KVKeys)
        /\ \A route \in RouteIDs :
               /\ \A outcome \in Definitions[n].code[route] :
                      outcome \in Seq(ToSet(outcome))
               /\ \A decision \in Definitions[n].rules[route] :
                      decision.denial # <<>> =>
                          /\ "kind" \in DOMAIN decision.denial[1]
                          /\ decision.denial[1].kind = "message"

\* A cast loads bundles that exist, the first one before anything happens.
ASSUME CastsAreWellFormed ==
    \A c \in Casts :
        /\ c.loads \in Seq(DOMAIN Definitions) \ {<<>>}
        /\ \A i \in Interactions : c.acts[i].kind \in
               InteractionKinds \cup {"event", "task", "absent"}

VARIABLES
    cast,       \* [acts, loads, unloads, horizon, faults]
    served,     \* the bundle that is loaded, 0 when there is none
    load,       \* how many of cast.loads have been loaded
    clock,
    run,        \* where each handler stands
    view,       \* what the user sees of the answer
    last,       \* Tracker.last
    taken,      \* cooldowns that were taken
    buckets,    \* the limiter's state
    effects,    \* effects that were executed
    refused,    \* replies that Discord refused: whose, and sent by whom
    faults,     \* calls that failed
    lost,       \* interactions with a reply whose answer was lost
    interrupted \* history: whose handler panicked after a first reply

plugin == <<served, load>>
limits == <<clock, last, taken, buckets>>
discord == <<view, refused, faults, lost, interrupted>>
allVars == <<vars, cast, plugin, limits, run, discord, effects>>

act(i) == cast.acts[i]
Automated(i) == act(i).kind \in {"event", "task"}
Faulty == faults < cast.faults

\* Where a handler starts.
Start(a) == CASE a.kind = "command" -> "preflight"
              [] a.kind = "autocomplete" -> "enabled"
              [] a.kind = "absent" -> "done"
              [] a.kind \in {"event", "task"} -> "fire"
              [] OTHER -> "clock"

NewRun(a) ==
    [at |-> Start(a), now |-> 0, def |-> 0, began |-> 0, refreshed |-> FALSE,
     attempt |-> 1, item |-> 0, route |-> NoRoute, defer |-> "none",
     state |-> IF a.kind \in {"event", "task"} THEN "none" ELSE "unacknowledged",
     outcome |-> <<>>, op |-> 1, executed |-> FALSE, terminal |-> <<>>, todo |-> <<>>,
     reply |-> "none", then |-> "done", else |-> "done"]

-----------------------------------------------------------------------------
(* Cooldowns *)

\* SlashCooldownKey, ComponentCooldownKey, ModalCooldownKey.
CooldownKey(a) ==
    CASE a.kind = "command" /\ a.class = "slash" -> a.path
      [] a.kind = "command" /\ a.class # "slash" -> <<a.class>> \o a.path
      [] OTHER -> <<a.kind, a.to>>

CommandCooldown(key) ==
    IF Head(key) \in Bypass THEN 0
    ELSE IF key \in DOMAIN Overrides THEN Overrides[key]
    ELSE IF <<Head(key)>> \in DOMAIN Overrides THEN Overrides[<<Head(key)>>]
    ELSE SlashCooldown

Cooldown(a) == CASE a.kind = "command" -> CommandCooldown(CooldownKey(a))
                 [] a.kind = "component" -> ComponentCooldown
                 [] OTHER -> ModalCooldown

Mark(a) == <<a.user, CooldownKey(a)>>

Bundle(n) == Definitions[n]

\* loadOne: a definition that does not compile leaves the old bundle in place.
Loaded(n, old) == IF ValidDefinition(Bundle(n)) THEN n ELSE old

PipelineInit ==
    /\ Init
    /\ cast \in Casts
    /\ load = 1 /\ served = Loaded(Head(cast.loads), 0)
    /\ clock = 0
    /\ run = [i \in Interactions |-> NewRun(act(i))]
    /\ view = [i \in Interactions |-> "none"]
    /\ last = [m \in {Mark(act(i)) : i \in Interactions} |-> -1]
    /\ taken = {}
    /\ buckets = [k \in {<<act(i).guild, act(i).name>> : i \in Interactions} |->
                      [tokens |-> Burst, last |-> 0]]
    /\ effects = {} /\ refused = {} /\ faults = 0 /\ lost = {} /\ interrupted = {}

Active(i, at) == run[i].at = at /\ (call[i] = "running" \/ Automated(i))

Go(i, at) == run' = [run EXCEPT ![i].at = at]

\* The next step is a call to Discord; then and else say where its answer leads.
Reply(i, reply, then, else) ==
    run' = [run EXCEPT ![i] = [@ EXCEPT !.at = "reply", !.reply = reply,
                                        !.then = then, !.else = else]]

\* Where a handler goes when it has nothing left to do.
End(i) == IF Automated(i) THEN "next" ELSE "done"

-----------------------------------------------------------------------------
(* Discord *)

Initial == {"message", "defer_create", "defer_update", "update", "modal",
            "acknowledge", "choices"}

Accepts(i, reply) ==
    /\ IF reply \in Initial THEN view[i] = "none" ELSE view[i] # "none"
    /\ reply \in {"defer_update", "update"} => FromMessage(act(i))
    /\ reply = "modal" => act(i).kind \in {"command", "component"}
    /\ reply = "choices" <=> act(i).kind = "autocomplete"

Seen(reply) == CASE reply = "defer_create" -> "thinking"
                 [] reply = "defer_update" -> "deferred"
                 [] reply = "acknowledge" -> "acknowledged"
                 [] reply = "delete" -> "deleted"
                 [] OTHER -> "answered"

\* The state a handler takes the interaction to be in once its reply succeeded.
StateAfter(r) == CASE r.reply = "defer_create" -> "deferred_create"
                   [] r.reply = "defer_update" -> "deferred_update"
                   [] OTHER -> r.state

Deliver(i) ==
    /\ Active(i, "reply") /\ Accepts(i, run[i].reply)
    /\ view' = [view EXCEPT ![i] = Seen(run[i].reply)]
    /\ run' = [run EXCEPT ![i] =
                   [@ EXCEPT !.at = run[i].then, !.state = StateAfter(run[i])]]
    /\ UNCHANGED <<vars, cast, plugin, limits, refused, faults, lost, interrupted,
                   effects>>

\* The request, or the answer to it, is lost.
DeliveryFails(i) ==
    /\ Active(i, "reply") /\ Accepts(i, run[i].reply) /\ Faulty
    /\ \/ UNCHANGED <<view, lost>>
       \/ /\ view' = [view EXCEPT ![i] = Seen(run[i].reply)]
          /\ lost' = lost \cup {i}
    /\ faults' = faults + 1
    /\ Go(i, run[i].else)
    /\ UNCHANGED <<vars, cast, plugin, limits, refused, interrupted, effects>>

Refuse(i) ==
    /\ Active(i, "reply") /\ ~Accepts(i, run[i].reply)
    /\ refused' = refused \cup {[who |-> i, by |-> "handler"]}
    /\ Go(i, run[i].else)
    /\ UNCHANGED <<vars, cast, plugin, limits, view, faults, lost, interrupted, effects>>

-----------------------------------------------------------------------------
(* Before the plugin *)

LaunchHandler(i) ==
    /\ act(i).kind # "absent" /\ ~Automated(i)
    /\ Launch(i)
    /\ UNCHANGED <<cast, plugin, limits, run, discord, effects>>

FinishHandler(i) ==
    /\ run[i].at = "done"
    /\ HandlerReturns(i)
    /\ UNCHANGED <<cast, plugin, limits, run, discord, effects>>

PanicHandler(i) ==
    /\ run[i].at \in act(i).panics
    /\ HandlerPanics(i)
    /\ interrupted' = IF view[i] = "none" THEN interrupted ELSE interrupted \cup {i}
    /\ UNCHANGED <<cast, plugin, limits, run, view, refused, faults, lost, effects>>

\* Restricted users are told so; an error of the store, or of that reply, is
\* answered like any other.
CheckRestrictions(i) ==
    /\ Active(i, "preflight")
    /\ \/ Go(i, "clock")
       \/ Reply(i, "message", "done", "error")
       \/ Go(i, "error")
    /\ UNCHANGED <<vars, cast, plugin, limits, discord, effects>>

\* The time is read before the tracker's lock is taken.
ReadClock(i) ==
    /\ Active(i, "clock")
    /\ run' = [run EXCEPT ![i] = [@ EXCEPT !.at = "cooldown", !.now = clock]]
    /\ UNCHANGED <<vars, cast, plugin, limits, discord, effects>>

\* Mutation: nothing is recorded for a command that is let through.
Take_Forgets(i) ==
    LET m == Mark(act(i)) IN
    /\ Active(i, "cooldown")
    /\ IF last[m] = -1 \/ run[i].now >= last[m] + Cooldown(act(i))
       THEN /\ taken' = taken \cup {[who |-> i, mark |-> m, now |-> run[i].now]}
            /\ Go(i, "dispatch")
       ELSE /\ Reply(i, "message", "done", "done")
            /\ UNCHANGED taken
    /\ UNCHANGED <<vars, cast, plugin, clock, last, buckets, discord, effects>>

Take(i) ==
    LET m == Mark(act(i)) IN
    /\ Active(i, "cooldown")
    /\ \/ /\ Cooldown(act(i)) = 0
          /\ Go(i, "dispatch")
          /\ UNCHANGED <<last, taken>>
       \/ /\ Cooldown(act(i)) > 0
          /\ last[m] = -1 \/ run[i].now >= last[m] + Cooldown(act(i))
          /\ last' = [last EXCEPT ![m] = run[i].now]
          /\ taken' = taken \cup {[who |-> i, mark |-> m, now |-> run[i].now]}
          /\ Go(i, "dispatch")
       \/ /\ last[m] # -1 /\ run[i].now < last[m] + Cooldown(act(i))
          /\ Reply(i, "message", "done", "done")
          /\ UNCHANGED <<last, taken>>
    /\ UNCHANGED <<vars, cast, plugin, clock, buckets, discord, effects>>

\* handleRegisteredSlash, and the first steps of the component and modal handlers.
Dispatch(i) ==
    /\ Active(i, "dispatch")
    /\ \/ act(i).to = "plugin" /\ Go(i, "enabled")
       \/ act(i).to = "other" /\ IF act(i).kind = "command" THEN Go(i, "error")
                                 ELSE Reply(i, "acknowledge", "done", "done")
       \/ act(i).to = "builtin" /\ \/ Reply(i, "message", "done", "error")
                                   \/ Reply(i, "acknowledge", "done", "done")
                                   \/ Go(i, "error")
    /\ UNCHANGED <<vars, cast, plugin, limits, discord, effects>>

\* commandDisabled, guildPluginEnabled.
CheckEnabled(i) ==
    /\ Active(i, "enabled")
    /\ \/ Go(i, "plan")
       \/ act(i).guild # NoGuild /\ Go(i, "error")
       \/ /\ act(i).guild # NoGuild
          /\ Reply(i, IF act(i).kind = "autocomplete" THEN "choices" ELSE "message",
                   "done", "done")
    /\ UNCHANGED <<vars, cast, plugin, limits, discord, effects>>

-----------------------------------------------------------------------------
(* The plan and the invocation *)

\* PlanCommand, PlanComponent, PlanModal, PlanTask, PlanEvents.
Planned(d, a) ==
    CASE a.kind = "command" ->
             {k \in OfKinds(d, CommandKinds) : /\ d.items[k].route # NoRoute
                                               /\ RootKind(d, k) = a.class
                                               /\ Path(d, k) = a.path}
      [] a.kind = "autocomplete" ->
             {k \in OfKinds(d, CommandKinds) :
                  /\ d.items[k].route # NoRoute /\ RootKind(d, k) = "slash"
                  /\ Path(d, k) = a.path
                  /\ \E o \in ToSet(d.items[k].options) :
                         o.name = a.name /\ o.suggest # NoRoute}
      [] a.kind = "event" ->
             {k \in OfKinds(d, {"listener"}) : d.items[k].event = a.name}
      [] OTHER -> {k \in OfKinds(d, {a.kind}) : d.items[k].name = a.name}

PlannedRoute(d, k, a) ==
    IF a.kind # "autocomplete" THEN d.items[k].route
    ELSE (CHOOSE o \in ToSet(d.items[k].options) :
              o.name = a.name /\ o.suggest # NoRoute).suggest

\* What the conversions of input.go make of the user's input: a suggestion's
\* request holds the ids of what was chosen so far, and a select's values have no
\* name.
AutocompleteOption(o) ==
    [o EXCEPT !.kind = IF @ = "attachment" THEN "" ELSE @,
              !.channel = "text", !.guild = NoGuild]

InputOptions(a) ==
    CASE a.kind = "autocomplete" ->
             [n \in DOMAIN a.options |-> AutocompleteOption(a.options[n])]
      [] a.kind = "component" ->
             [n \in DOMAIN a.options |-> [a.options[n] EXCEPT !.name = ""]]
      [] OTHER -> a.options

\* Text inputs whose custom id is the plugin's.
InputFields(a) == SelectSeq(a.fields, LAMBDA f : FitsCustomID(f.id))

\* prepareInvocation, with the state keys of the bundle.
Invocation(d, a, route, state) ==
    [kind |-> a.kind, route |-> route, state |-> state, origin |-> a.origin,
     guild |-> a.guild, author |-> a.author, member |-> a.member,
     owner |-> a.owner, permissions |-> a.permissions,
     entries |-> IF a.guild = NoGuild THEN <<>> ELSE d.keys,
     class |-> a.class, target |-> IF a.class \in ContextKinds THEN a.class ELSE "none",
     path |-> a.path, name |-> a.name, options |-> InputOptions(a),
     focused |-> AutocompleteOption(a.focused), fields |-> InputFields(a)]

Prepared(i, d) == Invocation(d, act(i), run[i].route, run[i].state)

\* What Discord says of whoever uses it.
SentByDiscord(a) ==
    /\ a.kind \in InteractionKinds => a.author
    /\ a.member => a.guild # NoGuild /\ a.author
    /\ a.permissions \subseteq MemberPermissions
    /\ IF a.kind = "modal" THEN a.origin \in {"command", "component"}
                           ELSE a.origin = "none"
    /\ a.kind = "command" => a.class \in TopLevelKinds

\* The input Discord lets a user enter for an item: by the options, buttons and fields
\* it was given.
FitsItem(d, k, a) ==
    LET v == Invocation(d, a, NoRoute, "none")
        c == d.items[k]
    IN  /\ a.kind = "command" =>
               /\ ValidOptionValues(v.options)
               /\ a.class # "slash" => v.options = <<>>
               /\ ValidRuntimeOptions(v.options, c.options, TRUE, v.guild)
        /\ a.kind = "autocomplete" =>
               /\ ValidOptionValue(v.focused) /\ v.focused.name = a.name
               /\ \A o \in ToSet(c.options) : o.name = a.name => o.kind = v.focused.kind
               /\ ValidOptionValues(v.options)
               /\ ValidRuntimeOptions(v.options, c.options, FALSE, v.guild)
        /\ a.kind = "component" =>
               a.class = "button" /\ "button" \in ToSet(c.kinds) /\ v.options = <<>>
        /\ a.kind = "modal" =>
               /\ Len(v.fields) \in 1..5
               /\ IsInjective([n \in DOMAIN v.fields |-> v.fields[n].id])
               /\ ValidFields(v.fields, c.fields)

\* Users answer what they are shown.  Selects are left out: SelectsReachTheHandler.
ASSUME UsersSendWhatTheySee ==
    \A c \in Casts : \A i \in Interactions :
        LET a == c.acts[i]
            d == Definitions[a.sees]
        IN  a.kind # "absent" /\ a.class \notin SelectKinds =>
                /\ a.sees \in DOMAIN Definitions /\ SentByDiscord(a)
                /\ \A k \in Planned(d, a) : FitsItem(d, k, a)

\* A component of a module that is gone is acknowledged, or fails.
MakePlan(i) ==
    /\ Active(i, "plan")
    /\ \/ /\ served # 0
          /\ \E k \in Planned(Bundle(served), act(i)) :
                 run' = [run EXCEPT ![i] =
                     [@ EXCEPT !.at = "admit", !.item = k,
                               !.defer = Bundle(served).items[k].defer,
                               !.route = PlannedRoute(Bundle(served), k, act(i))]]
       \/ /\ served # 0 => Planned(Bundle(served), act(i)) = {}
          /\ Go(i, "error")
       \/ /\ served = 0 /\ act(i).kind \in {"component", "modal"}
          /\ Reply(i, "acknowledge", "done", "done")
    /\ UNCHANGED <<vars, cast, plugin, limits, discord, effects>>

-----------------------------------------------------------------------------
(* Admission *)

\* What an item is given by its cog and by the commands it is nested in.
Inherited(d, k) ==
    LET p == Parent(d, k)
        checks(j) == IF j = 0 THEN <<>> ELSE d.items[j].checks
    IN  d.cogs[d.items[k].cog].checks \o checks(Parent(d, p)) \o checks(p) \o checks(k)

DefaultPermissions(d, k) ==
    LET p == Parent(d, k)
        granted(j) == IF j = 0 THEN <<>> ELSE d.items[j].permissions
    IN  granted(Parent(d, p)) \o granted(p) \o granted(k)

\* Items with this route, or with an option that suggests along it.
Holders(d, route) ==
    {k \in Items(d) : \/ d.items[k].route = route
                      \/ \E o \in ToSet(d.items[k].options) : o.suggest = route}

\* Mutation: an item's own checks, without those of its cog and groups.
ChecksFor_Own(d, route) ==
    IF Holders(d, route) = {} THEN <<>>
    ELSE d.items[CHOOSE k \in Holders(d, route) :
                     \A j \in Holders(d, route) : k <= j].checks

\* checksForRoute: the checks of the first such item.
ChecksFor(d, route) ==
    IF Holders(d, route) = {} THEN <<>>
    ELSE LET k == CHOOSE k \in Holders(d, route) :
                      \A j \in Holders(d, route) : k <= j
             granted == DefaultPermissions(d, k)
         IN  Inherited(d, k) \o
                 (IF granted = <<>> THEN <<>>
                  ELSE <<[kind |-> "has_permissions", permissions |-> granted,
                          route |-> NoRoute]>>)

Passes(c, v) ==
    CASE c.kind = "guild_only" -> v.guild # NoGuild
      [] c.kind = "owner_only" -> v.owner
      [] c.kind = "has_permissions" ->
             \/ "administrator" \in v.permissions
             \/ ToSet(c.permissions) \subseteq v.permissions
      [] OTHER -> TRUE

Allowed == [kind |-> "allow", denial |-> <<>>]
Silent == [kind |-> "deny_silent", denial |-> <<>>]
Failed == [kind |-> "error", denial |-> <<>>]

CheckInvocation(v, c) ==
    [v EXCEPT !.route = c.route, !.kind = "check", !.state = "none", !.origin = "none"]

\* What a custom check may decide.
Decisions(d, v, c) ==
    LET u == CheckInvocation(v, c)
    IN  IF ~Resolves(d, u) THEN {Failed}
        ELSE {IF AcceptedDecision(d, u, decision) THEN decision ELSE Failed :
                  decision \in d.rules[c.route]}

\* authorizeInvocation: the simple checks, then the custom ones in order.
Authorizations(d, v) ==
    LET checks == ChecksFor(d, v.route)
        custom == SelectSeq(checks, LAMBDA c : c.kind = "custom")
        May(n) == Decisions(d, v, custom[n])
    IN  IF \E c \in ToSet(checks) : ~Passes(c, v) THEN {Silent}
        ELSE {decision \in (UNION {May(n) : n \in DOMAIN custom}) \ {Allowed} :
                  \E n \in DOMAIN custom :
                      /\ decision \in May(n)
                      /\ \A m \in 1..(n - 1) : Allowed \in May(m)}
             \cup {a \in {Allowed} : \A n \in DOMAIN custom : Allowed \in May(n)}

NoChoices == [form |-> "plain", kind |-> "choices", sound |-> TRUE, choices |-> <<>>,
              failure |-> <<>>, rows |-> <<>>]

DenialFor(v, denial) ==
    IF v.kind = "autocomplete" THEN <<NoChoices>>
    ELSE IF v.kind \in {"event", "task"} \/ denial = <<>> THEN <<>>
    ELSE IF v.state = "deferred_update"
    THEN <<[denial[1] EXCEPT !.kind = "update", !.sets = {"content", "embeds", "rows"}]>>
    ELSE denial

\* Admit, once before the first reply and again when the plugin was replaced; a
\* retry prepares and authorises again with the bundle that was admitted.  The
\* state's keys may not be readable.
Admit(i) ==
    /\ run[i].at \in {"admit", "readmit", "retry"} /\ Active(i, run[i].at)
    /\ LET n == IF run[i].at = "retry" THEN run[i].def ELSE served IN
       \/ /\ n # 0 => Prepared(i, Bundle(n)).entries # <<>>
          /\ Go(i, "error")
       \/ /\ n # 0
          /\ \E decision \in Authorizations(Bundle(n), Prepared(i, Bundle(n))) :
                 run' = [run EXCEPT ![i] =
                     CASE decision = Failed -> [@ EXCEPT !.at = "error"]
                       [] decision \notin {Failed, Allowed} ->
                              [@ EXCEPT !.at = "respond",
                                        !.terminal = DenialFor(Prepared(i, Bundle(n)),
                                                               decision.denial)]
                       [] decision = Allowed /\ @.at = "admit" ->
                              [@ EXCEPT !.at = "defer", !.def = n]
                       [] decision = Allowed /\ @.at = "readmit" ->
                              [@ EXCEPT !.at = "invoke", !.def = n, !.refreshed = TRUE,
                                        !.began = served, !.attempt = 1]
                       [] OTHER -> [@ EXCEPT !.at = "invoke"]]
    /\ UNCHANGED <<vars, cast, plugin, limits, discord, effects>>

Defer(i) ==
    /\ Active(i, "defer")
    /\ \/ /\ run[i].defer = "none" \/ act(i).kind = "autocomplete" \/ Automated(i)
          /\ Go(i, "run")
       \/ /\ run[i].defer = "create" /\ act(i).kind \in InteractionKinds \ {"autocomplete"}
          /\ Reply(i, "defer_create", "run", "error")
       \/ /\ run[i].defer = "update" /\ FromMessage(act(i))
          /\ Reply(i, "defer_update", "run", "error")
       \/ /\ run[i].defer = "update" /\ act(i).kind \in {"command", "modal"}
          /\ ~FromMessage(act(i)) /\ Go(i, "error")
    /\ UNCHANGED <<vars, cast, plugin, limits, discord, effects>>

-----------------------------------------------------------------------------
(* The program and its outcome *)

RunAdmitted(i) ==
    /\ Active(i, "run")
    /\ run' = [run EXCEPT ![i] =
                   [@ EXCEPT !.began = served,
                        !.at = IF served = run[i].def THEN "invoke" ELSE "readmit"]]
    /\ UNCHANGED <<vars, cast, plugin, limits, discord, effects>>

Granted(d, outcome) ==
    \A o \in ToSet(outcome) : RequiredCapability(o) \in d.capabilities \cup {"none"}

Invocable(d, v) ==
    Resolves(d, v) /\ (v.entries # <<>> => "storage.kv" \in d.capabilities)

\* invokeProgram: what the program returns is checked before any of it happens.
Invoke(i) ==
    LET d == Bundle(run[i].def)
        v == Prepared(i, d)
    IN  /\ Active(i, "invoke")
        /\ \/ ~Invocable(d, v) /\ Go(i, "error")
           \/ Invocable(d, v) /\ \E outcome \in d.code[v.route] :
                  IF AcceptedOutcome(d, v, outcome) /\ Granted(d, outcome)
                  THEN run' = [run EXCEPT ![i] =
                                   [@ EXCEPT !.at = "execute", !.outcome = outcome,
                                             !.op = 1, !.executed = FALSE]]
                  ELSE Go(i, "error")
        /\ UNCHANGED <<vars, cast, plugin, limits, discord, effects>>

\* The bundle that was admitted is closed by now.
InvokeStale(i) ==
    /\ Active(i, "invoke") /\ served # run[i].def
    /\ Go(i, IF run[i].refreshed THEN "error" ELSE "readmit")
    /\ UNCHANGED <<vars, cast, plugin, limits, discord, effects>>

Current(i) == run[i].outcome[run[i].op]
HasOperation(i) == Active(i, "execute") /\ run[i].op <= Len(run[i].outcome)

Finish(i, terminal) ==
    run' = [run EXCEPT ![i] = [@ EXCEPT !.at = "respond", !.terminal = terminal]]

ExecuteReply(i) ==
    /\ Active(i, "execute")
    /\ \/ run[i].op > Len(run[i].outcome) /\ Finish(i, <<>>)
       \/ HasOperation(i) /\ IsReply(Current(i)) /\ Finish(i, <<Current(i)>>)
    /\ UNCHANGED <<vars, cast, plugin, limits, discord, effects>>

Past(r) == [r EXCEPT !.op = @ + 1, !.executed = TRUE]

Effect(i) == [who |-> i, def |-> run[i].def, route |-> run[i].route,
              began |-> run[i].began, kind |-> Current(i).kind]

TakesEffect(i) ==
    /\ Current(i).kind \in Sends => Converts(Current(i))
    /\ effects' = effects \cup {Effect(i)}

ExecuteEffect(i) ==
    /\ HasOperation(i) /\ ~IsReply(Current(i))
    /\ TakesEffect(i)
    /\ run' = [run EXCEPT ![i] = Past(@)]
    /\ UNCHANGED <<vars, cast, plugin, limits, discord>>

\* An effect may have taken place although its call reports an error.
EffectFails(i) ==
    /\ HasOperation(i) /\ ~IsReply(Current(i))
    /\ \/ Current(i).form = "guarded" /\ Finish(i, Current(i).failure)
       \/ Current(i).form = "plain" /\ Go(i, "error")
       \/ Current(i).form = "best_effort" /\ run' = [run EXCEPT ![i] = Past(@)]
    /\ UNCHANGED effects \/ TakesEffect(i)
    /\ UNCHANGED <<vars, cast, plugin, limits, discord>>

\* Another write came first: start over, unless something was done already.
EffectConflicts(i) ==
    /\ HasOperation(i) /\ Current(i).kind \in KVOperations
    /\ run' = [run EXCEPT ![i] =
                   IF @.executed \/ @.attempt = 3 THEN [@ EXCEPT !.at = "error"]
                   ELSE [@ EXCEPT !.at = "retry", !.attempt = @ + 1]]
    /\ UNCHANGED <<vars, cast, plugin, limits, discord, effects>>

-----------------------------------------------------------------------------
(* The answer *)

\* The call that answers with a reply in a state; "none" when the responders of
\* commands, components and modals refuse it.
Answer(a, o, state) ==
    IF a.kind = "autocomplete" THEN IF o.kind = "choices" THEN "choices" ELSE "none"
    ELSE CASE o.kind = "message" ->
                  IF state = "deferred_create" THEN "edit" ELSE "message"
           [] o.kind = "edit" -> "edit"
           [] o.kind = "update" /\ a.kind # "command" ->
                  IF state = "deferred_update" THEN "edit" ELSE "update"
           [] o.kind = "modal" /\ a.kind # "modal" /\ state = "unacknowledged" -> "modal"
           [] OTHER -> "none"

\* Mutation: a deferred answer is left open when the program gives no reply.
AnswerNothing_Leaves(i) ==
    /\ Active(i, "respond") /\ run[i].terminal = <<>>
    /\ IF act(i).kind = "autocomplete" THEN Go(i, "error")
       ELSE IF run[i].state = "unacknowledged"
       THEN Reply(i, "acknowledge", "done", "error")
       ELSE Go(i, End(i))
    /\ UNCHANGED <<vars, cast, plugin, limits, discord, effects>>

AnswerNothing(i) ==
    /\ Active(i, "respond") /\ run[i].terminal = <<>>
    /\ IF act(i).kind = "autocomplete" THEN Go(i, "error")
       ELSE CASE run[i].state = "unacknowledged" ->
                     Reply(i, "acknowledge", "done", "error")
              [] run[i].state = "deferred_create" -> Reply(i, "delete", "done", "error")
              [] OTHER -> Go(i, End(i))
    /\ UNCHANGED <<vars, cast, plugin, limits, discord, effects>>

AnswerWith(i) ==
    /\ Active(i, "respond") /\ run[i].terminal # <<>>
    /\ LET o == run[i].terminal[1]
           answer == Answer(act(i), o, run[i].state)
       IN  IF answer = "none" \/ ~Converts(o) THEN Go(i, "error")
           ELSE Reply(i, answer, "done",
                      IF act(i).kind = "autocomplete" THEN "done" ELSE "error")
    /\ UNCHANGED <<vars, cast, plugin, limits, discord, effects>>

\* Mutation: an error is always a new message.
ReportError_Creates(i) ==
    /\ Active(i, "error")
    /\ IF Automated(i) THEN Go(i, "next")
       ELSE Reply(i, IF act(i).kind = "autocomplete" THEN "choices" ELSE "message",
                  "done", "done")
    /\ UNCHANGED <<vars, cast, plugin, limits, discord, effects>>

\* pluginCommandError, pluginComponentError, pluginModalError,
\* pluginAutocompleteError; an automation counts its failure.
ReportError(i) ==
    /\ Active(i, "error")
    /\ IF Automated(i) THEN Go(i, "next")
       ELSE Reply(i, CASE act(i).kind = "autocomplete" -> "choices"
                       [] act(i).kind # "autocomplete"
                              /\ run[i].state = "unacknowledged" -> "message"
                       [] OTHER -> "edit",
                  "done", "done")
    /\ UNCHANGED <<vars, cast, plugin, limits, discord, effects>>

\* What the dispatcher answers for a handler that found no slot or panicked: a first
\* reply, whatever the handler had sent before it panicked.  It is sent once.
Reject(w) ==
    LET i == job[w]
        reply == IF act(i).kind = "autocomplete" THEN "choices" ELSE "message"
    IN  /\ RunRejection(w)
        /\ \/ /\ Accepts(i, reply)
              /\ view' = [view EXCEPT ![i] = "answered"]
              /\ UNCHANGED <<refused, faults>>
           \/ /\ Accepts(i, reply) /\ Faulty
              /\ view' \in {view, [view EXCEPT ![i] = "answered"]}
              /\ faults' = faults + 1
              /\ UNCHANGED refused
           \/ /\ ~Accepts(i, reply)
              /\ refused' = refused \cup {[who |-> i, by |-> "rejection"]}
              /\ UNCHANGED <<view, faults>>
        /\ UNCHANGED <<cast, plugin, limits, run, lost, interrupted, effects>>

-----------------------------------------------------------------------------
(* Events and jobs *)

Subscribed(a) ==
    /\ served # 0
    /\ IF a.kind = "event" THEN a.name \in Bundle(served).events
       ELSE "jobs" \in Bundle(served).events

Firing == {i \in Interactions :
               act(i).kind = "event" /\ run[i].at \notin {"fire", "done"}}

\* An event nobody subscribes to is ignored, one that finds no slot is lost; the
\* scheduler runs a job in a goroutine of its own.
Fire(i) ==
    /\ Active(i, "fire")
    /\ Go(i, IF act(i).kind = "event"
                /\ (~Subscribed(act(i)) \/ Cardinality(Firing) >= EventSlots)
             THEN "done" ELSE "limit")
    /\ UNCHANGED <<vars, cast, plugin, limits, discord, effects>>

Least(a, b) == IF a < b THEN a ELSE b

\* What an automation is about to call: items and their routes as they are now.
Targets(i) ==
    IF ~Subscribed(act(i)) THEN <<>>
    ELSE LET d == Bundle(served)
             items == SetToSortSeq(Planned(d, act(i)), <)
         IN  [n \in DOMAIN items |->
                 [item |-> items[n], route |-> d.items[items[n]].route]]

\* tokenBucketLimiter; an event takes its token before its permission and its plans
\* are looked up, a job afterwards.
TakeToken(i) ==
    LET k == <<act(i).guild, act(i).name>>
        b == buckets[k]
        tokens == Least(Burst, b.tokens + (clock - b.last))
        asks == act(i).kind = "event" \/ Targets(i) # <<>>
    IN  /\ Active(i, "limit")
        /\ buckets' = IF ~asks THEN buckets
                      ELSE [buckets EXCEPT ![k] =
                               [tokens |-> IF tokens < 1 THEN tokens ELSE tokens - 1,
                                last |-> clock]]
        /\ run' = [run EXCEPT ![i] =
               IF asks /\ tokens >= 1 THEN [@ EXCEPT !.at = "next", !.todo = Targets(i)]
               ELSE [@ EXCEPT !.at = "done"]]
        /\ UNCHANGED <<vars, cast, plugin, clock, last, taken, discord, effects>>

\* Each listener in turn, whatever became of the one before; Run admits and runs.
NextListener(i) ==
    /\ Active(i, "next")
    /\ run' = [run EXCEPT ![i] =
           IF @.todo = <<>> THEN [@ EXCEPT !.at = "done"]
           ELSE [NewRun(act(i)) EXCEPT
                     !.at = "admit", !.todo = Tail(run[i].todo),
                     !.item = Head(run[i].todo).item,
                     !.route = Head(run[i].todo).route]]
    /\ UNCHANGED <<vars, cast, plugin, limits, discord, effects>>

-----------------------------------------------------------------------------
(* The plugin and the time *)

Reload ==
    /\ load < Len(cast.loads)
    /\ load' = load + 1
    /\ served' = Loaded(cast.loads[load'], served)
    /\ UNCHANGED <<vars, cast, limits, run, discord, effects>>

Unload ==
    /\ cast.unloads /\ served # 0
    /\ served' = 0
    /\ UNCHANGED <<vars, cast, load, limits, run, discord, effects>>

Tick ==
    /\ clock < cast.horizon
    /\ clock' = clock + 1
    /\ UNCHANGED <<vars, cast, plugin, last, taken, buckets, run, discord, effects>>

-----------------------------------------------------------------------------
Beyond == <<cast, plugin, limits, run, discord, effects>>

DispatcherStep(i) ==
    \/ CallStep(i) /\ UNCHANGED Beyond
    \/ Reject(i)
    \/ /\ Receive(i) \/ ReceiveNothing(i) \/ Release(i) \/ LookAgain(i) \/ Restart(i)
       /\ UNCHANGED Beyond

HandlerPart(i) ==
    \/ CheckRestrictions(i) \/ ReadClock(i) \/ Take(i) \/ Dispatch(i)
    \/ CheckEnabled(i) \/ MakePlan(i) \/ Admit(i) \/ Defer(i)

ProgramPart(i) ==
    \/ RunAdmitted(i) \/ Invoke(i) \/ InvokeStale(i) \/ ExecuteReply(i)
    \/ ExecuteEffect(i) \/ EffectFails(i) \/ EffectConflicts(i)

AnswerPart(i) ==
    \/ AnswerNothing(i) \/ AnswerWith(i) \/ ReportError(i)
    \/ Deliver(i) \/ DeliveryFails(i) \/ Refuse(i)

AutomationPart(i) ==
    Fire(i) \/ TakeToken(i) \/ NextListener(i)

PipelineStep(i) ==
    \/ LaunchHandler(i) \/ FinishHandler(i) \/ PanicHandler(i) \/ DispatcherStep(i)
    \/ HandlerPart(i) \/ ProgramPart(i) \/ AnswerPart(i) \/ AutomationPart(i)

PipelineNext ==
    (\E i \in Interactions : PipelineStep(i)) \/ Reload \/ Unload \/ Tick

PipelineSpec == PipelineInit /\ [][PipelineNext]_allVars

\* As in the dispatcher: goroutines are scheduled, handlers need not return.
FairPipelineSpec ==
    PipelineSpec /\ \A i \in Interactions : WF_allVars(DispatcherStep(i))

-----------------------------------------------------------------------------
(* Properties *)

\* Discord is sent a reply that does not fit how the interaction stands - a second
\* first reply, an edit of an answer that was never opened, a modal for a modal - in
\* two cases only.  By a handler, after the answer to an earlier reply of it got lost:
\* else the state it carries along, the denials and errors on its way and the reload's
\* second admission all agree on what was sent before.  And by the dispatcher, for a
\* handler that panicked after its first reply: a rejection is always a first reply
\* itself (dispatcher.go:50, component.go:87).
RepliesFit ==
    \A r \in refused :
        IF r.by = "handler" THEN r.who \in lost ELSE r.who \in interrupted

\* Nothing is to come any more: the handler returned or ended otherwise, and no
\* rejection of it waits or runs.
AtRest(i) ==
    /\ call[i] = "done" /\ i \notin ToSet(queue)
    /\ \A w \in Interactions : ~(worker[w] = "run" /\ job[w] = i)

\* When no call failed, an interaction is answered in the end, whichever way it went
\* through denials, errors and reloads, and also when it found no slot or its handler
\* panicked.  Two cases are left: a rejection the full queue dropped leaves it without
\* an answer (dispatcher.go:86), and a panic after a deferral leaves it "thinking".
AnsweredAtTheEnd ==
    \A i \in Interactions :
        AtRest(i) /\ faults = 0 =>
            /\ view[i] = "none" => i \in dropped
            /\ view[i] = "thinking" => i \in interrupted

\* What ValidateOutcome and ValidateCheckDecision let through, the responders can
\* send: no reply is refused after the program's effects have happened, unless a
\* custom id becomes too long, and an event or a job never has one.
AcceptedIsAnswerable ==
    \A i \in Interactions :
        Active(i, "respond") /\ run[i].terminal # <<>> =>
            /\ ~Automated(i)
            /\ Converts(run[i].terminal[1]) =>
                   LET answer == Answer(act(i), run[i].terminal[1], run[i].state)
                   IN  answer # "none" /\ (i \notin lost => Accepts(i, answer))

\* The commands an item sits under, itself included.
Above(d, k) ==
    {j \in Items(d) : j = k \/ \E n \in 1..2 :
         d.items[j].route = NoRoute /\ j < k /\ Len(Path(d, k)) > n
         /\ Path(d, j) = SubSeq(Path(d, k), 1, n) /\ d.items[j].cog = d.items[k].cog}

\* Reference: what a user needs for an item, collected without checksForRoute.
Entitled(d, k, a) ==
    LET checks == (UNION {ToSet(d.items[j].checks) : j \in Above(d, k)})
                  \cup ToSet(d.cogs[d.items[k].cog].checks)
        needed == UNION ({ToSet(d.items[j].permissions) : j \in Above(d, k)}
                         \cup {ToSet(c.permissions) :
                                   c \in {c \in checks : c.kind = "has_permissions"}})
    IN  /\ needed \subseteq a.permissions \/ "administrator" \in a.permissions
        /\ \A c \in checks : /\ c.kind = "guild_only" => a.guild # NoGuild
                             /\ c.kind = "owner_only" => a.owner

\* Commands with an option that suggests along a route.
Suggesters(d, route) ==
    {k \in Items(d) : \E o \in ToSet(d.items[k].options) : o.suggest = route}

\* An effect is one of the bundle that was loaded when the run began: one that was
\* replaced before has no effects any more, whatever it admitted.  The plugin has the
\* capability for it, and what the user did leads, by that bundle's definition, to
\* the route that ran and to an item the user is entitled to - also when the route
\* was planned by another bundle.  Suggestions of several commands along one route
\* are left out: checksForRoute takes the first of these commands for all of them.
EffectsAuthorized ==
    \A e \in effects :
        LET d == Bundle(e.def)
            a == act(e.who)
        IN  /\ e.def = e.began
            /\ RequiredCapability(e) \in d.capabilities \cup {"none"}
            /\ \E k \in Planned(d, a) :
                   /\ PlannedRoute(d, k, a) = e.route
                   /\ Suggesters(d, e.route) \subseteq {k} => Entitled(d, k, a)

\* Of two of a user's passes under one key, the later comes its own cooldown after the
\* earlier, even when the clocks of two handlers are read in one order and the
\* tracker is asked in the other.
CooldownKept ==
    \A s, t \in taken :
        s # t /\ s.mark = t.mark =>
            \/ s.now >= t.now + Cooldown(act(s.who))
            \/ t.now >= s.now + Cooldown(act(t.who))

\* Handlers about to run a bundle that the user saw and would plan them as they were.
Settled(i) ==
    LET d == Bundle(run[i].def) IN
    /\ run[i].at = "invoke" /\ act(i).sees = run[i].def
    /\ run[i].item \in Planned(d, act(i))
    /\ run[i].route = PlannedRoute(d, run[i].item, act(i))
    /\ run[i].defer = d.items[run[i].item].defer

\* The two ways to a route agree: what the plan chose by the user's path or
\* handler (effects.go), Resolve finds again from the invocation (catalog.go),
\* with the deferral that was sent meanwhile.  Selects are left out.
PlansResolve ==
    \A i \in Interactions :
        Settled(i) /\ act(i).class \notin SelectKinds
            => Resolves(Bundle(run[i].def), Prepared(i, Bundle(run[i].def)))

\* What docs/discord-api-coverage.md:56 says of string selects: the program is run
\* and gets the selected values.
SelectsReachTheHandler ==
    \A i \in Interactions :
        Settled(i) /\ act(i).class \in SelectKinds
            => Resolves(Bundle(run[i].def), Prepared(i, Bundle(run[i].def)))

=============================================================================
