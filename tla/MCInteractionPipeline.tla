------------------------ MODULE MCInteractionPipeline -------------------------
(***************************************************************************)
(* A plugin in five bundles: the first two differ in who may warn, in what *)
(* the program answers and in their state keys, the third does not compile *)
(* because two of its routes are the same, the fourth declares no          *)
(* listener, and in the fifth commands have exchanged their routes.  A     *)
(* cast is one or two interactions with the reloads, the time and the      *)
(* failures that make it interesting.                                      *)
(***************************************************************************)
EXTENDS InteractionPipeline, TLC

CONSTANTS i1, i2, i3

MCNames == {"mod", "user", "warn", "hi", "member", "reason", "picture"}
MCContextNames == {"inspect"}
MCHandlerIDs == {"undo", "pick", "form", "why", "on_join", "sweep", "endless"}
MCRouteIDs == {"warn", "why", "hi", "inspect", "undo", "pick", "form", "joined",
               "sweep", "trusted", "endless"}
MCPermissions == {"ban", "administrator"}
MCOverrides == [p \in {<<"mod", "user", "warn">>, <<"mod">>} |->
                    IF Len(p) = 1 THEN 1 ELSE 2]

-----------------------------------------------------------------------------
(* What programs return *)

Op == [form |-> "plain", kind |-> "message", sound |-> TRUE, text |-> TRUE,
       rows |-> <<>>, sets |-> {}, handler |-> "", fields |-> <<>>, key |-> "",
       attachment |-> "", scoped |-> FALSE, choices |-> <<>>, failure |-> <<>>,
       ephemeral |-> FALSE]

Edit == [Op EXCEPT !.kind = "edit", !.sets = {"content"}]
Update == [Op EXCEPT !.kind = "update", !.sets = {"content", "rows"}]
WithButton == [Op EXCEPT !.rows = <<<<[kind |-> "button", handler |-> "undo"],
                                      [kind |-> "link", handler |-> ""]>>>>]
WithSelect == [Op EXCEPT !.rows = <<<<[kind |-> "string", handler |-> "pick"]>>>>]
TooLong == [Op EXCEPT !.rows = <<<<[kind |-> "button", handler |-> "endless"]>>>>]
Form == [Op EXCEPT !.kind = "modal", !.handler = "form",
                   !.fields = <<[id |-> "why", required |-> TRUE]>>]
Suggest == [Op EXCEPT !.kind = "choices",
                      !.choices = <<[name |-> "spam", kind |-> "string", value |-> "s"]>>]
Count == [Op EXCEPT !.kind = "kv_put", !.key = "count"]
Warn == [Op EXCEPT !.kind = "warning"]
Notify == [Op EXCEPT !.kind = "send_dm", !.form = "best_effort"]
Guard == [Op EXCEPT !.kind = "timeout", !.form = "guarded", !.failure = <<Edit>>]
Emoji == [Op EXCEPT !.kind = "create_emoji", !.attachment = "a"]

Deny == [kind |-> "deny_message", denial |-> <<[Op EXCEPT !.ephemeral = TRUE]>>]

-----------------------------------------------------------------------------
(* Definitions *)

Check(kind) == [kind |-> kind, permissions |-> <<>>, route |-> ""]
Trusted == [Check("custom") EXCEPT !.route = "trusted"]

Item(class, name, route) ==
    [class |-> class, name |-> name, parent |-> 0, cog |-> 1,
     described |-> class \notin ContextKinds, permissions |-> <<>>, route |-> route,
     defer |-> "none", ephemeral |-> FALSE, options |-> <<>>, checks |-> <<>>,
     kinds |-> <<>>, fields |-> <<>>, event |-> ""]

Option(name, kind) ==
    [name |-> name, kind |-> kind, required |-> FALSE, sound |-> TRUE,
     bounds |-> [of |-> "none", low |-> 0, high |-> 0], channels |-> <<>>,
     suggest |-> "", choices |-> <<>>]

Member == [Option("member", "user") EXCEPT !.required = TRUE]
Reason == [Option("reason", "string") EXCEPT
               !.suggest = "why", !.bounds = [of |-> "length", low |-> 1, high |-> 2]]
Picture == Option("picture", "attachment")

Commands ==
    << [Item("slash", "mod", "") EXCEPT !.permissions = <<"ban">>, !.cog = 2],
       [Item("group", "user", "") EXCEPT !.parent = 1, !.cog = 2,
            !.checks = <<Check("guild_only")>>],
       [Item("subcommand", "warn", "warn") EXCEPT !.parent = 2, !.cog = 2,
            !.defer = "create", !.options = <<Member, Reason>>],
       [Item("slash", "hi", "hi") EXCEPT !.options = <<Picture>>],
       Item("user", "inspect", "inspect") >>

Handlers ==
    << [Item("component", "undo", "undo") EXCEPT !.defer = "update",
            !.kinds = <<"button">>, !.cog = 2],
       [Item("component", "pick", "pick") EXCEPT !.kinds = <<"string">>],
       [Item("component", "endless", "endless") EXCEPT !.kinds = <<"button">>],
       [Item("modal", "form", "form") EXCEPT !.defer = "update",
            !.fields = <<[id |-> "why", required |-> TRUE]>>] >>

Automation ==
    << [Item("listener", "on_join", "joined") EXCEPT !.event = "join"],
       [Item("task", "sweep", "sweep") EXCEPT !.event = "daily"] >>

First ==
    [cogs |-> << [name |-> "main", checks |-> <<>>, sound |-> TRUE],
                 [name |-> "staff", checks |-> <<Trusted>>, sound |-> TRUE] >>,
     items |-> Commands \o Handlers \o Automation,
     keys |-> <<"count">>,
     capabilities |-> {"storage.kv", "storage.warnings", "discord.messages",
                       "discord.members", "discord.emojis"},
     events |-> {"join", "jobs"},
     code |-> [r \in MCRouteIDs |->
         CASE r = "warn" -> {<<Count, Warn, Edit>>, <<Guard, Edit>>, <<Op>>}
           [] r = "why" -> {<<Suggest>>, <<Count, Suggest>>}
           [] r = "hi" -> {<<WithButton>>, <<Notify, Form>>, <<TooLong>>, <<Emoji, Op>>,
                            <<Update>>}
           [] r = "inspect" -> {<<Form>>, <<WithSelect>>, <<Edit>>}
           [] r = "undo" -> {<<Count, Update>>, <<Op>>}
           [] r = "pick" -> {<<Update>>}
           [] r = "endless" -> {<<Form>>, <<Update>>}
           [] r = "form" -> {<<Update>>, <<Count, Op>>}
           [] r = "joined" -> {<<Count>>, <<Warn>>, <<Count, Notify>>}
           [] OTHER -> {<<>>, <<Notify>>}],
     rules |-> [r \in MCRouteIDs |-> IF r = "trusted" THEN {Allowed, Deny} ELSE {}]]

\* Only the owner may warn, and the program no longer counts.
Second ==
    [First EXCEPT !.items[2].checks = <<Check("owner_only")>>,
                  !.keys = <<>>,
                  !.capabilities = @ \ {"storage.kv"},
                  !.code["warn"] = {<<Warn, Edit>>},
                  !.rules["trusted"] = {Allowed, Silent}]

\* The user command has the route of the slash command.
Broken == [First EXCEPT !.items[5].route = "hi"]

Quiet == [Second EXCEPT !.items = Commands \o Handlers, !.events = {}]

\* Two commands have changed their routes, and two suggest along one.
Moved == [First EXCEPT !.items[4].route = "inspect", !.items[5].route = "hi",
                       !.items[4].options = <<Picture, Reason>>]

MCDefinitions == <<First, Second, Broken, Quiet, Moved>>

-----------------------------------------------------------------------------
(* What users do *)

Value(name, kind) ==
    [name |-> name, kind |-> kind, value |-> "a", measure |-> 1, channel |-> "",
     guild |-> "", sound |-> TRUE]

Act(kind, class, name) ==
    [kind |-> kind, class |-> class, path |-> <<>>, name |-> name, options |-> <<>>,
     focused |-> Value("", "string"), fields |-> <<>>, origin |-> "none",
     guild |-> "g", author |-> TRUE, member |-> TRUE, owner |-> FALSE,
     permissions |-> {"ban"}, user |-> "u", to |-> "plugin", panics |-> {},
     sees |-> 1]

Nobody == [Act("absent", "none", "") EXCEPT !.author = FALSE]
Warned == [Act("command", "slash", "") EXCEPT
               !.path = <<"mod", "user", "warn">>,
               !.options = <<Value("member", "user"), Value("reason", "string")>>]
Powerless == [Warned EXCEPT !.permissions = {}]
Shaky == [Warned EXCEPT !.panics = {"preflight", "admit", "execute", "respond"}]
Owner == [Warned EXCEPT !.owner = TRUE, !.user = "o", !.permissions = {"administrator"}]
Greet == [Act("command", "slash", "") EXCEPT !.path = <<"hi">>, !.guild = "",
              !.member = FALSE, !.options = <<Value("picture", "attachment")>>]
Inspect == [Act("command", "user", "") EXCEPT !.path = <<"inspect">>]
Typing == [Act("autocomplete", "none", "reason") EXCEPT
               !.path = <<"mod", "user", "warn">>, !.focused = Value("reason", "string"),
               !.options = <<Value("member", "user")>>]
Undo == Act("component", "button", "undo")
Endless == Act("component", "button", "endless")
Pick == [Act("component", "string", "pick") EXCEPT
             !.options = <<Value("", "string"), Value("", "string")>>]
Submit == [Act("modal", "none", "form") EXCEPT
               !.origin = "component", !.fields = <<[id |-> "why", empty |-> FALSE]>>]
Submitted == [Submit EXCEPT !.origin = "command"]
Builtin == [Act("command", "slash", "") EXCEPT
                !.path = <<"ping">>, !.to = "builtin", !.panics = {"dispatch"}]
Stranger == [Undo EXCEPT !.name = "gone", !.to = "other"]
Joined == [Act("event", "none", "join") EXCEPT !.author = FALSE, !.member = FALSE]
Sweep == [Act("task", "none", "sweep") EXCEPT !.author = FALSE, !.member = FALSE]

Cast(acts, loads, unloads, horizon, allowed) ==
    [acts |-> acts, loads |-> loads, unloads |-> unloads, horizon |-> horizon,
     faults |-> allowed]

Alone(a) == i1 :> a @@ i2 :> Nobody @@ i3 :> Nobody
Both(a, b) == i1 :> a @@ i2 :> b @@ i3 :> Nobody

\* Each way to the plugin, with a reload, an unload and a call that fails.
Ways ==
    {Cast(Alone(a), <<1, 2>>, TRUE, 0, 1) :
        a \in {Warned, Powerless, Owner, Greet, Inspect, Typing, Undo, Endless, Submit,
               Submitted, Stranger, Shaky,
               [Warned EXCEPT !.path = <<"gone">>, !.to = "other"]}}
    \cup {Cast(Alone(Owner), <<2, 3, 1>>, FALSE, 0, 0),
          Cast(Alone([Owner EXCEPT !.sees = 2]), <<3, 1, 2>>, FALSE, 0, 0)}
    \cup {Cast(Alone([a EXCEPT !.sees = 5]), <<1, 5>>, FALSE, 0, 0) :
              a \in {Inspect, Typing}}

\* One user's commands at the same time, and after a while.
Races ==
    {Cast(Both(Greet, Greet), <<1>>, FALSE, 2, 0),
     Cast(Both(Undo, Undo), <<4>>, FALSE, 2, 0),
     Cast(Both(Warned, Owner), <<4>>, FALSE, 1, 0)}

\* More panics than the dispatcher has room for.
Panics == {Cast([i \in {i1, i2, i3} |-> Builtin], <<4>>, FALSE, 0, 0)}

Automations ==
    {Cast(Both(Joined, Joined), <<1, 4>>, FALSE, 1, 0),
     Cast(Both(Sweep, Joined), <<1, 2>>, TRUE, 1, 0)}

MCCasts == Ways \cup Races \cup Panics \cup Automations

MCSelects == {Cast(Alone(Pick), <<1>>, FALSE, 0, 0)}
=============================================================================
