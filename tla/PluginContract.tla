---------------------------- MODULE PluginContract -----------------------------
(***************************************************************************)
(* The contract between the host and a plugin (runtime/plugins/contract):  *)
(* which definitions are accepted, which routes a definition compiles to,  *)
(* which invocations are well formed and which route an invocation         *)
(* resolves to, and which outcomes a program may return for it.  Nothing   *)
(* here has state.                                                         *)
(*                                                                         *)
(* A definition is the sequence of its cogs and the sequence of its items: *)
(* commands (each before its children), then components, modals, listeners *)
(* and tasks, cog by cog.  Lengths of texts, ranges of numbers and forms of*)
(* ids, colours and URLs inside one value are one Boolean, "sound"; how    *)
(* values relate to each other is kept.                                    *)
(***************************************************************************)
EXTENDS Integers, FiniteSets, Sequences, SequencesExt

CONSTANTS
    Names,              \* slashNamePattern
    ContextNames,       \* names a user or message command may have, in lower case
    HandlerIDs,         \* handlerIDPattern
    RouteIDs,           \* routeIDPattern
    KVKeys,             \* kvKeyPattern
    MemberPermissions,  \* validMemberPermission
    LongHandlers        \* handlers whose custom id is longer than Discord allows

\* None of the patterns matches the empty text.
ASSUME TextsAreNotEmpty ==
    "" \notin Names \cup ContextNames \cup HandlerIDs \cup RouteIDs

NoRoute == ""
NoGuild == ""

ContextKinds == {"user", "message"}
TopLevelKinds == {"slash"} \cup ContextKinds
CommandKinds == TopLevelKinds \cup {"group", "subcommand"}
DeferModes == {"none", "create", "update"}
Completed == {"string", "integer", "number"}
OptionKinds == Completed \cup
    {"boolean", "user", "channel", "role", "mentionable", "attachment"}
SelectKinds == {"string", "user", "role", "mentionable", "channel"}
ChannelKinds == {"text", "voice", "thread"}

NoRepeats(s, allowed) == IsInjective(s) /\ ToSet(s) \subseteq allowed

-----------------------------------------------------------------------------
(* Definitions *)

Items(d) == DOMAIN d.items
OfKinds(d, kinds) == {k \in Items(d) : d.items[k].class \in kinds}
Children(d, k) == {j \in Items(d) : d.items[j].parent = k}
Container(d, k) == Children(d, k) # {} \/ d.items[k].class = "group"

\* The command an item is nested in, 0 when there is none.
Parent(d, k) == IF k = 0 THEN 0 ELSE d.items[k].parent

\* The names down to an item; a valid definition nests no deeper.
Path(d, k) ==
    LET p == Parent(d, k)
        q == Parent(d, p)
    IN  IF p = 0 THEN <<d.items[k].name>>
        ELSE IF q = 0 THEN <<d.items[p].name, d.items[k].name>>
        ELSE <<d.items[q].name, d.items[p].name, d.items[k].name>>

\* The kind of the top-level command an item belongs to.
RootKind(d, k) ==
    LET p == Parent(d, k)
        q == Parent(d, p)
    IN  d.items[IF p = 0 THEN k ELSE IF q = 0 THEN p ELSE q].class

\* How definitions are written down: an item of a cog comes after the command it is
\* nested in, and what is not a command stands alone and asks the user nothing.
IsDefinition(d) ==
    /\ d.cogs \in Seq(ToSet(d.cogs)) /\ d.items \in Seq(ToSet(d.items))
    /\ \A cog \in ToSet(d.cogs) : cog.checks \in Seq(ToSet(cog.checks))
    /\ \A k \in Items(d) :
           LET c == d.items[k] IN
           /\ c.class \in CommandKinds \cup {"component", "modal", "listener", "task"}
           /\ c.cog \in DOMAIN d.cogs
           /\ c.checks \in Seq(ToSet(c.checks))
           /\ c.permissions \in Seq(ToSet(c.permissions))
           /\ c.options \in Seq(ToSet(c.options))
           /\ c.parent # 0 =>
                  /\ c.parent \in 1..(k - 1) /\ c.class \in CommandKinds
                  /\ d.items[c.parent].class \in CommandKinds
                  /\ d.items[c.parent].cog = c.cog
           /\ c.class \notin CommandKinds => c.options = <<>> /\ c.permissions = <<>>

AllChecks(d) == UNION ({ToSet(cog.checks) : cog \in ToSet(d.cogs)}
                       \cup {ToSet(c.checks) : c \in ToSet(d.items)})
CheckRoutes(d) == {c.route : c \in {c \in AllChecks(d) : c.kind = "custom"}}

\* Options that offer suggestions: pairs of an item and an option's index.
Suggesting(d) ==
    UNION {{k} \X {n \in DOMAIN d.items[k].options :
                       d.items[k].options[n].suggest # NoRoute} : k \in Items(d)}
SuggestRoutes(d) == {d.items[s[1]].options[s[2]].suggest : s \in Suggesting(d)}
Owners(d) == {k \in Items(d) : ~Container(d, k)}

ValidCheck(c) ==
    \/ /\ c.kind \in {"guild_only", "owner_only"}
       /\ c.permissions = <<>> /\ c.route = NoRoute
    \/ /\ c.kind = "has_permissions"
       /\ c.permissions # <<>> /\ NoRepeats(c.permissions, MemberPermissions)
       /\ c.route = NoRoute
    \/ c.kind = "custom" /\ c.route \in RouteIDs

ValidBounds(o) ==
    o.bounds.of # "none" =>
        /\ o.kind = (IF o.bounds.of = "length" THEN "string" ELSE o.bounds.of)
        /\ o.bounds.low <= o.bounds.high
        /\ o.bounds.of = "length" => o.bounds.low >= 0

ValidChoices(o) ==
    /\ Len(o.choices) <= 25
    /\ \A m, n \in DOMAIN o.choices :
           o.choices[m].name = o.choices[n].name => m = n
    /\ o.kind \in Completed => \A c \in ToSet(o.choices) : c.kind = o.kind

ValidOption(o) ==
    /\ o.name \in Names /\ o.kind \in OptionKinds /\ o.sound
    /\ ValidBounds(o)
    /\ o.channels # <<>> => o.kind = "channel"
    /\ NoRepeats(o.channels, ChannelKinds)
    /\ o.suggest # NoRoute =>
           o.kind \in Completed /\ o.choices = <<>> /\ o.suggest \in RouteIDs
    /\ ValidChoices(o)

ValidOptions(options) ==
    /\ Len(options) <= 25
    /\ \A n \in DOMAIN options :
           /\ ValidOption(options[n])
           /\ \A m \in 1..(n - 1) :
                  /\ options[m].name # options[n].name
                  /\ options[n].required => options[m].required

ValidCommand(d, k) ==
    LET c == d.items[k]
        parts == {d.items[j].class : j \in Children(d, k)}
    IN  /\ c.name \in IF c.class \in ContextKinds THEN ContextNames ELSE Names
        /\ c.described <=> c.class \notin ContextKinds
        /\ NoRepeats(c.permissions, MemberPermissions)
        /\ c.parent # 0 => c.permissions = <<>>
        /\ IF Container(d, k)
           THEN /\ c.route = NoRoute /\ c.options = <<>>
                /\ c.defer = "none" /\ ~c.ephemeral
           ELSE c.route \in RouteIDs /\ c.defer \in {"none", "create"}
        /\ Cardinality(Children(d, k)) <= 25
        /\ c.class \in ContextKinds => c.options = <<>>
        /\ ValidOptions(c.options)
        /\ parts \subseteq CASE c.class = "slash" -> {"subcommand", "group"}
                             [] c.class = "group" -> {"subcommand"}
                             [] OTHER -> {}
        /\ c.class = "group" => parts # {}
        /\ c.parent = 0 => c.class \in TopLevelKinds

ValidComponent(c) ==
    /\ c.kinds # <<>> /\ NoRepeats(c.kinds, SelectKinds \cup {"button"})
    /\ c.defer \in DeferModes

ValidModalFields(c) ==
    /\ Len(c.fields) \in 1..5
    /\ NoRepeats([n \in DOMAIN c.fields |-> c.fields[n].id], HandlerIDs)
    /\ c.defer \in DeferModes

\* Every route has one owner; checks share routes with checks, suggestions with
\* suggestions.
RoutesApart(d) ==
    LET owned == {d.items[k].route : k \in Owners(d)}
    IN  /\ \A j, k \in Owners(d) : d.items[j].route = d.items[k].route => j = k
        /\ owned \cap CheckRoutes(d) = {}
        /\ owned \cap SuggestRoutes(d) = {}
        /\ CheckRoutes(d) \cap SuggestRoutes(d) = {}

ValidDefinition(d) ==
    /\ d.cogs # <<>> /\ \A cog \in ToSet(d.cogs) : cog.sound
    /\ IsInjective([n \in DOMAIN d.cogs |-> d.cogs[n].name])
    /\ \A c \in AllChecks(d) : ValidCheck(c)
    /\ \A kind \in TopLevelKinds :
           Cardinality({k \in OfKinds(d, {kind}) : d.items[k].parent = 0})
               <= IF kind = "slash" THEN 100 ELSE 5
    /\ \A k \in OfKinds(d, CommandKinds) :
           /\ ValidCommand(d, k)
           /\ \A j \in OfKinds(d, CommandKinds) :
                  RootKind(d, j) = RootKind(d, k) /\ Path(d, j) = Path(d, k) => j = k
    /\ \A k \in Items(d) \ OfKinds(d, CommandKinds) :
           /\ d.items[k].name \in HandlerIDs /\ d.items[k].route \in RouteIDs
           /\ \A j \in OfKinds(d, {d.items[k].class}) :
                  d.items[j].name = d.items[k].name => j = k
    /\ \A k \in OfKinds(d, {"component"}) : ValidComponent(d.items[k])
    /\ \A k \in OfKinds(d, {"modal"}) : ValidModalFields(d.items[k])
    /\ \A k \in OfKinds(d, {"listener", "task"}) : d.items[k].event # ""
    /\ RoutesApart(d)

-----------------------------------------------------------------------------
(* Compile: the signatures of a definition's routes *)

RouteType(class) == IF class \in CommandKinds THEN "command" ELSE class

Signatures(d) ==
    {[type |-> RouteType(d.items[k].class), route |-> d.items[k].route,
      item |-> k, option |-> 0] : k \in Owners(d)}
    \cup {[type |-> "autocomplete", item |-> s[1], option |-> s[2],
           route |-> d.items[s[1]].options[s[2]].suggest] : s \in Suggesting(d)}
    \cup {[type |-> "check", route |-> r, item |-> 0, option |-> 0] :
              r \in CheckRoutes(d)}

-----------------------------------------------------------------------------
(* Invocations *)

InteractionKinds == {"command", "autocomplete", "component", "modal"}
ResponseStates ==
    {"unacknowledged", "deferred_create", "deferred_update", "responded"}

ValidOptionValue(o) == o.name \in Names /\ o.kind \in OptionKinds /\ o.sound

ValidOptionValues(values) ==
    /\ Len(values) <= 25
    /\ \A o \in ToSet(values) : ValidOptionValue(o)
    /\ IsInjective([n \in DOMAIN values |-> values[n].name])

ValidContext(v) ==
    /\ v.member => v.guild # NoGuild /\ v.author
    /\ v.permissions \subseteq MemberPermissions
    /\ v.kind \in InteractionKinds \cup {"check"} => v.author

ValidEntries(v) ==
    v.entries # <<>> => v.guild # NoGuild /\ NoRepeats(v.entries, KVKeys)

ValidState(v) ==
    IF v.kind \notin InteractionKinds THEN v.state = "none"
    ELSE /\ v.state \in ResponseStates
         /\ v.kind = "command" => v.state # "deferred_update"
         /\ v.kind = "autocomplete" => v.state = "unacknowledged"
         /\ v.kind = "modal" /\ v.state = "deferred_update" => v.origin = "component"

ValidOrigin(v) == IF v.kind = "modal" THEN v.origin \in {"command", "component"}
                                      ELSE v.origin = "none"

ValidCommandInput(v) ==
    /\ Len(v.path) \in 1..3 /\ "" \notin ToSet(v.path)
    /\ v.class \in TopLevelKinds
    /\ IF v.class = "slash" THEN v.target = "none" /\ ValidOptionValues(v.options)
       ELSE v.target = v.class /\ v.options = <<>>

ValidAutocompleteInput(v) ==
    /\ Len(v.path) \in 1..3 /\ "" \notin ToSet(v.path)
    /\ ValidOptionValue(v.focused) /\ v.focused.name = v.name
    /\ ValidOptionValues(v.options)

ValidComponentInput(v) ==
    /\ v.name \in HandlerIDs
    /\ \/ v.class = "button" /\ v.options = <<>>
       \/ /\ v.class \in SelectKinds
          /\ ValidOptionValues(v.options)
          /\ \A o \in ToSet(v.options) : o.kind = v.class

ValidModalInput(v) ==
    /\ v.name \in HandlerIDs /\ Len(v.fields) \in 1..5
    /\ NoRepeats([n \in DOMAIN v.fields |-> v.fields[n].id], HandlerIDs)

ValidInvocation(v) ==
    /\ v.route \in RouteIDs
    /\ ValidContext(v) /\ ValidEntries(v) /\ ValidState(v) /\ ValidOrigin(v)
    /\ v.kind = "command" => ValidCommandInput(v)
    /\ v.kind = "autocomplete" => ValidAutocompleteInput(v)
    /\ v.kind = "component" => ValidComponentInput(v)
    /\ v.kind = "modal" => ValidModalInput(v)
    /\ v.kind \in {"event", "task"} => v.name # ""

-----------------------------------------------------------------------------
(* Resolve: the route an invocation belongs to *)

\* Mutation: the state before the deferral is expected.
MatchesDefer_Before(c, v) == v.state = "unacknowledged"

MatchesDefer(c, v) ==
    v.state = CASE c.defer = "create" -> "deferred_create"
                [] c.defer = "update" -> "deferred_update"
                [] OTHER -> "unacknowledged"

\* Within the bounds, kinds, server and choices the option declares.
ValidRuntimeOption(value, o, guild) ==
    /\ o.bounds.of # "none" => value.measure \in o.bounds.low..o.bounds.high
    /\ value.kind = "channel" =>
           o.channels = <<>> \/ value.channel \in ToSet(o.channels)
    /\ value.kind \in {"channel", "role", "mentionable"} =>
           guild = NoGuild \/ value.guild \in {NoGuild, guild}
    /\ o.choices # <<>> =>
           \E c \in ToSet(o.choices) : c.kind = value.kind /\ c.value = value.value

ValidRuntimeOptions(values, options, complete, guild) ==
    /\ IsInjective([n \in DOMAIN values |-> values[n].name])
    /\ \A value \in ToSet(values) : \E o \in ToSet(options) :
           /\ o.name = value.name /\ o.kind = value.kind
           /\ ValidRuntimeOption(value, o, guild)
    /\ complete => \A o \in ToSet(options) :
           o.required => \E value \in ToSet(values) : value.name = o.name

ValidFields(values, fields) ==
    /\ \A value \in ToSet(values) : \E f \in ToSet(fields) : f.id = value.id
    /\ \A f \in ToSet(fields) : f.required =>
           \E value \in ToSet(values) : value.id = f.id /\ ~value.empty

MatchesCommand(d, k, v) ==
    LET c == d.items[k] IN
    /\ v.class = RootKind(d, k) /\ v.path = Path(d, k) /\ MatchesDefer(c, v)
    /\ ValidRuntimeOptions(v.options, c.options, TRUE, v.guild)

MatchesOption(d, k, n, v) ==
    LET o == d.items[k].options[n] IN
    /\ v.path = Path(d, k) /\ v.name = o.name /\ v.focused.kind = o.kind
    /\ ValidRuntimeOptions(v.options, d.items[k].options, FALSE, v.guild)

MatchesComponent(c, v) ==
    v.name = c.name /\ v.class \in ToSet(c.kinds) /\ MatchesDefer(c, v)

MatchesModal(c, v) ==
    v.name = c.name /\ MatchesDefer(c, v) /\ ValidFields(v.fields, c.fields)

Matches(d, s, v) ==
    LET c == d.items[s.item] IN
    /\ v.kind = CASE s.type = "listener" -> "event" [] OTHER -> s.type
    /\ s.type = "command" => MatchesCommand(d, s.item, v)
    /\ s.type = "autocomplete" => MatchesOption(d, s.item, s.option, v)
    /\ s.type = "component" => MatchesComponent(c, v)
    /\ s.type = "modal" => MatchesModal(c, v)
    /\ s.type = "listener" => v.name = c.event
    /\ s.type = "task" => v.name = c.name

Matching(d, v) ==
    {s \in {s \in Signatures(d) : s.route = v.route} : Matches(d, s, v)}

Resolves(d, v) == ValidInvocation(v) /\ Cardinality(Matching(d, v)) = 1

-----------------------------------------------------------------------------
(* Outcomes: a sequence of operations *)

Replies == {"message", "update", "edit", "modal", "choices"}
Sends == {"send_channel", "send_dm"}
MemberChanges == {"timeout", "slowmode", "nickname"}
EmojiChanges == {"emoji", "create_emoji"}
StickerChanges == {"sticker", "create_sticker"}
OfAuthor == {"timezone", "check_in"}
DomainOperations ==
    Sends \cup MemberChanges \cup EmojiChanges \cup StickerChanges \cup OfAuthor
        \cup {"purge", "role", "reminder", "warning", "audit"}
KVOperations == {"kv_put", "kv_delete"}

RequiredCapability(o) ==
    CASE o.kind \in KVOperations -> "storage.kv"
      [] o.kind = "timezone" -> "storage.user_settings"
      [] o.kind = "check_in" -> "storage.checkins"
      [] o.kind = "reminder" -> "storage.reminders"
      [] o.kind = "warning" -> "storage.warnings"
      [] o.kind = "audit" -> "storage.audit"
      [] o.kind \in Sends \cup {"purge"} -> "discord.messages"
      [] o.kind \in {"timeout", "nickname"} -> "discord.members"
      [] o.kind = "slowmode" -> "discord.channels"
      [] o.kind = "role" -> "discord.roles"
      [] o.kind \in EmojiChanges -> "discord.emojis"
      [] o.kind \in StickerChanges -> "discord.stickers"
      [] OTHER -> "none"

\* The parts of a row.
ValidButton(p) == IF p.kind = "link" THEN p.handler = "" ELSE p.handler \in HandlerIDs
ValidSelect(p) == p.handler \in HandlerIDs

ValidRow(row) ==
    /\ Len(row) \in 1..5
    /\ \A p \in ToSet(row) : IF p.kind \in SelectKinds THEN ValidSelect(p) /\ Len(row) = 1
                                                     ELSE ValidButton(p)

ValidRows(o) == Len(o.rows) <= 5 /\ \A row \in ToSet(o.rows) : ValidRow(row)

ValidMessage(o) == o.sound /\ (o.text \/ o.rows # <<>>) /\ ValidRows(o)

\* A patch says which of its parts it sets; it has no rows unless it sets them.
ValidPatch(o) == o.sound /\ o.sets # {} /\ ("rows" \in o.sets => ValidRows(o))

ValidModalView(o) ==
    /\ o.sound /\ o.handler \in HandlerIDs /\ Len(o.fields) \in 1..5
    /\ IsInjective([n \in DOMAIN o.fields |-> o.fields[n].id])

ValidSuggestions(o, kind) ==
    /\ o.sound /\ Len(o.choices) <= 25
    /\ \A c \in ToSet(o.choices) : c.kind = kind
    /\ IsInjective([n \in DOMAIN o.choices |-> o.choices[n].value])

ValidKV(o, v) == v.guild # NoGuild /\ o.key \in KVKeys /\ o.sound

\* An upload takes an attachment of the command it answers.
Attached(o, v) ==
    /\ v.kind = "command"
    /\ \E value \in ToSet(v.options) :
           value.kind = "attachment" /\ value.value = o.attachment

InServer(v) == v.guild # NoGuild

ValidSend(o, v) == ValidMessage(o)
ValidMemberChange(o, v) == InServer(v)
ValidPurge(o, v) == InServer(v)
ValidRoleChange(o, v) == InServer(v)
ValidEmojiChange(o, v) == InServer(v) /\ (o.kind = "create_emoji" => Attached(o, v))
ValidStickerChange(o, v) == InServer(v) /\ (o.kind = "create_sticker" => Attached(o, v))
ValidOfAuthor(o, v) == v.author
\* Scoped: a reminder in a channel, an audit entry with a target.
ValidReminder(o, v) == v.author /\ (o.scoped => InServer(v))
ValidWarning(o, v) == v.author /\ InServer(v)
ValidAudit(o, v) == o.scoped => InServer(v)

ValidDomain(o, v) ==
    /\ o.sound
    /\ CASE o.kind \in Sends -> ValidSend(o, v)
         [] o.kind \in MemberChanges -> ValidMemberChange(o, v)
         [] o.kind = "purge" -> ValidPurge(o, v)
         [] o.kind = "role" -> ValidRoleChange(o, v)
         [] o.kind \in EmojiChanges -> ValidEmojiChange(o, v)
         [] o.kind \in StickerChanges -> ValidStickerChange(o, v)
         [] o.kind \in OfAuthor -> ValidOfAuthor(o, v)
         [] o.kind = "reminder" -> ValidReminder(o, v)
         [] o.kind = "warning" -> ValidWarning(o, v)
         [] o.kind = "audit" -> ValidAudit(o, v)

FromMessage(v) ==
    \/ v.kind = "component"
    \/ v.kind = "modal" /\ v.origin = "component"

MayUpdate(v) ==
    \/ v.state = "unacknowledged" /\ FromMessage(v)
    \/ v.state = "deferred_update" /\ v.kind \in {"component", "modal"}

\* Mutation: an update needs no message to update.
ValidReply_AnyUpdate(o, v) ==
    \/ /\ o.kind = "message" /\ v.state = "unacknowledged"
       /\ v.kind \notin {"autocomplete", "event", "task"} /\ ValidMessage(o)
    \/ o.kind = "update" /\ ValidPatch(o)
    \/ o.kind = "edit" /\ v.state = "deferred_create" /\ ValidPatch(o)
    \/ /\ o.kind = "modal" /\ v.state = "unacknowledged"
       /\ v.kind \in {"command", "component"} /\ ValidModalView(o)
    \/ /\ o.kind = "choices" /\ v.kind = "autocomplete"
       /\ v.state = "unacknowledged" /\ ValidSuggestions(o, v.focused.kind)

\* What a reply may be, given how the interaction stands.
ValidReply(o, v) ==
    \/ /\ o.kind = "message" /\ v.state = "unacknowledged"
       /\ v.kind \notin {"autocomplete", "event", "task"} /\ ValidMessage(o)
    \/ o.kind = "update" /\ MayUpdate(v) /\ ValidPatch(o)
    \/ o.kind = "edit" /\ v.state = "deferred_create" /\ ValidPatch(o)
    \/ /\ o.kind = "modal" /\ v.state = "unacknowledged"
       /\ v.kind \in {"command", "component"} /\ ValidModalView(o)
    \/ /\ o.kind = "choices" /\ v.kind = "autocomplete"
       /\ v.state = "unacknowledged" /\ ValidSuggestions(o, v.focused.kind)

ValidBestEffort(o, v) == o.kind \in DomainOperations /\ ValidDomain(o, v)

ValidGuarded(o, v) ==
    /\ \/ o.kind \in DomainOperations /\ ValidDomain(o, v)
       \/ o.kind \in KVOperations /\ ValidKV(o, v)
    /\ o.failure # <<>>
    /\ o.failure[1].kind \in {"message", "edit", "update"}
    /\ ValidReply(o.failure[1], v)

ValidOperation(o, v) ==
    IF o.form # "plain"
    THEN IF o.form = "guarded" THEN ValidGuarded(o, v) ELSE ValidBestEffort(o, v)
    ELSE CASE o.kind \in Replies -> ValidReply(o, v)
           [] o.kind \in KVOperations -> ValidKV(o, v)
           [] OTHER -> v.kind # "autocomplete" /\ ValidDomain(o, v)

IsReply(o) == o.form = "plain" /\ o.kind \in Replies

ValidOutcome(outcome, v) ==
    /\ ValidInvocation(v)
    /\ Len(outcome) <= 25
    /\ \A n \in DOMAIN outcome :
           /\ ValidOperation(outcome[n], v)
           /\ IsReply(outcome[n]) => n = Len(outcome)
    /\ v.kind \in InteractionKinds /\ v.state # "responded" =>
           outcome # <<>> /\ IsReply(Last(outcome))

-----------------------------------------------------------------------------
(* ValidateOutcome: what an outcome refers to is declared *)

Supports(d, handler, kind) ==
    \E k \in OfKinds(d, {"component"}) :
        d.items[k].name = handler /\ kind \in ToSet(d.items[k].kinds)

KnownRows(d, o) ==
    \A row \in ToSet(o.rows) : \A p \in ToSet(row) :
        p.kind # "link" => Supports(d, p.handler, p.kind)

KnownModal(d, o) ==
    \E k \in OfKinds(d, {"modal"}) :
        /\ d.items[k].name = o.handler
        /\ Len(d.items[k].fields) = Len(o.fields)
        /\ ToSet(d.items[k].fields) = ToSet(o.fields)

WithRows == {"message", "update", "edit"} \cup Sends

KnownParts(d, o) ==
    /\ o.kind \in WithRows => KnownRows(d, o)
    /\ o.kind = "modal" => KnownModal(d, o)
    /\ o.failure # <<>> => KnownRows(d, o.failure[1])

AcceptedOutcome(d, v, outcome) ==
    /\ Resolves(d, v)
    /\ ValidOutcome(outcome, v)
    /\ \A o \in ToSet(outcome) : KnownParts(d, o)

\* A check allows, denies in silence, or denies with a message to the user alone.
ValidDecision(decision) ==
    CASE decision.kind \in {"allow", "deny_silent"} -> decision.denial = <<>>
      [] decision.kind = "deny_message" ->
             /\ decision.denial # <<>>
             /\ ValidMessage(decision.denial[1]) /\ decision.denial[1].ephemeral
      [] OTHER -> FALSE

AcceptedDecision(d, v, decision) ==
    /\ Resolves(d, v) /\ v.kind = "check" /\ ValidDecision(decision)
    /\ decision.kind = "deny_message" => KnownRows(d, decision.denial[1])

-----------------------------------------------------------------------------
(* Conversion to Discord's payloads (pluginbridge/starlark_bridge.go) *)

FitsCustomID(handler) == handler \notin LongHandlers

ConvertsRows(o) ==
    \A row \in ToSet(o.rows) : \A p \in ToSet(row) :
        p.kind # "link" => FitsCustomID(p.handler)

Converts(o) ==
    CASE o.kind \in WithRows -> ConvertsRows(o)
      [] o.kind = "modal" -> /\ FitsCustomID(o.handler)
                             /\ \A f \in ToSet(o.fields) : FitsCustomID(f.id)
      [] OTHER -> TRUE

=============================================================================
