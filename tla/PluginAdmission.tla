--------------------------- MODULE PluginAdmission ----------------------------
(***************************************************************************)
(* Admission of a call to a plugin and execution of its effects            *)
(* (runtime/plugins/host/effects.go) over the versioned key-value store    *)
(* (storage/postgres/plugins/kv.go).                                       *)
(*                                                                         *)
(* A call finds the plugin, loads its state, is authorized against that    *)
(* state, runs the program and executes the operations it returned.  A     *)
(* versioned write that lost a race sends the call back to loading, up to  *)
(* MaxAttempts times and only before any effect; a plugin replaced in the  *)
(* meantime sends it back to the start, once.  Other calls and reloads     *)
(* interleave between any two steps.                                       *)
(*                                                                         *)
(* The plugin has one state key.  Its value is the set of calls whose      *)
(* update it holds; version 0 stands for no row.                           *)
(***************************************************************************)
EXTENDS Integers, Sequences, FiniteSets

CONSTANTS
    Calls,          \* invocations of the plugin
    Programs,       \* the operation lists its program may return
    MaxLoads        \* bound: the plugin is loaded at most this often

\* An operation: how the plugin wrapped it, and what it does.
Wraps == {"plain", "guarded", "best"}
Effects == {"swap", "remove", "put", "drop", "act", "reply"}
Operations == [wrap : Wraps, effect : Effects]

ASSUME ProgramsAreLists == Programs \subseteq Seq(Operations)
ASSUME MaxLoadsPositive == MaxLoads \in Nat \ {0}

VARIABLES
    row,            \* the plugin_kv row: its version and value
    loaded,         \* how often the plugin was loaded
    served,         \* Host.plugins: the load being served, 0 for none
    closed,         \* plugins whose runtime was closed
    at,             \* where a call stands
    plugin,         \* admission.plugin
    mayRefresh,     \* runPrepared's allowRefresh
    attempt,        \* runPrepared's loop counter, from 1
    read,           \* prepared.State: the row it read
    ops,            \* operations left of the outcome
    executed,       \* executeOutcome's flag
    granted,        \* history: the plugin and row the authorization approved
    effectIn,       \* history: the runs of the program that had an effect
    committed,      \* history: calls whose versioned write was accepted
    overwritten     \* history: a write removed the row or ignored its version

hostVars == <<loaded, served, closed>>
histVars == <<granted, effectIn, committed, overwritten>>
vars == <<row, hostVars, at, plugin, mayRefresh, attempt, read, ops, executed,
          histVars>>

MaxAttempts == 3

NoRow == [version |-> 0, value |-> {}]
Nothing == [plugin |-> 0, row |-> NoRow]

Init ==
    /\ row = NoRow
    /\ loaded = 1
    /\ served = 1
    /\ closed = {}
    /\ at = [c \in Calls |-> "find"]
    /\ plugin = [c \in Calls |-> 0]
    /\ mayRefresh = [c \in Calls |-> TRUE]
    /\ attempt = [c \in Calls |-> 1]
    /\ read = [c \in Calls |-> NoRow]
    /\ ops = [c \in Calls |-> <<>>]
    /\ executed = [c \in Calls |-> FALSE]
    /\ granted = [c \in Calls |-> Nothing]
    /\ effectIn = [c \in Calls |-> {}]
    /\ committed = {}
    /\ overwritten = FALSE

Goto(c, stage) == at' = [at EXCEPT ![c] = stage]

-----------------------------------------------------------------------------
(* A reload puts another load of the plugin in place, or none if the bundle is
   gone; then it closes the old one. *)

Replace ==
    /\ loaded < MaxLoads
    /\ loaded' = loaded + 1
    /\ served' = loaded'
    /\ UNCHANGED <<row, closed, at, plugin, mayRefresh, attempt, read, ops,
                   executed, histVars>>

Unload ==
    /\ served # 0
    /\ served' = 0
    /\ UNCHANGED <<row, loaded, closed, at, plugin, mayRefresh, attempt, read,
                   ops, executed, histVars>>

CloseReplaced(p) ==
    /\ p <= loaded
    /\ p # served
    /\ p \notin closed
    /\ closed' = closed \cup {p}
    /\ UNCHANGED <<row, loaded, served, at, plugin, mayRefresh, attempt, read,
                   ops, executed, histVars>>

-----------------------------------------------------------------------------
(* Admit. *)

FindPlugin(c) ==
    /\ at[c] = "find"
    /\ served # 0
    /\ plugin' = [plugin EXCEPT ![c] = served]
    /\ Goto(c, "load")
    /\ UNCHANGED <<row, hostVars, mayRefresh, attempt, read, ops, executed,
                   histVars>>

\* The plugin is not loaded, or its state cannot be read.
AdmitFails(c) ==
    /\ \/ at[c] = "find" /\ served = 0
       \/ at[c] = "load"
    /\ Goto(c, "failed")
    /\ UNCHANGED <<row, hostVars, plugin, mayRefresh, attempt, read, ops,
                   executed, histVars>>

\* Mutation: a retry reads the state again and goes on unchecked.
LoadState_Trusted(c) ==
    /\ at[c] = "load"
    /\ read' = [read EXCEPT ![c] = row]
    /\ Goto(c, IF attempt[c] = 1 THEN "authorize" ELSE "invoke")
    /\ UNCHANGED <<row, hostVars, plugin, mayRefresh, attempt, ops, executed,
                   histVars>>

\* prepareInvocation, for an admission and for every retry.
LoadState(c) ==
    /\ at[c] = "load"
    /\ read' = [read EXCEPT ![c] = row]
    /\ Goto(c, "authorize")
    /\ UNCHANGED <<row, hostVars, plugin, mayRefresh, attempt, ops, executed,
                   histVars>>

\* The checks of the route pass.  A first admission waits for its Run; a
\* readmission and a retry go on to the program.
Authorize(c) ==
    /\ at[c] = "authorize"
    /\ granted' = [granted EXCEPT ![c] =
                       [plugin |-> plugin[c], row |-> read[c]]]
    /\ Goto(c, IF mayRefresh[c] /\ attempt[c] = 1
               THEN "admitted" ELSE "invoke")
    /\ UNCHANGED <<row, hostVars, plugin, mayRefresh, attempt, read, ops,
                   executed, effectIn, committed, overwritten>>

\* They deny the call, or a custom check cannot run.
Deny(c) ==
    /\ at[c] = "authorize"
    /\ Goto(c, "denied")
    /\ UNCHANGED <<row, hostVars, plugin, mayRefresh, attempt, read, ops,
                   executed, histVars>>

-----------------------------------------------------------------------------
(* runPrepared. *)

\* Admit once more, under the plugin that is loaded by then.
Readmit(c) ==
    /\ mayRefresh[c]
    /\ mayRefresh' = [mayRefresh EXCEPT ![c] = FALSE]
    /\ attempt' = [attempt EXCEPT ![c] = 1]
    /\ Goto(c, "find")

\* Run, after the response was deferred: is the admitted plugin still served?
BeginRun(c) ==
    /\ at[c] = "admitted"
    /\ IF plugin[c] = served
       THEN /\ Goto(c, "invoke")
            /\ UNCHANGED <<mayRefresh, attempt>>
       ELSE Readmit(c)
    /\ UNCHANGED <<row, hostVars, plugin, read, ops, executed, histVars>>

Invoke(c) ==
    /\ at[c] = "invoke"
    /\ plugin[c] \notin closed
    /\ Goto(c, "running")
    /\ UNCHANGED <<row, hostVars, plugin, mayRefresh, attempt, read, ops,
                   executed, histVars>>

\* A closed runtime answers with a stale error.
InvokeStale(c) ==
    /\ at[c] = "invoke"
    /\ plugin[c] \in closed
    /\ IF mayRefresh[c]
       THEN Readmit(c)
       ELSE /\ Goto(c, "failed")
            /\ UNCHANGED <<mayRefresh, attempt>>
    /\ UNCHANGED <<row, hostVars, plugin, read, ops, executed, histVars>>

\* The program returns; the runtime may have been closed while it ran.
ProgramReturns(c) ==
    /\ at[c] = "running"
    /\ \E program \in Programs : ops' = [ops EXCEPT ![c] = program]
    /\ executed' = [executed EXCEPT ![c] = FALSE]
    /\ Goto(c, "execute")
    /\ UNCHANGED <<row, hostVars, plugin, mayRefresh, attempt, read, histVars>>

ProgramFails(c) ==
    /\ at[c] = "running"
    /\ Goto(c, "failed")
    /\ UNCHANGED <<row, hostVars, plugin, mayRefresh, attempt, read, ops,
                   executed, histVars>>

-----------------------------------------------------------------------------
(* executeOutcome, one operation at a time. *)

Operation(c) == Head(ops[c])

Executing(c) == at[c] = "execute" /\ ops[c] # <<>>

\* The value a program computes from the state it was given.
NextValue(c) == read[c].value \cup {c}

\* The row a write of this call leaves, whether or not its version is checked.
Written(c) ==
    IF Operation(c).effect \in {"remove", "drop"} THEN NoRow
    ELSE [version |-> row.version + 1, value |-> NextValue(c)]

Versioned(c) == Operation(c).effect \in {"swap", "remove"}

\* Mutation: a row is overwritten whatever its version.
VersionMatches_AnyRow(c) == row.version >= read[c].version

\* CompareAndSwapPluginKV and DeletePluginKVVersion against the row.  A delete
\* that expects no row matches none.
VersionMatches(c) ==
    /\ row.version = read[c].version
    /\ Operation(c).effect = "remove" => row.version # 0

Conflicts(c) == Versioned(c) /\ ~VersionMatches(c)

NextOperation(c) ==
    /\ ops' = [ops EXCEPT ![c] = Tail(@)]
    /\ executed' = [executed EXCEPT ![c] = TRUE]
    /\ UNCHANGED at

\* What an effect that takes place changes.
TakesEffect(c) ==
    /\ ~Conflicts(c)
    /\ row' = IF Operation(c).effect = "act" THEN row ELSE Written(c)
    /\ overwritten' = (overwritten \/ Operation(c).effect \notin {"swap", "act"})
    /\ effectIn' = [effectIn EXCEPT ![c] = @ \cup {<<plugin[c], attempt[c]>>}]

EffectSucceeds(c) ==
    /\ Executing(c)
    /\ Operation(c).effect # "reply"
    /\ TakesEffect(c)
    /\ committed' = IF Operation(c).effect = "swap"
                    THEN committed \cup {c} ELSE committed
    /\ NextOperation(c)
    /\ UNCHANGED <<hostVars, plugin, mayRefresh, attempt, read, granted>>

\* An error is reported: the effect was refused or failed, or it took place and
\* only the answer was lost.
EffectFails(c) ==
    /\ Executing(c)
    /\ Operation(c).effect # "reply"
    /\ TakesEffect(c) \/ UNCHANGED <<row, overwritten, effectIn>>
    /\ IF Operation(c).wrap = "best"
       THEN NextOperation(c)
       ELSE /\ Goto(c, "failed")
            /\ UNCHANGED <<ops, executed>>
    /\ UNCHANGED <<hostVars, plugin, mayRefresh, attempt, read, granted,
                   committed>>

\* A best-effort write that lost the race is passed over.
ConflictIgnored(c) ==
    /\ Executing(c)
    /\ Conflicts(c)
    /\ Operation(c).wrap = "best"
    /\ NextOperation(c)
    /\ UNCHANGED <<row, hostVars, plugin, mayRefresh, attempt, read, histVars>>

\* Mutation: retries although an operation was executed.
MayRetry_Executed(c) == attempt[c] < MaxAttempts

\* Any other one is retried, if nothing was executed and attempts are left.
MayRetry(c) == ~executed[c] /\ attempt[c] < MaxAttempts

ConflictRetried(c) ==
    /\ Executing(c)
    /\ Conflicts(c)
    /\ Operation(c).wrap # "best"
    /\ MayRetry(c)
    /\ attempt' = [attempt EXCEPT ![c] = @ + 1]
    /\ Goto(c, "load")
    /\ UNCHANGED <<row, hostVars, plugin, mayRefresh, read, ops, executed,
                   histVars>>

ConflictReported(c) ==
    /\ Executing(c)
    /\ Conflicts(c)
    /\ Operation(c).wrap # "best"
    /\ ~MayRetry(c)
    /\ Goto(c, "conflict")
    /\ UNCHANGED <<row, hostVars, plugin, mayRefresh, attempt, read, ops,
                   executed, histVars>>

\* A response ends the outcome, and so does its last operation.
OutcomeEnds(c) ==
    /\ at[c] = "execute"
    /\ ops[c] # <<>> => Operation(c).effect = "reply"
    /\ Goto(c, "answered")
    /\ UNCHANGED <<row, hostVars, plugin, mayRefresh, attempt, read, ops,
                   executed, histVars>>

-----------------------------------------------------------------------------
Admission(c) == \/ FindPlugin(c) \/ AdmitFails(c) \/ LoadState(c)
                \/ Authorize(c) \/ Deny(c)

Running(c) == \/ BeginRun(c) \/ Invoke(c) \/ InvokeStale(c)
              \/ ProgramReturns(c) \/ ProgramFails(c)

Execution(c) == \/ EffectSucceeds(c) \/ EffectFails(c) \/ ConflictIgnored(c)
                \/ ConflictRetried(c) \/ ConflictReported(c) \/ OutcomeEnds(c)

Reload == Replace \/ Unload \/ \E p \in 1..MaxLoads : CloseReplaced(p)

Next == Reload \/ \E c \in Calls : Admission(c) \/ Running(c) \/ Execution(c)

Spec == Init /\ [][Next]_vars

-----------------------------------------------------------------------------
(* Properties *)

Ends == {"answered", "denied", "failed", "conflict"}
Stages == Ends \cup {"find", "load", "authorize", "admitted", "invoke",
                     "running", "execute"}
Row == [version : Nat, value : SUBSET Calls]

\* Every variable holds a value of its kind.
TypeOK ==
    /\ row \in Row
    /\ loaded \in 1..MaxLoads
    /\ served \in 0..MaxLoads
    /\ closed \in SUBSET (1..MaxLoads)
    /\ at \in [Calls -> Stages]
    /\ plugin \in [Calls -> 0..MaxLoads]
    /\ mayRefresh \in [Calls -> BOOLEAN]
    /\ attempt \in [Calls -> 1..MaxAttempts]
    /\ read \in [Calls -> Row]
    /\ ops \in [Calls -> Seq(Operations)]
    /\ executed \in [Calls -> BOOLEAN]
    /\ granted \in [Calls -> [plugin : 0..MaxLoads, row : Row]]
    /\ effectIn \in [Calls -> SUBSET ((1..MaxLoads) \X (1..MaxAttempts))]
    /\ committed \in SUBSET Calls
    /\ overwritten \in BOOLEAN

\* The effects of a call come from one run of its program: neither a retry nor a
\* readmission repeats what an earlier run already did (effects.go:215-255,
\* :477-509).
EffectsOfOneRun ==
    \A c \in Calls : \A r, s \in effectIn[c] : r = s

\* A program runs, and its effects are executed, only under the plugin and with
\* the state that the authorization was given for (effects.go:223-236).
RunsWhatWasAuthorized ==
    \A c \in Calls :
        at[c] \in {"invoke", "running", "execute"} =>
            granted[c] = [plugin |-> plugin[c], row |-> read[c]]

\* An accepted update stays in the value, however many calls read the same version
\* (kv.go:113-141), until some program removes the row or writes it without its
\* version.
NoLostUpdate == ~overwritten => committed \subseteq row.value

=============================================================================
