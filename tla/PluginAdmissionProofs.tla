------------------------- MODULE PluginAdmissionProofs -------------------------
(***************************************************************************)
(* Safety of admission and execution for any number of calls and loads and *)
(* for any programs.                                                       *)
(***************************************************************************)
EXTENDS PluginAdmission, TLAPS

Chosen == {"load", "authorize", "admitted", "invoke", "running", "execute"}

\* Past "find", a call has a plugin.
PluginChosen ==
    \A c \in Calls : at[c] \in Chosen => plugin[c] \in 1..MaxLoads

\* TypeOK is inductive together with PluginChosen.
TypeInv == TypeOK /\ PluginChosen

\* A written row is a row.
LEMMA WrittenType ==
    ASSUME TypeInv, NEW c \in Calls, Executing(c)
    PROVE  Written(c) \in Row
<1>1. row.version \in Nat /\ row.version + 1 \in Nat
  BY DEF TypeInv, TypeOK, Row
<1>2. read[c].value \in SUBSET Calls
  BY DEF TypeInv, TypeOK, Row
<1> QED BY <1>1, <1>2 DEF Written, NextValue, NoRow, Row

\* The first operation of a list is one, and so are the others.
LEMMA OpsType ==
    ASSUME TypeInv, NEW c \in Calls, Executing(c)
    PROVE  Operation(c) \in Operations /\ Tail(ops[c]) \in Seq(Operations)
<1>1. ops[c] \in Seq(Operations) /\ ops[c] # <<>>
  BY DEF TypeInv, TypeOK, Executing
<1> QED BY <1>1 DEF Operation

\* The steps of an admission keep every variable's type.
LEMMA AdmissionType ==
    ASSUME TypeInv, NEW c \in Calls, Admission(c)
    PROVE  TypeInv'
<1> USE DEF TypeInv, TypeOK, PluginChosen, Stages, Ends, Chosen, Goto, hostVars,
            histVars
<1>1. CASE FindPlugin(c)    BY <1>1 DEF FindPlugin
<1>2. CASE AdmitFails(c)    BY <1>2 DEF AdmitFails
<1>3. CASE LoadState(c)     BY <1>3 DEF LoadState, Row
<1>4. CASE Authorize(c)     BY <1>4 DEF Authorize
<1>5. CASE Deny(c)          BY <1>5 DEF Deny
<1> QED BY <1>1, <1>2, <1>3, <1>4, <1>5 DEF Admission

\* A readmission keeps the type of the locals it resets.
LEMMA ReadmitType ==
    ASSUME TypeInv, NEW c \in Calls, Readmit(c)
    PROVE  /\ mayRefresh' \in [Calls -> BOOLEAN]
           /\ attempt' \in [Calls -> 1..MaxAttempts]
           /\ at' \in [Calls -> Stages]
           /\ \A d \in Calls : at'[d] \in Chosen => at[d] \in Chosen
<1> USE DEF TypeInv, TypeOK, Readmit, Goto
<1>1. mayRefresh' \in [Calls -> BOOLEAN]
  OBVIOUS
<1>2. attempt' \in [Calls -> 1..MaxAttempts]
  BY DEF MaxAttempts
<1>3. at' \in [Calls -> Stages]
  BY DEF Stages
<1>4. \A d \in Calls : at'[d] \in Chosen => at[d] \in Chosen
  BY DEF Chosen
<1> QED BY <1>1, <1>2, <1>3, <1>4

\* The steps of runPrepared keep every variable's type.
LEMMA RunningType ==
    ASSUME TypeInv, NEW c \in Calls, Running(c)
    PROVE  TypeInv'
<1> USE DEF TypeInv, TypeOK, PluginChosen, Stages, Ends, Chosen, Goto, hostVars,
            histVars, MaxAttempts
<1>1. CASE BeginRun(c)
  <2>1. CASE plugin[c] = served
    BY <1>1, <2>1 DEF BeginRun
  <2>2. CASE plugin[c] # served
    <3>1. Readmit(c)
      BY <1>1, <2>2 DEF BeginRun
    <3> QED BY <1>1, <3>1, ReadmitType DEF BeginRun
  <2> QED BY <2>1, <2>2
<1>2. CASE Invoke(c)            BY <1>2 DEF Invoke
<1>3. CASE InvokeStale(c)
  <2>1. CASE ~mayRefresh[c]
    BY <1>3, <2>1 DEF InvokeStale
  <2>2. CASE mayRefresh[c]
    <3>1. Readmit(c)
      BY <1>3, <2>2 DEF InvokeStale
    <3> QED BY <1>3, <3>1, ReadmitType DEF InvokeStale
  <2> QED BY <2>1, <2>2
<1>4. CASE ProgramReturns(c)    BY <1>4, ProgramsAreLists DEF ProgramReturns
<1>5. CASE ProgramFails(c)      BY <1>5 DEF ProgramFails
<1> QED BY <1>1, <1>2, <1>3, <1>4, <1>5 DEF Running

\* The steps of executeOutcome keep every variable's type.
LEMMA ExecutionType ==
    ASSUME TypeInv, NEW c \in Calls, Execution(c)
    PROVE  TypeInv'
<1> USE DEF TypeInv, TypeOK, PluginChosen, Stages, Ends, Chosen, Goto, hostVars,
            histVars
<1>1. ASSUME TakesEffect(c), Executing(c)
      PROVE  /\ row' \in Row /\ overwritten' \in BOOLEAN
             /\ effectIn' \in [Calls -> SUBSET ((1..MaxLoads) \X (1..MaxAttempts))]
  <2>1. row' \in Row
    BY <1>1, WrittenType DEF TakesEffect
  <2>2. <<plugin[c], attempt[c]>> \in (1..MaxLoads) \X (1..MaxAttempts)
    BY <1>1 DEF Executing
  <2>3. overwritten' \in BOOLEAN
    BY <1>1 DEF TakesEffect
  <2>4. effectIn' = [effectIn EXCEPT ![c] = @ \cup {<<plugin[c], attempt[c]>>}]
    BY <1>1 DEF TakesEffect
  <2>5. effectIn' \in [Calls -> SUBSET ((1..MaxLoads) \X (1..MaxAttempts))]
    BY <2>2, <2>4
  <2> QED BY <2>1, <2>3, <2>5
<1>2. CASE EffectSucceeds(c)
  <2>1. Executing(c) /\ NextOperation(c) /\ TakesEffect(c)
    BY <1>2 DEF EffectSucceeds
  <2>2. ops' \in [Calls -> Seq(Operations)] /\ executed' \in [Calls -> BOOLEAN]
    BY <2>1, OpsType DEF NextOperation
  <2>3. committed' \in SUBSET Calls
    BY <1>2 DEF EffectSucceeds
  <2> QED BY <1>1, <1>2, <2>1, <2>2, <2>3 DEF EffectSucceeds, NextOperation
<1>3. CASE EffectFails(c)
  <2>1. Executing(c)
    BY <1>3 DEF EffectFails
  <2>2. /\ row' \in Row /\ overwritten' \in BOOLEAN
        /\ effectIn' \in [Calls -> SUBSET ((1..MaxLoads) \X (1..MaxAttempts))]
    BY <1>1, <1>3, <2>1 DEF EffectFails
  <2> QED BY <1>3, <2>1, <2>2, OpsType DEF EffectFails, NextOperation
<1>4. CASE ConflictIgnored(c)
  BY <1>4, OpsType DEF ConflictIgnored, NextOperation
<1>5. CASE ConflictRetried(c)
  <2>1. attempt[c] + 1 \in 1..MaxAttempts
    <3>1. attempt[c] < MaxAttempts
      BY <1>5 DEF ConflictRetried, MayRetry
    <3>2. attempt[c] \in 1..MaxAttempts
      OBVIOUS
    <3> QED BY ONLY <3>1, <3>2 DEF MaxAttempts
  <2> QED BY <1>5, <2>1 DEF ConflictRetried, Executing
<1>6. CASE ConflictReported(c)
  BY <1>6 DEF ConflictReported
<1>7. CASE OutcomeEnds(c)
  BY <1>7 DEF OutcomeEnds
<1> QED BY <1>2, <1>3, <1>4, <1>5, <1>6, <1>7 DEF Execution

\* A reload keeps every variable's type.
LEMMA ReloadType ==
    ASSUME TypeInv, Reload
    PROVE  TypeInv'
<1> USE DEF TypeInv, TypeOK, PluginChosen, histVars
<1>1. CASE Replace
  BY <1>1, MaxLoadsPositive DEF Replace
<1>2. CASE Unload
  BY <1>2, MaxLoadsPositive DEF Unload
<1>3. ASSUME NEW p \in 1..MaxLoads, CloseReplaced(p) PROVE TypeInv'
  BY <1>3 DEF CloseReplaced
<1> QED BY <1>1, <1>2, <1>3 DEF Reload

\* The type invariant is inductive.
LEMMA TypeStep == TypeInv /\ [Next]_vars => TypeInv'
<1> SUFFICES ASSUME TypeInv, [Next]_vars PROVE TypeInv'
  OBVIOUS
<1>1. CASE UNCHANGED vars
  BY <1>1 DEF vars, hostVars, histVars, TypeInv, TypeOK, PluginChosen
<1> QED BY <1>1, AdmissionType, RunningType, ExecutionType, ReloadType DEF Next

\* Every reachable state is well typed, and a call past "find" has a plugin.
LEMMA TypeInvariant == Spec => []TypeInv
<1>1. ASSUME Init PROVE TypeInv
  <2>1. /\ NoRow \in Row /\ Nothing \in [plugin : 0..MaxLoads, row : Row]
        /\ 1 \in 1..MaxLoads /\ 1 \in 1..MaxAttempts
        /\ 0 \in 0..MaxLoads /\ 1 \in 0..MaxLoads
    BY MaxLoadsPositive DEF NoRow, Nothing, Row, MaxAttempts
  <2>2. committed \in SUBSET Calls /\ overwritten \in BOOLEAN
    BY <1>1 DEF Init
  <2>3. /\ granted \in [Calls -> [plugin : 0..MaxLoads, row : Row]]
        /\ effectIn \in [Calls -> SUBSET ((1..MaxLoads) \X (1..MaxAttempts))]
    BY <1>1, <2>1 DEF Init
  <2>4. /\ row \in Row /\ read \in [Calls -> Row]
        /\ plugin \in [Calls -> 0..MaxLoads]
        /\ attempt \in [Calls -> 1..MaxAttempts]
    BY <1>1, <2>1 DEF Init
  <2>5. /\ loaded \in 1..MaxLoads /\ served \in 0..MaxLoads
        /\ closed \in SUBSET (1..MaxLoads)
    BY <1>1, <2>1 DEF Init
  <2>6. /\ ops \in [Calls -> Seq(Operations)]
        /\ mayRefresh \in [Calls -> BOOLEAN]
        /\ executed \in [Calls -> BOOLEAN]
    <3>1. <<>> \in Seq(Operations)
      OBVIOUS
    <3> QED BY <1>1, <3>1 DEF Init
  <2>7. at \in [Calls -> Stages] /\ PluginChosen
    BY <1>1 DEF Init, PluginChosen, Stages, Chosen
  <2> QED BY <2>2, <2>3, <2>4, <2>5, <2>6, <2>7 DEF TypeInv, TypeOK
<1> QED BY <1>1, TypeStep, PTL DEF Spec

\* Every variable keeps its type.
THEOREM TypeCorrect == Spec => []TypeOK
<1>1. TypeInv => TypeOK
  BY DEF TypeInv
<1> QED BY <1>1, TypeInvariant, PTL

-----------------------------------------------------------------------------
(* What is run was authorized. *)

\* From the authorization on, the grant names the plugin and the state in use.
Granted ==
    \A c \in Calls :
        at[c] \in {"admitted", "invoke", "running", "execute"} =>
            granted[c] = [plugin |-> plugin[c], row |-> read[c]]

\* No step puts another plugin or state under a grant.
LEMMA GrantedStep == TypeInv /\ Granted /\ [Next]_vars => Granted'
<1> SUFFICES ASSUME TypeInv, Granted, [Next]_vars PROVE Granted'
  OBVIOUS
<1> USE DEF TypeInv, TypeOK, Granted, Goto, hostVars, histVars
<1>1. CASE UNCHANGED vars
  BY <1>1 DEF vars
<1>2. CASE Reload
  BY <1>2 DEF Reload, Replace, Unload, CloseReplaced
<1>3. ASSUME NEW c \in Calls, Admission(c) PROVE Granted'
  <2>1. CASE Authorize(c)
    BY <2>1 DEF Authorize
  <2>2. CASE FindPlugin(c) \/ AdmitFails(c) \/ Deny(c)
    BY <2>2 DEF FindPlugin, AdmitFails, Deny
  <2>3. CASE LoadState(c)
    <3>1. \A d \in Calls : d # c => at'[d] = at[d] /\ read'[d] = read[d]
      BY <2>3 DEF LoadState
    <3>2. at'[c] = "authorize" /\ UNCHANGED <<plugin, granted>>
      BY <2>3 DEF LoadState
    <3> QED BY <3>1, <3>2
  <2> QED BY <1>3, <2>1, <2>2, <2>3 DEF Admission
<1>4. ASSUME NEW c \in Calls, Running(c) PROVE Granted'
  BY <1>4 DEF Running, BeginRun, Readmit, Invoke, InvokeStale, ProgramReturns,
              ProgramFails
<1>5. ASSUME NEW c \in Calls, Execution(c) PROVE Granted'
  BY <1>5 DEF Execution, EffectSucceeds, EffectFails, TakesEffect, NextOperation,
              Executing,
              ConflictIgnored, ConflictRetried, ConflictReported, OutcomeEnds
<1> QED BY <1>1, <1>2, <1>3, <1>4, <1>5 DEF Next

\* A program runs, and its effects are executed, only as authorized.
THEOREM OnlyAuthorizedRuns == Spec => []RunsWhatWasAuthorized
<1>1. Init => Granted
  BY DEF Init, Granted
<1>2. Granted => RunsWhatWasAuthorized
  BY DEF Granted, RunsWhatWasAuthorized
<1> QED BY <1>1, <1>2, GrantedStep, TypeInvariant, PTL DEF Spec

-----------------------------------------------------------------------------
(* The effects of a call come from one run. *)

\* Before its outcome is executed a call has had no effect; from the first
\* effect on, executed forbids another run.
EffectInv ==
    \A c \in Calls :
        /\ effectIn[c] \subseteq {<<plugin[c], attempt[c]>>}
        /\ at[c] \notin Ends \cup {"execute"} => effectIn[c] = {}
        /\ at[c] = "execute" /\ ~executed[c] => effectIn[c] = {}

\* Every step keeps that account.
LEMMA EffectStep == TypeInv /\ EffectInv /\ [Next]_vars => EffectInv'
<1> SUFFICES ASSUME TypeInv, EffectInv, [Next]_vars PROVE EffectInv'
  OBVIOUS
<1> USE DEF TypeInv, TypeOK, EffectInv, Ends, Goto, hostVars, histVars
<1>1. CASE UNCHANGED vars
  BY <1>1 DEF vars
<1>2. CASE Reload
  BY <1>2 DEF Reload, Replace, Unload, CloseReplaced
<1>3. ASSUME NEW c \in Calls, Admission(c) PROVE EffectInv'
  BY <1>3 DEF Admission, FindPlugin, AdmitFails, LoadState, Authorize, Deny
<1>4. ASSUME NEW c \in Calls, Running(c) PROVE EffectInv'
  BY <1>4 DEF Running, BeginRun, Readmit, Invoke, InvokeStale, ProgramReturns,
              ProgramFails
<1>5. ASSUME NEW c \in Calls, EffectSucceeds(c) PROVE EffectInv'
  BY <1>5 DEF EffectSucceeds, TakesEffect, NextOperation, Executing
<1>6. ASSUME NEW c \in Calls, Execution(c), ~EffectSucceeds(c)
      PROVE  EffectInv'
  BY <1>6 DEF Execution, EffectFails, TakesEffect, NextOperation, Executing, MayRetry,
              ConflictIgnored, ConflictRetried, ConflictReported, OutcomeEnds
<1> QED BY <1>1, <1>2, <1>3, <1>4, <1>5, <1>6 DEF Next

\* Neither a retry nor a readmission repeats an effect.
THEOREM EffectsNotRepeated == Spec => []EffectsOfOneRun
<1>1. Init => EffectInv
  BY DEF Init, EffectInv
<1>2. EffectInv => EffectsOfOneRun
  BY DEF EffectInv, EffectsOfOneRun
<1> QED BY <1>1, <1>2, EffectStep, TypeInvariant, PTL DEF Spec

-----------------------------------------------------------------------------
(* Versioned writes lose no update. *)

\* A version names one value: who read the version of the row read the row.
UpdateInv ==
    ~overwritten =>
        /\ committed \subseteq row.value
        /\ \A c \in Calls :
               /\ read[c].version <= row.version
               /\ read[c].version = row.version => read[c] = row

\* A swap that takes place keeps what the row held, and adds its call.
LEMMA SwapKeeps ==
    ASSUME TypeInv, UpdateInv, NEW c \in Calls, TakesEffect(c), read' = read,
           \/ committed' = committed
           \/ Operation(c).effect = "swap" /\ committed' = committed \cup {c}
    PROVE  UpdateInv'
<1> SUFFICES ASSUME ~overwritten' PROVE UpdateInv'
  BY DEF UpdateInv
<1>1. ~overwritten /\ Operation(c).effect \in {"swap", "act"}
  BY DEF TakesEffect
<1>2. read' = read
  OBVIOUS
<1>3. CASE Operation(c).effect = "act"
  <2>1. UNCHANGED <<row, committed>>
    BY <1>3 DEF TakesEffect
  <2> QED BY <1>1, <1>2, <2>1 DEF UpdateInv
<1>4. CASE Operation(c).effect = "swap"
  <2>1. /\ row' = [version |-> row.version + 1, value |-> NextValue(c)]
        /\ committed' \subseteq committed \cup {c}
    BY <1>4 DEF TakesEffect, Written
  <2>2. row.version = read[c].version
    BY <1>4 DEF TakesEffect, Conflicts, Versioned, VersionMatches
  <2>3. read[c] = row
    BY <1>1, <2>2 DEF UpdateInv
  <2>4. committed' \subseteq row'.value
    BY <1>1, <2>1, <2>3 DEF UpdateInv, NextValue
  <2>5. \A d \in Calls : read[d].version \in Nat /\ row.version \in Nat
    BY DEF TypeInv, TypeOK, Row
  <2>6. \A d \in Calls : read'[d].version < row'.version
    BY <1>1, <1>2, <2>1, <2>5 DEF UpdateInv
  <2>7. \A d \in Calls :
          read'[d].version <= row'.version /\ read'[d].version # row'.version
    BY <1>2, <2>1, <2>5, <2>6
  <2> QED BY <2>4, <2>7 DEF UpdateInv
<1> QED BY <1>1, <1>3, <1>4

\* Every step keeps the account.
LEMMA UpdateStep == TypeInv /\ UpdateInv /\ [Next]_vars => UpdateInv'
<1> SUFFICES ASSUME TypeInv, UpdateInv, [Next]_vars PROVE UpdateInv'
  OBVIOUS
<1> USE DEF Goto, hostVars, histVars
<1>1. CASE UNCHANGED <<row, committed, overwritten, read>>
  BY <1>1 DEF UpdateInv
<1>2. CASE UNCHANGED vars
  BY <1>1, <1>2 DEF vars
<1>3. CASE Reload
  BY <1>1, <1>3 DEF Reload, Replace, Unload, CloseReplaced
<1>4. ASSUME NEW c \in Calls, Admission(c) PROVE UpdateInv'
  <2>1. CASE LoadState(c)
    <3>1. /\ read' = [read EXCEPT ![c] = row]
          /\ UNCHANGED <<row, committed, overwritten>>
      BY <2>1 DEF LoadState
    <3>2. row.version \in Nat /\ read \in [Calls -> Row]
      BY DEF TypeInv, TypeOK, Row
    <3> QED BY <3>1, <3>2 DEF UpdateInv
  <2> QED BY <1>1, <1>4, <2>1 DEF Admission, FindPlugin, AdmitFails, Authorize,
                                  Deny
<1>5. ASSUME NEW c \in Calls, Running(c) PROVE UpdateInv'
  BY <1>1, <1>5 DEF Running, BeginRun, Readmit, Invoke, InvokeStale,
                    ProgramReturns, ProgramFails
<1>6. ASSUME NEW c \in Calls, Execution(c) PROVE UpdateInv'
  <2>1. CASE EffectSucceeds(c)
    BY <2>1, SwapKeeps DEF EffectSucceeds
  <2>2. CASE EffectFails(c)
    BY <1>1, <2>2, SwapKeeps DEF EffectFails
  <2> QED BY <1>1, <1>6, <2>1, <2>2 DEF Execution, ConflictIgnored,
             ConflictRetried, ConflictReported, OutcomeEnds
<1> QED BY <1>2, <1>3, <1>4, <1>5, <1>6 DEF Next

\* As long as every write names the version it read, an accepted update stays in
\* the value, however many calls race and retry, and whatever the programs are.
THEOREM NothingLost == Spec => []NoLostUpdate
<1>1. Init => UpdateInv
  BY DEF Init, UpdateInv, NoRow
<1>2. UpdateInv => NoLostUpdate
  BY DEF UpdateInv, NoLostUpdate
<1> QED BY <1>1, <1>2, UpdateStep, TypeInvariant, PTL DEF Spec

=============================================================================
