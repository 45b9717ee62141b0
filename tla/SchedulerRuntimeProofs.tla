------------------------ MODULE SchedulerRuntimeProofs ------------------------
(***************************************************************************)
(* The scheduling runtime, for any callers, jobs and number of runs: who   *)
(* can still cancel a run, and what a Stop leaves behind - for callers     *)
(* that make any call, and for the calls of the bot that reloads its       *)
(* modules (module ModuleReload), with what becomes of the plugin sets and *)
(* what an undisturbed reload brings about.                                *)
(***************************************************************************)
EXTENDS ModuleReload, TLAPS

\* The types of TypeOK, for callers that stand at stages of their own too.
TypedIn(stages) ==
    /\ handle \in 0..started
    /\ cronHandle \in 0..started
    /\ started \in 0..MaxRuns
    /\ owner \in [Runs -> Callers \cup {Nobody}]
    /\ plan \in [Runs -> SUBSET Jobs]
    /\ cancelled \in SUBSET Runs
    /\ cron \in [Runs -> CronStages]
    /\ task \in [Runs -> TaskStages]
    /\ firing \in [Runs -> 0..MaxFirings]
    /\ at \in [Callers -> stages]
    /\ op \in [Callers -> {"none", "start", "stop", "restart"}]
    /\ wanted \in [Callers -> SUBSET Jobs]
    /\ taken \in [Callers -> 0..MaxRuns]
    /\ cronTaken \in [Callers -> 0..MaxRuns]
    /\ made \in [Callers -> 0..MaxRuns]
    /\ over \in SUBSET Callers

\* The steps of the runtime itself, whoever called it.
RuntimeStep ==
    \/ \E p \in Callers : StopStep(p) \/ StartStep(p) \/ ContextEnds(p)
    \/ \E n \in Runs : TaskStep(n) \/ JobStep(n)

\* A step of the runtime keeps every variable in its type.
LEMMA TypesAreKept ==
    ASSUME NEW stages, RuntimeStages \subseteq stages, TypedIn(stages), RuntimeStep
    PROVE  TypedIn(stages)'
<1>0. {"cancel", "halt", "wait", "start", "spawn", "cronStart", "done"}
        \subseteq stages
  BY DEF RuntimeStages
<1> USE <1>0, BoundsNatural DEF TypedIn, CronStages, TaskStages, Runs
<1>1. ASSUME NEW p \in Callers, StopStep(p) PROVE TypedIn(stages)'
  <2>1. CASE StopTakes(p)
    BY <2>1 DEF StopTakes, runVars
  <2>2. CASE StopCancels(p)
    <3>1. taken[p] \in 0..MaxRuns
      OBVIOUS
    <3>2. {taken[p]} \ {0} \subseteq 1..MaxRuns
      BY <3>1
    <3>3. /\ cancelled' = cancelled \cup ({taken[p]} \ {0})
          /\ taken' = [taken EXCEPT ![p] = 0]
          /\ at' = [at EXCEPT ![p] = "halt"]
          /\ UNCHANGED <<handle, cronHandle, started, owner, plan, cron,
                         task, firing, op, wanted, cronTaken, made, over>>
      BY <2>2 DEF StopCancels, fieldVars
    <3>4. cancelled' \in SUBSET (1..MaxRuns)
      BY <3>2, <3>3
    <3>5. taken' \in [Callers -> 0..MaxRuns]
      BY <3>3
    <3> QED BY <3>3, <3>4, <3>5
  <2>3. CASE StopHaltsCron(p)
    <3>1. AfterStop(p) \in stages
      BY DEF AfterStop
    <3>2. at' \in [Callers -> stages]
      <4>1. \/ at' = [at EXCEPT ![p] = AfterStop(p)]
            \/ at' = [at EXCEPT ![p] = "wait"]
        BY <2>3 DEF StopHaltsCron
      <4>2. at \in [Callers -> stages]
        OBVIOUS
      <4>3. "wait" \in stages
        OBVIOUS
      <4> HIDE DEF TypedIn
      <4> QED BY <3>1, <4>1, <4>2, <4>3
    <3>3. cron' \in [Runs -> CronStages]
      <4>1. CASE cronTaken[p] = 0
        BY <2>3, <4>1 DEF StopHaltsCron
      <4>2. CASE cronTaken[p] # 0
        <5>1. cron' = [cron EXCEPT ![cronTaken[p]] =
                  IF cron[cronTaken[p]] = "running" THEN "stopped"
                                                    ELSE cron[cronTaken[p]]]
          BY <2>3, <4>2 DEF StopHaltsCron
        <5>2. cronTaken[p] \in Runs /\ cron[cronTaken[p]] \in CronStages
          BY <4>2
        <5> QED BY <5>1, <5>2
      <4> QED BY <4>1, <4>2
    <3> QED BY <2>3, <3>2, <3>3 DEF StopHaltsCron, fieldVars, localVars
  <2>4. CASE StopReturns(p)
    BY <2>4 DEF StopReturns, AfterStop, fieldVars, runVars, localVars
  <2> QED BY <1>1, <2>1, <2>2, <2>3, <2>4 DEF StopStep
<1>2. ASSUME NEW p \in Callers, StartStep(p) PROVE TypedIn(stages)'
  <2>1. CASE StartRefused(p)
    BY <2>1 DEF StartRefused, fieldVars, runVars
  <2>2. CASE StartCreates(p)
    <3>1. /\ started' = started + 1 /\ started + 1 \in 1..MaxRuns
          /\ handle' = started + 1
          /\ owner' = [owner EXCEPT ![started + 1] = p]
          /\ plan' = [plan EXCEPT ![started + 1] = wanted[p]]
          /\ made' = [made EXCEPT ![p] = started + 1]
          /\ wanted' = [wanted EXCEPT ![p] = {}]
          /\ at' = [at EXCEPT ![p] = "spawn"]
          /\ UNCHANGED <<cancelled, task, firing, op, taken, cronTaken, over>>
      BY <2>2 DEF StartCreates
    <3>2. cronHandle' \in 0..started' /\ cron' \in [Runs -> CronStages]
      <4>1. CASE wanted[p] = {}
        BY <2>2, <3>1, <4>1 DEF StartCreates
      <4>2. CASE wanted[p] # {}
        <5>1. /\ cronHandle' = started + 1
              /\ cron' = [cron EXCEPT ![started + 1] = "built"]
          BY <2>2, <4>2 DEF StartCreates
        <5> QED BY <3>1, <5>1
      <4> QED BY <4>1, <4>2
    <3>3. /\ handle' \in 0..started' /\ started' \in 0..MaxRuns
          /\ made' \in [Callers -> 0..MaxRuns]
      BY <3>1
    <3>4. /\ owner' \in [Runs -> Callers \cup {Nobody}]
          /\ plan' \in [Runs -> SUBSET Jobs]
          /\ wanted' \in [Callers -> SUBSET Jobs]
          /\ at' \in [Callers -> stages]
      BY <3>1
    <3> QED BY <3>1, <3>2, <3>3, <3>4
  <2>3. CASE StartSpawns(p)
    BY <2>3 DEF StartSpawns, fieldVars, localVars
  <2>4. CASE StartStartsCron(p)
    BY <2>4 DEF StartStartsCron, fieldVars, localVars
  <2> QED BY <1>2, <2>1, <2>2, <2>3, <2>4 DEF StartStep
<1>3. ASSUME NEW p \in Callers, ContextEnds(p) PROVE TypedIn(stages)'
  BY <1>3 DEF ContextEnds, fieldVars, runVars, localVars
<1>4. ASSUME NEW n \in Runs, TaskStep(n) PROVE TypedIn(stages)'
  BY <1>4 DEF TaskStep, TaskTicks, TaskReturns, TaskEnds, fieldVars, localVars
<1>5. ASSUME NEW n \in Runs, JobStep(n) PROVE TypedIn(stages)'
  <2>1. CASE JobFires(n)
    <3>1. firing[n] \in 0..MaxFirings /\ firing[n] < MaxFirings
      BY <2>1 DEF JobFires
    <3>2. firing[n] + 1 \in 0..MaxFirings
      BY <3>1
    <3> QED BY <2>1, <3>2 DEF JobFires, fieldVars, localVars
  <2>2. CASE JobReturns(n)
    <3>1. firing[n] \in 0..MaxFirings /\ firing[n] > 0
      BY <2>2 DEF JobReturns
    <3>2. firing[n] - 1 \in 0..MaxFirings
      BY <3>1
    <3> QED BY <2>2, <3>2 DEF JobReturns, fieldVars, localVars
  <2> QED BY <1>5, <2>1, <2>2 DEF JobStep
<1> QED BY <1>1, <1>2, <1>3, <1>4, <1>5 DEF RuntimeStep

\* Every variable of the runtime keeps its type.
THEOREM TypeCorrect == SchedulerSpec => []TypeOK
<1> DEFINE stages == RuntimeStages \cup {"idle"}
<1>1. TypeOK <=> TypedIn(stages)
  BY DEF TypeOK, TypedIn
<1>2. InitScheduler => TypeOK
  BY BoundsNatural DEF InitScheduler, TypeOK, CronStages, TaskStages, Runs
<1>3. TypeOK /\ [NextScheduler]_schedulerVars => TypeOK'
  <2> SUFFICES ASSUME TypeOK, [NextScheduler]_schedulerVars PROVE TypeOK'
    OBVIOUS
  <2>1. CASE UNCHANGED schedulerVars
    BY <2>1 DEF schedulerVars, fieldVars, runVars, localVars, TypeOK
  <2>2. CASE RuntimeStep
    <3>1. TypedIn(stages)'
      BY <1>1, <2>2, TypesAreKept
    <3> QED BY <3>1 DEF TypeOK, TypedIn
  <2>3. ASSUME NEW p \in Callers, NEW jobs \in SUBSET Jobs,
               \/ Call(p, "start", jobs)
               \/ Call(p, "restart", jobs)
               \/ Call(p, "stop", {})
        PROVE  TypeOK'
    BY <2>3 DEF Call, fieldVars, runVars, TypeOK, RuntimeStages
  <2> QED BY <2>1, <2>2, <2>3 DEF NextScheduler, RuntimeStep
<1> QED BY <1>2, <1>3, PTL DEF SchedulerSpec

-----------------------------------------------------------------------------
\* The two fields of the runtime speak of one run.
FieldsAgree ==
    /\ cronHandle # 0 => cronHandle = handle
    /\ handle # 0 /\ cron[handle] # "none" => cronHandle = handle

\* The run that a Start still has to spawn exists, and has a cron if the Start
\* is about to start one.
StartsHoldRuns ==
    \A p \in Callers :
        /\ at[p] \in {"spawn", "cronStart"} => made[p] \in 1..started
        /\ at[p] = "cronStart" => cron[made[p]] # "none"

\* A run that does not exist yet has no cron.
NoCronAhead == \A n \in Runs : n > started => cron[n] = "none"

\* The inductive invariant behind NoOrphanedRun and StrayCronIsCancelled.
RunInv == /\ FieldsAgree
          /\ StartsHoldRuns
          /\ NoCronAhead
          /\ NoOrphanedRun
          /\ StrayCronIsCancelled

\* A step that leaves the runs alone and moves no caller into or out of the
\* stages RunInv looks at.
Quiet ==
    /\ UNCHANGED <<handle, cronHandle, started, cancelled, cron, taken, made>>
    /\ \A p \in Callers, s \in {"cancel", "spawn", "cronStart"} :
           at'[p] = s <=> at[p] = s

\* A step that touches neither the fields nor a run keeps the run invariant.
LEMMA QuietKeepsRunInv == ASSUME RunInv, Quiet PROVE RunInv'
<1> USE DEF RunInv, Quiet
<1>1. FieldsAgree'
  BY DEF FieldsAgree
<1>2. StartsHoldRuns'
  <2> SUFFICES ASSUME NEW p \in Callers
               PROVE  /\ at'[p] \in {"spawn", "cronStart"} => made'[p] \in 1..started'
                      /\ at'[p] = "cronStart" => cron'[made'[p]] # "none"
    BY DEF StartsHoldRuns
  <2> QED BY DEF StartsHoldRuns
<1>3. NoCronAhead'
  BY DEF NoCronAhead
<1>4. \A n : (\E p \in Callers : at[p] = "cancel" /\ taken[p] = n)
               => \E p \in Callers : at'[p] = "cancel" /\ taken'[p] = n
  OBVIOUS
<1>5. NoOrphanedRun'
  BY <1>4 DEF NoOrphanedRun
<1>6. StrayCronIsCancelled'
  BY <1>4 DEF StrayCronIsCancelled
<1> QED BY <1>1, <1>2, <1>3, <1>5, <1>6

\* A step of the runtime keeps RunInv.
LEMMA RunInvIsKept ==
    ASSUME NEW stages, RuntimeStages \subseteq stages, TypedIn(stages), RunInv,
           RuntimeStep
    PROVE  RunInv'
<1> USE BoundsNatural DEF TypedIn, CronStages, RuntimeStages, Runs, RunInv
<1>1. ASSUME NEW p \in Callers, StopStep(p) PROVE RunInv'
  <2>1. CASE StopTakes(p)
    <3>1. /\ at[p] = "stop"
          /\ at' = [at EXCEPT ![p] = "cancel"]
          /\ taken' = [taken EXCEPT ![p] = handle]
          /\ handle' = 0 /\ cronHandle' = 0
          /\ UNCHANGED <<started, cancelled, cron, made>>
      BY <2>1 DEF StopTakes, runVars
    <3>2. FieldsAgree'
      BY <3>1 DEF FieldsAgree
    <3>3. StartsHoldRuns'
      BY <3>1 DEF StartsHoldRuns
    <3>4. NoCronAhead'
      BY <3>1 DEF NoCronAhead
    <3>5. NoOrphanedRun'
      BY <3>1 DEF NoOrphanedRun
    <3>6. StrayCronIsCancelled'
      BY <3>1 DEF StrayCronIsCancelled, FieldsAgree
    <3> QED BY <3>2, <3>3, <3>4, <3>5, <3>6
  <2>2. CASE StopCancels(p)
    <3>1. /\ at[p] = "cancel"
          /\ at' = [at EXCEPT ![p] = "halt"]
          /\ cancelled' = cancelled \cup ({taken[p]} \ {0})
          /\ taken' = [taken EXCEPT ![p] = 0]
          /\ UNCHANGED <<handle, cronHandle, started, cron, made>>
      BY <2>2 DEF StopCancels, fieldVars
    <3>2. FieldsAgree'
      BY <3>1 DEF FieldsAgree
    <3>3. StartsHoldRuns'
      BY <3>1 DEF StartsHoldRuns
    <3>4. NoCronAhead'
      BY <3>1 DEF NoCronAhead
    <3>5. NoOrphanedRun'
      BY <3>1 DEF NoOrphanedRun
    <3>6. StrayCronIsCancelled'
      BY <3>1 DEF StrayCronIsCancelled
    <3> QED BY <3>2, <3>3, <3>4, <3>5, <3>6
  <2>3. CASE StopHaltsCron(p)
    <3>1. /\ at[p] = "halt"
          /\ \A q \in Callers, s \in {"cancel", "spawn", "cronStart"} :
                 at'[q] = s <=> at[q] = s
          /\ cron' \in [Runs -> CronStages]
          /\ \A n \in Runs : /\ cron'[n] = "none" <=> cron[n] = "none"
                             /\ cron'[n] = "running" => cron[n] = "running"
          /\ UNCHANGED <<handle, cronHandle, started, cancelled, taken, made>>
      BY <2>3 DEF StopHaltsCron, AfterStop, fieldVars, localVars
    <3>2. FieldsAgree'
      BY <3>1 DEF FieldsAgree
    <3>3. StartsHoldRuns'
      BY <3>1 DEF StartsHoldRuns
    <3>4. NoCronAhead'
      BY <3>1 DEF NoCronAhead
    <3>5. NoOrphanedRun'
      BY <3>1 DEF NoOrphanedRun
    <3>6. StrayCronIsCancelled'
      BY <3>1 DEF StrayCronIsCancelled
    <3> QED BY <3>2, <3>3, <3>4, <3>5, <3>6
  <2>4. CASE StopReturns(p)
    <3>1. Quiet
      BY <2>4 DEF StopReturns, AfterStop, fieldVars, runVars, localVars, Quiet
    <3> QED BY <3>1, QuietKeepsRunInv
  <2> QED BY <1>1, <2>1, <2>2, <2>3, <2>4 DEF StopStep
<1>2. ASSUME NEW p \in Callers, StartStep(p) PROVE RunInv'
  <2>1. CASE StartRefused(p)
    <3>1. Quiet
      BY <2>1 DEF StartRefused, fieldVars, runVars, Quiet
    <3> QED BY <3>1, QuietKeepsRunInv
  <2>2. CASE StartCreates(p)
    <3>1. /\ at[p] = "start" /\ handle = 0 /\ cronHandle = 0
          /\ at' = [at EXCEPT ![p] = "spawn"]
          /\ started + 1 \in Runs /\ started' = started + 1
          /\ handle' = started + 1
          /\ made' = [made EXCEPT ![p] = started + 1]
          /\ \/ cronHandle' = 0 /\ cron' = cron
             \/ /\ cronHandle' = started + 1
                /\ cron' = [cron EXCEPT ![started + 1] = "built"]
          /\ UNCHANGED <<cancelled, taken>>
      BY <2>2 DEF StartCreates
    <3>2. FieldsAgree'
      BY <3>1 DEF FieldsAgree, NoCronAhead
    <3>3. StartsHoldRuns'
      <4> SUFFICES ASSUME NEW q \in Callers
                   PROVE  /\ at'[q] \in {"spawn", "cronStart"}
                               => made'[q] \in 1..started'
                          /\ at'[q] = "cronStart" => cron'[made'[q]] # "none"
        BY DEF StartsHoldRuns
      <4>1. CASE q = p
        BY <3>1, <4>1 DEF StartsHoldRuns
      <4>2. CASE q # p
        <5>1. at'[q] = at[q] /\ made'[q] = made[q]
          BY <3>1, <4>2
        <5>2. CASE at[q] \in {"spawn", "cronStart"}
          <6>1. made[q] \in 1..started
            BY <5>2 DEF StartsHoldRuns
          <6>2. cron'[made[q]] = cron[made[q]]
            BY <3>1, <6>1
          <6> QED BY <3>1, <5>1, <6>1, <6>2 DEF StartsHoldRuns
        <5> QED BY <5>1, <5>2
      <4> QED BY <4>1, <4>2
    <3>4. NoCronAhead'
      BY <3>1 DEF NoCronAhead
    <3>5. NoOrphanedRun'
      BY <3>1 DEF NoOrphanedRun
    <3>6. StrayCronIsCancelled'
      BY <3>1 DEF StrayCronIsCancelled, NoCronAhead
    <3> QED BY <3>2, <3>3, <3>4, <3>5, <3>6
  <2>3. CASE StartSpawns(p)
    <3>1. /\ at[p] = "spawn"
          /\ at' = [at EXCEPT
                 ![p] = IF cron[made[p]] = "built" THEN "cronStart" ELSE "done"]
          /\ UNCHANGED <<handle, cronHandle, started, cancelled, cron, taken,
                         made>>
      BY <2>3 DEF StartSpawns, fieldVars, localVars
    <3>2. FieldsAgree'
      BY <3>1 DEF FieldsAgree
    <3>3. StartsHoldRuns'
      BY <3>1 DEF StartsHoldRuns
    <3>4. NoCronAhead'
      BY <3>1 DEF NoCronAhead
    <3>5. NoOrphanedRun'
      BY <3>1 DEF NoOrphanedRun
    <3>6. StrayCronIsCancelled'
      BY <3>1 DEF StrayCronIsCancelled
    <3> QED BY <3>2, <3>3, <3>4, <3>5, <3>6
  <2>4. CASE StartStartsCron(p)
    <3>1. /\ at[p] = "cronStart"
          /\ at' = [at EXCEPT ![p] = "done"]
          /\ made[p] \in 1..started /\ cron[made[p]] # "none"
          /\ cron' = [cron EXCEPT ![made[p]] = "running"]
          /\ UNCHANGED <<handle, cronHandle, started, cancelled, taken,
                         made>>
      BY <2>4 DEF StartStartsCron, StartsHoldRuns, fieldVars, localVars
    <3>2. FieldsAgree'
      BY <3>1 DEF FieldsAgree
    <3>3. StartsHoldRuns'
      BY <3>1 DEF StartsHoldRuns
    <3>4. NoCronAhead'
      BY <3>1 DEF NoCronAhead
    <3>5. NoOrphanedRun'
      BY <3>1 DEF NoOrphanedRun
    <3>6. StrayCronIsCancelled'
      BY <3>1 DEF StrayCronIsCancelled, FieldsAgree, NoOrphanedRun
    <3> QED BY <3>2, <3>3, <3>4, <3>5, <3>6
  <2> QED BY <1>2, <2>1, <2>2, <2>3, <2>4 DEF StartStep
<1>3. ASSUME NEW p \in Callers, ContextEnds(p) PROVE RunInv'
  <2>1. Quiet
    BY <1>3 DEF ContextEnds, fieldVars, runVars, localVars, Quiet
  <2> QED BY <2>1, QuietKeepsRunInv
<1>4. ASSUME NEW n \in Runs, TaskStep(n) PROVE RunInv'
  <2>1. Quiet
    BY <1>4 DEF TaskStep, TaskTicks, TaskReturns, TaskEnds, fieldVars,
                localVars, Quiet
  <2> QED BY <2>1, QuietKeepsRunInv
<1>5. ASSUME NEW n \in Runs, JobStep(n) PROVE RunInv'
  <2>1. Quiet
    BY <1>5 DEF JobStep, JobFires, JobReturns, fieldVars, localVars, Quiet
  <2> QED BY <2>1, QuietKeepsRunInv
<1> QED BY <1>1, <1>2, <1>3, <1>4, <1>5 DEF RuntimeStep

\* A runtime that nobody has called satisfies RunInv.
LEMMA RunInvHoldsAtFirst == InitScheduler => RunInv
BY BoundsNatural DEF InitScheduler, Runs, RunInv, FieldsAgree, StartsHoldRuns,
                     NoCronAhead, NoOrphanedRun, StrayCronIsCancelled

\* Every reachable state of the runtime satisfies RunInv.
THEOREM RunInvariant == SchedulerSpec => [](TypeOK /\ RunInv)
<1>1. TypeOK /\ RunInv /\ [NextScheduler]_schedulerVars => RunInv'
  <2> SUFFICES ASSUME TypeOK, RunInv, [NextScheduler]_schedulerVars
               PROVE  RunInv'
    OBVIOUS
  <2>1. CASE UNCHANGED schedulerVars
    <3>1. Quiet
      BY <2>1 DEF schedulerVars, fieldVars, runVars, localVars, Quiet
    <3> QED BY <3>1, QuietKeepsRunInv
  <2>2. CASE RuntimeStep
    <3>1. TypedIn(RuntimeStages \cup {"idle"})
      BY DEF TypeOK, TypedIn
    <3> QED BY <2>2, <3>1, RunInvIsKept
  <2>3. ASSUME NEW p \in Callers, NEW jobs \in SUBSET Jobs,
               \/ Call(p, "start", jobs)
               \/ Call(p, "restart", jobs)
               \/ Call(p, "stop", {})
        PROVE  RunInv'
    <3>1. Quiet
      BY <2>3 DEF Call, fieldVars, runVars, Quiet, TypeOK
    <3> QED BY <3>1, QuietKeepsRunInv
  <2> QED BY <2>1, <2>2, <2>3 DEF NextScheduler, RuntimeStep
<1> QED BY <1>1, RunInvHoldsAtFirst, TypeCorrect, PTL DEF SchedulerSpec

\* A run whose context is live can always be cancelled.
THEOREM RunsAreHeld == SchedulerSpec => []NoOrphanedRun
<1>1. RunInv => NoOrphanedRun
  BY DEF RunInv
<1> QED BY <1>1, RunInvariant, PTL

\* A cron that no Stop can reach any more runs under a cancelled context.
THEOREM StrayCronsAreCancelled == SchedulerSpec => []StrayCronIsCancelled
<1>1. RunInv => StrayCronIsCancelled
  BY DEF RunInv
<1> QED BY <1>1, RunInvariant, PTL

-----------------------------------------------------------------------------
(* What a Stop leaves behind. *)

\* Where a call stands once it has waited for the cron it stopped.
Settled == {"start", "spawn", "cronStart", "done", "up"}

AfterTake == {"cancel", "halt", "wait"} \cup Settled

\* The cron a Stop took out belongs to that Stop alone: it is of a run that
\* exists, no longer the runtime's, and nobody else's.
CronsAreTakenOnce ==
    \A p \in Callers :
        cronTaken[p] # 0 =>
            /\ at[p] \in AfterTake
            /\ cronTaken[p] <= started
            /\ cronTaken[p] # cronHandle
            /\ \A q \in Callers : q # p => cronTaken[q] # cronTaken[p]

\* StopLeavesNoJob, through the whole Start that follows in a Restart.
StoppedCronsAreIdle ==
    \A p \in Callers :
        cronTaken[p] # 0 /\ at[p] \in Settled =>
            cron[cronTaken[p]] # "stopped" \/ firing[cronTaken[p]] = 0

\* The inductive invariant behind StopLeavesNoJob: a cron stopped by one Stop
\* must not be the one another Stop has waited for already.
StopInv == CronsAreTakenOnce /\ StoppedCronsAreIdle

\* A step that leaves the crons alone and settles no call.
StopQuiet ==
    /\ UNCHANGED <<cronHandle, started, cron, firing, cronTaken>>
    /\ \A p \in Callers :
           /\ at[p] \in AfterTake => at'[p] \in AfterTake
           /\ at[p] \in AfterTake /\ at'[p] \in Settled => at[p] \in Settled

\* A step that leaves the crons alone keeps StopInv.
LEMMA StopQuietKeepsStopInv == ASSUME StopInv, StopQuiet PROVE StopInv'
<1>1. CronsAreTakenOnce'
  BY DEF StopInv, StopQuiet, CronsAreTakenOnce
<1>2. StoppedCronsAreIdle'
  <2> SUFFICES ASSUME NEW p \in Callers, cronTaken[p] # 0, at'[p] \in Settled
               PROVE  cron[cronTaken[p]] # "stopped" \/ firing[cronTaken[p]] = 0
    BY DEF StoppedCronsAreIdle, StopQuiet
  <2>1. at[p] \in Settled
    BY DEF StopInv, CronsAreTakenOnce, StopQuiet
  <2> QED BY <2>1 DEF StopInv, StoppedCronsAreIdle
<1> QED BY <1>1, <1>2 DEF StopInv

\* A step of the runtime keeps StopInv.
LEMMA StopInvIsKept ==
    ASSUME NEW stages, RuntimeStages \subseteq stages, TypedIn(stages), StopInv,
           RuntimeStep
    PROVE  StopInv'
<1> USE BoundsNatural DEF TypedIn, CronStages, Runs, Settled, AfterTake
<1>0. CronsAreTakenOnce /\ StoppedCronsAreIdle
  BY DEF StopInv
<1>1. ASSUME NEW p \in Callers, StopStep(p) PROVE StopInv'
  <2>1. CASE StopTakes(p)
    <3>1. /\ at[p] = "stop" /\ at' = [at EXCEPT ![p] = "cancel"]
          /\ cronTaken' = [cronTaken EXCEPT ![p] = cronHandle]
          /\ cronHandle' = 0
          /\ UNCHANGED <<started, cron, firing>>
      BY <2>1 DEF StopTakes, runVars
    <3>2. CronsAreTakenOnce'
      BY <1>0, <3>1 DEF CronsAreTakenOnce
    <3>3. StoppedCronsAreIdle'
      BY <1>0, <3>1 DEF StoppedCronsAreIdle
    <3> QED BY <3>2, <3>3 DEF StopInv
  <2>2. CASE StopCancels(p)
    <3>1. StopQuiet
      BY <2>2 DEF StopCancels, fieldVars, StopQuiet
    <3> QED BY <3>1, StopQuietKeepsStopInv
  <2>3. CASE StopHaltsCron(p)
    <3>1. CASE cronTaken[p] = 0
      <4>1. /\ at[p] = "halt" /\ at' = [at EXCEPT ![p] = AfterStop(p)]
            /\ AfterStop(p) \in Settled
            /\ UNCHANGED <<cronHandle, started, cron, firing, cronTaken>>
        BY <2>3, <3>1 DEF StopHaltsCron, AfterStop, fieldVars, localVars
      <4>2. CronsAreTakenOnce'
        BY <1>0, <4>1 DEF CronsAreTakenOnce
      <4>3. StoppedCronsAreIdle'
        BY <1>0, <3>1, <4>1 DEF StoppedCronsAreIdle
      <4> QED BY <4>2, <4>3 DEF StopInv
    <3>2. CASE cronTaken[p] # 0
      <4>1. /\ at[p] = "halt" /\ at' = [at EXCEPT ![p] = "wait"]
            /\ \A n \in Runs : n # cronTaken[p] => cron'[n] = cron[n]
            /\ UNCHANGED <<cronHandle, started, firing, cronTaken>>
        BY <2>3, <3>2 DEF StopHaltsCron, fieldVars, localVars
      <4>2. CronsAreTakenOnce'
        BY <1>0, <4>1 DEF CronsAreTakenOnce
      <4>3. StoppedCronsAreIdle'
        <5> SUFFICES ASSUME NEW q \in Callers, cronTaken[q] # 0,
                            at'[q] \in Settled
                     PROVE  \/ cron'[cronTaken[q]] # "stopped"
                            \/ firing[cronTaken[q]] = 0
          BY <4>1 DEF StoppedCronsAreIdle
        <5>1. q # p /\ at[q] \in Settled
          BY <4>1
        <5>2. cronTaken[q] \in Runs /\ cronTaken[q] # cronTaken[p]
          BY <1>0, <3>2, <5>1 DEF CronsAreTakenOnce
        <5> QED BY <1>0, <4>1, <5>1, <5>2 DEF StoppedCronsAreIdle
      <4> QED BY <4>2, <4>3 DEF StopInv
    <3> QED BY <3>1, <3>2
  <2>4. CASE StopReturns(p)
    <3>1. /\ at[p] = "wait" /\ at' = [at EXCEPT ![p] = AfterStop(p)]
          /\ AfterStop(p) \in Settled
          /\ firing[cronTaken[p]] = 0
          /\ UNCHANGED <<cronHandle, started, cron, firing, cronTaken>>
      BY <2>4 DEF StopReturns, AfterStop, fieldVars, runVars, localVars
    <3>2. CronsAreTakenOnce'
      BY <1>0, <3>1 DEF CronsAreTakenOnce
    <3>3. StoppedCronsAreIdle'
      BY <1>0, <3>1 DEF StoppedCronsAreIdle
    <3> QED BY <3>2, <3>3 DEF StopInv
  <2> QED BY <1>1, <2>1, <2>2, <2>3, <2>4 DEF StopStep
<1>2. ASSUME NEW p \in Callers, StartStep(p) PROVE StopInv'
  <2>1. CASE StartRefused(p)
    <3>1. StopQuiet
      BY <2>1 DEF StartRefused, fieldVars, runVars, StopQuiet
    <3> QED BY <3>1, StopQuietKeepsStopInv
  <2>2. CASE StartCreates(p)
    <3>1. /\ at[p] = "start" /\ at' = [at EXCEPT ![p] = "spawn"]
          /\ started + 1 \in Runs /\ started' = started + 1
          /\ cronHandle' \in {0, started + 1}
          /\ \A n \in Runs : n # started + 1 => cron'[n] = cron[n]
          /\ UNCHANGED <<firing, cronTaken>>
      <4>1. CASE wanted[p] = {}
        BY <2>2, <4>1 DEF StartCreates
      <4>2. CASE wanted[p] # {}
        BY <2>2, <4>2 DEF StartCreates
      <4> QED BY <4>1, <4>2
    <3>2. CronsAreTakenOnce'
      BY <1>0, <3>1 DEF CronsAreTakenOnce
    <3>3. StoppedCronsAreIdle'
      <4> SUFFICES ASSUME NEW q \in Callers, cronTaken[q] # 0, at'[q] \in Settled
                   PROVE  \/ cron'[cronTaken[q]] # "stopped"
                          \/ firing[cronTaken[q]] = 0
        BY <3>1 DEF StoppedCronsAreIdle
      <4>1. at[q] \in Settled
        BY <3>1
      <4>2. cronTaken[q] \in Runs /\ cronTaken[q] # started + 1
        BY <1>0, <3>1 DEF CronsAreTakenOnce
      <4> QED BY <1>0, <3>1, <4>1, <4>2 DEF StoppedCronsAreIdle
    <3> QED BY <3>2, <3>3 DEF StopInv
  <2>3. CASE StartSpawns(p)
    <3>1. StopQuiet
      BY <2>3 DEF StartSpawns, fieldVars, localVars, StopQuiet
    <3> QED BY <3>1, StopQuietKeepsStopInv
  <2>4. CASE StartStartsCron(p)
    <3>1. /\ at[p] = "cronStart" /\ at' = [at EXCEPT ![p] = "done"]
          /\ \A n \in Runs : cron'[n] = "stopped" => cron[n] = "stopped"
          /\ UNCHANGED <<cronHandle, started, firing, cronTaken>>
      BY <2>4 DEF StartStartsCron, fieldVars, localVars
    <3>2. CronsAreTakenOnce'
      BY <1>0, <3>1 DEF CronsAreTakenOnce
    <3>3. StoppedCronsAreIdle'
      BY <1>0, <3>1 DEF StoppedCronsAreIdle
    <3> QED BY <3>2, <3>3 DEF StopInv
  <2> QED BY <1>2, <2>1, <2>2, <2>3, <2>4 DEF StartStep
<1>3. ASSUME NEW p \in Callers, ContextEnds(p) PROVE StopInv'
  <2>1. StopQuiet
    BY <1>3 DEF ContextEnds, fieldVars, runVars, localVars, StopQuiet
  <2> QED BY <2>1, StopQuietKeepsStopInv
<1>4. ASSUME NEW n \in Runs, TaskStep(n) PROVE StopInv'
  <2>1. StopQuiet
    BY <1>4 DEF TaskStep, TaskTicks, TaskReturns, TaskEnds, fieldVars,
                localVars, StopQuiet
  <2> QED BY <2>1, StopQuietKeepsStopInv
<1>5. ASSUME NEW n \in Runs, JobStep(n) PROVE StopInv'
  <2>1. /\ UNCHANGED <<cronHandle, started, cron, cronTaken, at>>
        /\ \A k \in Runs :
               cron[k] = "stopped" /\ firing[k] = 0 => firing'[k] = 0
    <3>1. CASE JobFires(n)
      BY <3>1 DEF JobFires, fieldVars, localVars
    <3>2. CASE JobReturns(n)
      BY <3>2 DEF JobReturns, fieldVars, localVars
    <3> QED BY <1>5, <3>1, <3>2 DEF JobStep
  <2>2. CronsAreTakenOnce'
    BY <1>0, <2>1 DEF CronsAreTakenOnce
  <2>3. StoppedCronsAreIdle'
    <3> SUFFICES ASSUME NEW p \in Callers, cronTaken[p] # 0, at[p] \in Settled
                 PROVE  \/ cron[cronTaken[p]] # "stopped"
                        \/ firing'[cronTaken[p]] = 0
      BY <2>1 DEF StoppedCronsAreIdle
    <3>1. cronTaken[p] \in Runs
      OBVIOUS
    <3> QED BY <1>0, <2>1, <3>1 DEF StoppedCronsAreIdle
  <2> QED BY <2>2, <2>3 DEF StopInv
<1> QED BY <1>1, <1>2, <1>3, <1>4, <1>5 DEF RuntimeStep

\* StopInv is stronger than StopLeavesNoJob.
LEMMA StopInvIsEnough == StopInv => StopLeavesNoJob
BY DEF StopInv, StoppedCronsAreIdle, Settled, StopLeavesNoJob

\* Whatever calls overlap, a Stop returns only when no job of the cron it
\* stopped is left.
THEOREM StopsLeaveNoJob == SchedulerSpec => []StopLeavesNoJob
<1>1. InitScheduler => StopInv
  BY DEF InitScheduler, StopInv, CronsAreTakenOnce, StoppedCronsAreIdle
<1>2. TypeOK /\ StopInv /\ [NextScheduler]_schedulerVars => StopInv'
  <2> SUFFICES ASSUME TypeOK, StopInv, [NextScheduler]_schedulerVars
               PROVE  StopInv'
    OBVIOUS
  <2>1. CASE UNCHANGED schedulerVars
    <3>1. StopQuiet
      BY <2>1 DEF schedulerVars, fieldVars, runVars, localVars, StopQuiet
    <3> QED BY <3>1, StopQuietKeepsStopInv
  <2>2. CASE RuntimeStep
    <3>1. TypedIn(RuntimeStages \cup {"idle"})
      BY DEF TypeOK, TypedIn
    <3> QED BY <2>2, <3>1, StopInvIsKept
  <2>3. ASSUME NEW p \in Callers, NEW jobs \in SUBSET Jobs,
               \/ Call(p, "start", jobs)
               \/ Call(p, "restart", jobs)
               \/ Call(p, "stop", {})
        PROVE  StopInv'
    <3>1. StopQuiet
      BY <2>3 DEF Call, fieldVars, runVars, StopQuiet, TypeOK, AfterTake,
                  Settled
    <3> QED BY <3>1, StopQuietKeepsStopInv
  <2> QED BY <2>1, <2>2, <2>3 DEF NextScheduler, RuntimeStep
<1> QED BY <1>1, <1>2, StopInvIsEnough, TypeCorrect, PTL DEF SchedulerSpec

-----------------------------------------------------------------------------
(* The calls of the bot that reloads its modules. *)

Stages == RuntimeStages \cup ReloadStages

\* A call that is about to write a row knows which.
ChangesAreKnown ==
    \A p \in Callers :
        at[p] = "put" =>
            change[p] \in [module : Modules, to : {"on", "off", "unset"}]

\* The types of both modules together.
ReloadTyped == TypedIn(Stages) /\ ReloadTypeOK /\ ChangesAreKnown

\* The steps that are the bot's own, and not the runtime's.
OwnNext ==
    \/ BeginStart \/ OpenGateway \/ BecomeReady \/ DiskChanges
    \/ \E p \in Callers : EntryStep(p) \/ CallStep(p)

\* What such a step leaves of the runtime: no run and no field is touched, and
\* at most one call moves, from a stage of its own into a Stop, a Start or
\* another stage of its own - or, at the end of Start, from done to up.
OwnStep ==
    /\ UNCHANGED <<fieldVars, runVars, taken, cronTaken, made, over>>
    /\ \/ at' = at
       \/ \E p \in Callers, s \in ReloadStages \cup {"start", "stop", "done"} :
              /\ at[p] \in ReloadStages \ {"up"}
              /\ at' = [at EXCEPT ![p] = s]
       \/ at[Boot] = "done" /\ at' = [at EXCEPT ![Boot] = "up"]

\* What the steps of the runtime leave of the bot's calls.
LEMMA RuntimeStepsStayThere ==
    ASSUME NEW stages, TypedIn(stages), RuntimeStep
    PROVE  \A p \in Callers : \/ at'[p] = at[p]
                              \/ at[p] \in RuntimeStages /\ at'[p] \in RuntimeStages
<1> USE DEF TypedIn, RuntimeStages
<1>1. ASSUME NEW q \in Callers, StopStep(q)
      PROVE  \E s \in RuntimeStages : at[q] \in RuntimeStages
                                      /\ at' = [at EXCEPT ![q] = s]
  BY <1>1 DEF StopStep, StopTakes, StopCancels, StopHaltsCron, StopReturns,
              AfterStop
<1>2. ASSUME NEW q \in Callers, StartStep(q)
      PROVE  \E s \in RuntimeStages : at[q] \in RuntimeStages
                                      /\ at' = [at EXCEPT ![q] = s]
  BY <1>2 DEF StartStep, StartRefused, StartCreates, StartSpawns,
              StartStartsCron
<1>3. ASSUME NEW q \in Callers, ContextEnds(q) PROVE at' = at
  BY <1>3 DEF ContextEnds
<1>4. ASSUME NEW n \in Runs, TaskStep(n) \/ JobStep(n) PROVE at' = at
  BY <1>4 DEF TaskStep, TaskTicks, TaskReturns, TaskEnds, JobStep, JobFires,
              JobReturns
<1>5. ASSUME NEW q \in Callers, NEW s \in RuntimeStages,
             at[q] \in RuntimeStages, at' = [at EXCEPT ![q] = s]
      PROVE  \A p \in Callers :
                 \/ at'[p] = at[p]
                 \/ at[p] \in RuntimeStages /\ at'[p] \in RuntimeStages
  BY <1>5
<1> HIDE DEF TypedIn, RuntimeStages
<1> QED BY <1>1, <1>2, <1>3, <1>4, <1>5 DEF RuntimeStep

\* Every step of the bot's own is an OwnStep, and keeps the types.
LEMMA OwnStepsAreTyped ==
    ASSUME ReloadTyped, OwnNext
    PROVE  /\ OwnStep
           /\ op' \in [Callers -> {"none", "start", "stop", "restart"}]
           /\ wanted' \in [Callers -> SUBSET Jobs]
           /\ ReloadTypeOK'
           /\ ChangesAreKnown'
<1> DEFINE Goal == /\ OwnStep
                   /\ op' \in [Callers -> {"none", "start", "stop", "restart"}]
                   /\ wanted' \in [Callers -> SUBSET Jobs]
                   /\ ReloadTypeOK'
                   /\ ChangesAreKnown'
<1>0. /\ at \in [Callers -> Stages]
      /\ op \in [Callers -> {"none", "start", "stop", "restart"}]
      /\ wanted \in [Callers -> SUBSET Jobs]
      /\ ReloadTypeOK /\ ChangesAreKnown
  BY DEF ReloadTyped, TypedIn
<1> USE <1>0, CallersAreThese
        DEF Goto, SchedulerCallSame, hostVars, botVars, callVars, reloadVars,
            fieldVars, runVars, localVars, OwnStep, ReloadTypeOK,
            ChangesAreKnown, Stages, RuntimeStages, ReloadStages, Fallible
<1>1. ASSUME BeginStart PROVE Goal
  BY <1>1 DEF BeginStart
<1>2. ASSUME OpenGateway PROVE Goal
  BY <1>2 DEF OpenGateway, EnabledJobs, Plugins
<1>3. ASSUME BecomeReady PROVE Goal
  BY <1>3 DEF BecomeReady
<1>4. ASSUME DiskChanges PROVE Goal
  BY <1>4 DEF DiskChanges, schedulerVars, Plugins
<1>5. ASSUME NEW p \in Callers, BeginReload(p) PROVE Goal
  BY <1>5 DEF BeginReload, Enter
<1>6. ASSUME NEW p \in Callers, BeginClose(p) PROVE Goal
  BY <1>6 DEF BeginClose
<1>7. ASSUME NEW p \in Callers, NEW m \in Modules, RefuseChange(p, m) PROVE Goal
  BY <1>7 DEF RefuseChange, Enter
<1>8. ASSUME NEW p \in Callers, NEW m \in Modules,
             NEW to \in {"on", "off", "unset"}, BeginChange(p, m, to) PROVE Goal
  BY <1>8 DEF BeginChange, Enter, Change
<1>9. ASSUME NEW p \in Callers, PutState(p) PROVE Goal
  BY <1>9 DEF PutState, Change
<1>10. ASSUME NEW p \in Callers, LoadPlugins(p) PROVE Goal
  BY <1>10 DEF LoadPlugins, Plugins
<1>11. ASSUME NEW p \in Callers, SwapState(p) PROVE Goal
  BY <1>11 DEF SwapState
<1>12. ASSUME NEW p \in Callers, CloseReplaced(p) PROVE Goal
  <2>1. CASE p \in Closers       BY <1>12, <2>1 DEF CloseReplaced
  <2>2. CASE p \notin Closers    BY <1>12, <2>2 DEF CloseReplaced
  <2> QED BY <2>1, <2>2
<1>13. ASSUME NEW p \in Callers, ReadStates(p) PROVE Goal
  BY <1>13 DEF ReadStates
<1>14. ASSUME NEW p \in Callers, ReadInfos(p) PROVE Goal
  BY <1>14 DEF ReadInfos
<1>15. ASSUME NEW p \in Callers, StoreSnapshot(p) PROVE Goal
  <2>1. states[p] \in [Modules -> {"on", "off", "unset"}]
    OBVIOUS
  <2>2. \A m \in Modules : Resolve(states[p], m) \in {"on", "off"}
    BY <2>1 DEF Resolve
  <2>3. snapshot' = [m \in Modules |->
            IF m \in Builtin \cup infos[p] THEN Resolve(states[p], m)
                                           ELSE "absent"]
    BY <1>15 DEF StoreSnapshot
  <2>4. snapshot' \in [Modules -> {"on", "off", "absent"}]
    BY <2>2, <2>3
  <2>5. NoRows \in [Modules -> {"on", "off", "unset"}]
    BY DEF NoRows
  <2> QED BY <1>15, <2>4, <2>5 DEF StoreSnapshot
<1>16. ASSUME NEW p \in Callers, ReadCommands(p) PROVE Goal
  BY <1>16 DEF ReadCommands, Registrable, EnabledModules, Modules, Plugins
<1>17. ASSUME NEW p \in Callers, Register(p) PROVE Goal
  BY <1>17 DEF Register
<1>18. ASSUME NEW p \in Callers, PlanRestart(p) PROVE Goal
  BY <1>18 DEF PlanRestart, EnabledJobs, Plugins
<1>19. ASSUME NEW p \in Callers, SkipRestart(p) PROVE Goal
  BY <1>19 DEF SkipRestart
<1>20. ASSUME NEW p \in Callers, Fails(p) PROVE Goal
  BY <1>20 DEF Fails
<1>21. ASSUME NEW p \in Callers, HostClose(p) PROVE Goal
  BY <1>21 DEF HostClose
<1> HIDE DEF Goal
<1>22. Goal
  BY <1>1, <1>2, <1>3, <1>4, <1>5, <1>6, <1>7, <1>8, <1>9, <1>10, <1>11,
     <1>12, <1>13, <1>14, <1>15, <1>16, <1>17, <1>18, <1>19, <1>20, <1>21
     DEF OwnNext, EntryStep, CallStep
<1> QED BY <1>22 DEF Goal

\* An OwnStep starts no run, takes no cron and moves no caller through the
\* stages the invariants of the runtime look at.
LEMMA OwnStepsAreQuiet ==
    ASSUME ReloadTyped, StopInv, OwnStep
    PROVE  Quiet /\ StopQuiet
<1>1. at \in [Callers -> Stages] /\ CronsAreTakenOnce
  BY DEF ReloadTyped, TypedIn, StopInv
<1>2. UNCHANGED <<handle, cronHandle, started, cancelled, cron, firing, taken,
                  cronTaken, made>>
  BY DEF OwnStep, fieldVars, runVars
<1>3. \A p \in Callers :
          \/ at'[p] = at[p]
          \/ /\ at[p] \in ReloadStages \ {"up"}
             /\ at'[p] \in ReloadStages \cup {"start", "stop", "done"}
          \/ at[p] = "done" /\ at'[p] = "up"
  <2>1. ASSUME NEW q \in Callers, NEW s \in ReloadStages \cup {"start", "stop", "done"},
               at[q] \in ReloadStages \ {"up"}, at' = [at EXCEPT ![q] = s]
        PROVE  \A p \in Callers :
                   \/ at'[p] = at[p]
                   \/ /\ at[p] \in ReloadStages \ {"up"}
                      /\ at'[p] \in ReloadStages \cup {"start", "stop", "done"}
    BY <1>1, <2>1
  <2>2. ASSUME at[Boot] = "done", at' = [at EXCEPT ![Boot] = "up"]
        PROVE  \A p \in Callers :
                   \/ at'[p] = at[p]
                   \/ at[p] = "done" /\ at'[p] = "up"
    BY <1>1, <2>2
  <2> QED BY <2>1, <2>2 DEF OwnStep
<1>4. \A p \in Callers, s \in {"cancel", "spawn", "cronStart"} :
          at'[p] = s <=> at[p] = s
  BY <1>3 DEF ReloadStages, Fallible
<1>5. \A p \in Callers :
          /\ at[p] \in AfterTake => at'[p] \in AfterTake
          /\ at[p] \in AfterTake /\ at'[p] \in Settled => at[p] \in Settled
  BY <1>3 DEF AfterTake, Settled, ReloadStages, Fallible
<1> QED BY <1>2, <1>4, <1>5 DEF Quiet, StopQuiet

\* What a reload may rely on in the runtime below it, for calls that also
\* have stages of their own.
ReloadRunInv == ReloadTyped /\ RunInv /\ StopInv

\* The types and the invariants of the runtime hold at first and are kept.
THEOREM ReloadsKeepTheRuntime == Spec => []ReloadRunInv
<1>1. Init => ReloadRunInv
  <2> SUFFICES ASSUME Init PROVE ReloadRunInv
    OBVIOUS
  <2>1. InitScheduler
    BY DEF Init
  <2>2. TypedIn(Stages)
    BY <2>1, BoundsNatural
       DEF InitScheduler, TypedIn, CronStages, TaskStages, Runs, Stages,
           ReloadStages
  <2>3. ReloadTypeOK /\ ChangesAreKnown
    BY DEF Init, InitScheduler, ReloadTypeOK, ReloadStages, Change, NoRows,
           ChangesAreKnown
  <2>4. StopInv
    BY <2>1 DEF InitScheduler, StopInv, CronsAreTakenOnce, StoppedCronsAreIdle
  <2> QED BY <2>1, <2>2, <2>3, <2>4, RunInvHoldsAtFirst
          DEF ReloadRunInv, ReloadTyped
<1>2. ReloadRunInv /\ [Next]_vars => ReloadRunInv'
  <2> SUFFICES ASSUME ReloadRunInv, [Next]_vars PROVE ReloadRunInv'
    OBVIOUS
  <2>0. ReloadTyped /\ TypedIn(Stages) /\ RunInv /\ StopInv
        /\ RuntimeStages \subseteq Stages
    BY DEF ReloadRunInv, ReloadTyped, Stages
  <2>1. CASE UNCHANGED vars
    BY <2>0, <2>1
       DEF vars, schedulerVars, reloadVars, hostVars, botVars, callVars,
           fieldVars, runVars, localVars, ReloadRunInv, ReloadTyped, TypedIn,
           ReloadTypeOK, ChangesAreKnown, RunInv, FieldsAgree, StartsHoldRuns,
           NoCronAhead, NoOrphanedRun, StrayCronIsCancelled, StopInv,
           CronsAreTakenOnce, StoppedCronsAreIdle
  <2>2. CASE SchedulerStep
    <3>1. RuntimeStep /\ UNCHANGED reloadVars
      BY <2>2 DEF SchedulerStep, RuntimeStep
    <3>2. TypedIn(Stages)' /\ RunInv' /\ StopInv'
      BY <2>0, <3>1, TypesAreKept, RunInvIsKept, StopInvIsKept
    <3>3. \A p \in Callers : at'[p] = "put" => at[p] = "put"
      BY <2>0, <3>1, RuntimeStepsStayThere DEF RuntimeStages
    <3>4. ReloadTypeOK' /\ ChangesAreKnown'
      BY <2>0, <3>1, <3>2, <3>3
         DEF reloadVars, hostVars, botVars, callVars, ReloadTyped, TypedIn,
             Stages, ReloadTypeOK, ChangesAreKnown
    <3> QED BY <3>2, <3>4 DEF ReloadRunInv, ReloadTyped
  <2>3. CASE OwnNext
    <3>1. /\ OwnStep
          /\ op' \in [Callers -> {"none", "start", "stop", "restart"}]
          /\ wanted' \in [Callers -> SUBSET Jobs]
          /\ ReloadTypeOK'
          /\ ChangesAreKnown'
      BY <2>0, <2>3, OwnStepsAreTyped
    <3>2. Quiet /\ StopQuiet
      BY <2>0, <3>1, OwnStepsAreQuiet
    <3>3. RunInv' /\ StopInv'
      BY <2>0, <3>2, QuietKeepsRunInv, StopQuietKeepsStopInv
    <3>4. TypedIn(Stages)'
      BY <2>0, <3>1 DEF OwnStep, TypedIn, ReloadTypeOK, Stages, fieldVars,
                        runVars
    <3> QED BY <3>1, <3>3, <3>4 DEF ReloadRunInv, ReloadTyped
  <2> QED BY <2>1, <2>2, <2>3 DEF Next, OwnNext
<1> QED BY <1>1, <1>2, PTL DEF Spec

\* However reloads, the start and the close of the bot overlap, a Stop returns
\* only when no job of the cron it stopped is left.
THEOREM ReloadsLeaveNoJob == Spec => []StopLeavesNoJob
<1>1. ReloadRunInv => StopLeavesNoJob
  BY StopInvIsEnough DEF ReloadRunInv
<1> QED BY <1>1, ReloadsKeepTheRuntime, PTL

\* However they overlap, no run of the scheduler with a live context is lost.
THEOREM ReloadsLoseNoRun == Spec => [](NoOrphanedRun /\ StrayCronIsCancelled)
<1>1. ReloadRunInv => NoOrphanedRun /\ StrayCronIsCancelled
  BY DEF ReloadRunInv, RunInv
<1> QED BY <1>1, ReloadsKeepTheRuntime, PTL

\* Every variable of the bot keeps its type.
THEOREM ReloadTypesHold == Spec => []ReloadTypeOK
<1>1. ReloadRunInv => ReloadTypeOK
  BY DEF ReloadRunInv, ReloadTyped
<1> QED BY <1>1, ReloadsKeepTheRuntime, PTL

-----------------------------------------------------------------------------
(* Who closes a plugin set. *)

\* A plugin set is named by the call that loads it: a call that has yet to load
\* has none open.
UnloadedAreClosed ==
    \A p \in Callers : at[p] \in {"idle", "put", "load"} => p \notin open

\* A set that is loaded and not yet swapped in is open.
LoadedAreOpen == \A p \in Callers : at[p] = "swap" => p \in open

\* The set the host serves is open and was swapped in.
ServedIsIn ==
    served # Nobody => served \in open /\ at[served] # "swap"

\* The set a call took out is open until that call closes it, and is not the
\* one the host serves.
ReplacedAreOut ==
    \A p \in Callers :
        at[p] = "close" /\ replaced[p] # Nobody =>
            /\ replaced[p] \in open
            /\ replaced[p] # served
            /\ at[replaced[p]] # "swap"

\* The inductive invariant behind ServedSetIsOpen and OpenSetsAreHeld.
SetInv == /\ UnloadedAreClosed
          /\ LoadedAreOpen
          /\ ServedIsIn
          /\ ReplacedAreOut
          /\ OpenSetsAreHeld

\* A step that opens, takes out and closes no set.
SetsQuiet ==
    /\ UNCHANGED <<open, served, replaced>>
    /\ \A p \in Callers :
           /\ at'[p] \in {"idle", "put", "load"}
                => at[p] \in {"idle", "put", "load"}
           /\ at'[p] = "swap" <=> at[p] = "swap"
           /\ at'[p] = "close" <=> at[p] = "close"

\* Such a step keeps SetInv.
LEMMA SetsQuietKeepsSetInv ==
    ASSUME ReloadTypeOK, SetInv, SetsQuiet PROVE SetInv'
<1>1. UnloadedAreClosed' /\ LoadedAreOpen'
  BY DEF SetInv, SetsQuiet, UnloadedAreClosed, LoadedAreOpen
<1>2. ServedIsIn' /\ ReplacedAreOut'
  BY DEF SetInv, SetsQuiet, ServedIsIn, ReplacedAreOut, ReloadTypeOK
<1>3. OpenSetsAreHeld'
  BY DEF SetInv, SetsQuiet, OpenSetsAreHeld, ReloadTypeOK
<1> QED BY <1>1, <1>2, <1>3 DEF SetInv

\* Every step of the bot's own keeps SetInv.
LEMMA OwnStepsKeepSets == ASSUME ReloadTyped, SetInv, OwnNext PROVE SetInv'
<1>0. /\ at \in [Callers -> Stages]
      /\ served \in Callers \cup {Nobody}
      /\ open \in SUBSET Callers
      /\ replaced \in [Callers -> Callers \cup {Nobody}]
      /\ ReloadTypeOK
      /\ UnloadedAreClosed /\ LoadedAreOpen /\ ServedIsIn /\ ReplacedAreOut
      /\ OpenSetsAreHeld
  BY DEF ReloadTyped, TypedIn, ReloadTypeOK, SetInv
<1> USE <1>0, CallersAreThese, NobodyIsNoCaller
<1>1. ASSUME NEW p \in Callers, LoadPlugins(p) PROVE SetInv'
  <2>1. /\ at[p] = "load" /\ at' = [at EXCEPT ![p] = "swap"]
        /\ open' = open \cup {p}
        /\ p \notin open
        /\ UNCHANGED <<served, replaced>>
    BY <1>1 DEF LoadPlugins, Goto, UnloadedAreClosed
  <2>2. UnloadedAreClosed' /\ LoadedAreOpen'
    BY <2>1 DEF UnloadedAreClosed, LoadedAreOpen
  <2>3. ServedIsIn' /\ ReplacedAreOut'
    BY <2>1 DEF ServedIsIn, ReplacedAreOut
  <2>4. OpenSetsAreHeld'
    BY <2>1 DEF OpenSetsAreHeld
  <2> QED BY <2>2, <2>3, <2>4 DEF SetInv
<1>2. ASSUME NEW p \in Callers, SwapState(p) PROVE SetInv'
  <2>1. /\ at[p] = "swap" /\ at' = [at EXCEPT ![p] = "close"]
        /\ replaced' = [replaced EXCEPT ![p] = served]
        /\ served' = p /\ p \in open /\ served # p
        /\ UNCHANGED open
    BY <1>2 DEF SwapState, Goto, LoadedAreOpen, ServedIsIn
  <2>2. UnloadedAreClosed' /\ LoadedAreOpen'
    BY <2>1 DEF UnloadedAreClosed, LoadedAreOpen
  <2>3. ServedIsIn' /\ ReplacedAreOut'
    BY <2>1 DEF ServedIsIn, ReplacedAreOut
  <2>4. OpenSetsAreHeld'
    BY <2>1 DEF OpenSetsAreHeld, ReplacedAreOut
  <2> QED BY <2>2, <2>3, <2>4 DEF SetInv
<1>3. ASSUME NEW p \in Callers, CloseReplaced(p) PROVE SetInv'
  <2>1. /\ at[p] = "close"
        /\ at' = [at EXCEPT ![p] = IF p \in Closers THEN "stop" ELSE "states"]
        /\ open' = open \ {replaced[p]}
        /\ replaced' = [replaced EXCEPT ![p] = Nobody]
        /\ UNCHANGED served
    BY <1>3 DEF CloseReplaced, Goto
  <2>2. UnloadedAreClosed' /\ LoadedAreOpen'
    BY <2>1 DEF UnloadedAreClosed, LoadedAreOpen, ReplacedAreOut
  <2>3. ServedIsIn'
    BY <2>1 DEF ServedIsIn, ReplacedAreOut
  <2>4. ReplacedAreOut'
    BY <2>1 DEF ReplacedAreOut, OpenSetsAreHeld
  <2>5. OpenSetsAreHeld'
    BY <2>1 DEF OpenSetsAreHeld
  <2> QED BY <2>2, <2>3, <2>4, <2>5 DEF SetInv
<1>4. ASSUME NEW p \in Callers, HostClose(p) PROVE SetInv'
  <2>1. /\ at[p] = "hostClose" /\ at' = [at EXCEPT ![p] = "close"]
        /\ replaced' = [replaced EXCEPT ![p] = served]
        /\ served' = Nobody
        /\ UNCHANGED open
    BY <1>4 DEF HostClose, Goto
  <2>2. UnloadedAreClosed' /\ LoadedAreOpen'
    BY <2>1 DEF UnloadedAreClosed, LoadedAreOpen
  <2>3. ServedIsIn' /\ ReplacedAreOut'
    BY <2>1 DEF ServedIsIn, ReplacedAreOut
  <2>4. OpenSetsAreHeld'
    BY <2>1 DEF OpenSetsAreHeld, ReplacedAreOut
  <2> QED BY <2>2, <2>3, <2>4 DEF SetInv
<1>5. ASSUME SetsQuiet PROVE SetInv'
  BY <1>5, SetsQuietKeepsSetInv
<1>6. ASSUME BeginStart \/ OpenGateway \/ BecomeReady \/ DiskChanges
      PROVE  SetsQuiet
  BY <1>6 DEF BeginStart, OpenGateway, BecomeReady, DiskChanges, Goto,
              reloadVars, hostVars, callVars, schedulerVars, SetsQuiet, Stages
<1>7. ASSUME NEW p \in Callers, EntryStep(p) PROVE SetsQuiet
  BY <1>7 DEF EntryStep, BeginReload, BeginClose, RefuseChange, BeginChange,
              Enter, Goto, hostVars, callVars, SetsQuiet
<1>8. ASSUME NEW p \in Callers,
             \/ PutState(p)
             \/ ReadStates(p) \/ ReadInfos(p) \/ StoreSnapshot(p)
             \/ ReadCommands(p) \/ Register(p)
             \/ PlanRestart(p) \/ SkipRestart(p) \/ Fails(p)
      PROVE  SetsQuiet
  BY <1>8 DEF PutState, ReadStates, ReadInfos, StoreSnapshot, ReadCommands,
              Register, PlanRestart, SkipRestart, Fails, Fallible, Goto,
              reloadVars, hostVars, callVars, SetsQuiet
<1> QED BY <1>1, <1>2, <1>3, <1>4, <1>5, <1>6, <1>7, <1>8
        DEF OwnNext, CallStep

\* Every reachable state of the bot satisfies SetInv.
THEOREM SetsAreHeld == Spec => [](ReloadRunInv /\ SetInv)
<1>1. Init => SetInv
  BY NobodyIsNoCaller
     DEF Init, InitScheduler, SetInv, UnloadedAreClosed, LoadedAreOpen,
         ServedIsIn, ReplacedAreOut, OpenSetsAreHeld
<1>2. ReloadRunInv /\ SetInv /\ [Next]_vars => SetInv'
  <2> SUFFICES ASSUME ReloadRunInv, SetInv, [Next]_vars PROVE SetInv'
    OBVIOUS
  <2>0. ReloadTyped /\ ReloadTypeOK /\ TypedIn(Stages)
    BY DEF ReloadRunInv, ReloadTyped
  <2>1. CASE UNCHANGED vars
    <3>1. SetsQuiet
      BY <2>1 DEF vars, schedulerVars, reloadVars, hostVars, callVars, SetsQuiet
    <3> QED BY <2>0, <3>1, SetsQuietKeepsSetInv
  <2>2. CASE SchedulerStep
    <3>1. RuntimeStep /\ UNCHANGED <<open, served, replaced>>
      BY <2>2 DEF SchedulerStep, RuntimeStep, reloadVars, hostVars, callVars
    <3>2. SetsQuiet
      BY <2>0, <3>1, RuntimeStepsStayThere DEF SetsQuiet, RuntimeStages
    <3> QED BY <2>0, <3>2, SetsQuietKeepsSetInv
  <2>3. CASE OwnNext
    BY <2>0, <2>3, OwnStepsKeepSets
  <2> QED BY <2>1, <2>2, <2>3 DEF Next, OwnNext
<1> QED BY <1>1, <1>2, ReloadsKeepTheRuntime, PTL DEF Spec

\* The plugin set the host serves has not been closed by anyone.
THEOREM ServedSetsAreOpen == Spec => []ServedSetIsOpen
<1>1. SetInv => ServedSetIsOpen
  BY DEF SetInv, ServedIsIn, ServedSetIsOpen
<1> QED BY <1>1, SetsAreHeld, PTL

\* Every open plugin set is served, about to be, or held by the one call that
\* will close it.
THEOREM NoSetIsForgotten == Spec => []OpenSetsAreHeld
<1>1. SetInv => OpenSetsAreHeld
  BY DEF SetInv
<1> QED BY <1>1, SetsAreHeld, PTL

-----------------------------------------------------------------------------
(* What a reload brings about. *)

\* The calls ReloadTakesEffect speaks of, from their beginning on: they began in a
\* ready bot, and no other operator's call is beside them or after them.
Alone(p) == p \in Operators /\ p \notin disturbed /\ at[p] # "idle" /\ ~Closing

\* Nobody else moves: the start is over, the others have returned or not begun.
OthersRest(p) ==
    /\ at[Boot] = "up"
    /\ \A q \in Operators \ {p} : at[q] \in {"idle", "done"}

\* The catalog shows the rows, for the modules there are.
CatalogIsFresh ==
    snapshot = [m \in Modules |->
        IF m \in Builtin \cup hosted THEN Resolve(stored, m) ELSE "absent"]

\* What the call has read and written so far is what there is.
ReadSoFar(p) ==
    /\ at[p] \in {"infos", "store"} => states[p] = stored
    /\ at[p] = "store" => infos[p] = hosted
    /\ at[p] \in {"sync", "register", "restart?"} => CatalogIsFresh
    /\ at[p] = "register" => toRegister[p] = Registrable
    /\ at[p] = "restart?" => registered = Registrable

\* A restart carries the plan of the fresh catalog into the run it makes, and meets
\* no run but its own in between.
RestartSoFar(p) ==
    op[p] = "restart" =>
        /\ at[p] \in RuntimeStages
        /\ CatalogIsFresh /\ registered = Registrable
        /\ at[p] \in {"stop", "cancel", "halt", "wait", "start"}
             => wanted[p] = EnabledJobs
        /\ at[p] \in {"cancel", "halt", "wait", "start"}
             => handle = 0 /\ cronHandle = 0
        /\ at[p] \in {"spawn", "cronStart", "done"}
             => handle = made[p] /\ made[p] \in Runs /\ plan[handle] = EnabledJobs

Progress(p) == ReadSoFar(p) /\ RestartSoFar(p)

\* The inductive invariant behind ReloadTakesEffect.
ReloadInv ==
    /\ ready => at[Boot] = "up"
    /\ \A p \in Operators : at[p] = "idle" => op[p] # "restart"
    /\ \A p \in Operators : Alone(p) => OthersRest(p) /\ Progress(p)

\* Nothing the call p relies on changes.
LeavesAlone(p) ==
    /\ UNCHANGED <<at, op, wanted, made, handle, cronHandle, plan>>
    /\ UNCHANGED <<stored, hosted, snapshot, registered, states, infos, toRegister>>

\* Such a step keeps what p has brought about.
LEMMA LeftAloneKeepsProgress ==
    ASSUME NEW p, Progress(p), LeavesAlone(p) PROVE Progress(p)'
BY DEF LeavesAlone, Progress, ReadSoFar, RestartSoFar, CatalogIsFresh, Registrable,
       EnabledJobs, EnabledModules

\* A call that enters has read nothing and restarts nothing.
LEMMA EnteringHasNoProgress ==
    ASSUME ReloadTyped, NEW p \in Operators, EntryStep(p), op[p] # "restart", ~Closing'
    PROVE  Progress(p)'
<1>1. p \in Callers /\ at \in [Callers -> Stages]
  BY CallersAreThese DEF ReloadTyped, TypedIn
<1>2. op'[p] = op[p] /\ at'[p] \in {"load", "put", "done"}
  <2>1. CASE BeginClose(p)
    BY <1>1, <2>1 DEF BeginClose, Goto, Closing
  <2>2. CASE \/ BeginReload(p)
             \/ \E m \in Modules : RefuseChange(p, m)
             \/ \E m \in Modules, to \in {"on", "off", "unset"} : BeginChange(p, m, to)
    BY <1>1, <2>2 DEF BeginReload, RefuseChange, BeginChange, Enter, Goto,
                      SchedulerCallSame
  <2> QED BY <2>1, <2>2 DEF EntryStep
<1> QED BY <1>2 DEF Progress, ReadSoFar, RestartSoFar

\* Each step of the call itself keeps what it has brought about, and adds to it.
LEMMA CallKeepsProgress ==
    ASSUME ReloadTyped, NEW p \in Operators, p \notin Closers, p # Boot,
           Progress(p), CallStep(p)
    PROVE  Progress(p)'
<1>0. /\ p \in Callers /\ at \in [Callers -> Stages]
      /\ op \in [Callers -> {"none", "start", "stop", "restart"}]
      /\ wanted \in [Callers -> SUBSET Jobs]
      /\ states \in [Callers -> [Modules -> {"on", "off", "unset"}]]
      /\ infos \in [Callers -> SUBSET Plugins]
      /\ toRegister \in [Callers -> SUBSET Modules]
  BY CallersAreThese DEF ReloadTyped, TypedIn, ReloadTypeOK
<1> USE <1>0 DEF Goto, SchedulerCallSame, fieldVars, runVars, localVars,
                 hostVars, botVars, callVars, reloadVars
<1>1. at[p] \notin RuntimeStages => op[p] # "restart"
  BY DEF Progress, RestartSoFar
<1>2. ASSUME PutState(p) \/ LoadPlugins(p) \/ SwapState(p) \/ CloseReplaced(p)
      PROVE  Progress(p)'
  <2>1. at[p] \in {"put", "load", "swap", "close"}
    BY <1>2 DEF PutState, LoadPlugins, SwapState, CloseReplaced
  <2>2. op'[p] = op[p] /\ at'[p] \in {"load", "swap", "close", "states"}
    BY <1>2 DEF PutState, LoadPlugins, SwapState, CloseReplaced
  <2> QED BY <1>1, <2>1, <2>2 DEF Progress, ReadSoFar, RestartSoFar, RuntimeStages
<1>3. ASSUME ReadStates(p) PROVE Progress(p)'
  <2>1. /\ at[p] = "states" /\ at'[p] = "infos" /\ op' = op
        /\ states'[p] = stored /\ stored' = stored
    BY <1>3 DEF ReadStates
  <2> QED BY <1>1, <2>1 DEF Progress, ReadSoFar, RestartSoFar, RuntimeStages
<1>4. ASSUME ReadInfos(p) PROVE Progress(p)'
  <2>1. /\ at[p] = "infos" /\ at'[p] = "store" /\ op' = op
        /\ infos'[p] = hosted /\ UNCHANGED <<stored, hosted, states>>
    BY <1>4 DEF ReadInfos
  <2> QED BY <1>1, <2>1 DEF Progress, ReadSoFar, RestartSoFar, RuntimeStages
<1>5. ASSUME StoreSnapshot(p) PROVE Progress(p)'
  <2>1. /\ at[p] = "store" /\ at'[p] = "sync" /\ op' = op
        /\ snapshot' = [m \in Modules |->
               IF m \in Builtin \cup infos[p] THEN Resolve(states[p], m) ELSE "absent"]
        /\ UNCHANGED <<stored, hosted>>
    BY <1>5 DEF StoreSnapshot
  <2>2. states[p] = stored /\ infos[p] = hosted
    BY <2>1 DEF Progress, ReadSoFar
  <2>3. CatalogIsFresh'
    BY <2>1, <2>2 DEF CatalogIsFresh, Resolve
  <2> QED BY <1>1, <2>1, <2>3 DEF Progress, ReadSoFar, RestartSoFar, RuntimeStages
<1>6. ASSUME ReadCommands(p) PROVE Progress(p)'
  <2>1. /\ at[p] = "sync" /\ at'[p] = "register" /\ op' = op
        /\ toRegister'[p] = Registrable /\ UNCHANGED <<stored, hosted, snapshot>>
    BY <1>6 DEF ReadCommands
  <2>2. CatalogIsFresh' /\ Registrable' = Registrable
    BY <2>1 DEF Progress, ReadSoFar, CatalogIsFresh, Registrable, EnabledModules
  <2> QED BY <1>1, <2>1, <2>2 DEF Progress, ReadSoFar, RestartSoFar, RuntimeStages
<1>7. ASSUME Register(p) PROVE Progress(p)'
  <2>1. /\ at[p] = "register" /\ at'[p] = "restart?" /\ op' = op
        /\ registered' = toRegister[p] /\ UNCHANGED <<stored, hosted, snapshot>>
    BY <1>7 DEF Register
  <2>2. CatalogIsFresh' /\ registered' = Registrable'
    BY <2>1 DEF Progress, ReadSoFar, CatalogIsFresh, Registrable, EnabledModules
  <2> QED BY <1>1, <2>1, <2>2 DEF Progress, ReadSoFar, RestartSoFar, RuntimeStages
<1>8. ASSUME PlanRestart(p) PROVE Progress(p)'
  <2>1. /\ at[p] = "restart?" /\ at'[p] = "stop"
        /\ wanted'[p] = EnabledJobs
        /\ UNCHANGED <<stored, hosted, snapshot, registered>>
    BY <1>8 DEF PlanRestart
  <2>2. CatalogIsFresh' /\ registered' = Registrable' /\ EnabledJobs' = EnabledJobs
    BY <2>1 DEF Progress, ReadSoFar, CatalogIsFresh, Registrable, EnabledModules,
                EnabledJobs
  <2> QED BY <2>1, <2>2 DEF Progress, ReadSoFar, RestartSoFar, RuntimeStages
<1>9. ASSUME SkipRestart(p) \/ Fails(p) PROVE Progress(p)'
  <2>1. at[p] \in Fallible \cup {"restart?"} /\ at'[p] = "done" /\ op' = op
    BY <1>9 DEF SkipRestart, Fails
  <2> QED BY <1>1, <2>1 DEF Progress, ReadSoFar, RestartSoFar, RuntimeStages, Fallible
<1>10. ASSUME HostClose(p) PROVE Progress(p)'
  <2>1. at[p] = "hostClose" /\ at'[p] = "close" /\ op' = op
    BY <1>10 DEF HostClose
  <2> QED BY <1>1, <2>1 DEF Progress, ReadSoFar, RestartSoFar, RuntimeStages
<1> QED BY <1>2, <1>3, <1>4, <1>5, <1>6, <1>7, <1>8, <1>9, <1>10 DEF CallStep

\* The steps of its restart: the fields it clears stay clear until it starts its run.
LEMMA RestartKeepsProgress ==
    ASSUME ReloadTyped, NEW p \in Operators, Progress(p), UNCHANGED reloadVars,
           StopStep(p) \/ StartStep(p)
    PROVE  Progress(p)'
<1>0. /\ p \in Callers /\ at \in [Callers -> Stages]
      /\ wanted \in [Callers -> SUBSET Jobs]
      /\ plan \in [Runs -> SUBSET Jobs]
      /\ made \in [Callers -> 0..MaxRuns]
  BY CallersAreThese DEF ReloadTyped, TypedIn
<1>1. /\ UNCHANGED <<stored, hosted, snapshot, registered, states, infos, toRegister>>
      /\ CatalogIsFresh' = CatalogIsFresh /\ Registrable' = Registrable
      /\ EnabledJobs' = EnabledJobs
  BY DEF reloadVars, hostVars, botVars, callVars, CatalogIsFresh, Registrable,
         EnabledJobs, EnabledModules
<1> USE <1>0 DEF fieldVars, runVars, localVars
<1>2. /\ at[p] \in RuntimeStages /\ at'[p] \in RuntimeStages /\ op' = op
  BY DEF StopStep, StopTakes, StopCancels, StopHaltsCron, StopReturns, AfterStop,
         StartStep, StartRefused, StartCreates, StartSpawns, StartStartsCron,
         RuntimeStages
<1>3. ReadSoFar(p)'
  BY <1>2 DEF ReadSoFar, RuntimeStages
<1>4. CASE op[p] # "restart"
  BY <1>2, <1>3, <1>4 DEF Progress, RestartSoFar
<1>5. CASE op[p] = "restart"
  <2>0. /\ CatalogIsFresh /\ registered = Registrable
        /\ at[p] \in {"stop", "cancel", "halt", "wait", "start"}
             => wanted[p] = EnabledJobs
        /\ at[p] \in {"cancel", "halt", "wait", "start"}
             => handle = 0 /\ cronHandle = 0
        /\ at[p] \in {"spawn", "cronStart", "done"}
             => handle = made[p] /\ made[p] \in Runs /\ plan[handle] = EnabledJobs
    BY <1>5 DEF Progress, RestartSoFar
  <2>1. ASSUME StopTakes(p) PROVE RestartSoFar(p)'
    BY <1>1, <1>2, <2>0, <2>1 DEF StopTakes, RestartSoFar
  <2>2. ASSUME StopCancels(p) \/ StopReturns(p) \/ StopHaltsCron(p)
        PROVE  RestartSoFar(p)'
    <3>1. /\ at[p] \in {"cancel", "halt", "wait"}
          /\ at'[p] \in {"halt", "wait", "start"}
          /\ UNCHANGED <<handle, cronHandle, wanted>>
      BY <1>5, <2>2 DEF StopCancels, StopReturns, StopHaltsCron, AfterStop
    <3> QED BY <1>1, <1>2, <2>0, <3>1 DEF RestartSoFar
  <2>3. ASSUME StartRefused(p) PROVE RestartSoFar(p)'
    BY <2>0, <2>3 DEF StartRefused
  <2>4. ASSUME StartCreates(p) PROVE RestartSoFar(p)'
    <3>1. /\ at[p] = "start" /\ at'[p] = "spawn"
          /\ started + 1 \in Runs
          /\ handle' = started + 1 /\ made'[p] = started + 1
          /\ plan'[started + 1] = wanted[p]
      BY <2>4 DEF StartCreates
    <3> QED BY <1>1, <1>2, <2>0, <3>1 DEF RestartSoFar
  <2>5. ASSUME StartSpawns(p) \/ StartStartsCron(p) PROVE RestartSoFar(p)'
    <3>1. /\ at[p] \in {"spawn", "cronStart"} /\ at'[p] \in {"cronStart", "done"}
          /\ UNCHANGED <<handle, made, plan>>
      BY <2>5 DEF StartSpawns, StartStartsCron
    <3> QED BY <1>1, <1>2, <2>0, <3>1 DEF RestartSoFar
  <2> QED BY <1>3, <2>1, <2>2, <2>3, <2>4, <2>5 DEF Progress, StopStep, StartStep
<1> QED BY <1>4, <1>5

\* While p is alone, nobody else's step leads anywhere: the other calls rest, the
\* next to enter ends p's being alone, and disks, contexts and jobs are not read.
LEMMA OthersLeaveItAlone ==
    ASSUME ReloadTyped, NEW p \in Operators, Alone(p), Alone(p)', OthersRest(p), Next,
           ~EntryStep(p), ~CallStep(p),
           ~(UNCHANGED reloadVars /\ (StopStep(p) \/ StartStep(p)))
    PROVE  LeavesAlone(p)
<1>1. \A q \in Callers \ {p} : at[q] \in {"idle", "done", "up"}
  BY CallersAreThese DEF OthersRest, Alone, Closing
<1>2. p \in Callers /\ at \in [Callers -> Stages]
  BY CallersAreThese DEF ReloadTyped, TypedIn
<1> USE DEF LeavesAlone, fieldVars, runVars, localVars, hostVars, botVars, callVars,
            reloadVars
<1>3. ~BeginStart /\ ~OpenGateway /\ ~BecomeReady
  BY DEF BeginStart, OpenGateway, BecomeReady, OthersRest
<1>4. CASE DiskChanges
  BY <1>4 DEF DiskChanges, schedulerVars
<1>5. CASE SchedulerStep
  <2>1. ASSUME NEW q \in Callers, StopStep(q) \/ StartStep(q), q # p PROVE FALSE
    BY <1>1, <2>1 DEF StopStep, StopTakes, StopCancels, StopHaltsCron, StopReturns,
       StartStep, StartRefused, StartCreates, StartSpawns, StartStartsCron
  <2>2. \/ \E q \in Callers : ContextEnds(q)
        \/ \E n \in Runs : JobStep(n)
    BY <1>5, <2>1 DEF SchedulerStep
  <2> QED BY <1>5, <2>2 DEF SchedulerStep, ContextEnds, JobStep, JobFires, JobReturns
<1>6. ASSUME NEW q \in Callers, q # p, CallStep(q) PROVE FALSE
  BY <1>1, <1>6 DEF CallStep, PutState, LoadPlugins, SwapState, CloseReplaced,
     ReadStates, ReadInfos, StoreSnapshot, ReadCommands, Register, PlanRestart,
     SkipRestart, Fails, HostClose, Fallible
<1>7. ASSUME NEW q \in Callers, q # p, EntryStep(q) PROVE FALSE
  <2>1. CASE BeginClose(q)
    BY <1>2, <2>1 DEF BeginClose, Goto, Alone, Closing
  <2>2. CASE Enter(q)
    BY <2>2 DEF Enter, Alone
  <2> QED BY <1>7, <2>1, <2>2 DEF EntryStep, BeginReload, RefuseChange, BeginChange
<1> QED BY <1>3, <1>4, <1>5, <1>6, <1>7 DEF Next

\* What holds of every step: a bot that is up stays up, nothing becomes idle, an
\* operator's call leaves idle by its entry, and only the start makes the bot ready.
LEMMA StepsOfCalls ==
    ASSUME ReloadTyped, ReloadInv, Next
    PROVE  /\ \A q \in Callers : /\ at[q] = "up" => at'[q] = "up"
                                 /\ at'[q] = "idle" => at[q] = "idle" /\ op'[q] = op[q]
                                 /\ at[q] = "idle" /\ at'[q] # "idle"
                                      => q = Boot \/ EntryStep(q)
           /\ disturbed \subseteq disturbed'
           /\ ready' => at'[Boot] = "up"
<1>0. /\ at \in [Callers -> Stages] /\ Boot \in Callers
      /\ op \in [Callers -> {"none", "start", "stop", "restart"}]
  BY CallersAreThese DEF ReloadTyped, TypedIn
<1> DEFINE Goal == /\ \A q \in Callers :
                          /\ at[q] = "up" => at'[q] = "up"
                          /\ at'[q] = "idle" => at[q] = "idle" /\ op'[q] = op[q]
                          /\ at[q] = "idle" /\ at'[q] # "idle"
                               => q = Boot \/ EntryStep(q)
                   /\ disturbed \subseteq disturbed'
                   /\ ready' => ready \/ at'[Boot] = "up"
<1> USE <1>0 DEF Goto, SchedulerCallSame, fieldVars, runVars, localVars,
                 hostVars, botVars, callVars, reloadVars, Fallible
<1>1. ASSUME BeginStart \/ OpenGateway \/ BecomeReady \/ DiskChanges PROVE Goal
  BY <1>1 DEF BeginStart, OpenGateway, BecomeReady, DiskChanges, schedulerVars
<1>2. ASSUME NEW q \in Callers, EntryStep(q) PROVE Goal
  BY <1>2 DEF EntryStep, BeginReload, BeginClose, RefuseChange, BeginChange, Enter
<1>3. ASSUME NEW q \in Callers, CloseReplaced(q) PROVE Goal
  BY <1>3 DEF CloseReplaced
<1>4. ASSUME NEW q \in Callers, Register(q) \/ PlanRestart(q) PROVE Goal
  BY <1>4 DEF Register, PlanRestart
<1>5. ASSUME NEW q \in Callers,
             \/ PutState(q) \/ LoadPlugins(q) \/ SwapState(q)
             \/ ReadStates(q) \/ ReadInfos(q) \/ StoreSnapshot(q)
             \/ ReadCommands(q) \/ SkipRestart(q) \/ Fails(q) \/ HostClose(q)
      PROVE  Goal
  BY <1>5 DEF PutState, LoadPlugins, SwapState, ReadStates, ReadInfos, StoreSnapshot,
     ReadCommands, SkipRestart, Fails, HostClose
<1>6. ASSUME SchedulerStep PROVE Goal
  <2>1. /\ UNCHANGED <<op, disturbed, ready>>
        /\ \A q \in Callers : \/ at'[q] = at[q]
                              \/ at[q] \in RuntimeStages /\ at'[q] \in RuntimeStages
    <3>1. RuntimeStep /\ UNCHANGED <<op, disturbed, ready>>
      BY <1>6 DEF SchedulerStep, RuntimeStep, StopStep, StopTakes, StopCancels,
         StopHaltsCron, StopReturns, StartStep, StartRefused, StartCreates, StartSpawns,
         StartStartsCron, ContextEnds, JobStep, JobFires, JobReturns
    <3> QED BY <3>1, RuntimeStepsStayThere DEF ReloadTyped
  <2> QED BY <2>1 DEF RuntimeStages
<1>7. Goal
  BY <1>1, <1>2, <1>3, <1>4, <1>5, <1>6 DEF Next, CallStep
<1> QED BY <1>7 DEF ReloadInv

\* A step of one call moves no other.
LEMMA OneCallMoves ==
    ASSUME ReloadTyped, NEW p \in Callers, CallStep(p) \/ StopStep(p) \/ StartStep(p)
    PROVE  \A q \in Callers \ {p} : at'[q] = at[q]
<1>0. at \in [Callers -> Stages]
  BY DEF ReloadTyped, TypedIn
<1>1. CASE CallStep(p)
  BY <1>0, <1>1 DEF CallStep, PutState, LoadPlugins, SwapState, CloseReplaced,
     ReadStates, ReadInfos, StoreSnapshot, ReadCommands, Register, PlanRestart,
     SkipRestart, Fails, HostClose, Goto
<1>2. CASE StopStep(p) \/ StartStep(p)
  BY <1>0, <1>2 DEF StopStep, StopTakes, StopCancels, StopHaltsCron, StopReturns,
     StartStep, StartRefused, StartCreates, StartSpawns, StartStartsCron
<1> QED BY <1>1, <1>2

\* Every step keeps ReloadInv.
LEMMA ReloadStep == ASSUME ReloadTyped, ReloadInv, [Next]_vars PROVE ReloadInv'
<1>0. /\ Operators \subseteq Callers /\ Boot \in Callers
      /\ at \in [Callers -> Stages]
  BY CallersAreThese DEF ReloadTyped, TypedIn
<1>1. CASE UNCHANGED vars
  <2>1. \A p : LeavesAlone(p) /\ (Alone(p)' = Alone(p)) /\ (OthersRest(p)' = OthersRest(p))
    BY <1>1 DEF vars, schedulerVars, fieldVars, runVars, localVars, reloadVars, hostVars,
       botVars, callVars, LeavesAlone, Alone, Closing, OthersRest
  <2>2. UNCHANGED <<ready, at, op>>
    BY <1>1 DEF vars, schedulerVars, reloadVars, botVars
  <2> QED BY <2>1, <2>2, LeftAloneKeepsProgress DEF ReloadInv
<1>2. CASE Next
  <2>1. /\ \A q \in Callers : /\ at[q] = "up" => at'[q] = "up"
                              /\ at'[q] = "idle" => at[q] = "idle" /\ op'[q] = op[q]
                              /\ at[q] = "idle" /\ at'[q] # "idle"
                                   => q = Boot \/ EntryStep(q)
        /\ disturbed \subseteq disturbed'
        /\ ready' => at'[Boot] = "up"
    BY <1>2, StepsOfCalls
  <2>2. ASSUME NEW p \in Operators, Alone(p)' PROVE OthersRest(p)' /\ Progress(p)'
    <3>0. p # Boot /\ p \notin Closers /\ p \in Callers
      BY <1>0, <2>2, BootIsNoOperator DEF Alone, Closing
    <3>1. CASE at[p] = "idle"
      <4>1. EntryStep(p)
        BY <2>1, <2>2, <3>0, <3>1 DEF Alone
      <4>2. Enter(p) /\ \A q \in Callers \ {p} : at'[q] = at[q]
        BY <1>0, <3>0, <4>1 DEF EntryStep, BeginReload, RefuseChange, BeginChange,
           BeginClose, Goto
      <4>3. ready /\ \A q \in Operators \ {p} : at[q] \in {"idle", "done"}
        BY <2>2, <4>2 DEF Enter, Alone
      <4>4. OthersRest(p)'
        BY <1>0, <3>0, <4>2, <4>3 DEF OthersRest, ReloadInv
      <4>5. Progress(p)'
        BY <2>2, <3>1, <4>1, EnteringHasNoProgress DEF ReloadInv, Alone
      <4> QED BY <4>4, <4>5
    <3>2. CASE at[p] # "idle"
      <4>1. Alone(p) /\ OthersRest(p) /\ Progress(p)
        BY <1>0, <2>1, <2>2, <3>2, CallersAreThese DEF Alone, Closing, ReloadInv
      <4>2. ASSUME \A q \in Callers \ {p} : at'[q] = at[q] PROVE OthersRest(p)'
        BY <1>0, <3>0, <4>1, <4>2 DEF OthersRest
      <4>3. CASE EntryStep(p)
        BY <3>0, <3>2, <4>3 DEF EntryStep, BeginReload, BeginClose, RefuseChange,
           BeginChange, Enter
      <4>4. CASE CallStep(p)
        BY <3>0, <4>1, <4>2, <4>4, OneCallMoves, CallKeepsProgress
      <4>5. CASE UNCHANGED reloadVars /\ (StopStep(p) \/ StartStep(p))
        BY <3>0, <4>1, <4>2, <4>5, OneCallMoves, RestartKeepsProgress
      <4>6. CASE ~EntryStep(p) /\ ~CallStep(p)
                 /\ ~(UNCHANGED reloadVars /\ (StopStep(p) \/ StartStep(p)))
        <5>1. LeavesAlone(p)
          BY <1>2, <2>2, <4>1, <4>6, OthersLeaveItAlone
        <5>2. OthersRest(p)'
          BY <4>1, <5>1 DEF OthersRest, LeavesAlone
        <5> QED BY <4>1, <5>1, <5>2, LeftAloneKeepsProgress
      <4> QED BY <4>3, <4>4, <4>5, <4>6
    <3> QED BY <3>1, <3>2
  <2> QED BY <1>0, <2>1, <2>2 DEF ReloadInv
<1> QED BY <1>1, <1>2

\* For any number of operators: the last of the reloads, when it began in a ready bot,
\* overlapped no other call and got as far as the restart, took effect in the catalog,
\* in Discord and in the scheduler, whatever the calls before it left half done.
THEOREM ReloadsTakeEffect == Spec => []ReloadTakesEffect
<1>1. Init => ReloadInv
  BY CallersAreThese DEF Init, InitScheduler, ReloadInv, Alone
<1>2. ReloadRunInv /\ ReloadInv /\ [Next]_vars => ReloadInv'
  BY ReloadStep DEF ReloadRunInv
<1>3. ReloadRunInv /\ ReloadInv => ReloadTakesEffect
  <2> SUFFICES ASSUME ReloadRunInv, ReloadInv, NEW p \in Operators,
                      at[p] = "done", op[p] = "restart", p \notin disturbed, ~Closing
               PROVE  /\ \A m \in Builtin \cup hosted : snapshot[m] = Resolve(stored, m)
                      /\ EnabledModules \subseteq registered
                      /\ EnabledModules \cap Plugins # {} => registered = EnabledModules
                      /\ handle = made[p] /\ plan[handle] = EnabledJobs
    BY DEF ReloadTakesEffect
  <2>1. /\ CatalogIsFresh /\ registered = Registrable
        /\ handle = made[p] /\ plan[handle] = EnabledJobs
    BY DEF ReloadInv, Alone, Progress, RestartSoFar
  <2>2. hosted \subseteq Plugins
    BY DEF ReloadRunInv, ReloadTyped, ReloadTypeOK
  <2>3. \A m \in Builtin \cup hosted : snapshot[m] = Resolve(stored, m)
    BY <2>1, <2>2 DEF CatalogIsFresh, Modules
  <2>4. EnabledModules \subseteq Builtin \cup hosted
    BY <2>1 DEF CatalogIsFresh, EnabledModules
  <2>5. EnabledModules \subseteq registered
    BY <2>1, <2>2, <2>4 DEF Registrable, EnabledModules, Modules
  <2>6. ASSUME EnabledModules \cap Plugins # {} PROVE registered = EnabledModules
    BY <2>1, <2>2, <2>4, <2>6 DEF Registrable
  <2> QED BY <2>1, <2>3, <2>5, <2>6
<1> QED BY <1>1, <1>2, <1>3, ReloadsKeepTheRuntime, PTL DEF Spec
=============================================================================
