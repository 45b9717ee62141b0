--------------------------- MODULE SchedulerRuntime ---------------------------
(***************************************************************************)
(* The scheduling runtime (internal/scheduling/runtime.go) and the plan it *)
(* runs (runtime/discord/automation/scheduler.go).                         *)
(*                                                                         *)
(* A run is one Start that got past its guard: a cancellable context under *)
(* the caller's context, an interval task (the reminder poll) and, when    *)
(* the plan has plugin jobs, a cron.  Start and Stop hold the lock only    *)
(* while they exchange the fields; spawning, cancelling and stopping the   *)
(* cron happen after the unlock, so calls interleave between these steps.  *)
(* Each caller makes one call, under a context of its own.  A step that    *)
(* uses a local for the last time clears it.                               *)
(***************************************************************************)
EXTENDS Integers

CONSTANTS
    Callers,        \* goroutines that call the runtime, one call each
    Jobs,           \* plugin jobs a plan may hold
    MaxRuns,        \* bound: runs numbered 1..MaxRuns
    MaxFirings,     \* bound: jobs of one cron in progress at a time
    Nobody          \* the owner of a run that does not exist yet

ASSUME NobodyIsNoCaller == Nobody \notin Callers
ASSUME BoundsNatural == MaxRuns \in Nat /\ MaxFirings \in Nat

VARIABLES
    handle,         \* Runtime.cancel: the run it cancels, 0 for nil
    cronHandle,     \* Runtime.cron: the run it belongs to, 0 for nil
    started,        \* how many runs exist
    owner,          \* the caller whose context a run derives from
    plan,           \* the jobs of a run's plan
    cancelled,      \* the runs whose cancel function was called
    cron,           \* where the cron of a run stands
    task,           \* where the interval task of a run stands
    firing,         \* jobs of a run's cron in progress
    at,             \* where a caller stands
    op,             \* what it called
    wanted,         \* the plan it passes to Start
    taken,          \* Stop's local cancel: a run or 0
    cronTaken,      \* Stop's local c: a run or 0
    made,           \* Start's local runCtx: a run or 0
    over            \* the callers whose context has ended

fieldVars == <<handle, cronHandle>>
runVars   == <<started, owner, plan, cancelled, cron, task, firing>>
localVars == <<wanted, taken, cronTaken, made>>

schedulerVars == <<fieldVars, runVars, at, op, localVars, over>>

Runs == 1..MaxRuns

InitScheduler ==
    /\ handle = 0
    /\ cronHandle = 0
    /\ started = 0
    /\ owner = [n \in Runs |-> Nobody]
    /\ plan = [n \in Runs |-> {}]
    /\ cancelled = {}
    /\ cron = [n \in Runs |-> "none"]
    /\ task = [n \in Runs |-> "none"]
    /\ firing = [n \in Runs |-> 0]
    /\ at = [p \in Callers |-> "idle"]
    /\ op = [p \in Callers |-> "none"]
    /\ wanted = [p \in Callers |-> {}]
    /\ taken = [p \in Callers |-> 0]
    /\ cronTaken = [p \in Callers |-> 0]
    /\ made = [p \in Callers |-> 0]
    /\ over = {}

-----------------------------------------------------------------------------
(* Stop, also the first half of Restart. *)

\* What follows Stop in the call that made it.
AfterStop(p) == IF op[p] = "restart" THEN "start" ELSE "done"

\* Under the lock: take both fields and clear them.
StopTakes(p) ==
    /\ at[p] = "stop"
    /\ taken' = [taken EXCEPT ![p] = handle]
    /\ cronTaken' = [cronTaken EXCEPT ![p] = cronHandle]
    /\ handle' = 0
    /\ cronHandle' = 0
    /\ at' = [at EXCEPT ![p] = "cancel"]
    /\ UNCHANGED <<runVars, op, wanted, made, over>>

\* cancel(), outside the lock.
StopCancels(p) ==
    /\ at[p] = "cancel"
    /\ cancelled' = cancelled \cup ({taken[p]} \ {0})
    /\ taken' = [taken EXCEPT ![p] = 0]
    /\ at' = [at EXCEPT ![p] = "halt"]
    /\ UNCHANGED <<fieldVars, started, owner, plan, cron, task, firing, op,
                   wanted, cronTaken, made, over>>

\* c.Stop(): a cron that is not running yet is left as it is.
StopHaltsCron(p) ==
    /\ at[p] = "halt"
    /\ IF cronTaken[p] = 0
       THEN /\ at' = [at EXCEPT ![p] = AfterStop(p)]
            /\ UNCHANGED cron
       ELSE /\ at' = [at EXCEPT ![p] = "wait"]
            /\ cron' = [cron EXCEPT
                   ![cronTaken[p]] = IF @ = "running" THEN "stopped" ELSE @]
    /\ UNCHANGED <<fieldVars, started, owner, plan, cancelled, task, firing, op,
                   localVars, over>>

\* Mutation: Stop does not wait for the jobs in progress.
StopReturns_AtOnce(p) ==
    /\ at[p] = "wait"
    /\ at' = [at EXCEPT ![p] = AfterStop(p)]
    /\ UNCHANGED <<fieldVars, runVars, op, localVars, over>>

\* <-c.Stop().Done(): the jobs in progress have returned.
StopReturns(p) ==
    /\ at[p] = "wait"
    /\ firing[cronTaken[p]] = 0
    /\ at' = [at EXCEPT ![p] = AfterStop(p)]
    /\ UNCHANGED <<fieldVars, runVars, op, localVars, over>>

-----------------------------------------------------------------------------
(* Start, also the second half of Restart. *)

\* Mutation: Start waits for the fields to be cleared.
StartRefused_Waits(p) ==
    /\ at[p] = "start"
    /\ handle # 0 \/ cronHandle # 0
    /\ UNCHANGED schedulerVars

\* The guard: something is already running, and the plan is dropped.
StartRefused(p) ==
    /\ at[p] = "start"
    /\ handle # 0 \/ cronHandle # 0
    /\ wanted' = [wanted EXCEPT ![p] = {}]
    /\ at' = [at EXCEPT ![p] = "done"]
    /\ UNCHANGED <<fieldVars, runVars, op, taken, cronTaken, made, over>>

\* Mutation: without the guard.
StartCreates_Unguarded(p) ==
    LET n == started + 1
    IN  /\ at[p] = "start"
        /\ n \in Runs
        /\ started' = n
        /\ owner' = [owner EXCEPT ![n] = p]
        /\ plan' = [plan EXCEPT ![n] = wanted[p]]
        /\ made' = [made EXCEPT ![p] = n]
        /\ handle' = n
        /\ IF wanted[p] = {}
           THEN UNCHANGED <<cron, cronHandle>>
           ELSE /\ cron' = [cron EXCEPT ![n] = "built"]
                /\ cronHandle' = n
        /\ wanted' = [wanted EXCEPT ![p] = {}]
        /\ at' = [at EXCEPT ![p] = "spawn"]
        /\ UNCHANGED <<cancelled, task, firing, op, taken, cronTaken, over>>

\* Under the lock: a new run context and, for a plan with jobs, its cron.
StartCreates(p) ==
    LET n == started + 1
    IN  /\ at[p] = "start"
        /\ handle = 0 /\ cronHandle = 0
        /\ n \in Runs
        /\ started' = n
        /\ owner' = [owner EXCEPT ![n] = p]
        /\ plan' = [plan EXCEPT ![n] = wanted[p]]
        /\ made' = [made EXCEPT ![p] = n]
        /\ handle' = n
        /\ IF wanted[p] = {}
           THEN UNCHANGED <<cron, cronHandle>>
           ELSE /\ cron' = [cron EXCEPT ![n] = "built"]
                /\ cronHandle' = n
        /\ wanted' = [wanted EXCEPT ![p] = {}]
        /\ at' = [at EXCEPT ![p] = "spawn"]
        /\ UNCHANGED <<cancelled, task, firing, op, taken, cronTaken, over>>

\* After the unlock: the goroutine of the interval task.
StartSpawns(p) ==
    /\ at[p] = "spawn"
    /\ task' = [task EXCEPT ![made[p]] = "waiting"]
    /\ at' = [at EXCEPT
           ![p] = IF cron[made[p]] = "built" THEN "cronStart" ELSE "done"]
    /\ UNCHANGED <<fieldVars, started, owner, plan, cancelled, cron, firing, op,
                   localVars, over>>

\* c.Start(), also after the unlock: a Stop may have come and gone.
StartStartsCron(p) ==
    /\ at[p] = "cronStart"
    /\ cron' = [cron EXCEPT ![made[p]] = "running"]
    /\ at' = [at EXCEPT ![p] = "done"]
    /\ UNCHANGED <<fieldVars, started, owner, plan, cancelled, task, firing, op,
                   localVars, over>>

-----------------------------------------------------------------------------
(* The run's goroutines. *)

\* ctx.Done() of the run's context: its own cancel or its caller's context.
Ended(n) == n \in cancelled \/ owner[n] \in over

\* select: the ticker may win over a context that is done too.
TaskTicks(n) ==
    /\ task[n] = "waiting"
    /\ task' = [task EXCEPT ![n] = "running"]
    /\ UNCHANGED <<fieldVars, started, owner, plan, cancelled, cron, firing, at,
                   op, localVars, over>>

TaskReturns(n) ==
    /\ task[n] = "running"
    /\ task' = [task EXCEPT ![n] = "waiting"]
    /\ UNCHANGED <<fieldVars, started, owner, plan, cancelled, cron, firing, at,
                   op, localVars, over>>

\* Mutation: the task listens to Stop only, not to its caller's context.
TaskEnds_OnStop(n) ==
    /\ task[n] = "waiting"
    /\ n \in cancelled
    /\ task' = [task EXCEPT ![n] = "ended"]
    /\ UNCHANGED <<fieldVars, started, owner, plan, cancelled, cron, firing, at,
                   op, localVars, over>>

TaskEnds(n) ==
    /\ task[n] = "waiting"
    /\ Ended(n)
    /\ task' = [task EXCEPT ![n] = "ended"]
    /\ UNCHANGED <<fieldVars, started, owner, plan, cancelled, cron, firing, at,
                   op, localVars, over>>

\* The cron knows nothing of the run's context: it fires until it is stopped.
JobFires(n) ==
    /\ cron[n] = "running"
    /\ firing[n] < MaxFirings
    /\ firing' = [firing EXCEPT ![n] = @ + 1]
    /\ UNCHANGED <<fieldVars, started, owner, plan, cancelled, cron, task, at,
                   op, localVars, over>>

JobReturns(n) ==
    /\ firing[n] > 0
    /\ firing' = [firing EXCEPT ![n] = @ - 1]
    /\ UNCHANGED <<fieldVars, started, owner, plan, cancelled, cron, task, at,
                   op, localVars, over>>

-----------------------------------------------------------------------------
(* Calls, each with any plan, and the end of a caller's context. *)

Call(p, o, jobs) ==
    /\ at[p] = "idle"
    /\ op' = [op EXCEPT ![p] = o]
    /\ wanted' = [wanted EXCEPT ![p] = jobs]
    /\ at' = [at EXCEPT ![p] = IF o = "start" THEN "start" ELSE "stop"]
    /\ UNCHANGED <<fieldVars, runVars, taken, cronTaken, made, over>>

\* A handler's context ends after its return, or earlier when it times out
\* or its client goes away.
ContextEnds(p) ==
    /\ at[p] # "idle"
    /\ p \notin over
    /\ over' = over \cup {p}
    /\ UNCHANGED <<fieldVars, runVars, at, op, localVars>>

StopStep(p) == \/ StopTakes(p) \/ StopCancels(p)
               \/ StopHaltsCron(p) \/ StopReturns(p)

StartStep(p) == \/ StartRefused(p) \/ StartCreates(p)
                \/ StartSpawns(p) \/ StartStartsCron(p)

TaskStep(n) == TaskTicks(n) \/ TaskReturns(n) \/ TaskEnds(n)

JobStep(n) == JobFires(n) \/ JobReturns(n)

NextScheduler ==
    \/ \E p \in Callers : StopStep(p) \/ StartStep(p) \/ ContextEnds(p)
    \/ \E n \in Runs : TaskStep(n) \/ JobStep(n)
    \/ \E p \in Callers, jobs \in SUBSET Jobs :
           \/ Call(p, "start", jobs)
           \/ Call(p, "restart", jobs)
           \/ Call(p, "stop", {})

SchedulerSpec == InitScheduler /\ [][NextScheduler]_schedulerVars

\* Goroutines are scheduled and jobs return (each has a timeout).  A task at
\* its select chooses between ready channels at random, so it cannot ignore a
\* done context for ever; a WaitGroup that reaches zero releases its waiter.
SchedulerFairness ==
    /\ \A p \in Callers :
           /\ WF_schedulerVars(StopTakes(p))
           /\ WF_schedulerVars(StopCancels(p))
           /\ WF_schedulerVars(StopHaltsCron(p))
           /\ SF_schedulerVars(StopReturns(p))
           /\ WF_schedulerVars(StartStep(p))
    /\ \A n \in Runs :
           /\ WF_schedulerVars(TaskReturns(n))
           /\ SF_schedulerVars(TaskEnds(n))
           /\ WF_schedulerVars(JobReturns(n))

FairSchedulerSpec == SchedulerSpec /\ SchedulerFairness

-----------------------------------------------------------------------------
(* Properties *)

CronStages == {"none", "built", "running", "stopped"}
TaskStages == {"none", "waiting", "running", "ended"}
RuntimeStages == {"stop", "cancel", "halt", "wait",
                  "start", "spawn", "cronStart", "done"}

\* Every variable holds a value of its kind.
TypeOK ==
    /\ handle \in 0..started
    /\ cronHandle \in 0..started
    /\ started \in 0..MaxRuns
    /\ owner \in [Runs -> Callers \cup {Nobody}]
    /\ plan \in [Runs -> SUBSET Jobs]
    /\ cancelled \in SUBSET Runs
    /\ cron \in [Runs -> CronStages]
    /\ task \in [Runs -> TaskStages]
    /\ firing \in [Runs -> 0..MaxFirings]
    /\ at \in [Callers -> RuntimeStages \cup {"idle"}]
    /\ op \in [Callers -> {"none", "start", "stop", "restart"}]
    /\ wanted \in [Callers -> SUBSET Jobs]
    /\ taken \in [Callers -> 0..MaxRuns]
    /\ cronTaken \in [Callers -> 0..MaxRuns]
    /\ made \in [Callers -> 0..MaxRuns]
    /\ over \in SUBSET Callers

\* No run is lost while its context is live: the runtime can still cancel it,
\* or a Stop that took it is about to (runtime.go:50-56, :117-126).
NoOrphanedRun ==
    \A n \in 1..started :
        \/ n \in cancelled
        \/ handle = n
        \/ \E p \in Callers : at[p] = "cancel" /\ taken[p] = n

\* A cron that is left running behind the runtime's back (its Start was
\* overtaken by a Stop, runtime.go:93-95) has at most a cancelled context, or
\* the Stop that will cancel and halt it is still under way.
StrayCronIsCancelled ==
    \A n \in Runs :
        cron[n] = "running" =>
            \/ cronHandle = n
            \/ n \in cancelled
            \/ \E p \in Callers : at[p] = "cancel" /\ taken[p] = n

\* Stop returns only when no job of the cron it stopped is left, unless that
\* cron was started after the Stop (runtime.go:127-129).
StopLeavesNoJob ==
    \A p \in Callers :
        cronTaken[p] # 0 /\ at[p] \in {"start", "spawn", "done"} =>
            \/ cron[cronTaken[p]] # "stopped"
            \/ firing[cronTaken[p]] = 0

\* The interval task of every run whose context is done ends: a restart leaves
\* no poller behind (scheduling/runtime_test.go:11).
EndedRunStops ==
    \A n \in Runs : (task[n] # "none" /\ Ended(n)) ~> task[n] = "ended"

\* Every Stop and every Restart returns.
CallsReturn == \A p \in Callers : at[p] = "stop" ~> at[p] = "done"

=============================================================================
