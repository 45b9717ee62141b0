--------------------- MODULE InteractionPipelineProofs ----------------------
(***************************************************************************)
(* Safety of the interaction dispatcher for any number of interactions and *)
(* any positive capacities; and of the pipeline that runs in its slots, for*)
(* any bundles, any interactions, any cooldowns and any failures: replies  *)
(* fit, handlers answer, cooldowns are kept, effects were allowed.         *)
(***************************************************************************)
EXTENDS InteractionPipeline, FiniteSetTheorems, SequenceTheorems, TLAPS

\* Every variable of the dispatcher keeps its type.
THEOREM TypeCorrect == Spec => []TypeOK
<1>1. Init => TypeOK
  BY CapacitiesPositive DEF Init, TypeOK, CallStages, WorkerStages
<1>2. TypeOK /\ [Next]_vars => TypeOK'
  <2> SUFFICES ASSUME TypeOK, [Next]_vars PROVE TypeOK'
    OBVIOUS
  <2> USE DEF TypeOK, CallStages, WorkerStages
  <2>1. CASE UNCHANGED vars
    BY <2>1 DEF vars
  <2>2. CASE \E i \in Interactions : HandlerStep(i)
    BY <2>2 DEF HandlerStep, Launch, HandlerReturns, HandlerPanics
  <2>3. ASSUME NEW i \in Interactions, CallStep(i) PROVE TypeOK'
    <3>1. CASE StartRejection(i)    BY <3>1 DEF StartRejection
    <3>2. CASE Enqueue(i)
      BY <3>2, CapacitiesPositive DEF Enqueue
    <3>3. CASE DropRejection(i)     BY <3>3 DEF DropRejection
    <3>4. CASE StartQueued(i)       BY <3>4 DEF StartQueued
    <3> QED BY <2>3, <3>1, <3>2, <3>3, <3>4 DEF CallStep
  <2>4. ASSUME NEW w \in Interactions, WorkerStep(w) PROVE TypeOK'
    <3>1. CASE RunRejection(w)      BY <3>1 DEF RunRejection
    <3>2. CASE Receive(w)
      BY <3>2, CapacitiesPositive DEF Receive
    <3>3. CASE ReceiveNothing(w)    BY <3>3 DEF ReceiveNothing
    <3>4. CASE Release(w)           BY <3>4 DEF Release
    <3>5. CASE LookAgain(w)         BY <3>5 DEF LookAgain
    <3>6. CASE Restart(w)           BY <3>6 DEF Restart
    <3> QED BY <2>4, <3>1, <3>2, <3>3, <3>4, <3>5, <3>6 DEF WorkerStep
  <2> QED BY <2>1, <2>2, <2>3, <2>4 DEF Next
<1> QED BY <1>1, <1>2, PTL DEF Spec

-----------------------------------------------------------------------------
\* When no rejection slot is free, some goroutine holds one.
LEMMA FullMeansHeld == ~RejectSlotFree => \E w \in Interactions : w \in Holding
<1>1. Cardinality({}) = 0
  BY FS_EmptySet
<1>2. Holding = {} => RejectSlotFree
  BY <1>1, CapacitiesPositive DEF RejectSlotFree
<1> QED BY <1>2 DEF Holding

\* A queued rejection always has a goroutine that is on its way to it.
THEOREM QueueNeverStranded == Spec => []QueueIsAttended
<1>1. Init => QueueIsAttended
  BY DEF Init, QueueIsAttended
<1>2. TypeOK /\ QueueIsAttended /\ [Next]_vars => QueueIsAttended'
  <2> SUFFICES ASSUME TypeOK, QueueIsAttended, [Next]_vars
               PROVE  QueueIsAttended'
    OBVIOUS
  <2> USE DEF TypeOK, QueueIsAttended
  <2>1. CASE UNCHANGED vars
    BY <2>1 DEF vars
  <2>2. ASSUME NEW i \in Interactions, HandlerStep(i) PROVE QueueIsAttended'
    <3>1. call[i] # "kick" /\ UNCHANGED <<queue, worker>>
      BY <2>2 DEF HandlerStep, Launch, HandlerReturns, HandlerPanics
    <3>2. \A k \in Interactions : call[k] = "kick" => call'[k] = "kick"
      BY <2>2, <3>1 DEF HandlerStep, Launch, HandlerReturns, HandlerPanics
    <3> QED BY <3>1, <3>2
  <2>3. ASSUME NEW i \in Interactions, CallStep(i) PROVE QueueIsAttended'
    <3>1. CASE StartRejection(i)
      <4>1. \A k \in Interactions : call[k] = "kick" => call'[k] = "kick"
        BY <3>1 DEF StartRejection
      <4>2. \A k \in Interactions : worker[k] # "none" => worker'[k] # "none"
        BY <3>1 DEF StartRejection
      <4> QED BY <3>1, <4>1, <4>2 DEF StartRejection
    <3>2. CASE Enqueue(i)
      BY <3>2 DEF Enqueue
    <3>3. CASE DropRejection(i)
      <4>1. \A k \in Interactions : call[k] = "kick" => call'[k] = "kick"
        BY <3>3 DEF DropRejection
      <4> QED BY <3>3, <4>1 DEF DropRejection
    <3>4. CASE StartQueued(i)
      <4>1. CASE RejectSlotFree
        BY <3>4, <4>1 DEF StartQueued
      <4>2. CASE ~RejectSlotFree
        <5>1. PICK w \in Interactions : w \in Holding
          BY <4>2, FullMeansHeld
        <5>2. worker'[w] # "none"
          BY <3>4, <4>2, <5>1 DEF StartQueued, Holding
        <5> QED BY <5>2
      <4> QED BY <4>1, <4>2
    <3> QED BY <2>3, <3>1, <3>2, <3>3, <3>4 DEF CallStep
  <2>4. ASSUME NEW w \in Interactions, WorkerStep(w) PROVE QueueIsAttended'
    <3>1. CASE RunRejection(w)      BY <3>1 DEF RunRejection
    <3>2. CASE Receive(w)
      BY <3>2, CapacitiesPositive DEF Receive
    <3>3. CASE ReceiveNothing(w)    BY <3>3 DEF ReceiveNothing
    <3>4. CASE Release(w)           BY <3>4 DEF Release
    <3>5. CASE LookAgain(w)         BY <3>5 DEF LookAgain
    <3>6. CASE Restart(w)
      <4>1. CASE RejectSlotFree
        BY <3>6, <4>1 DEF Restart
      <4>2. CASE ~RejectSlotFree
        <5>1. PICK v \in Interactions : v \in Holding
          BY <4>2, FullMeansHeld
        <5>2. worker'[v] # "none"
          BY <3>6, <4>2, <5>1 DEF Restart, Holding
        <5> QED BY <5>2
      <4> QED BY <4>1, <4>2
    <3> QED BY <2>4, <3>1, <3>2, <3>3, <3>4, <3>5, <3>6 DEF WorkerStep
  <2> QED BY <2>1, <2>2, <2>3, <2>4 DEF Next
<1> QED BY <1>1, <1>2, TypeCorrect, PTL DEF Spec

-----------------------------------------------------------------------------
\* Before its rejection is handed on, an interaction is nowhere else.
NotHandedOn == {"new", "running", "reject", "enqueue"}

\* i is queued, or is being run.
Queued(i) == \E k \in 1..Len(queue) : queue[k] = i
BeingRun(i) == \E w \in Interactions : worker[w] = "run" /\ job[w] = i

\* The rejection of an interaction is in one place: not handed on, queued once,
\* with one goroutine, dropped, or answered.
OnePlace ==
    /\ \A i \in Interactions : call[i] \in NotHandedOn =>
           ~Queued(i) /\ ~BeingRun(i) /\ i \notin dropped /\ answers[i] = 0
    /\ \A i \in Interactions : Queued(i) =>
           ~BeingRun(i) /\ i \notin dropped /\ answers[i] = 0
    /\ \A i \in Interactions : BeingRun(i) => i \notin dropped /\ answers[i] = 0
    /\ \A j, k \in 1..Len(queue) : queue[j] = queue[k] => j = k
    /\ \A v, w \in Interactions :
           worker[v] = "run" /\ worker[w] = "run" /\ job[v] = job[w] => v = w

\* The inductive invariant behind AnsweredOnce: one place, and one answer.
DispatchInv == TypeOK /\ OnePlace /\ AnsweredOnce

\* Every reachable state of the dispatcher satisfies DispatchInv.
THEOREM DispatchInvariant == Spec => []DispatchInv
<1>1. Init => OnePlace /\ AnsweredOnce
  BY DEF Init, OnePlace, AnsweredOnce, NotHandedOn, Queued, BeingRun
<1>2. TypeOK /\ OnePlace /\ AnsweredOnce /\ [Next]_vars
        => (OnePlace /\ AnsweredOnce)'
  <2> SUFFICES ASSUME TypeOK, OnePlace, AnsweredOnce, [Next]_vars
               PROVE  OnePlace' /\ AnsweredOnce'
    OBVIOUS
  <2> USE DEF TypeOK, OnePlace, AnsweredOnce, NotHandedOn, Queued, BeingRun
  <2>1. CASE UNCHANGED vars
    BY <2>1 DEF vars
  <2>2. ASSUME NEW i \in Interactions, HandlerStep(i)
        PROVE  OnePlace' /\ AnsweredOnce'
    <3>1. UNCHANGED <<queue, worker, job, answers, dropped>>
      BY <2>2 DEF HandlerStep, Launch, HandlerReturns, HandlerPanics
    <3>2. \A k \in Interactions :
            call'[k] \in NotHandedOn => call[k] \in NotHandedOn
      BY <2>2 DEF HandlerStep, Launch, HandlerReturns, HandlerPanics
    <3> QED BY <3>1, <3>2
  <2>3. ASSUME NEW i \in Interactions, CallStep(i)
        PROVE  OnePlace' /\ AnsweredOnce'
    <3>1. CASE StartRejection(i)
      <4>1. CASE ~RejectSlotFree
        BY <3>1, <4>1 DEF StartRejection
      <4>2. CASE RejectSlotFree
        <5>1. /\ call' = [call EXCEPT ![i] = "done"]
              /\ worker' = [worker EXCEPT ![i] = "run"]
              /\ job' = [job EXCEPT ![i] = i]
              /\ UNCHANGED <<queue, answers, dropped>>
          BY <3>1, <4>2 DEF StartRejection
        <5>2. ~Queued(i) /\ ~BeingRun(i) /\ i \notin dropped /\ answers[i] = 0
          BY <3>1 DEF StartRejection
        <5>3. \A k \in Interactions : BeingRun(k)' => k = i \/ BeingRun(k)
          BY <5>1
        <5>4. \A v, w \in Interactions :
                worker'[v] = "run" /\ worker'[w] = "run" /\ job'[v] = job'[w]
                  => v = w
          BY <5>1, <5>2
        <5> QED BY <5>1, <5>2, <5>3, <5>4
      <4> QED BY <4>1, <4>2
    <3>2. CASE Enqueue(i)           BY <3>2 DEF Enqueue
    <3>3. CASE DropRejection(i)     BY <3>3 DEF DropRejection
    <3>4. CASE StartQueued(i)       BY <3>4 DEF StartQueued
    <3> QED BY <2>3, <3>1, <3>2, <3>3, <3>4 DEF CallStep
  <2>4. ASSUME NEW w \in Interactions, WorkerStep(w)
        PROVE  OnePlace' /\ AnsweredOnce'
    <3>1. CASE RunRejection(w)      BY <3>1 DEF RunRejection
    <3>2. CASE Receive(w)
      <4> DEFINE h == Head(queue)
      <4>1. /\ worker[w] = "receive"
            /\ worker' = [worker EXCEPT ![w] = "run"]
            /\ job' = [job EXCEPT ![w] = h]
            /\ UNCHANGED <<call, answers, dropped>>
        BY <3>2 DEF Receive
      <4>2. /\ h = queue[1] /\ 1 \in 1..Len(queue) /\ h \in Interactions
            /\ Len(queue') = Len(queue) - 1
            /\ \A k \in 1..Len(queue') : queue'[k] = queue[k + 1]
        BY <3>2 DEF Receive
      <4>3. Queued(h) /\ ~BeingRun(h) /\ call[h] \notin NotHandedOn
        BY <4>2
      <4>4. \A k \in 1..Len(queue') : k + 1 \in 1..Len(queue)
        BY <4>2
      <4>5. \A i \in Interactions : Queued(i)' => Queued(i) /\ i # h
        BY <4>2, <4>4
      <4>6. \A i \in Interactions : BeingRun(i)' => i = h \/ BeingRun(i)
        BY <4>1
      <4>7. \A j, k \in 1..Len(queue') : queue'[j] = queue'[k] => j = k
        <5> SUFFICES ASSUME NEW j \in 1..Len(queue'), NEW k \in 1..Len(queue'),
                            queue'[j] = queue'[k]
                     PROVE  j + 1 = k + 1
          BY <4>2
        <5>1. queue[j + 1] = queue[k + 1]
          BY <4>2
        <5>2. j + 1 \in 1..Len(queue) /\ k + 1 \in 1..Len(queue)
          BY <4>4
        <5>3. \A a, b \in 1..Len(queue) : queue[a] = queue[b] => a = b
          OBVIOUS
        <5> HIDE DEF OnePlace, TypeOK
        <5> QED BY <5>1, <5>2, <5>3
      <4>8. \A u, v \in Interactions :
              worker'[u] = "run" /\ worker'[v] = "run" /\ job'[u] = job'[v]
                => u = v
        BY <4>1, <4>2, <4>3
      <4> HIDE DEF h
      <4>9. answers[h] = 0 /\ h \notin dropped
        BY <4>2, <4>3
      <4>10. \A i \in Interactions : call'[i] \in NotHandedOn =>
               ~Queued(i)' /\ ~BeingRun(i)' /\ i \notin dropped' /\ answers'[i] = 0
        <5> HIDE DEF Queued, BeingRun
        <5> QED BY <4>1, <4>3, <4>5, <4>6
      <4>11. \A i \in Interactions : Queued(i)' =>
               ~BeingRun(i)' /\ i \notin dropped' /\ answers'[i] = 0
        <5> HIDE DEF Queued, BeingRun
        <5> QED BY <4>1, <4>5, <4>6
      <4>12. \A i \in Interactions : BeingRun(i)' =>
               i \notin dropped' /\ answers'[i] = 0
        <5> HIDE DEF Queued, BeingRun
        <5> QED BY <4>1, <4>6, <4>9
      <4>13. OnePlace'
        <5> HIDE DEF Queued, BeingRun
        <5> QED BY <4>7, <4>8, <4>10, <4>11, <4>12
      <4> QED BY <4>1, <4>13
    <3>3. CASE ReceiveNothing(w)    BY <3>3 DEF ReceiveNothing
    <3>4. CASE Release(w)           BY <3>4 DEF Release
    <3>5. CASE LookAgain(w)         BY <3>5 DEF LookAgain
    <3>6. CASE Restart(w)           BY <3>6 DEF Restart
    <3> QED BY <2>4, <3>1, <3>2, <3>3, <3>4, <3>5, <3>6 DEF WorkerStep
  <2> QED BY <2>1, <2>2, <2>3, <2>4 DEF Next
<1>3. DispatchInv <=> TypeOK /\ OnePlace /\ AnsweredOnce
  BY DEF DispatchInv
<1> QED BY <1>1, <1>2, <1>3, TypeCorrect, PTL DEF Spec

\* No interaction is answered by two rejections, or after it was dropped.
THEOREM OneAnswer == Spec => []AnsweredOnce
<1>1. DispatchInv => AnsweredOnce
  BY DEF DispatchInv
<1> QED BY <1>1, DispatchInvariant, PTL


-----------------------------------------------------------------------------
(* The pipeline runs in the dispatcher: its steps are the dispatcher's, or *)
(* leave it alone.                                                         *)

\* The steps of a handler and its program happen inside a slot.
LEMMA PartsStayInSlots ==
    ASSUME NEW i \in Interactions,
           HandlerPart(i) \/ ProgramPart(i) \/ AnswerPart(i) \/ AutomationPart(i)
    PROVE  UNCHANGED vars
<1>1. CASE HandlerPart(i)
  BY <1>1 DEF HandlerPart, CheckRestrictions, ReadClock, Take, Dispatch, CheckEnabled,
     MakePlan, Admit, Defer
<1>2. CASE ProgramPart(i)
  BY <1>2 DEF ProgramPart, RunAdmitted, Invoke, InvokeStale, ExecuteReply, ExecuteEffect,
     EffectFails, EffectConflicts
<1>3. CASE AnswerPart(i)
  BY <1>3 DEF AnswerPart, AnswerNothing, AnswerWith, ReportError, Deliver, DeliveryFails,
     Refuse
<1>4. CASE AutomationPart(i)
  BY <1>4 DEF AutomationPart, Fire, TakeToken, NextListener
<1> QED BY <1>1, <1>2, <1>3, <1>4

\* A step of the pipeline is a step of the dispatcher, or none.
LEMMA PipelineStepsDispatch == [PipelineNext]_allVars => [Next]_vars
<1> SUFFICES ASSUME [PipelineNext]_allVars PROVE [Next]_vars
  OBVIOUS
<1>1. CASE UNCHANGED allVars
  BY <1>1 DEF allVars
<1>2. ASSUME NEW i \in Interactions, PipelineStep(i) PROVE [Next]_vars
  <2>1. CASE LaunchHandler(i) \/ FinishHandler(i) \/ PanicHandler(i)
    BY <2>1 DEF LaunchHandler, FinishHandler, PanicHandler, Next, HandlerStep
  <2>2. CASE DispatcherStep(i)
    BY <2>2 DEF DispatcherStep, Reject, Next, WorkerStep
  <2>3. CASE HandlerPart(i) \/ ProgramPart(i) \/ AnswerPart(i) \/ AutomationPart(i)
    BY <2>3, PartsStayInSlots
  <2> QED BY <1>2, <2>1, <2>2, <2>3 DEF PipelineStep
<1>3. CASE Reload \/ Unload \/ Tick
  BY <1>3 DEF Reload, Unload, Tick
<1> QED BY <1>1, <1>2, <1>3 DEF PipelineNext

\* Handlers that stall, panic and answer do nothing a dispatcher's handlers may not.
THEOREM PipelineDispatches == PipelineSpec => Spec
<1>1. PipelineInit => Init
  BY DEF PipelineInit
<1> QED BY <1>1, PipelineStepsDispatch, PTL DEF PipelineSpec, Spec

\* So no rejection is stranded, and none answers twice, beside the real handlers.
THEOREM PipelineRejectsOnce == PipelineSpec => [](QueueIsAttended /\ AnsweredOnce)
<1> QED BY PipelineDispatches, QueueNeverStranded, OneAnswer, PTL

-----------------------------------------------------------------------------
(* The invariant of the pipeline. *)

\* The fields of a handler's record.
RunFields ==
    {"at", "now", "def", "began", "refreshed", "attempt", "item", "route", "defer",
     "state", "outcome", "op", "executed", "terminal", "todo", "reply", "then", "else"}

\* An interaction whose handler has not ended.
Interacts(i) == act(i).kind \in InteractionKinds
Handled(i) == Interacts(i) /\ call[i] \in {"new", "running"}

\* The stages before anything is answered, and those with an admitted bundle.
Entering == {"preflight", "clock", "cooldown", "dispatch", "enabled", "plan", "admit",
             "defer"}
Admitted == {"defer", "run", "readmit", "retry", "invoke", "execute"}
AutomationStages ==
    {"fire", "limit", "next", "admit", "respond", "error", "done"} \cup Admitted
Deferrals == {"defer_create", "defer_update"}

\* A bundle that compiles.
Known(n) == n \in DOMAIN Definitions /\ ValidDefinition(Bundle(n))

\* The answer o has a call that the responder of a's kind makes in this state.
Answers(a, o, state) ==
    IF a.kind = "autocomplete" THEN o.kind = "choices"
    ELSE \/ o.kind = "message" /\ state \in {"unacknowledged", "deferred_create"}
         \/ o.kind = "edit" /\ state = "deferred_create"
         \/ /\ o.kind = "update" /\ FromMessage(a)
            /\ state \in {"unacknowledged", "deferred_update"}
         \/ /\ o.kind = "modal" /\ a.kind \in {"command", "component"}
            /\ state = "unacknowledged"

StateHolds(a, r) ==
    /\ r.state \in {"unacknowledged", "deferred_create", "deferred_update"}
    /\ a.kind = "autocomplete" => r.state = "unacknowledged"
    /\ r.state = "deferred_update" => FromMessage(a)
    /\ r.at \in Entering => r.state = "unacknowledged"

StageHolds(a, r) ==
    /\ r.at \notin {"fire", "limit", "next"}
    /\ r.at = "preflight" => a.kind = "command"
    /\ r.at \in {"clock", "cooldown", "dispatch"} => a.kind # "autocomplete"
    /\ r.at \in Admitted => Known(r.def)

\* Only a deferral goes on.
ReplyHolds(a, r) ==
    r.at = "reply" =>
        /\ r.else \in {"done", "error"}
        /\ \/ r.then = "done" /\ r.reply \notin Deferrals
           \/ /\ r.then = "run" /\ r.reply \in Deferrals /\ Known(r.def)
              /\ a.kind # "autocomplete"
              /\ r.reply = "defer_update" => FromMessage(a)

\* The outcome ends with a reply, and every reply of it, also in place of an effect
\* that fails, can be sent.
OutcomeHolds(a, r) ==
    r.at = "execute" =>
        /\ r.outcome \in Seq(ToSet(r.outcome))
        /\ r.op \in 1..Len(r.outcome)
        /\ IsReply(r.outcome[Len(r.outcome)])
        /\ \A n \in 1..Len(r.outcome) :
               /\ IsReply(r.outcome[n]) => Answers(a, r.outcome[n], r.state)
               /\ r.outcome[n].form = "guarded" =>
                      /\ r.outcome[n].failure # <<>>
                      /\ Answers(a, r.outcome[n].failure[1], r.state)

TerminalHolds(a, r) ==
    r.at = "respond" =>
        IF r.terminal = <<>> THEN a.kind # "autocomplete"
        ELSE Answers(a, r.terminal[1], r.state)

HandlerWell(a, r) ==
    /\ StateHolds(a, r) /\ StageHolds(a, r) /\ ReplyHolds(a, r)
    /\ OutcomeHolds(a, r) /\ TerminalHolds(a, r)

\* What the user sees is what the handler takes it to be, and the reply that is on
\* its way fits - unless the answer to one got lost.
Fits(i, reply) == i \in lost \/ Accepts(i, reply)
Agrees(i) ==
    /\ i \notin lost /\ run[i].at # "done" =>
           /\ run[i].state = "unacknowledged" <=> view[i] = "none"
           /\ run[i].state = "deferred_create" => view[i] = "thinking"
           /\ run[i].state = "deferred_update" => view[i] = "deferred"
    /\ run[i].at = "reply" => Fits(i, run[i].reply)

\* An event or a job never has an answer.
AutomationWell(r) ==
    /\ r.state = "none" /\ r.at \in AutomationStages
    /\ r.at \in Admitted => Known(r.def)
    /\ r.at = "respond" => r.terminal = <<>>
    /\ r.at = "execute" =>
           /\ r.outcome \in Seq(ToSet(r.outcome)) /\ r.op \in Nat \ {0}
           /\ \A n \in 1..Len(r.outcome) :
                  ~IsReply(r.outcome[n]) /\ r.outcome[n].form # "guarded"

\* When a handler is done, its user has an answer, or a call has failed.
Answered(i) == i \in lost \/ faults # 0 \/ view[i] \notin {"none", "thinking"}

RunShape ==
    /\ DOMAIN run = Interactions
    /\ \A i \in Interactions : DOMAIN run[i] = RunFields /\ run[i].now \in Nat

PipelineShape ==
    /\ cast \in Casts /\ clock \in Nat
    /\ load \in 1..Len(cast.loads) /\ (served # 0 => Known(served))
    /\ RunShape
    /\ DOMAIN view = Interactions
    /\ faults \in Nat /\ (lost # {} => faults # 0)

PipelineInv ==
    /\ PipelineShape
    /\ \A i \in Interactions :
          /\ ~Interacts(i) => call[i] = "new"
          /\ Handled(i) => HandlerWell(act(i), run[i]) /\ Agrees(i)
          /\ Automated(i) => AutomationWell(run[i])
          /\ Interacts(i) /\ run[i].at = "done" => Answered(i)

-----------------------------------------------------------------------------
(* Steps of one handler. *)

\* Nothing but one handler's record changes.
Alone(i) ==
    /\ UNCHANGED <<vars, cast, plugin, clock, discord>>
    /\ DOMAIN run' = Interactions
    /\ \A j \in Interactions \ {i} : run'[j] = run[j]
    /\ DOMAIN run'[i] = RunFields /\ run'[i].now \in Nat

\* The fields the invariant looks at, but for the stage, the bundle and the program.
KeepsState(i) ==
    /\ run'[i].state = run[i].state /\ run'[i].terminal = run[i].terminal
    /\ run'[i].outcome = run[i].outcome /\ run'[i].op = run[i].op
    /\ run'[i].def = run[i].def

\* A step of a handler is one of an interaction's or of an automation's.
LEMMA OneOfTwo ==
    ASSUME PipelineInv, NEW i \in Interactions, NEW at, Active(i, at)
    PROVE  \/ Handled(i) /\ ~Automated(i)
           \/ Automated(i) /\ ~Interacts(i) /\ ~Handled(i)
BY DEF PipelineInv, Active, Handled, Interacts, Automated, InteractionKinds

\* The invariant is kept if the record of the handler that moved is well again.
LEMMA AloneKeepsInv ==
    ASSUME PipelineInv, NEW i \in Interactions, Alone(i),
           Handled(i) => HandlerWell(act(i), run'[i]) /\ Agrees(i)',
           Automated(i) => AutomationWell(run'[i]),
           Interacts(i) /\ run'[i].at = "done" => Answered(i)
    PROVE  PipelineInv'
<1>1. UNCHANGED <<call, cast, served, load, clock, view, faults, lost>>
  BY DEF Alone, vars, plugin, discord
<1>2. \A j \in Interactions :
          /\ act(j)' = act(j) /\ Handled(j)' = Handled(j)
          /\ Automated(j)' = Automated(j) /\ Interacts(j)' = Interacts(j)
          /\ Answered(j)' = Answered(j)
  BY <1>1 DEF act, Handled, Automated, Interacts, Answered
<1>3. PipelineShape'
  BY <1>1 DEF PipelineInv, PipelineShape, RunShape, Alone
<1>4. ASSUME NEW j \in Interactions
      PROVE  /\ ~Interacts(j) => call'[j] = "new"
             /\ Handled(j)' => HandlerWell(act(j), run'[j]) /\ Agrees(j)'
             /\ Automated(j)' => AutomationWell(run'[j])
             /\ Interacts(j) /\ run'[j].at = "done" => Answered(j)
  <2>1. CASE j = i
    BY <1>1, <1>2, <2>1 DEF PipelineInv
  <2>2. CASE j # i
    <3>1. run'[j] = run[j]
      BY <2>2 DEF Alone
    <3>2. Agrees(j)' = Agrees(j)
      BY <1>1, <1>2, <3>1 DEF Agrees, Fits, Accepts, act
    <3> QED BY <1>1, <1>2, <3>1, <3>2 DEF PipelineInv
  <2> QED BY <2>1, <2>2
<1> QED BY <1>2, <1>3, <1>4 DEF PipelineInv

\* A handler that moves on leaves everything else as it was.
LEMMA GoIsAlone ==
    ASSUME PipelineInv, NEW i \in Interactions, NEW to, Go(i, to),
           UNCHANGED <<vars, cast, plugin, clock, discord>>
    PROVE  /\ Alone(i) /\ KeepsState(i)
           /\ run'[i].at = to
BY DEF PipelineInv, PipelineShape, RunShape, RunFields, Go, Alone, KeepsState

\* So does one that is about to call Discord.
LEMMA ReplyIsAlone ==
    ASSUME PipelineInv, NEW i \in Interactions, NEW reply, NEW then, NEW else,
           Reply(i, reply, then, else),
           UNCHANGED <<vars, cast, plugin, clock, discord>>
    PROVE  /\ Alone(i) /\ KeepsState(i)
           /\ run'[i].at = "reply" /\ run'[i].reply = reply
           /\ run'[i].then = then /\ run'[i].else = else
BY DEF PipelineInv, PipelineShape, RunShape, RunFields, Reply, Alone, KeepsState

\* A step that only changes the stage: what it is allowed to do has to hold there.
LEMMA StageKeepsInv ==
    ASSUME PipelineInv, NEW i \in Interactions, NEW from, Active(i, from),
           from # "done", Alone(i),
           run'[i].state = run[i].state,
           run'[i].at \notin {"done", "reply", "execute", "respond"},
           Handled(i) => StateHolds(act(i), run'[i]) /\ StageHolds(act(i), run'[i]),
           Automated(i) => run'[i].at \in AutomationStages
                           /\ (run'[i].at \in Admitted => Known(run'[i].def))
    PROVE  PipelineInv'
<1>1. ASSUME Handled(i) PROVE HandlerWell(act(i), run'[i]) /\ Agrees(i)'
  <2>1. HandlerWell(act(i), run'[i])
    BY <1>1 DEF HandlerWell, ReplyHolds, OutcomeHolds, TerminalHolds
  <2>2. Agrees(i) /\ run[i].at # "done"
    BY <1>1 DEF PipelineInv, Active
  <2>3. Agrees(i)'
    BY <2>2 DEF Agrees, Alone, discord
  <2> QED BY <2>1, <2>3
<1>2. Automated(i) => AutomationWell(run'[i])
  BY DEF PipelineInv, AutomationWell
<1> QED BY <1>1, <1>2, AloneKeepsInv

\* Any stage may end in an error.
LEMMA ErrorKeepsInv ==
    ASSUME PipelineInv, NEW i \in Interactions, NEW from, Active(i, from),
           from # "done", Go(i, "error"),
           UNCHANGED <<vars, cast, plugin, clock, discord>>
    PROVE  PipelineInv'
<1>1. Alone(i) /\ KeepsState(i) /\ run'[i].at = "error"
  BY GoIsAlone
<1>2. Handled(i) => StateHolds(act(i), run'[i]) /\ StageHolds(act(i), run'[i])
  BY <1>1 DEF PipelineInv, HandlerWell, StateHolds, StageHolds, KeepsState, Entering,
     Admitted
<1> QED BY <1>1, <1>2, StageKeepsInv DEF KeepsState, Admitted, AutomationStages

\* A call to Discord has to fit what the user sees, and to lead on as it should.
LEMMA CallKeepsInv ==
    ASSUME PipelineInv, NEW i \in Interactions, NEW from, Active(i, from),
           from # "done", Handled(i), ~Automated(i),
           NEW reply, NEW then, NEW else, Reply(i, reply, then, else),
           UNCHANGED <<vars, cast, plugin, clock, discord>>,
           Fits(i, reply), else \in {"done", "error"},
           \/ then = "done" /\ reply \notin Deferrals
           \/ /\ then = "run" /\ reply \in Deferrals /\ Known(run[i].def)
              /\ act(i).kind # "autocomplete"
              /\ reply = "defer_update" => FromMessage(act(i))
    PROVE  PipelineInv'
<1>1. /\ Alone(i) /\ KeepsState(i)
      /\ run'[i].at = "reply" /\ run'[i].reply = reply
      /\ run'[i].then = then /\ run'[i].else = else
  BY ReplyIsAlone
<1>2. HandlerWell(act(i), run[i]) /\ Agrees(i) /\ run[i].at # "done"
  BY DEF PipelineInv, Active
<1>3. HandlerWell(act(i), run'[i])
  BY <1>1, <1>2 DEF HandlerWell, StateHolds, StageHolds, ReplyHolds, OutcomeHolds,
     TerminalHolds, KeepsState, Entering, Admitted
<1>4. Agrees(i)'
  <2>1. UNCHANGED <<view, lost, cast>>
    BY DEF discord
  <2>2. Fits(i, reply)' = Fits(i, reply)
    BY <2>1 DEF Fits, Accepts, act
  <2> QED BY <1>1, <1>2, <2>1, <2>2 DEF Agrees, KeepsState
<1> QED BY <1>1, <1>3, <1>4, AloneKeepsInv

\* The first reply to an interaction that its handler has not answered fits.
LEMMA FirstReplyFits ==
    ASSUME PipelineInv, NEW i \in Interactions, NEW from, Active(i, from),
           from # "done", Handled(i), run[i].state = "unacknowledged",
           NEW reply \in Initial,
           reply \in {"defer_update", "update"} => FromMessage(act(i)),
           reply = "modal" => act(i).kind \in {"command", "component"},
           reply = "choices" <=> act(i).kind = "autocomplete"
    PROVE  Fits(i, reply)
BY DEF PipelineInv, Agrees, Active, Fits, Accepts

\* Events and jobs have stages of their own, and start no call to Discord.
LEMMA OnlyHandlersEnter ==
    ASSUME PipelineInv, NEW i \in Interactions, NEW at, Active(i, at), ~Automated(i)
    PROVE  Handled(i)
BY DEF PipelineInv, Active, Handled, Interacts, Automated

-----------------------------------------------------------------------------
(* Before the plugin. *)

\* The check of the restrictions: on to the cooldown, a first reply, or an error.
LEMMA RestrictionsKeepInv ==
    ASSUME PipelineInv, NEW i \in Interactions, CheckRestrictions(i), ~Automated(i)
    PROVE  PipelineInv'
<1>1. /\ Active(i, "preflight") /\ Handled(i)
      /\ UNCHANGED <<vars, cast, plugin, clock, discord>>
  BY OnlyHandlersEnter DEF CheckRestrictions, limits
<1>2. /\ act(i).kind = "command" /\ run[i].state = "unacknowledged"
      /\ HandlerWell(act(i), run[i])
  BY <1>1 DEF PipelineInv, HandlerWell, StateHolds, StageHolds, Active, Entering
<1>3. CASE Go(i, "clock")
  <2>1. Alone(i) /\ KeepsState(i) /\ run'[i].at = "clock"
    BY <1>1, <1>3, GoIsAlone
  <2>2. StateHolds(act(i), run'[i]) /\ StageHolds(act(i), run'[i])
    BY <1>2, <2>1 DEF HandlerWell, StateHolds, StageHolds, KeepsState, Admitted
  <2> QED BY <1>1, <2>1, <2>2, StageKeepsInv DEF KeepsState
<1>4. CASE Reply(i, "message", "done", "error")
  <2>1. Fits(i, "message")
    BY <1>1, <1>2, FirstReplyFits DEF Initial
  <2> QED BY <1>1, <1>4, <2>1, CallKeepsInv DEF Deferrals
<1>5. CASE Go(i, "error")
  BY <1>1, <1>5, ErrorKeepsInv
<1> QED BY <1>3, <1>4, <1>5 DEF CheckRestrictions

\* Reading the clock changes the stage only.
LEMMA ClockKeepsInv ==
    ASSUME PipelineInv, NEW i \in Interactions, ReadClock(i), ~Automated(i)
    PROVE  PipelineInv'
<1>1. /\ Active(i, "clock") /\ Handled(i) /\ clock \in Nat
      /\ UNCHANGED <<vars, cast, plugin, clock, discord>>
      /\ run' = [run EXCEPT ![i] = [@ EXCEPT !.at = "cooldown", !.now = clock]]
  BY OnlyHandlersEnter DEF ReadClock, limits, PipelineInv, PipelineShape
<1>2. Alone(i) /\ KeepsState(i) /\ run'[i].at = "cooldown"
  BY <1>1 DEF PipelineInv, PipelineShape, RunShape, RunFields, Alone, KeepsState
<1>3. StateHolds(act(i), run'[i]) /\ StageHolds(act(i), run'[i])
  BY <1>1, <1>2 DEF PipelineInv, HandlerWell, StateHolds, StageHolds, KeepsState, Active,
     Entering, Admitted
<1> QED BY <1>1, <1>2, <1>3, StageKeepsInv DEF KeepsState

\* The cooldown: on to the dispatch, or a first reply.
LEMMA TakeKeepsInv ==
    ASSUME PipelineInv, NEW i \in Interactions, Take(i), ~Automated(i)
    PROVE  PipelineInv'
<1>1. /\ Active(i, "cooldown") /\ Handled(i)
      /\ UNCHANGED <<vars, cast, plugin, clock, discord>>
  BY OnlyHandlersEnter DEF Take
<1>2. /\ act(i).kind # "autocomplete" /\ run[i].state = "unacknowledged"
      /\ HandlerWell(act(i), run[i])
  BY <1>1 DEF PipelineInv, HandlerWell, StateHolds, StageHolds, Active, Entering
<1>3. CASE Go(i, "dispatch")
  <2>1. Alone(i) /\ KeepsState(i) /\ run'[i].at = "dispatch"
    BY <1>1, <1>3, GoIsAlone
  <2>2. StateHolds(act(i), run'[i]) /\ StageHolds(act(i), run'[i])
    BY <1>2, <2>1 DEF HandlerWell, StateHolds, StageHolds, KeepsState, Admitted
  <2> QED BY <1>1, <2>1, <2>2, StageKeepsInv DEF KeepsState
<1>4. CASE Reply(i, "message", "done", "done")
  <2>1. Fits(i, "message")
    BY <1>1, <1>2, FirstReplyFits DEF Initial
  <2> QED BY <1>1, <1>4, <2>1, CallKeepsInv DEF Deferrals
<1> QED BY <1>3, <1>4 DEF Take

\* The dispatch by name: on to the plugin, a first reply, or an error.
LEMMA DispatchKeepsInv ==
    ASSUME PipelineInv, NEW i \in Interactions, Dispatch(i), ~Automated(i)
    PROVE  PipelineInv'
<1>1. /\ Active(i, "dispatch") /\ Handled(i)
      /\ UNCHANGED <<vars, cast, plugin, clock, discord>>
  BY OnlyHandlersEnter DEF Dispatch, limits
<1>2. /\ act(i).kind # "autocomplete" /\ run[i].state = "unacknowledged"
      /\ HandlerWell(act(i), run[i])
  BY <1>1 DEF PipelineInv, HandlerWell, StateHolds, StageHolds, Active, Entering
<1>3. CASE Go(i, "enabled")
  <2>1. Alone(i) /\ KeepsState(i) /\ run'[i].at = "enabled"
    BY <1>1, <1>3, GoIsAlone
  <2>2. StateHolds(act(i), run'[i]) /\ StageHolds(act(i), run'[i])
    BY <1>2, <2>1 DEF HandlerWell, StateHolds, StageHolds, KeepsState, Admitted
  <2> QED BY <1>1, <2>1, <2>2, StageKeepsInv DEF KeepsState
<1>4. ASSUME NEW reply \in {"message", "acknowledge"}, NEW else \in {"done", "error"},
             Reply(i, reply, "done", else)
      PROVE  PipelineInv'
  <2>1. Fits(i, reply)
    BY <1>1, <1>2, FirstReplyFits DEF Initial
  <2> QED BY <1>1, <1>4, <2>1, CallKeepsInv DEF Deferrals
<1>5. CASE Go(i, "error")
  BY <1>1, <1>5, ErrorKeepsInv
<1> QED BY <1>3, <1>4, <1>5 DEF Dispatch

\* A plugin that is disabled in the server is answered for with a first reply.
LEMMA EnabledKeepsInv ==
    ASSUME PipelineInv, NEW i \in Interactions, CheckEnabled(i), ~Automated(i)
    PROVE  PipelineInv'
<1>1. /\ Active(i, "enabled") /\ Handled(i)
      /\ UNCHANGED <<vars, cast, plugin, clock, discord>>
  BY OnlyHandlersEnter DEF CheckEnabled, limits
<1>2. run[i].state = "unacknowledged" /\ HandlerWell(act(i), run[i])
  BY <1>1 DEF PipelineInv, HandlerWell, StateHolds, Active, Entering
<1>3. CASE Go(i, "plan")
  <2>1. Alone(i) /\ KeepsState(i) /\ run'[i].at = "plan"
    BY <1>1, <1>3, GoIsAlone
  <2>2. StateHolds(act(i), run'[i]) /\ StageHolds(act(i), run'[i])
    BY <1>2, <2>1 DEF HandlerWell, StateHolds, StageHolds, KeepsState, Admitted
  <2> QED BY <1>1, <2>1, <2>2, StageKeepsInv DEF KeepsState
<1>4. CASE Reply(i, IF act(i).kind = "autocomplete" THEN "choices" ELSE "message",
                 "done", "done")
  <2> DEFINE reply == IF act(i).kind = "autocomplete" THEN "choices" ELSE "message"
  <2>1. Fits(i, reply)
    BY <1>1, <1>2, FirstReplyFits DEF Initial
  <2>2. reply \notin Deferrals /\ Reply(i, reply, "done", "done")
    BY <1>4 DEF Deferrals
  <2> HIDE DEF reply
  <2> QED BY <1>1, <2>1, <2>2, CallKeepsInv
<1>5. CASE Go(i, "error")
  BY <1>1, <1>5, ErrorKeepsInv
<1> QED BY <1>3, <1>4, <1>5 DEF CheckEnabled

\* A plan changes the stage, the item and the route.
LEMMA PlanKeepsInv ==
    ASSUME PipelineInv, NEW i \in Interactions, MakePlan(i), ~Automated(i)
    PROVE  PipelineInv'
<1>1. /\ Active(i, "plan") /\ Handled(i)
      /\ UNCHANGED <<vars, cast, plugin, clock, discord>>
  BY OnlyHandlersEnter DEF MakePlan, limits
<1>2. run[i].state = "unacknowledged" /\ HandlerWell(act(i), run[i])
  BY <1>1 DEF PipelineInv, HandlerWell, StateHolds, Active, Entering
<1>3. ASSUME NEW k, NEW defer, NEW route,
             run' = [run EXCEPT ![i] = [@ EXCEPT !.at = "admit", !.item = k,
                                                 !.defer = defer, !.route = route]]
      PROVE  PipelineInv'
  <2>1. Alone(i) /\ KeepsState(i) /\ run'[i].at = "admit"
    BY <1>1, <1>3 DEF PipelineInv, PipelineShape, RunShape, RunFields, Alone, KeepsState
  <2>2. StateHolds(act(i), run'[i]) /\ StageHolds(act(i), run'[i])
    BY <1>2, <2>1 DEF HandlerWell, StateHolds, StageHolds, KeepsState, Admitted
  <2> QED BY <1>1, <2>1, <2>2, StageKeepsInv DEF KeepsState, Admitted
<1>4. CASE act(i).kind \in {"component", "modal"}
           /\ Reply(i, "acknowledge", "done", "done")
  <2>1. Fits(i, "acknowledge")
    BY <1>1, <1>2, <1>4, FirstReplyFits DEF Initial
  <2> QED BY <1>1, <1>4, <2>1, CallKeepsInv DEF Deferrals
<1>5. CASE Go(i, "error")
  BY <1>1, <1>5, ErrorKeepsInv
<1> QED BY <1>3, <1>4, <1>5 DEF MakePlan

\* A deferral is a first reply that fits what the interaction came from.
LEMMA DeferKeepsInv ==
    ASSUME PipelineInv, NEW i \in Interactions, Defer(i)
    PROVE  PipelineInv'
<1>1. /\ Active(i, "defer")
      /\ UNCHANGED <<vars, cast, plugin, clock, discord>>
  BY DEF Defer, limits
<1>2. Handled(i) => run[i].state = "unacknowledged" /\ HandlerWell(act(i), run[i])
  BY <1>1 DEF PipelineInv, HandlerWell, StateHolds, Active, Entering
<1>3. Handled(i) \/ Automated(i) => Known(run[i].def)
  BY <1>1 DEF PipelineInv, HandlerWell, StageHolds, AutomationWell, Active, Admitted
<1>4. CASE Go(i, "run")
  <2>1. Alone(i) /\ KeepsState(i) /\ run'[i].at = "run"
    BY <1>1, <1>4, GoIsAlone
  <2>2. Handled(i) => StateHolds(act(i), run'[i]) /\ StageHolds(act(i), run'[i])
    BY <1>2, <1>3, <2>1 DEF HandlerWell, StateHolds, StageHolds, KeepsState
  <2> QED
    BY <1>1, <1>3, <2>1, <2>2, StageKeepsInv DEF KeepsState, Admitted, AutomationStages
<1>5. ASSUME NEW reply \in Deferrals, ~Automated(i), act(i).kind # "autocomplete",
             reply = "defer_update" => FromMessage(act(i)),
             Reply(i, reply, "run", "error")
      PROVE  PipelineInv'
  <2>1. Handled(i)
    BY <1>1, <1>5, OnlyHandlersEnter
  <2>2. reply \in Initial /\ reply \notin {"modal", "choices", "update"}
    BY <1>5 DEF Deferrals, Initial
  <2>3. Fits(i, reply)
    BY <1>1, <1>2, <1>5, <2>1, <2>2, FirstReplyFits
  <2> QED BY <1>1, <1>3, <1>5, <2>1, <2>3, CallKeepsInv
<1>6. CASE Go(i, "error")
  BY <1>1, <1>6, ErrorKeepsInv
<1>7. act(i).kind \in InteractionKinds => ~Automated(i)
  BY DEF Automated, InteractionKinds
<1>8. FromMessage(act(i)) => ~Automated(i) /\ act(i).kind # "autocomplete"
  BY DEF FromMessage, Automated
<1> QED BY <1>4, <1>5, <1>6, <1>7, <1>8 DEF Defer, Deferrals

\* An automation does not come through here.
LEMMA HandlerPartKeepsInv ==
    ASSUME PipelineInv, NEW i \in Interactions, HandlerPart(i), ~Admit(i)
    PROVE  PipelineInv'
<1>1. CASE Defer(i)
  BY <1>1, DeferKeepsInv
<1>2. CASE ~Defer(i)
  <2>1. PICK at \in {"preflight", "clock", "cooldown", "dispatch", "enabled", "plan"} :
            Active(i, at)
    BY <1>2 DEF HandlerPart, CheckRestrictions, ReadClock, Take, Dispatch, CheckEnabled,
       MakePlan
  <2>2. ~Automated(i)
    BY <2>1 DEF PipelineInv, AutomationWell, AutomationStages, Admitted, Active
  <2> QED
    BY <1>2, <2>2, RestrictionsKeepInv, ClockKeepsInv, TakeKeepsInv, DispatchKeepsInv,
       EnabledKeepsInv, PlanKeepsInv DEF HandlerPart
<1> QED BY <1>1, <1>2

-----------------------------------------------------------------------------
(* Admission. *)

\* A handler that is about to respond has an answer that can be sent.
LEMMA RespondKeepsInv ==
    ASSUME PipelineInv, NEW i \in Interactions, NEW from, Active(i, from),
           from # "done", Alone(i),
           run'[i].state = run[i].state, run'[i].at = "respond",
           Handled(i) => TerminalHolds(act(i), run'[i]),
           Automated(i) => run'[i].terminal = <<>>
    PROVE  PipelineInv'
<1>1. ASSUME Handled(i) PROVE HandlerWell(act(i), run'[i]) /\ Agrees(i)'
  <2>1. HandlerWell(act(i), run'[i])
    BY <1>1 DEF PipelineInv, HandlerWell, StateHolds, StageHolds, ReplyHolds,
       OutcomeHolds, Entering, Admitted
  <2>2. Agrees(i) /\ run[i].at # "done"
    BY <1>1 DEF PipelineInv, Active
  <2>3. Agrees(i)'
    BY <2>2 DEF Agrees, Alone, discord
  <2> QED BY <2>1, <2>3
<1>2. Automated(i) => AutomationWell(run'[i])
  BY DEF PipelineInv, AutomationWell, AutomationStages, Admitted
<1> QED BY <1>1, <1>2, AloneKeepsInv

IsDenial(denial) ==
    denial # <<>> => "kind" \in DOMAIN denial[1] /\ denial[1].kind = "message"

\* Whatever is decided about an invocation, a denial that says something is a message.
LEMMA DenialsAreMessages ==
    ASSUME NEW i \in Interactions, NEW n \in DOMAIN Definitions,
           NEW decision \in Authorizations(Bundle(n), Prepared(i, Bundle(n)))
    PROVE  IsDenial(decision.denial)
<1> DEFINE d == Bundle(n)
           v == Prepared(i, d)
           custom == SelectSeq(ChecksFor(d, v.route), LAMBDA c : c.kind = "custom")
<1>1. CASE decision \in {Silent, Allowed}
  BY <1>1 DEF Silent, Allowed, IsDenial
<1>2. CASE decision \notin {Silent, Allowed}
  <2>1. PICK m \in DOMAIN custom : decision \in Decisions(d, v, custom[m])
    BY <1>2 DEF Authorizations
  <2> DEFINE c == custom[m]
             u == CheckInvocation(v, c)
  <2>2. u.route = c.route
    BY DEF CheckInvocation, Prepared, Invocation
  <2>3. decision = Failed \/ (decision \in d.rules[c.route] /\ Resolves(d, u))
    BY <2>1 DEF Decisions
  <2>4. Resolves(d, u) => c.route \in RouteIDs
    BY <2>2 DEF Resolves, ValidInvocation
  <2> HIDE DEF c, u
  <2>5. decision \in d.rules[c.route] /\ Resolves(d, u) => IsDenial(decision.denial)
    BY <2>4, DefinitionsAreWellFormed DEF IsDenial, Bundle
  <2> QED BY <2>3, <2>5 DEF Failed, IsDenial
<1> QED BY <1>1, <1>2

\* A denial is turned into an answer that fits how the interaction stands.
LEMMA DenialsFit ==
    ASSUME NEW i \in Interactions, NEW d, NEW denial, IsDenial(denial),
           DenialFor(Prepared(i, d), denial) # <<>> \/ act(i).kind = "autocomplete",
           Interacts(i), StateHolds(act(i), run[i])
    PROVE  /\ DenialFor(Prepared(i, d), denial) # <<>>
           /\ Answers(act(i), DenialFor(Prepared(i, d), denial)[1], run[i].state)
<1>1. Prepared(i, d).kind = act(i).kind /\ Prepared(i, d).state = run[i].state
  BY DEF Prepared, Invocation
<1>2. act(i).kind \notin {"event", "task"}
  BY DEF Interacts, InteractionKinds
<1>3. CASE act(i).kind = "autocomplete"
  <2>1. DenialFor(Prepared(i, d), denial) = <<NoChoices>>
    BY <1>1, <1>3 DEF DenialFor
  <2> QED BY <1>3, <2>1 DEF NoChoices, Answers
<1>4. CASE act(i).kind # "autocomplete"
  <2>1. denial # <<>>
    BY <1>1, <1>2, <1>4 DEF DenialFor
  <2>2. CASE run[i].state = "deferred_update"
    <3> DEFINE update == [denial[1] EXCEPT !.kind = "update",
                                           !.sets = {"content", "embeds", "rows"}]
    <3>1. DenialFor(Prepared(i, d), denial) = <<update>>
      BY <1>1, <1>2, <1>4, <2>1, <2>2 DEF DenialFor
    <3>2. update.kind = "update"
      BY <2>1 DEF IsDenial
    <3> HIDE DEF update
    <3> QED BY <1>4, <2>2, <3>1, <3>2 DEF Answers, StateHolds
  <2>3. CASE run[i].state # "deferred_update"
    <3>1. DenialFor(Prepared(i, d), denial) = denial
      BY <1>1, <1>2, <1>4, <2>1, <2>3 DEF DenialFor
    <3> QED BY <1>4, <2>1, <2>3, <3>1 DEF Answers, StateHolds, IsDenial
  <2> QED BY <2>2, <2>3
<1> QED BY <1>3, <1>4

\* An event or a job that is denied has nobody to tell.
LEMMA AutomationsAreNotTold ==
    ASSUME NEW i \in Interactions, NEW d, NEW denial, Automated(i)
    PROVE  DenialFor(Prepared(i, d), denial) = <<>>
BY DEF DenialFor, Prepared, Invocation, Automated

\* Admission, before the first reply or after it: a denial fits what was sent.
LEMMA AdmitKeepsInv ==
    ASSUME PipelineInv, NEW i \in Interactions, Admit(i)
    PROVE  PipelineInv'
<1> DEFINE n == IF run[i].at = "retry" THEN run[i].def ELSE served
           v == Prepared(i, Bundle(n))
<1>1. /\ run[i].at \in {"admit", "readmit", "retry"} /\ Active(i, run[i].at)
      /\ UNCHANGED <<vars, cast, plugin, clock, discord>>
  BY DEF Admit, limits
<1>2. Handled(i) \/ Automated(i)
  BY <1>1, OneOfTwo
<1>3. Handled(i) => HandlerWell(act(i), run[i])
  BY DEF PipelineInv
<1>4. CASE Go(i, "error")
  BY <1>1, <1>4, ErrorKeepsInv
<1>5. ASSUME n # 0, NEW decision \in Authorizations(Bundle(n), v),
             run' = [run EXCEPT ![i] =
                     CASE decision = Failed -> [@ EXCEPT !.at = "error"]
                       [] decision \notin {Failed, Allowed} ->
                              [@ EXCEPT !.at = "respond",
                                        !.terminal = DenialFor(v, decision.denial)]
                       [] decision = Allowed /\ @.at = "admit" ->
                              [@ EXCEPT !.at = "defer", !.def = n]
                       [] decision = Allowed /\ @.at = "readmit" ->
                              [@ EXCEPT !.at = "invoke", !.def = n, !.refreshed = TRUE,
                                        !.began = served, !.attempt = 1]
                       [] OTHER -> [@ EXCEPT !.at = "invoke"]]
      PROVE  PipelineInv'
  <2>1. Known(n)
    BY <1>1, <1>2, <1>3, <1>5 DEF PipelineInv, PipelineShape, HandlerWell, StageHolds,
       AutomationWell, Known, Admitted
  <2> HIDE DEF n, v
  <2>2. Failed # Allowed
    BY DEF Failed, Allowed
  <2>3. CASE decision = Failed
    <3>1. Go(i, "error")
      BY <1>5, <2>2, <2>3 DEF Go
    <3> QED BY <1>1, <3>1, ErrorKeepsInv
  <2>4. CASE decision \notin {Failed, Allowed}
    <3> DEFINE terminal == DenialFor(v, decision.denial)
    <3>1. run' = [run EXCEPT ![i] = [@ EXCEPT !.at = "respond", !.terminal = terminal]]
      BY <1>5, <2>4
    <3> HIDE DEF terminal
    <3>2. /\ Alone(i) /\ run'[i].at = "respond"
          /\ run'[i].state = run[i].state /\ run'[i].terminal = terminal
      BY <1>1, <3>1 DEF PipelineInv, PipelineShape, RunShape, RunFields, Alone
    <3>3. IsDenial(decision.denial)
      BY <1>5, <2>1, DenialsAreMessages DEF Known, v
    <3>4. ASSUME Handled(i) PROVE TerminalHolds(act(i), run'[i])
      <4>1. Interacts(i) /\ StateHolds(act(i), run[i])
        BY <1>3, <3>4 DEF Handled, HandlerWell
      <4>2. terminal # <<>> \/ act(i).kind = "autocomplete" =>
               terminal # <<>> /\ Answers(act(i), terminal[1], run[i].state)
        BY <3>3, <4>1, DenialsFit DEF terminal, v
      <4> QED BY <3>2, <4>2 DEF TerminalHolds
    <3>5. Automated(i) => run'[i].terminal = <<>>
      BY <3>2, AutomationsAreNotTold DEF terminal, v
    <3> QED BY <1>1, <3>2, <3>4, <3>5, RespondKeepsInv
  <2>5. CASE decision = Allowed
    <3>1. CASE run[i].at = "admit"
      <4>1. run' = [run EXCEPT ![i] = [@ EXCEPT !.at = "defer", !.def = n]]
        BY <1>5, <2>2, <2>5, <3>1
      <4>2. /\ Alone(i) /\ run'[i].at = "defer"
            /\ run'[i].state = run[i].state /\ run'[i].def = n
        BY <1>1, <4>1 DEF PipelineInv, PipelineShape, RunShape, RunFields, Alone
      <4>3. Handled(i) => StateHolds(act(i), run'[i]) /\ StageHolds(act(i), run'[i])
        BY <1>3, <2>1, <3>1, <4>2 DEF HandlerWell, StateHolds, StageHolds, Entering
      <4> QED
        BY <1>1, <2>1, <3>1, <4>2, <4>3, StageKeepsInv DEF Admitted, AutomationStages
    <3>2. CASE run[i].at = "readmit"
      <4>1. run' = [run EXCEPT ![i] = [@ EXCEPT !.at = "invoke", !.def = n,
                                                !.refreshed = TRUE, !.began = served,
                                                !.attempt = 1]]
        BY <1>5, <2>2, <2>5, <3>2
      <4>2. /\ Alone(i) /\ run'[i].at = "invoke"
            /\ run'[i].state = run[i].state /\ run'[i].def = n
        BY <1>1, <4>1 DEF PipelineInv, PipelineShape, RunShape, RunFields, Alone
      <4>3. Handled(i) => StateHolds(act(i), run'[i]) /\ StageHolds(act(i), run'[i])
        BY <1>3, <2>1, <3>2, <4>2 DEF HandlerWell, StateHolds, StageHolds, Entering
      <4> QED
        BY <1>1, <2>1, <3>2, <4>2, <4>3, StageKeepsInv DEF Admitted, AutomationStages
    <3>3. CASE run[i].at = "retry"
      <4>1. Go(i, "invoke")
        BY <1>5, <2>2, <2>5, <3>3 DEF Go
      <4>2. Alone(i) /\ KeepsState(i) /\ run'[i].at = "invoke"
        BY <1>1, <4>1, GoIsAlone
      <4>3. Known(run[i].def)
        BY <1>2, <1>3, <3>3 DEF PipelineInv, HandlerWell, StageHolds, AutomationWell,
           Admitted
      <4>4. Handled(i) => StateHolds(act(i), run'[i]) /\ StageHolds(act(i), run'[i])
        BY <1>3, <3>3, <4>2, <4>3 DEF HandlerWell, StateHolds, StageHolds, Entering,
           KeepsState
      <4> QED
        BY <1>1, <3>3, <4>2, <4>3, <4>4, StageKeepsInv DEF Admitted, AutomationStages,
           KeepsState
    <3> QED BY <1>1, <3>1, <3>2, <3>3
  <2> QED BY <2>3, <2>4, <2>5
<1> QED BY <1>4, <1>5 DEF Admit

-----------------------------------------------------------------------------
(* The program. *)

\* The run begins with the bundle that is loaded by now, or is admitted again.
LEMMA RunKeepsInv ==
    ASSUME PipelineInv, NEW i \in Interactions, RunAdmitted(i)
    PROVE  PipelineInv'
<1> DEFINE to == IF served = run[i].def THEN "invoke" ELSE "readmit"
<1>1. /\ Active(i, "run")
      /\ UNCHANGED <<vars, cast, plugin, clock, discord>>
      /\ run' = [run EXCEPT ![i] = [@ EXCEPT !.began = served, !.at = to]]
  BY DEF RunAdmitted, limits
<1>2. /\ Alone(i) /\ run'[i].at = to
      /\ run'[i].state = run[i].state /\ run'[i].def = run[i].def
  BY <1>1 DEF PipelineInv, PipelineShape, RunShape, RunFields, Alone
<1>3. to \in {"invoke", "readmit"}
  OBVIOUS
<1> HIDE DEF to
<1>4. Handled(i) \/ Automated(i) => Known(run[i].def)
  BY <1>1 DEF PipelineInv, HandlerWell, StageHolds, AutomationWell, Active, Admitted
<1>5. Handled(i) => StateHolds(act(i), run'[i]) /\ StageHolds(act(i), run'[i])
  BY <1>2, <1>3, <1>4 DEF PipelineInv, HandlerWell, StateHolds, StageHolds, Entering
<1> QED
  BY <1>1, <1>2, <1>3, <1>4, <1>5, StageKeepsInv DEF Admitted, AutomationStages

\* A reply that the contract accepts is one the responders can send.
LEMMA ValidRepliesAnswer ==
    ASSUME NEW i \in Interactions, NEW d, NEW o, ValidReply(o, Prepared(i, d))
    PROVE  /\ Interacts(i) /\ StateHolds(act(i), run[i])
                  => Answers(act(i), o, run[i].state)
           /\ ~(Automated(i) /\ run[i].state = "none")
<1> DEFINE v == Prepared(i, d)
<1>1. v.kind = act(i).kind /\ v.state = run[i].state /\ v.origin = act(i).origin
  BY DEF Prepared, Invocation
<1> HIDE DEF v
<1>2. ValidReply(o, v)
  BY DEF v
<1>3. ASSUME Interacts(i), StateHolds(act(i), run[i])
      PROVE  Answers(act(i), o, run[i].state)
  BY <1>1, <1>2, <1>3 DEF ValidReply, MayUpdate, FromMessage, Answers, StateHolds,
     Interacts, InteractionKinds
<1>4. ~(Automated(i) /\ run[i].state = "none")
  BY <1>1, <1>2 DEF ValidReply, MayUpdate, FromMessage, Automated
<1> QED BY <1>3, <1>4

\* The replies in an operation of an accepted outcome.
LEMMA ValidOperationsAnswer ==
    ASSUME NEW i \in Interactions, NEW d, NEW o, ValidOperation(o, Prepared(i, d))
    PROVE  /\ Interacts(i) /\ StateHolds(act(i), run[i]) =>
                  /\ IsReply(o) => Answers(act(i), o, run[i].state)
                  /\ o.form = "guarded" => /\ o.failure # <<>>
                                           /\ Answers(act(i), o.failure[1], run[i].state)
           /\ Automated(i) /\ run[i].state = "none" => ~IsReply(o) /\ o.form # "guarded"
<1>1. IsReply(o) => ValidReply(o, Prepared(i, d))
  BY DEF IsReply, ValidOperation, Replies, KVOperations
<1>2. o.form = "guarded" => o.failure # <<>> /\ ValidReply(o.failure[1], Prepared(i, d))
  BY DEF ValidOperation, ValidGuarded
<1> QED BY <1>1, <1>2, ValidRepliesAnswer

\* What is accepted of a program's outcome.
LEMMA AcceptedOutcomesAnswer ==
    ASSUME NEW i \in Interactions, NEW n \in DOMAIN Definitions,
           NEW outcome \in Bundle(n).code[Prepared(i, Bundle(n)).route],
           AcceptedOutcome(Bundle(n), Prepared(i, Bundle(n)), outcome)
    PROVE  /\ outcome \in Seq(ToSet(outcome))
           /\ Interacts(i) /\ StateHolds(act(i), run[i]) =>
                  /\ outcome # <<>> /\ IsReply(outcome[Len(outcome)])
                  /\ \A k \in 1..Len(outcome) :
                         /\ IsReply(outcome[k]) => Answers(act(i), outcome[k], run[i].state)
                         /\ outcome[k].form = "guarded" =>
                                /\ outcome[k].failure # <<>>
                                /\ Answers(act(i), outcome[k].failure[1], run[i].state)
           /\ Automated(i) /\ run[i].state = "none" =>
                  \A k \in 1..Len(outcome) :
                      ~IsReply(outcome[k]) /\ outcome[k].form # "guarded"
<1> DEFINE v == Prepared(i, Bundle(n))
<1>1. v.kind = act(i).kind /\ v.state = run[i].state
  BY DEF Prepared, Invocation
<1> HIDE DEF v
<1>2. ValidOutcome(outcome, v) /\ v.route \in RouteIDs
  BY DEF AcceptedOutcome, ValidOutcome, ValidInvocation, v
<1>3. outcome \in Seq(ToSet(outcome))
  BY <1>2, DefinitionsAreWellFormed DEF Bundle, v
<1>4. DOMAIN outcome = 1..Len(outcome)
  BY <1>3
<1>5. \A k \in 1..Len(outcome) : ValidOperation(outcome[k], v)
  BY <1>2, <1>4 DEF ValidOutcome
<1>6. ASSUME Interacts(i), StateHolds(act(i), run[i])
      PROVE  outcome # <<>> /\ IsReply(outcome[Len(outcome)])
  BY <1>1, <1>2, <1>6 DEF ValidOutcome, Interacts, StateHolds, Last
<1>7. \A k \in 1..Len(outcome) :
          /\ Interacts(i) /\ StateHolds(act(i), run[i]) =>
                 /\ IsReply(outcome[k]) => Answers(act(i), outcome[k], run[i].state)
                 /\ outcome[k].form = "guarded" =>
                        /\ outcome[k].failure # <<>>
                        /\ Answers(act(i), outcome[k].failure[1], run[i].state)
          /\ Automated(i) /\ run[i].state = "none" =>
                 ~IsReply(outcome[k]) /\ outcome[k].form # "guarded"
  BY <1>5, ValidOperationsAnswer DEF v
<1> QED BY <1>3, <1>6, <1>7

\* An outcome that is accepted for the state the invocation was made in can be answered
\* with in that state, which is still the handler's.
LEMMA InvokeKeepsInv ==
    ASSUME PipelineInv, NEW i \in Interactions, Invoke(i)
    PROVE  PipelineInv'
<1> DEFINE d == Bundle(run[i].def)
           v == Prepared(i, d)
<1>1. Active(i, "invoke") /\ UNCHANGED <<vars, cast, plugin, clock, discord>>
  BY DEF Invoke, limits
<1>2. CASE Go(i, "error")
  BY <1>1, <1>2, ErrorKeepsInv
<1>3. ASSUME NEW outcome \in d.code[v.route], AcceptedOutcome(d, v, outcome),
             run' = [run EXCEPT ![i] = [@ EXCEPT !.at = "execute", !.outcome = outcome,
                                                 !.op = 1, !.executed = FALSE]]
      PROVE  PipelineInv'
  <2>1. /\ Alone(i) /\ run'[i].at = "execute" /\ run'[i].state = run[i].state
        /\ run'[i].outcome = outcome /\ run'[i].op = 1 /\ run'[i].def = run[i].def
    BY <1>1, <1>3 DEF PipelineInv, PipelineShape, RunShape, RunFields, Alone
  <2>2. Handled(i) => HandlerWell(act(i), run[i]) /\ Agrees(i)
    BY DEF PipelineInv
  <2>3. Automated(i) => AutomationWell(run[i])
    BY DEF PipelineInv
  <2>4. Handled(i) \/ Automated(i) => Known(run[i].def)
    BY <1>1, <2>2, <2>3 DEF HandlerWell, StageHolds, AutomationWell, Active, Admitted
  <2>5. ASSUME Handled(i) PROVE HandlerWell(act(i), run'[i]) /\ Agrees(i)'
    <3>1. Interacts(i) /\ StateHolds(act(i), run[i])
      BY <2>2, <2>5 DEF Handled, HandlerWell
    <3>2. /\ outcome \in Seq(ToSet(outcome))
          /\ outcome # <<>> /\ IsReply(outcome[Len(outcome)])
          /\ \A k \in 1..Len(outcome) :
                 /\ IsReply(outcome[k]) => Answers(act(i), outcome[k], run[i].state)
                 /\ outcome[k].form = "guarded" =>
                        /\ outcome[k].failure # <<>>
                        /\ Answers(act(i), outcome[k].failure[1], run[i].state)
      BY <1>3, <2>4, <2>5, <3>1, AcceptedOutcomesAnswer DEF Known
    <3>3. 1 \in 1..Len(outcome)
      BY <3>2
    <3>4. OutcomeHolds(act(i), run'[i])
      BY <2>1, <3>2, <3>3 DEF OutcomeHolds
    <3>5. StateHolds(act(i), run'[i]) /\ StageHolds(act(i), run'[i])
      BY <2>1, <2>4, <2>5, <3>1 DEF StateHolds, StageHolds, Entering
    <3>6. ReplyHolds(act(i), run'[i]) /\ TerminalHolds(act(i), run'[i])
      BY <2>1 DEF ReplyHolds, TerminalHolds
    <3>7. Agrees(i)'
      BY <1>1, <2>1, <2>2, <2>5 DEF Agrees, Active, discord
    <3> QED BY <3>4, <3>5, <3>6, <3>7 DEF HandlerWell
  <2>6. ASSUME Automated(i) PROVE AutomationWell(run'[i])
    <3>1. run[i].state = "none"
      BY <2>3, <2>6 DEF AutomationWell
    <3>2. /\ outcome \in Seq(ToSet(outcome))
          /\ \A k \in 1..Len(outcome) : ~IsReply(outcome[k]) /\ outcome[k].form # "guarded"
      BY <1>3, <2>4, <2>6, <3>1, AcceptedOutcomesAnswer DEF Known
    <3> QED BY <2>1, <2>4, <2>6, <3>1, <3>2 DEF AutomationWell, AutomationStages, Admitted
  <2> QED BY <2>1, <2>5, <2>6, AloneKeepsInv
<1> QED BY <1>2, <1>3 DEF Invoke

\* A bundle that was closed meanwhile leads to another admission, or an error.
LEMMA StaleKeepsInv ==
    ASSUME PipelineInv, NEW i \in Interactions, InvokeStale(i)
    PROVE  PipelineInv'
<1>1. /\ Active(i, "invoke")
      /\ UNCHANGED <<vars, cast, plugin, clock, discord>>
  BY DEF InvokeStale, limits
<1>2. CASE Go(i, "error")
  BY <1>1, <1>2, ErrorKeepsInv
<1>3. CASE Go(i, "readmit")
  <2>1. Alone(i) /\ KeepsState(i) /\ run'[i].at = "readmit"
    BY <1>1, <1>3, GoIsAlone
  <2>2. Handled(i) \/ Automated(i) => Known(run[i].def)
    BY <1>1 DEF PipelineInv, HandlerWell, StageHolds, AutomationWell, Active, Admitted
  <2>3. Handled(i) => StateHolds(act(i), run'[i]) /\ StageHolds(act(i), run'[i])
    BY <2>1, <2>2 DEF PipelineInv, HandlerWell, StateHolds, StageHolds, Entering,
       KeepsState
  <2> QED
    BY <1>1, <2>1, <2>2, <2>3, StageKeepsInv DEF Admitted, AutomationStages, KeepsState
<1> QED BY <1>2, <1>3 DEF InvokeStale

\* The terminal a program leaves is one that can be answered with.
LEMMA FinishKeepsInv ==
    ASSUME PipelineInv, NEW i \in Interactions, Active(i, "execute"),
           NEW terminal, Finish(i, terminal),
           UNCHANGED <<vars, cast, plugin, clock, discord>>,
           Handled(i) => terminal # <<>> /\ Answers(act(i), terminal[1], run[i].state),
           Automated(i) => terminal = <<>>
    PROVE  PipelineInv'
<1>1. /\ Alone(i) /\ run'[i].at = "respond" /\ run'[i].terminal = terminal
      /\ run'[i].state = run[i].state
  BY DEF PipelineInv, PipelineShape, RunShape, RunFields, Alone, Finish
<1>2. Handled(i) => TerminalHolds(act(i), run'[i])
  BY <1>1 DEF TerminalHolds
<1> QED BY <1>1, <1>2, RespondKeepsInv

\* What is known of a program's outcome while it is executed.
LEMMA WhileExecuting ==
    ASSUME PipelineInv, NEW i \in Interactions, Active(i, "execute")
    PROVE  /\ Handled(i) \/ Automated(i)
           /\ Handled(i) => OutcomeHolds(act(i), run[i]) /\ run[i].op \in 1..Len(run[i].outcome)
           /\ Automated(i) => /\ AutomationWell(run[i]) /\ run[i].op \in Nat \ {0}
                              /\ \A n \in 1..Len(run[i].outcome) :
                                     /\ ~IsReply(run[i].outcome[n])
                                     /\ run[i].outcome[n].form # "guarded"
           /\ run[i].outcome \in Seq(ToSet(run[i].outcome)) /\ run[i].op \in Nat
           /\ Known(run[i].def)
<1>1. Handled(i) \/ Automated(i)
  BY OneOfTwo
<1>2. Handled(i) => OutcomeHolds(act(i), run[i]) /\ Known(run[i].def)
  BY DEF PipelineInv, HandlerWell, StageHolds, Active, Admitted
<1>3. Automated(i) => AutomationWell(run[i])
  BY DEF PipelineInv
<1> QED BY <1>1, <1>2, <1>3 DEF OutcomeHolds, AutomationWell, Active, Admitted

\* The reply an outcome ends with is its terminal.
LEMMA ExecuteReplyKeepsInv ==
    ASSUME PipelineInv, NEW i \in Interactions, ExecuteReply(i)
    PROVE  PipelineInv'
<1>1. /\ Active(i, "execute") /\ UNCHANGED <<vars, cast, plugin, clock, discord>>
  BY DEF ExecuteReply, limits
<1>2. CASE run[i].op > Len(run[i].outcome) /\ Finish(i, <<>>)
  <2>1. ~Handled(i)
    BY <1>1, <1>2, WhileExecuting
  <2> QED BY <1>1, <1>2, <2>1, FinishKeepsInv
<1>3. CASE HasOperation(i) /\ IsReply(Current(i)) /\ Finish(i, <<Current(i)>>)
  <2>1. run[i].op \in 1..Len(run[i].outcome)
    BY <1>1, <1>3, WhileExecuting DEF HasOperation
  <2>2. ~Automated(i)
    BY <1>1, <1>3, <2>1, WhileExecuting DEF Current
  <2>3. Handled(i) => Answers(act(i), Current(i), run[i].state)
    BY <1>1, <1>3, <2>1, WhileExecuting DEF Current, OutcomeHolds, Active
  <2> QED BY <1>1, <1>3, <2>2, <2>3, FinishKeepsInv
<1> QED BY <1>2, <1>3 DEF ExecuteReply

\* The next operation: the last one is a reply, and is not passed.
LEMMA PastKeepsInv ==
    ASSUME PipelineInv, NEW i \in Interactions, HasOperation(i), ~IsReply(Current(i)),
           run' = [run EXCEPT ![i] = Past(@)],
           UNCHANGED <<vars, cast, plugin, clock, discord>>
    PROVE  PipelineInv'
<1>1. Active(i, "execute") /\ run[i].op <= Len(run[i].outcome)
  BY DEF HasOperation
<1>2. /\ Alone(i) /\ run'[i].at = "execute" /\ run'[i].outcome = run[i].outcome
      /\ run'[i].op = run[i].op + 1 /\ run'[i].state = run[i].state
      /\ run'[i].def = run[i].def
  BY <1>1 DEF PipelineInv, PipelineShape, RunShape, RunFields, Alone, Past, Active
<1>3. Known(run[i].def) /\ run[i].op \in Nat
  BY <1>1, WhileExecuting
<1>4. ASSUME Handled(i) PROVE HandlerWell(act(i), run'[i]) /\ Agrees(i)'
  <2>1. HandlerWell(act(i), run[i]) /\ Agrees(i) /\ run[i].at = "execute"
    BY <1>1, <1>4 DEF PipelineInv, Active
  <2>2. run[i].op # Len(run[i].outcome)
    BY <2>1 DEF HandlerWell, OutcomeHolds, Current
  <2>3. /\ run[i].outcome \in Seq(ToSet(run[i].outcome))
        /\ run[i].op \in 1..Len(run[i].outcome)
    BY <2>1 DEF HandlerWell, OutcomeHolds
  <2>4. Len(run[i].outcome) \in Nat
    BY <2>3
  <2>5. run[i].op + 1 \in 1..Len(run[i].outcome)
    BY <2>2, <2>3, <2>4
  <2>6. OutcomeHolds(act(i), run'[i])
    BY <1>2, <2>1, <2>5 DEF HandlerWell, OutcomeHolds
  <2>7. /\ StateHolds(act(i), run'[i]) /\ StageHolds(act(i), run'[i])
        /\ ReplyHolds(act(i), run'[i]) /\ TerminalHolds(act(i), run'[i])
    BY <1>2, <1>3, <2>1 DEF HandlerWell, StateHolds, StageHolds, ReplyHolds,
       TerminalHolds, Entering
  <2>8. Agrees(i)'
    BY <1>2, <2>1 DEF Agrees, discord
  <2> QED BY <2>6, <2>7, <2>8 DEF HandlerWell
<1>5. ASSUME Automated(i) PROVE AutomationWell(run'[i])
  BY <1>1, <1>2, <1>3, <1>5, WhileExecuting DEF AutomationWell, AutomationStages,
     Admitted, Active
<1> QED BY <1>2, <1>4, <1>5, AloneKeepsInv

\* An effect that happens, or fails: on to the next operation, an answer or an error.
LEMMA EffectKeepsInv ==
    ASSUME PipelineInv, NEW i \in Interactions,
           ExecuteEffect(i) \/ EffectFails(i)
    PROVE  PipelineInv'
<1>1. /\ HasOperation(i) /\ ~IsReply(Current(i)) /\ Active(i, "execute")
      /\ UNCHANGED <<vars, cast, plugin, clock, discord>>
  BY DEF ExecuteEffect, EffectFails, HasOperation, limits
<1>2. CASE run' = [run EXCEPT ![i] = Past(@)]
  BY <1>1, <1>2, PastKeepsInv
<1>3. CASE Go(i, "error")
  BY <1>1, <1>3, ErrorKeepsInv
<1>4. CASE Current(i).form = "guarded" /\ Finish(i, Current(i).failure)
  <2>1. run[i].op \in 1..Len(run[i].outcome)
    BY <1>1, WhileExecuting DEF HasOperation
  <2>2. ~Automated(i)
    BY <1>1, <1>4, <2>1, WhileExecuting DEF Current
  <2>3. Handled(i) => /\ Current(i).failure # <<>>
                      /\ Answers(act(i), Current(i).failure[1], run[i].state)
    BY <1>1, <1>4, <2>1, WhileExecuting DEF Current, OutcomeHolds, Active
  <2> QED BY <1>1, <1>4, <2>2, <2>3, FinishKeepsInv
<1> QED BY <1>2, <1>3, <1>4 DEF ExecuteEffect, EffectFails

\* A write that conflicts leads to a retry, or an error.
LEMMA ConflictKeepsInv ==
    ASSUME PipelineInv, NEW i \in Interactions, EffectConflicts(i)
    PROVE  PipelineInv'
<1>1. /\ Active(i, "execute")
      /\ UNCHANGED <<vars, cast, plugin, clock, discord>>
  BY DEF EffectConflicts, HasOperation, limits
<1>2. CASE run[i].executed \/ run[i].attempt = 3
  <2>1. Go(i, "error")
    BY <1>2 DEF EffectConflicts, Go
  <2> QED BY <1>1, <2>1, ErrorKeepsInv
<1>3. CASE ~(run[i].executed \/ run[i].attempt = 3)
  <2>1. \E n : run' = [run EXCEPT ![i] = [run[i] EXCEPT !.at = "retry", !.attempt = n]]
    BY <1>3 DEF EffectConflicts
  <2>2. /\ Alone(i) /\ run'[i].at = "retry"
        /\ run'[i].state = run[i].state /\ run'[i].def = run[i].def
    BY <1>1, <2>1 DEF PipelineInv, PipelineShape, RunShape, RunFields, Alone
  <2>3. Known(run[i].def)
    BY <1>1, WhileExecuting
  <2>4. Handled(i) => StateHolds(act(i), run'[i]) /\ StageHolds(act(i), run'[i])
    BY <2>2, <2>3 DEF PipelineInv, HandlerWell, StateHolds, StageHolds, Entering
  <2> QED BY <1>1, <2>2, <2>3, <2>4, StageKeepsInv DEF Admitted, AutomationStages
<1> QED BY <1>2, <1>3

\* The steps of a program.
LEMMA ProgramPartKeepsInv ==
    ASSUME PipelineInv, NEW i \in Interactions, ProgramPart(i)
    PROVE  PipelineInv'
BY RunKeepsInv, InvokeKeepsInv, StaleKeepsInv, ExecuteReplyKeepsInv, EffectKeepsInv,
   ConflictKeepsInv DEF ProgramPart

-----------------------------------------------------------------------------
(* The answer. *)

\* An automation's own stages.
LEMMA AutomationKeepsInv ==
    ASSUME PipelineInv, NEW i \in Interactions, Automated(i), Alone(i),
           AutomationWell(run'[i])
    PROVE  PipelineInv'
BY AloneKeepsInv DEF PipelineInv, Automated, Handled, Interacts, InteractionKinds

\* A handler may end when its user has an answer.
LEMMA DoneKeepsInv ==
    ASSUME PipelineInv, NEW i \in Interactions, NEW from, Active(i, from),
           Go(i, "done"), Interacts(i) => Answered(i),
           UNCHANGED <<vars, cast, plugin, clock, discord>>
    PROVE  PipelineInv'
<1>1. Alone(i) /\ KeepsState(i) /\ run'[i].at = "done"
  BY GoIsAlone
<1>2. Handled(i) => HandlerWell(act(i), run'[i])
  BY <1>1 DEF PipelineInv, HandlerWell, StateHolds, StageHolds, ReplyHolds, OutcomeHolds,
     TerminalHolds, KeepsState, Entering, Admitted
<1>3. Agrees(i)'
  BY <1>1 DEF Agrees
<1>4. Automated(i) => AutomationWell(run'[i])
  BY <1>1 DEF PipelineInv, AutomationWell, AutomationStages, KeepsState, Admitted
<1> QED BY <1>1, <1>2, <1>3, <1>4, AloneKeepsInv

\* The call that is made for an answer fits what the user sees.
LEMMA AnswersFit ==
    ASSUME PipelineInv, NEW i \in Interactions, Active(i, "respond"), Handled(i),
           NEW o, Answers(act(i), o, run[i].state)
    PROVE  /\ Answer(act(i), o, run[i].state) \notin Deferrals \cup {"none"}
           /\ Fits(i, Answer(act(i), o, run[i].state))
<1>1. /\ run[i].state \in {"unacknowledged", "deferred_create", "deferred_update"}
      /\ act(i).kind = "autocomplete" => run[i].state = "unacknowledged"
      /\ run[i].state = "deferred_update" => FromMessage(act(i))
      /\ i \notin lost =>
            /\ run[i].state = "unacknowledged" <=> view[i] = "none"
            /\ run[i].state = "deferred_create" => view[i] = "thinking"
            /\ run[i].state = "deferred_update" => view[i] = "deferred"
  BY DEF PipelineInv, HandlerWell, StateHolds, Agrees, Active
<1>2. Interacts(i)
  BY DEF Handled
<1>3. CASE act(i).kind = "autocomplete"
  <2>1. Answer(act(i), o, run[i].state) = "choices"
    BY <1>3 DEF Answer, Answers
  <2> QED BY <1>1, <1>3, <2>1 DEF Fits, Accepts, Initial, Deferrals
<1>4. CASE act(i).kind # "autocomplete" /\ o.kind = "message"
  <2>1. CASE run[i].state = "unacknowledged"
    <3>1. Answer(act(i), o, run[i].state) = "message"
      BY <1>4, <2>1 DEF Answer
    <3> QED BY <1>1, <1>4, <2>1, <3>1 DEF Fits, Accepts, Initial, Deferrals
  <2>2. CASE run[i].state = "deferred_create"
    <3>1. Answer(act(i), o, run[i].state) = "edit"
      BY <1>4, <2>2 DEF Answer
    <3> QED BY <1>1, <1>4, <2>2, <3>1 DEF Fits, Accepts, Initial, Deferrals
  <2> QED BY <1>4, <2>1, <2>2 DEF Answers
<1>5. CASE act(i).kind # "autocomplete" /\ o.kind = "edit"
  <2>1. Answer(act(i), o, run[i].state) = "edit" /\ run[i].state = "deferred_create"
    BY <1>5 DEF Answer, Answers
  <2> QED BY <1>1, <1>5, <2>1 DEF Fits, Accepts, Initial, Deferrals
<1>6. CASE act(i).kind # "autocomplete" /\ o.kind = "update"
  <2>1. FromMessage(act(i)) /\ act(i).kind # "command"
    BY <1>6 DEF Answers, FromMessage
  <2>2. CASE run[i].state = "unacknowledged"
    <3>1. Answer(act(i), o, run[i].state) = "update"
      BY <1>6, <2>1, <2>2 DEF Answer
    <3> QED BY <1>1, <1>6, <2>1, <2>2, <3>1 DEF Fits, Accepts, Initial, Deferrals
  <2>3. CASE run[i].state = "deferred_update"
    <3>1. Answer(act(i), o, run[i].state) = "edit"
      BY <1>6, <2>1, <2>3 DEF Answer
    <3> QED BY <1>1, <1>6, <2>3, <3>1 DEF Fits, Accepts, Initial, Deferrals
  <2> QED BY <1>6, <2>2, <2>3 DEF Answers
<1>7. CASE act(i).kind # "autocomplete" /\ o.kind = "modal"
  <2>1. act(i).kind \in {"command", "component"} /\ run[i].state = "unacknowledged"
    BY <1>7 DEF Answers
  <2>2. Answer(act(i), o, run[i].state) = "modal"
    BY <1>7, <2>1 DEF Answer
  <2> QED BY <1>1, <1>7, <2>1, <2>2 DEF Fits, Accepts, Initial, Deferrals
<1> QED BY <1>3, <1>4, <1>5, <1>6, <1>7 DEF Answers

\* An outcome without a reply closes what was opened.
LEMMA NothingKeepsInv ==
    ASSUME PipelineInv, NEW i \in Interactions, AnswerNothing(i)
    PROVE  PipelineInv'
<1>1. /\ Active(i, "respond") /\ run[i].terminal = <<>>
      /\ UNCHANGED <<vars, cast, plugin, clock, discord>>
  BY DEF AnswerNothing, limits
<1>2. CASE Automated(i)
  <2>1. run[i].state = "none" /\ AutomationWell(run[i])
    BY <1>2 DEF PipelineInv, AutomationWell
  <2>2. Go(i, "next")
    BY <1>2, <2>1 DEF AnswerNothing, End, Automated
  <2>3. Alone(i) /\ KeepsState(i) /\ run'[i].at = "next"
    BY <1>1, <2>2, GoIsAlone
  <2>4. AutomationWell(run'[i])
    BY <2>1, <2>3 DEF AutomationWell, AutomationStages, KeepsState, Admitted
  <2> QED BY <1>2, <2>3, <2>4, AutomationKeepsInv
<1>3. CASE ~Automated(i)
  <2>1. Handled(i) /\ act(i).kind # "autocomplete" /\ Interacts(i)
    BY <1>1, <1>3, OnlyHandlersEnter DEF PipelineInv, HandlerWell, TerminalHolds, Active,
       Handled
  <2>2. /\ run[i].state \in {"unacknowledged", "deferred_create", "deferred_update"}
        /\ i \notin lost =>
              /\ run[i].state = "deferred_create" => view[i] = "thinking"
              /\ run[i].state = "deferred_update" => view[i] = "deferred"
    BY <1>1, <2>1 DEF PipelineInv, HandlerWell, StateHolds, Agrees, Active
  <2>3. CASE run[i].state = "unacknowledged"
    <3>1. Reply(i, "acknowledge", "done", "error")
      BY <2>1, <2>3 DEF AnswerNothing
    <3>2. Fits(i, "acknowledge")
      BY <1>1, <2>1, <2>3, FirstReplyFits DEF Initial
    <3> QED BY <1>1, <1>3, <2>1, <3>1, <3>2, CallKeepsInv DEF Deferrals
  <2>4. CASE run[i].state = "deferred_create"
    <3>1. Reply(i, "delete", "done", "error")
      BY <2>1, <2>4 DEF AnswerNothing
    <3>2. Fits(i, "delete")
      BY <2>1, <2>2, <2>4 DEF Fits, Accepts, Initial
    <3> QED BY <1>1, <1>3, <2>1, <3>1, <3>2, CallKeepsInv DEF Deferrals
  <2>5. CASE run[i].state = "deferred_update"
    <3>1. Go(i, "done") /\ Answered(i)
      BY <1>3, <2>1, <2>2, <2>5 DEF AnswerNothing, End, Answered
    <3> QED BY <1>1, <3>1, DoneKeepsInv
  <2> QED BY <2>2, <2>3, <2>4, <2>5
<1> QED BY <1>2, <1>3

\* A reply is sent by the call that fits the state.
LEMMA AnswerKeepsInv ==
    ASSUME PipelineInv, NEW i \in Interactions, AnswerWith(i)
    PROVE  PipelineInv'
<1> DEFINE o == run[i].terminal[1]
           answer == Answer(act(i), o, run[i].state)
           else == IF act(i).kind = "autocomplete" THEN "done" ELSE "error"
<1>1. /\ Active(i, "respond") /\ run[i].terminal # <<>>
      /\ UNCHANGED <<vars, cast, plugin, clock, discord>>
      /\ Go(i, "error") \/ Reply(i, answer, "done", else)
  BY DEF AnswerWith, limits
<1>2. ~Automated(i)
  BY <1>1 DEF PipelineInv, AutomationWell, Active
<1>3. Handled(i)
  BY <1>1, <1>2, OnlyHandlersEnter
<1>4. Answers(act(i), o, run[i].state)
  BY <1>1, <1>3 DEF PipelineInv, HandlerWell, TerminalHolds, Active
<1>5. answer \notin Deferrals /\ Fits(i, answer)
  BY <1>1, <1>3, <1>4, AnswersFit
<1>6. else \in {"done", "error"}
  OBVIOUS
<1> HIDE DEF answer, else
<1>7. CASE Go(i, "error")
  BY <1>1, <1>7, ErrorKeepsInv
<1>8. CASE Reply(i, answer, "done", else)
  BY <1>1, <1>2, <1>3, <1>5, <1>6, <1>8, CallKeepsInv
<1> QED BY <1>1, <1>7, <1>8

\* An error is reported by the call that fits the state.
LEMMA ErrorReportKeepsInv ==
    ASSUME PipelineInv, NEW i \in Interactions, ReportError(i)
    PROVE  PipelineInv'
<1>1. Active(i, "error") /\ UNCHANGED <<vars, cast, plugin, clock, discord>>
  BY DEF ReportError, limits
<1>2. CASE Automated(i)
  <2>1. AutomationWell(run[i]) /\ Go(i, "next")
    BY <1>2 DEF PipelineInv, ReportError
  <2>2. Alone(i) /\ KeepsState(i) /\ run'[i].at = "next"
    BY <1>1, <2>1, GoIsAlone
  <2>3. run[i].at = "error"
    BY <1>1 DEF Active
  <2>4. AutomationWell(run'[i])
    BY <2>1, <2>2, <2>3 DEF AutomationWell, AutomationStages, KeepsState, Admitted
  <2> QED BY <1>2, <2>2, <2>4, AutomationKeepsInv
<1>3. CASE ~Automated(i)
  <2>1. Handled(i)
    BY <1>1, <1>3, OnlyHandlersEnter
  <2>2. CASE act(i).kind = "autocomplete"
    <3>1. Reply(i, "choices", "done", "done") /\ run[i].state = "unacknowledged"
      BY <1>3, <2>1, <2>2 DEF ReportError, PipelineInv, HandlerWell, StateHolds
    <3>2. Fits(i, "choices")
      BY <1>1, <2>1, <2>2, <3>1, FirstReplyFits DEF Initial
    <3> QED BY <1>1, <1>3, <2>1, <3>1, <3>2, CallKeepsInv DEF Deferrals
  <2>3. CASE act(i).kind # "autocomplete" /\ run[i].state = "unacknowledged"
    <3>1. Reply(i, "message", "done", "done")
      BY <1>3, <2>3 DEF ReportError
    <3>2. Fits(i, "message")
      BY <1>1, <2>1, <2>3, FirstReplyFits DEF Initial
    <3> QED BY <1>1, <1>3, <2>1, <3>1, <3>2, CallKeepsInv DEF Deferrals
  <2>4. CASE act(i).kind # "autocomplete" /\ run[i].state # "unacknowledged"
    <3>1. Reply(i, "edit", "done", "done")
      BY <1>3, <2>4 DEF ReportError
    <3>2. Fits(i, "edit")
      BY <1>1, <2>1, <2>4 DEF Fits, Accepts, Initial, PipelineInv, Agrees, Active
    <3> QED BY <1>1, <1>3, <2>1, <3>1, <3>2, CallKeepsInv DEF Deferrals
  <2> QED BY <2>2, <2>3, <2>4
<1> QED BY <1>2, <1>3

\* Only a handler calls Discord.
LEMMA WhileReplying ==
    ASSUME PipelineInv, NEW i \in Interactions, Active(i, "reply")
    PROVE  /\ ~Automated(i) /\ Handled(i) /\ Interacts(i)
           /\ run[i].at = "reply" /\ HandlerWell(act(i), run[i]) /\ Agrees(i)
<1>1. ~Automated(i)
  BY DEF PipelineInv, AutomationWell, AutomationStages, Admitted, Active
<1> QED BY <1>1, OnlyHandlersEnter DEF PipelineInv, Handled, Active

\* What one call to Discord leaves of the invariant, but for the handler that called
\* and for those whose call failed.
LEMMA CallsKeepOthers ==
    ASSUME PipelineInv, NEW i \in Interactions, NEW to, NEW state,
           run' = [run EXCEPT ![i] = [@ EXCEPT !.at = to, !.state = state]],
           UNCHANGED <<vars, cast, plugin, clock>>,
           DOMAIN view' = Interactions, \A j \in Interactions \ {i} : view'[j] = view[j],
           \A j \in Interactions \ {i} : j \in lost' <=> j \in lost,
           faults' \in Nat, faults' >= faults, lost' # lost => faults' # 0,
           HandlerWell(act(i), run'[i]), Agrees(i)', to = "done" => Answered(i)',
           ~Automated(i), Interacts(i)
    PROVE  PipelineInv'
<1>1. UNCHANGED <<call, cast, served, load, clock>>
  BY DEF vars, plugin
<1>2. \A j \in Interactions :
          /\ act(j)' = act(j) /\ Handled(j)' = Handled(j)
          /\ Automated(j)' = Automated(j) /\ Interacts(j)' = Interacts(j)
  BY <1>1 DEF act, Handled, Automated, Interacts
<1>3. PipelineShape'
  BY <1>1 DEF PipelineInv, PipelineShape, RunShape, RunFields
<1>4. ASSUME NEW j \in Interactions
      PROVE  /\ ~Interacts(j) => call'[j] = "new"
             /\ Handled(j)' => HandlerWell(act(j), run'[j]) /\ Agrees(j)'
             /\ Automated(j)' => AutomationWell(run'[j])
             /\ Interacts(j) /\ run'[j].at = "done" => Answered(j)'
  <2>1. CASE j = i
    <3>1. run'[i].at = to
      BY DEF PipelineInv, PipelineShape, RunShape, RunFields
    <3> QED BY <1>1, <1>2, <2>1, <3>1 DEF PipelineInv
  <2>2. CASE j # i
    <3>1. /\ run'[j] = run[j] /\ view'[j] = view[j]
          /\ j \in lost' <=> j \in lost
      BY <2>2 DEF PipelineInv, PipelineShape, RunShape
    <3>2. Agrees(j) => Agrees(j)'
      BY <1>1, <1>2, <3>1 DEF Agrees, Fits, Accepts, act
    <3>3. Answered(j) => Answered(j)'
      BY <3>1 DEF Answered, PipelineInv, PipelineShape
    <3> QED BY <1>1, <1>2, <3>1, <3>2, <3>3 DEF PipelineInv
  <2> QED BY <2>1, <2>2
<1> QED BY <1>2, <1>3, <1>4 DEF PipelineInv

\* A reply that arrives leaves the user with what the handler takes it for.
LEMMA DeliverKeepsInv ==
    ASSUME PipelineInv, NEW i \in Interactions, Deliver(i)
    PROVE  PipelineInv'
<1> DEFINE to == run[i].then
           state == StateAfter(run[i])
<1>1. /\ Active(i, "reply")
      /\ view' = [view EXCEPT ![i] = Seen(run[i].reply)]
      /\ run' = [run EXCEPT ![i] = [@ EXCEPT !.at = to, !.state = state]]
      /\ UNCHANGED <<vars, cast, plugin, clock, faults, lost>>
  BY DEF Deliver, limits
<1>2. /\ ~Automated(i) /\ Handled(i) /\ Interacts(i)
      /\ run[i].at = "reply" /\ HandlerWell(act(i), run[i]) /\ Agrees(i)
  BY <1>1, WhileReplying
<1> HIDE DEF to, state
<1>3. /\ run'[i].at = to /\ run'[i].state = state /\ run'[i].def = run[i].def
      /\ view'[i] = Seen(run[i].reply)
  BY <1>1 DEF PipelineInv, PipelineShape, RunShape, RunFields
<1>4. /\ DOMAIN view' = Interactions
      /\ faults' \in Nat /\ faults' >= faults /\ lost' = lost
      /\ \A j \in Interactions \ {i} : view'[j] = view[j] /\ (j \in lost' <=> j \in lost)
  BY <1>1 DEF PipelineInv, PipelineShape
<1>5. CASE to = "done" /\ run[i].reply \notin Deferrals
  <2>1. state = run[i].state
    BY <1>5 DEF state, StateAfter, Deferrals
  <2>2. HandlerWell(act(i), run'[i])
    BY <1>2, <1>3, <1>5, <2>1 DEF HandlerWell, StateHolds, StageHolds, ReplyHolds,
       OutcomeHolds, TerminalHolds, Entering, Admitted
  <2>3. view'[i] \notin {"none", "thinking"}
    BY <1>3, <1>5 DEF Seen, Deferrals
  <2>4. Agrees(i)' /\ Answered(i)'
    BY <1>3, <1>5, <2>3 DEF Agrees, Answered
  <2> QED BY <1>1, <1>2, <1>4, <2>2, <2>4, CallsKeepOthers
<1>6. CASE /\ to = "run" /\ run[i].reply \in Deferrals /\ Known(run[i].def)
           /\ act(i).kind # "autocomplete"
           /\ run[i].reply = "defer_update" => FromMessage(act(i))
  <2>1. \/ /\ run[i].reply = "defer_create" /\ state = "deferred_create"
           /\ view'[i] = "thinking"
        \/ /\ run[i].reply = "defer_update" /\ state = "deferred_update"
           /\ view'[i] = "deferred"
    BY <1>3, <1>6 DEF state, StateAfter, Seen, Deferrals
  <2>2. HandlerWell(act(i), run'[i])
    BY <1>2, <1>3, <1>6, <2>1 DEF HandlerWell, StateHolds, StageHolds, ReplyHolds,
       OutcomeHolds, TerminalHolds, Entering
  <2>3. Agrees(i)'
    BY <1>3, <1>6, <2>1 DEF Agrees
  <2>4. to # "done"
    BY <1>6
  <2> QED BY <1>1, <1>2, <1>4, <2>2, <2>3, <2>4, CallsKeepOthers
<1> QED BY <1>2, <1>5, <1>6 DEF HandlerWell, ReplyHolds, to

\* A handler that goes on with "done" or with the error.
LEMMA FailedCallKeepsWell ==
    ASSUME PipelineInv, NEW i \in Interactions, Active(i, "reply"), Go(i, run[i].else)
    PROVE  /\ run' = [run EXCEPT ![i] = [@ EXCEPT !.at = run[i].else, !.state = run[i].state]]
           /\ run'[i].at = run[i].else /\ run'[i].state = run[i].state
           /\ run[i].else \in {"done", "error"}
           /\ HandlerWell(act(i), run'[i])
<1>1. HandlerWell(act(i), run[i]) /\ run[i].at = "reply"
  BY WhileReplying
<1>2. run[i].else \in {"done", "error"}
  BY <1>1 DEF HandlerWell, ReplyHolds
<1>3. /\ run' = [run EXCEPT ![i] = [@ EXCEPT !.at = run[i].else]]
      /\ run'[i].at = run[i].else /\ run'[i].state = run[i].state
  BY DEF Go, PipelineInv, PipelineShape, RunShape, RunFields
<1>4. run' = [run EXCEPT ![i] = [@ EXCEPT !.at = run[i].else, !.state = run[i].state]]
  <2>1. [run[i] EXCEPT !.at = run[i].else]
            = [run[i] EXCEPT !.at = run[i].else, !.state = run[i].state]
    BY DEF PipelineInv, PipelineShape, RunShape, RunFields
  <2> QED BY <1>3, <2>1
<1>5. HandlerWell(act(i), run'[i])
  BY <1>1, <1>2, <1>3 DEF HandlerWell, StateHolds, StageHolds, ReplyHolds,
     OutcomeHolds, TerminalHolds, Entering, Admitted
<1> QED BY <1>2, <1>3, <1>4, <1>5

\* A call that fails counts, and what it may have left is known to be uncertain.
LEMMA FailureKeepsInv ==
    ASSUME PipelineInv, NEW i \in Interactions, DeliveryFails(i)
    PROVE  PipelineInv'
<1>1. /\ Active(i, "reply") /\ Go(i, run[i].else) /\ faults' = faults + 1
      /\ UNCHANGED <<vars, cast, plugin, clock>>
      /\ \/ UNCHANGED <<view, lost>>
         \/ view' = [view EXCEPT ![i] = Seen(run[i].reply)] /\ lost' = lost \cup {i}
  BY DEF DeliveryFails, limits
<1>2. /\ ~Automated(i) /\ Interacts(i) /\ run[i].at = "reply" /\ Agrees(i)
  BY <1>1, WhileReplying
<1>3. /\ run' = [run EXCEPT ![i] = [@ EXCEPT !.at = run[i].else, !.state = run[i].state]]
      /\ run'[i].at = run[i].else /\ run'[i].state = run[i].state
      /\ run[i].else \in {"done", "error"}
      /\ HandlerWell(act(i), run'[i])
  BY <1>1, FailedCallKeepsWell
<1>4. faults' \in Nat /\ faults' >= faults /\ faults' # 0
  BY <1>1 DEF PipelineInv, PipelineShape
<1>5. Agrees(i)'
  BY <1>1, <1>2, <1>3 DEF Agrees
<1>6. Answered(i)'
  BY <1>4 DEF Answered
<1>7. DOMAIN view' = Interactions /\ \A j \in Interactions \ {i} : view'[j] = view[j]
  BY <1>1 DEF PipelineInv, PipelineShape
<1>8. \A j \in Interactions \ {i} : j \in lost' <=> j \in lost
  BY <1>1
<1> QED BY <1>1, <1>2, <1>3, <1>4, <1>5, <1>6, <1>7, <1>8, CallsKeepOthers

\* Only a handler whose earlier answer was lost is refused.
LEMMA RefusalKeepsInv ==
    ASSUME PipelineInv, NEW i \in Interactions, Refuse(i)
    PROVE  PipelineInv'
<1>1. /\ Active(i, "reply") /\ ~Accepts(i, run[i].reply) /\ Go(i, run[i].else)
      /\ UNCHANGED <<vars, cast, plugin, clock, view, faults, lost>>
  BY DEF Refuse, limits
<1>2. /\ ~Automated(i) /\ Interacts(i) /\ run[i].at = "reply" /\ Agrees(i)
  BY <1>1, WhileReplying
<1>3. /\ run' = [run EXCEPT ![i] = [@ EXCEPT !.at = run[i].else, !.state = run[i].state]]
      /\ run'[i].at = run[i].else /\ run'[i].state = run[i].state
      /\ run[i].else \in {"done", "error"}
      /\ HandlerWell(act(i), run'[i])
  BY <1>1, FailedCallKeepsWell
<1>4. i \in lost
  BY <1>1, <1>2 DEF Agrees, Fits
<1>5. Agrees(i)' /\ Answered(i)'
  BY <1>1, <1>3, <1>4 DEF Agrees, Answered
<1>6. /\ DOMAIN view' = Interactions
      /\ faults' \in Nat /\ faults' >= faults /\ lost' = lost
      /\ \A j \in Interactions \ {i} : view'[j] = view[j] /\ (j \in lost' <=> j \in lost)
  BY <1>1 DEF PipelineInv, PipelineShape
<1> QED BY <1>1, <1>2, <1>3, <1>5, <1>6, CallsKeepOthers

\* The steps of an answer.
LEMMA AnswerPartKeepsInv ==
    ASSUME PipelineInv, NEW i \in Interactions, AnswerPart(i)
    PROVE  PipelineInv'
BY NothingKeepsInv, AnswerKeepsInv, ErrorReportKeepsInv, DeliverKeepsInv,
   FailureKeepsInv, RefusalKeepsInv DEF AnswerPart

-----------------------------------------------------------------------------
(* Events and jobs, the dispatcher, the plugin and the time. *)

\* Events and jobs: the limiter, and each listener in turn.
LEMMA AutomationPartKeepsInv ==
    ASSUME PipelineInv, NEW i \in Interactions, AutomationPart(i)
    PROVE  PipelineInv'
<1>1. PICK at \in {"fire", "limit", "next"} : Active(i, at)
  BY DEF AutomationPart, Fire, TakeToken, NextListener
<1>2. UNCHANGED <<vars, cast, plugin, clock, discord>>
  BY DEF AutomationPart, Fire, TakeToken, NextListener, limits
<1>3. Automated(i)
  BY <1>1, OnlyHandlersEnter DEF PipelineInv, HandlerWell, StageHolds, Active
<1>4. AutomationWell(run[i]) /\ run[i].at = at
  BY <1>1, <1>3 DEF PipelineInv, Active
<1>5. CASE Fire(i)
  <2>1. PICK to \in {"done", "limit"} : Go(i, to)
    BY <1>5 DEF Fire
  <2>2. Alone(i) /\ KeepsState(i) /\ run'[i].at = to
    BY <1>2, <2>1, GoIsAlone
  <2>3. AutomationWell(run'[i])
    BY <1>4, <2>2 DEF AutomationWell, AutomationStages, KeepsState, Admitted
  <2> QED BY <1>3, <2>2, <2>3, AutomationKeepsInv
<1>6. CASE TakeToken(i)
  <2>1. \/ \E todo : run' = [run EXCEPT ![i] = [run[i] EXCEPT !.at = "next", !.todo = todo]]
        \/ run' = [run EXCEPT ![i] = [run[i] EXCEPT !.at = "done"]]
    BY <1>6 DEF TakeToken
  <2>2. Alone(i) /\ KeepsState(i) /\ run'[i].at \in {"next", "done"}
    <3>1. i \in DOMAIN run /\ DOMAIN run = Interactions
          /\ DOMAIN run[i] = RunFields /\ run[i].now \in Nat
      BY DEF PipelineInv, PipelineShape, RunShape
    <3>2. CASE \E todo : run' = [run EXCEPT ![i] =
                                    [run[i] EXCEPT !.at = "next", !.todo = todo]]
      BY <1>2, <3>1, <3>2 DEF RunFields, Alone, KeepsState
    <3>3. CASE run' = [run EXCEPT ![i] = [run[i] EXCEPT !.at = "done"]]
      BY <1>2, <3>1, <3>3 DEF RunFields, Alone, KeepsState
    <3> QED BY <2>1, <3>2, <3>3
  <2>3. AutomationWell(run'[i])
    BY <1>4, <2>2 DEF AutomationWell, AutomationStages, KeepsState, Admitted
  <2> QED BY <1>3, <2>2, <2>3, AutomationKeepsInv
<1>7. CASE NextListener(i)
  <2>1. CASE run[i].todo = <<>>
    <3>1. Go(i, "done")
      BY <1>7, <2>1 DEF NextListener, Go
    <3>2. Alone(i) /\ KeepsState(i) /\ run'[i].at = "done"
      BY <1>2, <3>1, GoIsAlone
    <3>3. AutomationWell(run'[i])
      BY <1>4, <3>2 DEF AutomationWell, AutomationStages, KeepsState, Admitted
    <3> QED BY <1>3, <3>2, <3>3, AutomationKeepsInv
  <2>2. CASE run[i].todo # <<>>
    <3>1. \E todo, k, route : run' = [run EXCEPT ![i] =
              [NewRun(act(i)) EXCEPT !.at = "admit", !.todo = todo, !.item = k,
                                     !.route = route]]
      BY <1>7, <2>2 DEF NextListener
    <3>2. /\ Alone(i) /\ run'[i].at = "admit"
          /\ run'[i].state = "none" /\ run'[i].terminal = <<>>
      <4>1. i \in DOMAIN run /\ DOMAIN run = Interactions
        BY DEF PipelineInv, PipelineShape, RunShape
      <4> QED BY <1>2, <1>3, <3>1, <4>1 DEF RunFields, Alone, NewRun, Automated
    <3>3. AutomationWell(run'[i])
      BY <3>2 DEF AutomationWell, AutomationStages, Admitted
    <3> QED BY <1>3, <3>2, <3>3, AutomationKeepsInv
  <2> QED BY <2>1, <2>2
<1> QED BY <1>5, <1>6, <1>7 DEF AutomationPart

\* The dispatcher may end handlers, and answer those that have ended.
LEMMA SlotsKeepInv ==
    ASSUME PipelineInv,
           UNCHANGED <<cast, plugin, clock, run, lost>>,
           faults' \in Nat, faults' >= faults,
           \A j \in Interactions :
               /\ call'[j] \in {"new", "running"} => call[j] \in {"new", "running"}
               /\ ~Interacts(j) => call'[j] = call[j],
           DOMAIN view' = Interactions,
           \A j \in Interactions :
               view'[j] = view[j] \/ (~Handled(j) /\ view'[j] = "answered")
    PROVE  PipelineInv'
<1>1. UNCHANGED <<served, load>>
  BY DEF plugin
<1>2. \A j \in Interactions :
          /\ act(j)' = act(j) /\ (Handled(j)' => Handled(j))
          /\ Automated(j)' = Automated(j) /\ Interacts(j)' = Interacts(j)
  BY DEF act, Handled, Automated, Interacts
<1>3. PipelineShape'
  BY <1>1 DEF PipelineInv, PipelineShape, RunShape
<1>4. ASSUME NEW j \in Interactions
      PROVE  /\ ~Interacts(j) => call'[j] = "new"
             /\ Handled(j)' => HandlerWell(act(j), run'[j]) /\ Agrees(j)'
             /\ Automated(j)' => AutomationWell(run'[j])
             /\ Interacts(j) /\ run'[j].at = "done" => Answered(j)'
  <2>1. Answered(j) => Answered(j)'
    BY DEF Answered, PipelineInv, PipelineShape
  <2>2. Handled(j) /\ Agrees(j) => Agrees(j)'
    BY <1>2 DEF Agrees, Fits, Accepts, act
  <2> QED BY <1>2, <2>1, <2>2 DEF PipelineInv
<1> QED BY <1>2, <1>3, <1>4 DEF PipelineInv

\* Only interactions are launched.
LEMMA LaunchKeepsInv ==
    ASSUME PipelineInv, NEW i \in Interactions,
           LaunchHandler(i) \/ FinishHandler(i) \/ PanicHandler(i)
    PROVE  PipelineInv'
<1>1. Interacts(i)
  BY CastsAreWellFormed DEF PipelineInv, PipelineShape, LaunchHandler, FinishHandler,
     PanicHandler, HandlerReturns, HandlerPanics, Interacts, Automated, act
<1>2. /\ UNCHANGED <<cast, plugin, clock, run, view, faults, lost>>
      /\ \A j \in Interactions \ {i} : call'[j] = call[j]
      /\ call[i] \in {"new", "running"}
  <2>1. CASE LaunchHandler(i)
    BY <2>1 DEF LaunchHandler, Launch, limits, discord
  <2>2. CASE FinishHandler(i)
    BY <2>2 DEF FinishHandler, HandlerReturns, limits, discord
  <2>3. CASE PanicHandler(i)
    BY <2>3 DEF PanicHandler, HandlerPanics, limits
  <2> QED BY <2>1, <2>2, <2>3
<1> QED BY <1>1, <1>2, SlotsKeepInv DEF PipelineInv, PipelineShape

\* A rejection is for an interaction whose handler did not start, or has ended.
LEMMA RejectedAreEnded ==
    ASSUME DispatchInv, NEW w \in Interactions, worker[w] = "run"
    PROVE  job[w] \in Interactions /\ ~Handled(job[w])
<1>1. job[w] \in Interactions
  BY DEF DispatchInv, TypeOK
<1>2. BeingRun(job[w])
  BY DEF BeingRun
<1> QED BY <1>1, <1>2 DEF DispatchInv, OnePlace, NotHandedOn, Handled

\* The dispatcher hands rejections on and answers with them.
LEMMA DispatcherKeepsInv ==
    ASSUME PipelineInv, DispatchInv, NEW i \in Interactions, DispatcherStep(i)
    PROVE  PipelineInv'
<1>1. CASE CallStep(i) /\ UNCHANGED Beyond
  <2>1. /\ \A j \in Interactions \ {i} : call'[j] = call[j]
        /\ call[i] \notin {"new", "running"} /\ call'[i] \notin {"new", "running"}
    BY <1>1 DEF CallStep, StartRejection, Enqueue, DropRejection, StartQueued, DispatchInv,
       TypeOK
  <2>2. Interacts(i)
    BY <2>1 DEF PipelineInv
  <2> QED
    BY <1>1, <2>1, <2>2, SlotsKeepInv DEF Beyond, limits, discord, PipelineInv,
       PipelineShape
<1>2. CASE Reject(i)
  <2>1. job[i] \in Interactions /\ ~Handled(job[i])
    BY <1>2, RejectedAreEnded DEF Reject, RunRejection
  <2>2. /\ UNCHANGED <<call, cast, plugin, clock, run, lost>>
        /\ faults' = faults \/ faults' = faults + 1
        /\ view' = view \/ view' = [view EXCEPT ![job[i]] = "answered"]
    BY <1>2 DEF Reject, RunRejection, limits
  <2>3. /\ DOMAIN view' = Interactions /\ faults' \in Nat /\ faults' >= faults
        /\ \A j \in Interactions :
               view'[j] = view[j] \/ (~Handled(j) /\ view'[j] = "answered")
    BY <2>1, <2>2 DEF PipelineInv, PipelineShape
  <2> QED BY <2>2, <2>3, SlotsKeepInv
<1>3. CASE /\ Receive(i) \/ ReceiveNothing(i) \/ Release(i) \/ LookAgain(i) \/ Restart(i)
           /\ UNCHANGED Beyond
  <2>1. UNCHANGED call
    BY <1>3 DEF Receive, ReceiveNothing, Release, LookAgain, Restart
  <2> QED
    BY <1>3, <2>1, SlotsKeepInv DEF Beyond, limits, discord, PipelineInv, PipelineShape
<1> QED BY <1>1, <1>2, <1>3 DEF DispatcherStep

\* Reloads, unloads and the clock touch no handler.
LEMMA RestKeepsInv ==
    ASSUME PipelineInv, Reload \/ Unload \/ Tick \/ UNCHANGED allVars
    PROVE  PipelineInv'
<1>1. UNCHANGED <<vars, cast, run, discord>>
  BY DEF Reload, Unload, Tick, limits, allVars
<1>2. clock' \in Nat
  BY DEF Reload, Unload, Tick, limits, allVars, PipelineInv, PipelineShape
<1>3. load' \in 1..Len(cast.loads) /\ (served' # 0 => Known(served'))
  <2>1. cast.loads \in Seq(DOMAIN Definitions)
    BY CastsAreWellFormed DEF PipelineInv, PipelineShape
  <2>2. load \in 1..Len(cast.loads) /\ (served # 0 => Known(served))
    BY DEF PipelineInv, PipelineShape
  <2>3. CASE Reload
    <3>1. load' \in 1..Len(cast.loads)
      BY <2>1, <2>2, <2>3 DEF Reload
    <3>2. cast.loads[load'] \in DOMAIN Definitions
      BY <2>1, <3>1
    <3> QED BY <2>2, <2>3, <3>1, <3>2 DEF Reload, Loaded, Known
  <2>4. CASE Unload \/ Tick \/ UNCHANGED allVars
    BY <2>2, <2>4 DEF Unload, Tick, plugin, allVars
  <2> QED BY <2>3, <2>4
<1>4. PipelineShape'
  BY <1>1, <1>2, <1>3 DEF PipelineInv, PipelineShape, RunShape, discord
<1>5. \A j \in Interactions :
          /\ act(j)' = act(j) /\ Handled(j)' = Handled(j) /\ Agrees(j)' = Agrees(j)
          /\ Automated(j)' = Automated(j) /\ Interacts(j)' = Interacts(j)
          /\ Answered(j)' = Answered(j)
  BY <1>1 DEF act, Handled, Automated, Interacts, Answered, Agrees, Fits, Accepts, vars,
     discord
<1> QED BY <1>1, <1>4, <1>5 DEF PipelineInv, vars

\* A handler starts with nothing sent, at a stage of its kind.
LEMMA PipelineStarts == PipelineInit => PipelineInv
<1> SUFFICES ASSUME PipelineInit PROVE PipelineInv
  OBVIOUS
<1>1. /\ cast \in Casts /\ load = 1 /\ served = Loaded(Head(cast.loads), 0) /\ clock = 0
      /\ run = [i \in Interactions |-> NewRun(act(i))]
      /\ view = [i \in Interactions |-> "none"]
      /\ faults = 0 /\ lost = {}
      /\ call = [i \in Interactions |-> "new"]
  BY DEF PipelineInit, Init
<1>2. /\ cast.loads \in Seq(DOMAIN Definitions) \ {<<>>}
      /\ \A i \in Interactions : act(i).kind \in
             InteractionKinds \cup {"event", "task", "absent"}
  BY <1>1, CastsAreWellFormed DEF act
<1>3. load \in 1..Len(cast.loads) /\ (served # 0 => Known(served))
  BY <1>1, <1>2 DEF Loaded, Known
<1>4. \A i \in Interactions : DOMAIN run[i] = RunFields /\ run[i].now \in Nat
  BY <1>1 DEF NewRun, RunFields
<1>5. PipelineShape
  BY <1>1, <1>3, <1>4 DEF PipelineShape, RunShape
<1>6. ASSUME NEW i \in Interactions
      PROVE  /\ ~Interacts(i) => call[i] = "new"
             /\ Handled(i) => HandlerWell(act(i), run[i]) /\ Agrees(i)
             /\ Automated(i) => AutomationWell(run[i])
             /\ Interacts(i) /\ run[i].at = "done" => Answered(i)
  <2>1. run[i] = NewRun(act(i)) /\ view[i] = "none"
    BY <1>1
  <2>2. CASE Interacts(i)
    <3>1. /\ run[i].at \in {"preflight", "enabled", "clock"}
          /\ run[i].at = "preflight" => act(i).kind = "command"
          /\ run[i].at = "clock" => act(i).kind # "autocomplete"
      BY <2>1, <2>2 DEF Interacts, InteractionKinds, NewRun, Start
    <3>2. run[i].state = "unacknowledged"
      BY <2>1, <2>2 DEF Interacts, InteractionKinds, NewRun
    <3>3. HandlerWell(act(i), run[i])
      BY <3>1, <3>2 DEF HandlerWell, StateHolds, StageHolds, ReplyHolds, OutcomeHolds,
         TerminalHolds, Admitted
    <3>4. Agrees(i)
      BY <2>1, <3>1, <3>2 DEF Agrees
    <3>5. ~Automated(i)
      BY <2>2 DEF Interacts, InteractionKinds, Automated
    <3> QED BY <2>2, <3>1, <3>3, <3>4, <3>5
  <2>3. CASE Automated(i)
    <3>1. run[i].at = "fire" /\ run[i].state = "none"
      BY <2>1, <2>3 DEF Automated, NewRun, Start
    <3>2. AutomationWell(run[i])
      BY <3>1 DEF AutomationWell, AutomationStages, Admitted
    <3> QED BY <1>1, <2>3, <3>1, <3>2 DEF Handled, Interacts, Automated, InteractionKinds
  <2> QED BY <1>1, <2>2, <2>3 DEF Handled
<1> QED BY <1>1, <1>5, <1>6 DEF PipelineInv

\* Every step of the pipeline keeps its invariant, given the dispatcher's.
LEMMA PipelineStepKeepsInv ==
    ASSUME PipelineInv, DispatchInv, [PipelineNext]_allVars
    PROVE  PipelineInv'
<1>1. CASE Reload \/ Unload \/ Tick \/ UNCHANGED allVars
  BY <1>1, RestKeepsInv
<1>2. ASSUME NEW i \in Interactions, PipelineStep(i) PROVE PipelineInv'
  <2>1. CASE LaunchHandler(i) \/ FinishHandler(i) \/ PanicHandler(i)
    BY <2>1, LaunchKeepsInv
  <2>2. CASE DispatcherStep(i)
    BY <2>2, DispatcherKeepsInv
  <2>3. CASE HandlerPart(i)
    BY <2>3, HandlerPartKeepsInv, AdmitKeepsInv
  <2>4. CASE ProgramPart(i) \/ AnswerPart(i) \/ AutomationPart(i)
    BY <2>4, ProgramPartKeepsInv, AnswerPartKeepsInv, AutomationPartKeepsInv
  <2> QED BY <1>2, <2>1, <2>2, <2>3, <2>4 DEF PipelineStep
<1> QED BY <1>1, <1>2 DEF PipelineNext

\* Every reachable state of the pipeline satisfies PipelineInv.
THEOREM PipelineInvariant == PipelineSpec => []PipelineInv
<1>1. PipelineInv /\ DispatchInv /\ [PipelineNext]_allVars => PipelineInv'
  BY PipelineStepKeepsInv
<1>2. PipelineSpec => []DispatchInv
  BY PipelineDispatches, DispatchInvariant, PTL
<1> QED BY <1>1, <1>2, PipelineStarts, PTL DEF PipelineSpec

-----------------------------------------------------------------------------
(* How interactions end. *)

\* A rejection of i is still to be sent.
Pending(i) == call[i] \in {"reject", "enqueue"} \/ Queued(i) \/ BeingRun(i)

\* A rejection is the first reply, unless the handler panicked after one; and who has
\* no rejection to come and none dropped has an answer, a failed call or a panic.
EndsWell(i) ==
    /\ Interacts(i) /\ call[i] = "new" => view[i] = "none"
    /\ i \in interrupted => view[i] # "none"
    /\ Pending(i) \/ i \in dropped => view[i] = "none" \/ i \in interrupted
    /\ Interacts(i) /\ call[i] \notin {"new", "running"} =>
           Pending(i) \/ i \in dropped \/ i \in interrupted \/ Answered(i)

\* The goroutine an interaction launches for rejections starts when it ends itself.
StartsLast(i) == call[i] # "done" => worker[i] = "none"

EndInv == RepliesFit /\ \A i \in Interactions : EndsWell(i) /\ StartsLast(i)

\* An ending is kept when its parts are.
LEMMA EndStays ==
    ASSUME PipelineInv, NEW j \in Interactions, EndsWell(j), UNCHANGED cast,
           Pending(j)' <=> Pending(j), j \in dropped' <=> j \in dropped,
           j \in interrupted' <=> j \in interrupted, view'[j] = view[j],
           j \in lost => j \in lost', faults' \in Nat, faults' >= faults,
           \/ call'[j] = call[j]
           \/ call[j] \notin {"new", "running"} /\ call'[j] \notin {"new", "running"}
    PROVE  EndsWell(j)'
<1>1. Interacts(j)' = Interacts(j)
  BY DEF Interacts, act
<1>2. Answered(j) => Answered(j)'
  BY DEF Answered, PipelineInv, PipelineShape
<1> QED BY <1>1, <1>2 DEF EndsWell

\* An interaction that is handled has no rejection.
LEMMA HandledIsNotPending ==
    ASSUME DispatchInv, NEW i \in Interactions, call[i] \in {"new", "running"}
    PROVE  ~Pending(i) /\ i \notin dropped /\ ~Queued(i) /\ ~BeingRun(i)
BY DEF DispatchInv, OnePlace, NotHandedOn, Pending

\* Inside its slot a handler may be answered; everybody else is left alone.
LEMMA PartsKeepEnds ==
    ASSUME PipelineInv, DispatchInv, EndInv, NEW i \in Interactions,
           HandlerPart(i) \/ ProgramPart(i) \/ AnswerPart(i) \/ AutomationPart(i)
    PROVE  EndInv'
<1>1. UNCHANGED vars
  BY PartsStayInSlots
<1>2. \A j \in Interactions : Pending(j)' <=> Pending(j)
  BY <1>1 DEF vars, Pending, Queued, BeingRun
<1>3. \A j \in Interactions : StartsLast(j)'
  BY <1>1 DEF EndInv, StartsLast, vars
<1>4. ASSUME UNCHANGED <<cast, discord>> PROVE EndInv'
  <2>1. \A j \in Interactions : EndsWell(j)'
    BY <1>1, <1>2, <1>4, EndStays DEF EndInv, vars, discord, PipelineInv, PipelineShape
  <2>2. RepliesFit'
    BY <1>4 DEF EndInv, RepliesFit, discord
  <2> QED BY <1>3, <2>1, <2>2 DEF EndInv
<1>5. ASSUME Active(i, "reply"), UNCHANGED <<cast, interrupted>>,
             view' = view \/ view' = [view EXCEPT ![i] = Seen(run[i].reply)],
             lost' = lost \/ lost' = lost \cup {i},
             faults' = faults \/ faults' = faults + 1,
             \/ refused' = refused
             \/ refused' = refused \cup {[who |-> i, by |-> "handler"]} /\ i \in lost
      PROVE  EndInv'
  <2>1. Handled(i) /\ call[i] = "running"
    BY <1>5, WhileReplying DEF Active
  <2>2. faults' \in Nat /\ faults' >= faults
    BY <1>5 DEF PipelineInv, PipelineShape
  <2>3. EndsWell(i)'
    <3>1. Seen(run[i].reply) # "none"
      BY DEF Seen
    <3>2. i \in interrupted => view[i] # "none"
      BY DEF EndInv, EndsWell
    <3>3. i \in interrupted' => view'[i] # "none"
      BY <1>5, <3>1, <3>2 DEF PipelineInv, PipelineShape
    <3> QED
      BY <1>1, <1>2, <2>1, <3>3, HandledIsNotPending DEF EndsWell, vars
  <2>4. \A j \in Interactions \ {i} : EndsWell(j)'
    BY <1>1, <1>2, <1>5, <2>2, EndStays DEF EndInv, vars, PipelineInv, PipelineShape
  <2>5. RepliesFit'
    <3>1. \A r \in refused' : r \in refused \/ (r.who = i /\ r.by = "handler" /\ i \in lost)
      BY <1>5
    <3> QED BY <1>5, <3>1 DEF EndInv, RepliesFit
  <2> QED BY <1>3, <2>3, <2>4, <2>5 DEF EndInv
<1>6. CASE HandlerPart(i)
  BY <1>4, <1>6 DEF HandlerPart, CheckRestrictions, ReadClock, Take, Dispatch, CheckEnabled,
     MakePlan, Admit, Defer
<1>7. CASE ProgramPart(i)
  BY <1>4, <1>7 DEF ProgramPart, RunAdmitted, Invoke, InvokeStale, ExecuteReply,
     ExecuteEffect, EffectFails, EffectConflicts
<1>8. CASE AutomationPart(i)
  BY <1>4, <1>8 DEF AutomationPart, Fire, TakeToken, NextListener
<1>9. CASE AnswerNothing(i) \/ AnswerWith(i) \/ ReportError(i)
  BY <1>4, <1>9 DEF AnswerNothing, AnswerWith, ReportError
<1>10. CASE Deliver(i) \/ DeliveryFails(i)
  BY <1>5, <1>10 DEF Deliver, DeliveryFails
<1>11. CASE Refuse(i)
  <2>1. Active(i, "reply") /\ ~Accepts(i, run[i].reply)
    BY <1>11 DEF Refuse
  <2>2. i \in lost
    BY <2>1, WhileReplying DEF Agrees, Fits
  <2> QED BY <1>5, <1>11, <2>1, <2>2 DEF Refuse
<1> QED BY <1>6, <1>7, <1>8, <1>9, <1>10, <1>11 DEF AnswerPart

\* A handler that finds no slot has sent nothing, one that returns has answered, and
\* one that panics is remembered when it had sent something.
LEMMA HandlersKeepEnds ==
    ASSUME PipelineInv, DispatchInv, EndInv, NEW i \in Interactions,
           LaunchHandler(i) \/ FinishHandler(i) \/ PanicHandler(i)
    PROVE  EndInv'
<1>1. /\ UNCHANGED <<queue, worker, job, answers, dropped, cast, run, view, refused, faults,
                     lost>>
      /\ call[i] \in {"new", "running"} /\ call'[i] # "new"
      /\ \A j \in Interactions \ {i} : call'[j] = call[j]
      /\ interrupted \subseteq interrupted'
      /\ \A j \in Interactions \ {i} : j \in interrupted' <=> j \in interrupted
  BY DEF LaunchHandler, FinishHandler, PanicHandler, Launch, HandlerReturns, HandlerPanics,
     discord, DispatchInv, TypeOK
<1>2. \A j \in Interactions : Queued(j)' = Queued(j) /\ BeingRun(j)' = BeingRun(j)
  BY <1>1 DEF Queued, BeingRun
<1>3. \A j \in Interactions : StartsLast(j)'
  BY <1>1 DEF EndInv, StartsLast
<1>4. \A j \in Interactions \ {i} : EndsWell(j)'
  BY <1>1, <1>2, EndStays DEF EndInv, Pending, PipelineInv, PipelineShape
<1>5. RepliesFit'
  BY <1>1 DEF EndInv, RepliesFit
<1>6. EndsWell(i) /\ ~Queued(i)' /\ ~BeingRun(i)' /\ i \notin dropped'
  BY <1>1, <1>2, HandledIsNotPending DEF EndInv
<1>7. Interacts(i) /\ Interacts(i)'
  BY <1>1, CastsAreWellFormed DEF PipelineInv, PipelineShape, LaunchHandler, FinishHandler,
     PanicHandler, HandlerReturns, HandlerPanics, Interacts, Automated, act
<1>8. EndsWell(i)'
  <2>1. CASE LaunchHandler(i)
    <3>1. call[i] = "new" /\ interrupted' = interrupted
      BY <2>1 DEF LaunchHandler, Launch, discord
    <3>2. call'[i] \in {"running", "reject"}
      BY <2>1 DEF LaunchHandler, Launch, DispatchInv, TypeOK
    <3>3. view'[i] = "none" /\ i \notin interrupted'
      BY <1>1, <1>6, <1>7, <3>1 DEF EndsWell
    <3> QED BY <1>6, <3>2, <3>3 DEF EndsWell, Pending
  <2>2. CASE FinishHandler(i)
    <3>1. run[i].at = "done" /\ call'[i] = "done" /\ interrupted' = interrupted
      BY <2>2 DEF FinishHandler, HandlerReturns, discord, DispatchInv, TypeOK
    <3>2. Answered(i)
      BY <1>7, <3>1 DEF PipelineInv
    <3>3. Answered(i)'
      BY <1>1, <3>2 DEF Answered
    <3> QED BY <1>1, <1>6, <3>1, <3>3 DEF EndsWell, Pending
  <2>3. CASE PanicHandler(i)
    <3>1. /\ call'[i] = "reject"
          /\ interrupted' = IF view[i] = "none" THEN interrupted ELSE interrupted \cup {i}
      BY <2>3 DEF PanicHandler, HandlerPanics, DispatchInv, TypeOK
    <3> QED BY <1>1, <1>6, <3>1 DEF EndsWell, Pending
  <2> QED BY <2>1, <2>2, <2>3
<1> QED BY <1>3, <1>4, <1>5, <1>8 DEF EndInv

\* A rejection on its way is queued, run, dropped or sent; what is sent is a first
\* reply, or refused because the handler had sent one before it panicked.
LEMMA DispatcherKeepsEnds ==
    ASSUME PipelineInv, DispatchInv, EndInv, NEW i \in Interactions, DispatcherStep(i)
    PROVE  EndInv'
<1>1. /\ call \in [Interactions -> CallStages] /\ worker \in [Interactions -> WorkerStages]
      /\ job \in [Interactions -> Interactions] /\ queue \in Seq(Interactions)
      /\ DOMAIN view = Interactions /\ faults \in Nat
      /\ EndsWell(i) /\ StartsLast(i)
  BY DEF DispatchInv, TypeOK, EndInv, PipelineInv, PipelineShape
\* A step that leaves the replies alone.
<1>2. ASSUME UNCHANGED Beyond, \A j \in Interactions : StartsLast(j)',
             \A j \in Interactions \ {i} : call'[j] = call[j],
             \/ call'[i] = call[i]
             \/ call[i] \notin {"new", "running"} /\ call'[i] \notin {"new", "running"},
             \A j \in Interactions :
                 \/ (Pending(j)' <=> Pending(j)) /\ (j \in dropped' <=> j \in dropped)
                 \/ j = i /\ Pending(i) /\ i \in dropped'
      PROVE  EndInv'
  <2>1. UNCHANGED <<cast, view, refused, faults, lost, interrupted>>
    BY <1>2 DEF Beyond, discord
  <2>2. ASSUME NEW j \in Interactions PROVE EndsWell(j)'
    <3>1. CASE (Pending(j)' <=> Pending(j)) /\ (j \in dropped' <=> j \in dropped)
      BY <1>1, <1>2, <2>1, <3>1, EndStays DEF EndInv
    <3>2. CASE j = i /\ Pending(i) /\ i \in dropped'
      <4>1. call[i] \notin {"new", "running"}
        BY <3>2, HandledIsNotPending
      <4> QED BY <1>1, <1>2, <2>1, <3>2, <4>1 DEF EndsWell
    <3> QED BY <1>2, <3>1, <3>2
  <2>3. RepliesFit'
    BY <2>1 DEF EndInv, RepliesFit
  <2> QED BY <1>2, <2>2, <2>3 DEF EndInv
<1>3. CASE StartRejection(i) /\ UNCHANGED Beyond
  <2>1. /\ call[i] = "reject" /\ call'[i] \in {"done", "enqueue"} /\ worker[i] = "none"
        /\ UNCHANGED <<queue, dropped>>
        /\ \A j \in Interactions \ {i} :
               call'[j] = call[j] /\ worker'[j] = worker[j] /\ job'[j] = job[j]
        /\ \/ call'[i] = "done" /\ worker'[i] = "run" /\ job'[i] = i
           \/ call'[i] = "enqueue" /\ worker'[i] = "none"
    BY <1>1, <1>3 DEF StartRejection, StartsLast
  <2>2. \A j \in Interactions : Queued(j)' = Queued(j)
    BY <2>1 DEF Queued
  <2>3. \A j \in Interactions \ {i} : BeingRun(j)' <=> BeingRun(j)
    BY <2>1 DEF BeingRun
  <2>4. Pending(i) /\ Pending(i)'
    BY <2>1 DEF Pending, BeingRun
  <2>5. \A j \in Interactions : StartsLast(j)'
    BY <2>1 DEF EndInv, StartsLast
  <2> QED BY <1>2, <1>3, <2>1, <2>2, <2>3, <2>4, <2>5 DEF Pending
<1>4. CASE Enqueue(i) /\ UNCHANGED Beyond
  <2>1. /\ call[i] = "enqueue" /\ call'[i] = "kick" /\ queue' = Append(queue, i)
        /\ UNCHANGED <<worker, job, dropped>>
        /\ \A j \in Interactions \ {i} : call'[j] = call[j]
    BY <1>1, <1>4 DEF Enqueue
  <2>2. \A j \in Interactions : Queued(j)' <=> Queued(j) \/ j = i
    <3>1. /\ Len(queue') = Len(queue) + 1 /\ queue'[Len(queue) + 1] = i
          /\ \A k \in 1..Len(queue) : queue'[k] = queue[k]
          /\ Len(queue) \in Nat
      BY <1>1, <2>1
    <3> QED BY <3>1 DEF Queued
  <2>3. \A j \in Interactions : BeingRun(j)' = BeingRun(j)
    BY <2>1 DEF BeingRun
  <2>4. \A j \in Interactions : StartsLast(j)'
    BY <2>1 DEF EndInv, StartsLast
  <2> QED BY <1>2, <1>4, <2>1, <2>2, <2>3, <2>4 DEF Pending
<1>5. CASE DropRejection(i) /\ UNCHANGED Beyond
  <2>1. /\ call[i] = "enqueue" /\ call'[i] = "done" /\ dropped' = dropped \cup {i}
        /\ UNCHANGED <<queue, worker, job>>
        /\ \A j \in Interactions \ {i} : call'[j] = call[j]
    BY <1>1, <1>5 DEF DropRejection
  <2>2. \A j \in Interactions : Queued(j)' = Queued(j) /\ BeingRun(j)' = BeingRun(j)
    BY <2>1 DEF Queued, BeingRun
  <2>3. \A j \in Interactions : StartsLast(j)'
    BY <2>1 DEF EndInv, StartsLast
  <2> QED BY <1>2, <1>5, <2>1, <2>2, <2>3 DEF Pending
<1>6. CASE StartQueued(i) /\ UNCHANGED Beyond
  <2>1. /\ call[i] = "kick" /\ call'[i] = "done" /\ worker[i] = "none"
        /\ worker'[i] \in {"none", "receive"} /\ UNCHANGED <<queue, job, dropped>>
        /\ \A j \in Interactions \ {i} : call'[j] = call[j] /\ worker'[j] = worker[j]
    BY <1>1, <1>6 DEF StartQueued, StartsLast
  <2>2. \A j \in Interactions : Queued(j)' = Queued(j) /\ (BeingRun(j)' <=> BeingRun(j))
    BY <2>1 DEF Queued, BeingRun
  <2>3. \A j \in Interactions : StartsLast(j)'
    BY <2>1 DEF EndInv, StartsLast
  <2> QED BY <1>2, <1>6, <2>1, <2>2, <2>3 DEF Pending
<1>7. CASE Receive(i) /\ UNCHANGED Beyond
  <2>1. /\ worker[i] = "receive" /\ worker'[i] = "run" /\ job'[i] = Head(queue)
        /\ queue # <<>> /\ queue' = Tail(queue) /\ UNCHANGED <<call, dropped>>
        /\ \A j \in Interactions \ {i} : worker'[j] = worker[j] /\ job'[j] = job[j]
    BY <1>1, <1>7 DEF Receive
  <2>2. /\ Len(queue) \in Nat \ {0} /\ Len(queue') = Len(queue) - 1
        /\ Head(queue) = queue[1]
        /\ \A k \in 1..Len(queue') : queue'[k] = queue[k + 1]
    BY <1>1, <2>1
  <2>3. \A j \in Interactions : Queued(j) <=> Queued(j)' \/ j = Head(queue)
    <3>1. \A j \in Interactions : Queued(j) => Queued(j)' \/ j = Head(queue)
      <4> TAKE j \in Interactions
      <4> HAVE Queued(j)
      <4>1. PICK k \in 1..Len(queue) : queue[k] = j
        BY DEF Queued
      <4>2. CASE k = 1
        BY <2>2, <4>1, <4>2
      <4>3. CASE k # 1
        <5>1. k - 1 \in 1..Len(queue') /\ queue'[k - 1] = j
          BY <2>2, <4>1, <4>3
        <5> QED BY <5>1 DEF Queued
      <4> QED BY <4>2, <4>3
    <3>2. \A j \in Interactions : Queued(j)' => Queued(j)
      BY <2>2 DEF Queued
    <3>3. Queued(Head(queue))
      BY <2>2 DEF Queued
    <3> QED BY <3>1, <3>2, <3>3
  <2>4. \A j \in Interactions : BeingRun(j)' <=> BeingRun(j) \/ j = Head(queue)
    BY <2>1 DEF BeingRun
  <2>5. \A j \in Interactions : StartsLast(j)'
    BY <2>1 DEF EndInv, StartsLast
  <2> QED BY <1>2, <1>7, <2>1, <2>3, <2>4, <2>5 DEF Pending
<1>8. CASE /\ ReceiveNothing(i) \/ Release(i) \/ LookAgain(i) \/ Restart(i)
           /\ UNCHANGED Beyond
  <2>1. /\ worker[i] \notin {"run", "none"} /\ worker'[i] # "run"
        /\ UNCHANGED <<call, queue, job, dropped>>
        /\ \A j \in Interactions \ {i} : worker'[j] = worker[j]
    BY <1>1, <1>8 DEF ReceiveNothing, Release, LookAgain, Restart
  <2>2. \A j \in Interactions : Queued(j)' = Queued(j) /\ (BeingRun(j)' <=> BeingRun(j))
    BY <2>1 DEF Queued, BeingRun
  <2>3. \A j \in Interactions : StartsLast(j)'
    BY <2>1 DEF EndInv, StartsLast
  <2> QED BY <1>2, <1>8, <2>1, <2>2, <2>3 DEF Pending
<1>9. CASE Reject(i)
  <2>0. PICK k \in Interactions : k = job[i]
    BY <1>1
  <2>1. /\ worker[i] = "run" /\ worker'[i] = "receive"
        /\ UNCHANGED <<call, queue, job, dropped, cast, lost, interrupted>>
        /\ \A j \in Interactions \ {i} : worker'[j] = worker[j]
    BY <1>1, <1>9 DEF Reject, RunRejection
  <2>2. BeingRun(k)
    BY <2>0, <2>1 DEF BeingRun
  <2>3. /\ call[k] \notin NotHandedOn /\ ~Queued(k) /\ k \notin dropped
        /\ \A w \in Interactions : worker[w] = "run" /\ job[w] = k => w = i
    BY <2>0, <2>1, <2>2 DEF DispatchInv, OnePlace
  <2>4. \A j \in Interactions : Queued(j)' = Queued(j)
    BY <2>1 DEF Queued
  <2>5. \A j \in Interactions \ {k} : BeingRun(j)' <=> BeingRun(j)
    BY <2>0, <2>1 DEF BeingRun
  <2>6. ~BeingRun(k)'
    BY <2>1, <2>3 DEF BeingRun
  <2>7. view[k] = "none" \/ k \in interrupted
    BY <2>2 DEF EndInv, EndsWell, Pending
  <2>8. k \in interrupted => view[k] # "none"
    BY <2>2 DEF EndInv, EndsWell
  <2>9. \/ /\ view' = [view EXCEPT ![k] = "answered"]
           /\ UNCHANGED <<refused, faults>>
        \/ /\ view' \in {view, [view EXCEPT ![k] = "answered"]} /\ faults' = faults + 1
           /\ UNCHANGED refused
        \/ /\ refused' = refused \cup {[who |-> k, by |-> "rejection"]}
           /\ UNCHANGED <<view, faults>> /\ view[k] # "none"
    BY <1>9, <2>0 DEF Reject, Accepts, Initial
  <2>10. faults' \in Nat /\ faults' >= faults /\ Interacts(k)' = Interacts(k)
    BY <1>1, <2>1, <2>9 DEF Interacts, act
  <2>11. \A j \in Interactions \ {k} : EndsWell(j)'
    <3>1. \A j \in Interactions \ {k} : view'[j] = view[j]
      BY <1>1, <2>9
    <3> QED BY <2>1, <2>4, <2>5, <2>10, <3>1, EndStays DEF EndInv, Pending
  <2>12. EndsWell(k)'
    <3>1. k \in interrupted' \/ Answered(k)'
      BY <1>1, <2>1, <2>2, <2>7, <2>9 DEF Answered
    <3>2. k \in interrupted' => view'[k] # "none"
      BY <1>1, <2>1, <2>2, <2>8, <2>9
    <3>3. ~Pending(k)' /\ k \notin dropped' /\ call'[k] # "new"
      BY <2>1, <2>3, <2>4, <2>6, <2>2 DEF Pending, NotHandedOn
    <3> QED BY <3>1, <3>2, <3>3 DEF EndsWell
  <2>13. RepliesFit'
    <3>1. \A r \in refused' :
              r \in refused \/ (r.who = k /\ r.by = "rejection" /\ k \in interrupted)
      BY <2>7, <2>9
    <3> QED BY <2>1, <3>1 DEF EndInv, RepliesFit
  <2>14. \A j \in Interactions : StartsLast(j)'
    BY <2>1 DEF EndInv, StartsLast
  <2> QED BY <2>11, <2>12, <2>13, <2>14 DEF EndInv
<1> QED
  BY <1>3, <1>4, <1>5, <1>6, <1>7, <1>8, <1>9 DEF DispatcherStep, CallStep

\* Every interaction ends well, and what Discord refuses is known.
THEOREM EndInvariant == PipelineSpec => []EndInv
<1>1. PipelineInit => EndInv
  <2> SUFFICES ASSUME PipelineInit PROVE EndInv
    OBVIOUS
  <2>1. /\ call = [i \in Interactions |-> "new"] /\ queue = <<>> /\ dropped = {}
        /\ worker = [i \in Interactions |-> "none"]
        /\ view = [i \in Interactions |-> "none"] /\ refused = {} /\ interrupted = {}
    BY DEF PipelineInit, Init
  <2>2. \A i \in Interactions : ~Pending(i)
    BY <2>1 DEF Pending, Queued, BeingRun
  <2>3. RepliesFit
    BY <2>1 DEF RepliesFit
  <2> QED BY <2>1, <2>2, <2>3 DEF EndInv, EndsWell, StartsLast
<1>2. PipelineInv /\ DispatchInv /\ EndInv /\ [PipelineNext]_allVars => EndInv'
  <2> SUFFICES ASSUME PipelineInv, DispatchInv, EndInv, [PipelineNext]_allVars
               PROVE  EndInv'
    OBVIOUS
  <2>1. CASE Reload \/ Unload \/ Tick \/ UNCHANGED allVars
    <3>1. UNCHANGED <<vars, cast, discord>>
      BY <2>1 DEF Reload, Unload, Tick, limits, allVars
    <3>2. \A j \in Interactions : Pending(j)' <=> Pending(j)
      BY <3>1 DEF vars, Pending, Queued, BeingRun
    <3>3. \A j \in Interactions : EndsWell(j)'
      BY <3>1, <3>2, EndStays DEF EndInv, vars, discord, PipelineInv, PipelineShape
    <3>4. \A j \in Interactions : StartsLast(j)'
      BY <3>1 DEF EndInv, StartsLast, vars
    <3>5. RepliesFit'
      BY <3>1 DEF EndInv, RepliesFit, discord
    <3> QED BY <3>3, <3>4, <3>5 DEF EndInv
  <2>2. ASSUME NEW i \in Interactions, PipelineStep(i) PROVE EndInv'
    BY <2>2, HandlersKeepEnds, DispatcherKeepsEnds, PartsKeepEnds DEF PipelineStep
  <2> QED BY <2>1, <2>2 DEF PipelineNext
<1>3. PipelineSpec => []DispatchInv
  BY PipelineDispatches, DispatchInvariant, PTL
<1> QED BY <1>1, <1>2, <1>3, PipelineInvariant, PTL DEF PipelineSpec

\* What Discord refuses is a handler's reply after a lost answer, or the rejection of
\* a handler that panicked after its first reply: whatever the bundles, the denials,
\* the reloads and the failures.
THEOREM RepliesAlwaysFit == PipelineSpec => []RepliesFit
<1>1. EndInv => RepliesFit
  BY DEF EndInv
<1> QED BY <1>1, EndInvariant, PTL

\* When no call failed, only who was dropped from the full queue is left without an
\* answer, and only whose handler panicked after a deferral is left "thinking".
THEOREM HandlersAnswer == PipelineSpec => []AnsweredAtTheEnd
<1>1. PipelineInv /\ EndInv => AnsweredAtTheEnd
  <2> SUFFICES ASSUME PipelineInv, EndInv, NEW i \in Interactions, faults = 0, AtRest(i)
               PROVE  /\ view[i] = "none" => i \in dropped
                      /\ view[i] = "thinking" => i \in interrupted
    BY DEF AnsweredAtTheEnd
  <2>1. call[i] = "done" /\ ~Queued(i) /\ ~BeingRun(i)
    BY DEF AtRest, ToSet, Queued, BeingRun
  <2>2. Interacts(i) /\ ~Pending(i)
    BY <2>1 DEF PipelineInv, Pending
  <2>3. i \in dropped \/ i \in interrupted \/ view[i] \notin {"none", "thinking"}
    BY <2>1, <2>2 DEF EndInv, EndsWell, Answered, PipelineInv, PipelineShape
  <2> QED BY <2>3 DEF EndInv, EndsWell
<1> QED BY <1>1, PipelineInvariant, EndInvariant, PTL

\* What the contract lets a program return, the responders can send.
THEOREM AcceptedAnswersFit == PipelineSpec => []AcceptedIsAnswerable
<1>1. PipelineInv => AcceptedIsAnswerable
  <2> SUFFICES ASSUME PipelineInv, NEW i \in Interactions, Active(i, "respond"),
                      run[i].terminal # <<>>
               PROVE  /\ ~Automated(i)
                      /\ LET answer == Answer(act(i), run[i].terminal[1], run[i].state)
                         IN  answer # "none" /\ (i \notin lost => Accepts(i, answer))
    BY DEF AcceptedIsAnswerable
  <2>1. ~Automated(i)
    BY DEF PipelineInv, AutomationWell, Active
  <2>2. Handled(i)
    BY <2>1, OnlyHandlersEnter
  <2>3. Answers(act(i), run[i].terminal[1], run[i].state)
    BY <2>2 DEF PipelineInv, HandlerWell, TerminalHolds, Active
  <2> QED BY <2>1, <2>2, <2>3, AnswersFit DEF Fits
<1> QED BY <1>1, PipelineInvariant, PTL

-----------------------------------------------------------------------------
(* Cooldowns. *)

\* The tracker holds the last pass under each key that was used, and no handler that
\* read the clock earlier has put it back.
TrackerInv ==
    /\ \A i \in Interactions : Mark(act(i)) \in DOMAIN last
    /\ \A m \in DOMAIN last : last[m] \in Nat \cup {-1}
    /\ \A t \in taken : /\ t.who \in Interactions /\ t.now \in Nat
                        /\ t.mark = Mark(act(t.who))
                        /\ last[t.mark] # -1 /\ t.now <= last[t.mark]

\* Only the tracker's lock is taken to record a pass.
LEMMA OnlyTakeRecords ==
    ASSUME [PipelineNext]_allVars
    PROVE  /\ UNCHANGED cast
           /\ UNCHANGED <<last, taken>> \/ \E i \in Interactions : Take(i)
<1>1. CASE Reload \/ Unload \/ Tick \/ UNCHANGED allVars
  BY <1>1 DEF Reload, Unload, Tick, allVars, limits
<1>2. ASSUME NEW i \in Interactions, PipelineStep(i)
      PROVE  UNCHANGED cast /\ (UNCHANGED <<last, taken>> \/ Take(i))
  <2>1. CASE LaunchHandler(i) \/ FinishHandler(i) \/ PanicHandler(i)
    BY <2>1 DEF LaunchHandler, FinishHandler, PanicHandler, limits
  <2>2. CASE DispatcherStep(i)
    BY <2>2 DEF DispatcherStep, Reject, Beyond, limits
  <2>3. CASE HandlerPart(i)
    BY <2>3 DEF HandlerPart, CheckRestrictions, ReadClock, Take, Dispatch, CheckEnabled,
       MakePlan, Admit, Defer, limits
  <2>4. CASE ProgramPart(i)
    BY <2>4 DEF ProgramPart, RunAdmitted, Invoke, InvokeStale, ExecuteReply, ExecuteEffect,
       EffectFails, EffectConflicts, limits
  <2>5. CASE AnswerPart(i)
    BY <2>5 DEF AnswerPart, AnswerNothing, AnswerWith, ReportError, Deliver, DeliveryFails,
       Refuse, limits
  <2>6. CASE AutomationPart(i)
    BY <2>6 DEF AutomationPart, Fire, TakeToken, NextListener, limits
  <2> QED BY <1>2, <2>1, <2>2, <2>3, <2>4, <2>5, <2>6 DEF PipelineStep
<1> QED BY <1>1, <1>2 DEF PipelineNext

\* A cooldown is a time, wherever it is configured.
LEMMA CooldownsAreNat == \A i \in Interactions : Cooldown(act(i)) \in Nat
BY CooldownsAreTimes DEF Cooldown, CommandCooldown

\* A pass comes its own cooldown after every earlier one under its key.
LEMMA TakeKeepsCooldowns ==
    ASSUME PipelineInv, TrackerInv, CooldownKept, NEW i \in Interactions, Take(i)
    PROVE  TrackerInv' /\ CooldownKept'
<1> DEFINE m == Mark(act(i))
           c == Cooldown(act(i))
           new == [who |-> i, mark |-> m, now |-> run[i].now]
<1>1. /\ run[i].now \in Nat /\ c \in Nat
      /\ m \in DOMAIN last /\ last[m] \in Nat \cup {-1}
  BY CooldownsAreNat DEF PipelineInv, PipelineShape, RunShape, TrackerInv
<1>2. \A j : act(j)' = act(j) /\ Mark(act(j))' = Mark(act(j))
             /\ Cooldown(act(j))' = Cooldown(act(j))
  BY DEF Take, act
<1>3. CASE UNCHANGED <<last, taken>>
  BY <1>2, <1>3 DEF TrackerInv, CooldownKept
<1>4. CASE /\ last[m] = -1 \/ run[i].now >= last[m] + c
           /\ last' = [last EXCEPT ![m] = run[i].now]
           /\ taken' = taken \cup {new}
  <2>1. /\ new.who = i /\ new.mark = m /\ new.now = run[i].now
    OBVIOUS
  <2> HIDE DEF new, m, c
  <2>2. \A t \in taken : t.mark = m => t.now + c <= run[i].now /\ t.now <= run[i].now
    BY <1>1, <1>4 DEF TrackerInv
  <2>3. DOMAIN last' = DOMAIN last /\ last'[m] = run[i].now
        /\ \A n \in DOMAIN last : n # m => last'[n] = last[n]
    BY <1>1, <1>4
  <2>4. TrackerInv'
    <3>1. \A j \in Interactions : Mark(act(j))' \in DOMAIN last'
      BY <1>2, <2>3 DEF TrackerInv
    <3>2. \A n \in DOMAIN last' : last'[n] \in Nat \cup {-1}
      BY <1>1, <2>3 DEF TrackerInv
    <3>3. ASSUME NEW t \in taken'
          PROVE  /\ t.who \in Interactions /\ t.now \in Nat
                 /\ t.mark = Mark(act(t.who))'
                 /\ last'[t.mark] # -1 /\ t.now <= last'[t.mark]
      <4>1. CASE t = new
        BY <1>1, <1>2, <2>1, <2>3, <4>1 DEF m
      <4>2. CASE t \in taken
        BY <1>1, <1>2, <2>2, <2>3, <4>2 DEF TrackerInv
      <4> QED BY <1>4, <4>1, <4>2
    <3> QED BY <3>1, <3>2, <3>3 DEF TrackerInv
  <2>5. ASSUME NEW s \in taken', NEW t \in taken', s # t, s.mark = t.mark
        PROVE  \/ s.now >= t.now + Cooldown(act(s.who))'
               \/ t.now >= s.now + Cooldown(act(t.who))'
    <3>1. CASE s \in taken /\ t \in taken
      BY <1>2, <2>5, <3>1 DEF CooldownKept
    <3>2. CASE s = new /\ t \in taken
      BY <1>1, <1>2, <2>1, <2>2, <2>5, <3>2 DEF TrackerInv, c
    <3>3. CASE s \in taken /\ t = new
      BY <1>1, <1>2, <2>1, <2>2, <2>5, <3>3 DEF TrackerInv, c
    <3> QED BY <1>4, <2>5, <3>1, <3>2, <3>3
  <2> QED BY <2>4, <2>5 DEF CooldownKept
<1> QED BY <1>3, <1>4 DEF Take

\* No two passes of a user under one key are closer than the later one's cooldown,
\* whichever order the handlers' clocks were read in.
THEOREM CooldownsAreKept == PipelineSpec => []CooldownKept
<1>1. PipelineInit => TrackerInv /\ CooldownKept
  BY DEF PipelineInit, TrackerInv, CooldownKept
<1>2. PipelineInv /\ TrackerInv /\ CooldownKept /\ [PipelineNext]_allVars
          => TrackerInv' /\ CooldownKept'
  <2> SUFFICES ASSUME PipelineInv, TrackerInv, CooldownKept, [PipelineNext]_allVars
               PROVE  TrackerInv' /\ CooldownKept'
    OBVIOUS
  <2>1. CASE UNCHANGED <<last, taken>>
    <3>1. UNCHANGED cast
      BY OnlyTakeRecords
    <3> QED BY <2>1, <3>1 DEF TrackerInv, CooldownKept, act
  <2>2. CASE \E i \in Interactions : Take(i)
    BY <2>2, TakeKeepsCooldowns
  <2> QED BY <2>1, <2>2, OnlyTakeRecords
<1> QED BY <1>1, <1>2, PipelineInvariant, PTL DEF PipelineSpec

-----------------------------------------------------------------------------
(* The contract: what holds of every valid definition. *)

\* How an item may stand: on its own at the top, in a top-level command, or in a group
\* of one.
Nested(d, k) ==
    LET p == d.items[k].parent
        q == d.items[p].parent
    IN  \/ p = 0 /\ d.items[k].class \in TopLevelKinds
        \/ /\ p \in Items(d) /\ q = 0 /\ p < k
           /\ d.items[p].class = "slash" /\ d.items[p].cog = d.items[k].cog
        \/ /\ p \in Items(d) /\ q \in Items(d) /\ d.items[q].parent = 0 /\ q < p /\ p < k
           /\ d.items[q].class = "slash" /\ d.items[p].class = "group"
           /\ d.items[p].cog = d.items[k].cog /\ d.items[q].cog = d.items[k].cog

\* Items are counted from one.
LEMMA ItemsAreCounted ==
    ASSUME NEW d, IsDefinition(d)
    PROVE  /\ Items(d) \subseteq Nat \ {0}
           /\ \A k \in Items(d) : d.items[k].parent # 0 =>
                  /\ d.items[k].parent \in Items(d) /\ d.items[k].parent < k
                  /\ d.items[k].class \in CommandKinds
                  /\ d.items[d.items[k].parent].class \in CommandKinds
                  /\ d.items[d.items[k].parent].cog = d.items[k].cog
<1>1. d.items \in Seq(ToSet(d.items))
  BY DEF IsDefinition
<1>2. Items(d) = 1..Len(d.items) /\ Len(d.items) \in Nat
  BY <1>1 DEF Items
<1>3. ASSUME NEW k \in Items(d), d.items[k].parent # 0
      PROVE  /\ d.items[k].parent \in 1..(k - 1) /\ d.items[k].class \in CommandKinds
             /\ d.items[d.items[k].parent].class \in CommandKinds
             /\ d.items[d.items[k].parent].cog = d.items[k].cog
  BY <1>3 DEF IsDefinition
<1> QED BY <1>2, <1>3

\* A command in a command is a subcommand, or a group in a top-level command.
LEMMA NestedKinds ==
    ASSUME NEW d, IsDefinition(d), ValidDefinition(d), NEW k \in Items(d),
           d.items[k].parent # 0
    PROVE  LET c == d.items[d.items[k].parent].class IN
           \/ c = "slash" /\ d.items[k].class \in {"subcommand", "group"}
           \/ c = "group" /\ d.items[k].class = "subcommand"
<1> DEFINE p == d.items[k].parent
<1>1. p \in Items(d) /\ d.items[p].class \in CommandKinds
  BY ItemsAreCounted
<1>2. p \in OfKinds(d, CommandKinds)
  BY <1>1 DEF OfKinds
<1>3. ValidCommand(d, p)
  BY <1>2 DEF ValidDefinition
<1>4. d.items[k].class \in {d.items[j].class : j \in Children(d, p)}
  BY DEF Children
<1>5. d.items[k].class \in CASE d.items[p].class = "slash" -> {"subcommand", "group"}
                             [] d.items[p].class = "group" -> {"subcommand"}
                             [] OTHER -> {}
  BY <1>3, <1>4 DEF ValidCommand
<1> QED BY <1>5

\* Definitions nest commands two deep at most, and never apart from their cog.
LEMMA CommandsNest ==
    ASSUME NEW d, IsDefinition(d), ValidDefinition(d),
           NEW k \in OfKinds(d, CommandKinds)
    PROVE  Nested(d, k)
<1> DEFINE p == d.items[k].parent
           q == d.items[p].parent
<1>1. k \in Items(d) /\ d.items[k].class \in CommandKinds
  BY DEF OfKinds
<1>2. \A j \in Items(d) : d.items[j].class \in CommandKinds =>
          (d.items[j].parent = 0 => d.items[j].class \in TopLevelKinds)
  <2> TAKE j \in Items(d)
  <2> HAVE d.items[j].class \in CommandKinds
  <2>1. ValidCommand(d, j)
    BY DEF ValidDefinition, OfKinds
  <2> QED BY <2>1 DEF ValidCommand
<1>3. CASE p = 0
  BY <1>1, <1>2, <1>3 DEF Nested
<1>4. CASE p # 0
  <2>1. /\ p \in Items(d) /\ p < k /\ d.items[p].class \in CommandKinds
        /\ d.items[p].cog = d.items[k].cog
    BY <1>1, <1>4, ItemsAreCounted
  <2>2. \/ d.items[p].class = "slash" /\ d.items[k].class \in {"subcommand", "group"}
        \/ d.items[p].class = "group" /\ d.items[k].class = "subcommand"
    BY <1>1, <1>4, NestedKinds
  <2>3. CASE q = 0
    <3>1. d.items[p].class \in TopLevelKinds
      BY <1>2, <2>1, <2>3
    <3>2. d.items[p].class = "slash"
      BY <2>2, <3>1 DEF TopLevelKinds, ContextKinds
    <3> QED BY <2>1, <2>3, <3>2 DEF Nested
  <2>4. CASE q # 0
    <3>1. /\ q \in Items(d) /\ q < p /\ d.items[q].class \in CommandKinds
          /\ d.items[q].cog = d.items[p].cog
      BY <2>1, <2>4, ItemsAreCounted
    <3>2. \/ d.items[q].class = "slash" /\ d.items[p].class \in {"subcommand", "group"}
          \/ d.items[q].class = "group" /\ d.items[p].class = "subcommand"
      BY <2>1, <2>4, NestedKinds
    <3>3. d.items[q].class = "slash" /\ d.items[p].class = "group"
      BY <2>2, <3>2
    <3>4. d.items[q].parent = 0
      <4>1. SUFFICES ASSUME d.items[q].parent # 0 PROVE FALSE
        OBVIOUS
      <4>2. d.items[q].class \in {"subcommand", "group"}
        BY <3>1, <4>1, NestedKinds
      <4> QED BY <3>3, <4>2
    <3> QED BY <2>1, <3>1, <3>3, <3>4 DEF Nested
  <2> QED BY <2>3, <2>4
<1> QED BY <1>3, <1>4

\* The path of a command has a name for each command it is nested in.
LEMMA PathsOfNested ==
    ASSUME NEW d, IsDefinition(d), NEW k \in Items(d), Nested(d, k)
    PROVE  LET p == d.items[k].parent
               q == d.items[p].parent
               name(j) == d.items[j].name
           IN  \/ /\ p = 0 /\ Path(d, k) = <<name(k)>>
                  /\ RootKind(d, k) = d.items[k].class
               \/ /\ p # 0 /\ q = 0 /\ Path(d, k) = <<name(p), name(k)>>
                  /\ RootKind(d, k) = "slash"
               \/ /\ p # 0 /\ q # 0 /\ Path(d, k) = <<name(q), name(p), name(k)>>
                  /\ RootKind(d, k) = "slash"
<1>1. Items(d) \subseteq Nat \ {0}
  BY ItemsAreCounted
<1>2. Parent(d, k) = d.items[k].parent
  BY <1>1 DEF Parent
<1>3. d.items[k].parent # 0 => Parent(d, d.items[k].parent) = d.items[d.items[k].parent].parent
  BY DEF Parent
<1>4. d.items[k].parent = 0 => Parent(d, 0) = 0
  BY DEF Parent
<1> QED BY <1>1, <1>2, <1>3, <1>4 DEF Nested, Path, RootKind

\* What is not a command has no commands below.
LEMMA OnlyCommandsContain ==
    ASSUME NEW d, IsDefinition(d), ValidDefinition(d), NEW k \in Items(d)
    PROVE  IF Container(d, k)
           THEN /\ d.items[k].class \in {"slash", "group"}
                /\ d.items[k].route = NoRoute /\ d.items[k].options = <<>>
           ELSE d.items[k].route \in RouteIDs /\ d.items[k].route # NoRoute
<1>1. "" \notin RouteIDs
  BY TextsAreNotEmpty
<1>2. CASE d.items[k].class \in CommandKinds
  <2>1. ValidCommand(d, k)
    BY <1>2 DEF ValidDefinition, OfKinds
  <2>2. Container(d, k) => d.items[k].class \in {"slash", "group"}
    <3>1. ASSUME NEW j \in Children(d, k)
          PROVE  d.items[k].class \in {"slash", "group"}
      <4>1. j \in Items(d) /\ d.items[j].parent = k /\ k # 0
        BY ItemsAreCounted DEF Children
      <4> QED BY <4>1, NestedKinds
    <3> QED BY <3>1 DEF Container
  <2> QED BY <1>1, <2>1, <2>2 DEF ValidCommand, NoRoute
<1>3. CASE d.items[k].class \notin CommandKinds
  <2>1. d.items[k].route \in RouteIDs
    BY <1>3 DEF ValidDefinition, OfKinds
  <2>2. ~Container(d, k)
    <3>1. d.items[k].class # "group"
      BY <1>3 DEF CommandKinds
    <3>2. ASSUME NEW j \in Children(d, k) PROVE FALSE
      <4>1. j \in Items(d) /\ d.items[j].parent = k /\ k # 0
        BY ItemsAreCounted DEF Children
      <4> QED BY <1>3, <4>1, ItemsAreCounted
    <3> QED BY <3>1, <3>2 DEF Container
  <2> QED BY <1>1, <2>1, <2>2 DEF NoRoute
<1> QED BY <1>2, <1>3

\* Planned items own their routes, or suggest along them.
Leads(d, a, route) == \E k \in Planned(d, a) : PlannedRoute(d, k, a) = route

ActKinds == InteractionKinds \cup {"event", "task", "absent"}

\* What an item is given by the commands above it, and by its cog.
Lineage(d, k) == {k, Parent(d, k), Parent(d, Parent(d, k))} \ {0}

\* An option of a command is found by its name.
LEMMA OptionsAreNamed ==
    ASSUME NEW d, IsDefinition(d), ValidDefinition(d), NEW k \in Items(d),
           NEW o \in ToSet(d.items[k].options), NEW u \in ToSet(d.items[k].options),
           o.name = u.name
    PROVE  o = u
<1>1. d.items[k].options # <<>>
  BY DEF ToSet
<1>2. d.items[k].class \in CommandKinds
  BY <1>1 DEF IsDefinition
<1>3. ValidOptions(d.items[k].options)
  BY <1>2 DEF ValidDefinition, OfKinds, ValidCommand
<1>4. d.items[k].options \in Seq(ToSet(d.items[k].options))
  BY DEF IsDefinition
<1>5. PICK m \in 1..Len(d.items[k].options), n \in 1..Len(d.items[k].options) :
          d.items[k].options[m] = o /\ d.items[k].options[n] = u
  BY <1>4 DEF ToSet
<1>6. m = n
  <2>1. m < n => d.items[k].options[m].name # d.items[k].options[n].name
    BY <1>3, <1>4, <1>5 DEF ValidOptions
  <2>2. n < m => d.items[k].options[m].name # d.items[k].options[n].name
    BY <1>3, <1>4, <1>5 DEF ValidOptions
  <2> QED BY <1>4, <1>5, <2>1, <2>2
<1> QED BY <1>5, <1>6

\* A suggesting option's route is a suggestion's and no item's.
LEMMA SuggestionsStandApart ==
    ASSUME NEW d, IsDefinition(d), ValidDefinition(d), NEW k \in Items(d),
           NEW o \in ToSet(d.items[k].options), o.suggest # NoRoute, NEW j \in Items(d)
    PROVE  d.items[j].route # o.suggest
<1>1. d.items[k].options \in Seq(ToSet(d.items[k].options))
  BY DEF IsDefinition
<1>2. PICK n \in DOMAIN d.items[k].options : d.items[k].options[n] = o
  BY <1>1 DEF ToSet
<1>3. <<k, n>> \in Suggesting(d)
  BY <1>2 DEF Suggesting
<1>4. o.suggest \in SuggestRoutes(d)
  BY <1>2, <1>3 DEF SuggestRoutes
<1>5. ~Container(d, j) => d.items[j].route \notin SuggestRoutes(d)
  BY DEF ValidDefinition, RoutesApart, Owners
<1>6. Container(d, j) => d.items[j].route = NoRoute
  BY OnlyCommandsContain
<1> QED BY <1>4, <1>5, <1>6

\* What is planned is the only item along its route, unless commands share suggestions.
LEMMA PlannedStandAlone ==
    ASSUME NEW d, IsDefinition(d), ValidDefinition(d), NEW a, a.kind \in ActKinds,
           NEW k \in Planned(d, a), Suggesters(d, PlannedRoute(d, k, a)) \subseteq {k}
    PROVE  Holders(d, PlannedRoute(d, k, a)) = {k}
<1> DEFINE route == PlannedRoute(d, k, a)
<1>1. k \in Items(d)
  BY DEF Planned, OfKinds
<1>2. CASE a.kind = "autocomplete"
  <2>1. \E o \in ToSet(d.items[k].options) : o.name = a.name /\ o.suggest # NoRoute
    BY <1>2 DEF Planned
  <2>2. PICK o \in ToSet(d.items[k].options) :
            route = o.suggest /\ o.suggest # NoRoute
    BY <1>2, <2>1 DEF PlannedRoute
  <2>3. \A j \in Items(d) : d.items[j].route # route
    BY <1>1, <2>2, SuggestionsStandApart
  <2> HIDE DEF route
  <2> QED BY <1>1, <2>2, <2>3 DEF Holders, Suggesters, route
<1>3. CASE a.kind # "autocomplete"
  <2>1. route = d.items[k].route
    BY <1>3 DEF PlannedRoute
  <2>2. ~Container(d, k)
    <3>1. CASE a.kind = "command"
      BY <1>1, <3>1, OnlyCommandsContain DEF Planned
    <3>2. CASE a.kind # "command"
      <4>1. d.items[k].class \notin {"slash", "group"}
        BY <1>3, <3>2 DEF Planned, OfKinds, ActKinds, InteractionKinds
      <4> QED BY <1>1, <4>1, OnlyCommandsContain
    <3> QED BY <3>1, <3>2
  <2>3. route # NoRoute
    BY <1>1, <2>1, <2>2, OnlyCommandsContain
  <2>4. \A j \in Items(d) : d.items[j].route = route => j = k
    <3> TAKE j \in Items(d)
    <3> HAVE d.items[j].route = route
    <3>1. ~Container(d, j)
      BY <2>1, <2>3, OnlyCommandsContain
    <3> QED BY <1>1, <2>1, <2>2, <3>1 DEF ValidDefinition, RoutesApart, Owners
  <2>5. \A j \in Items(d) : \A o \in ToSet(d.items[j].options) : o.suggest # route
    BY <1>1, <2>1, <2>3, SuggestionsStandApart
  <2> HIDE DEF route
  <2> QED BY <1>1, <2>1, <2>4, <2>5 DEF Holders, route
<1> QED BY <1>2, <1>3

\* What two lists hold together.
LEMMA ConcatHolds ==
    ASSUME NEW s, NEW t, s \in Seq(ToSet(s)), t \in Seq(ToSet(t))
    PROVE  /\ s \o t \in Seq(ToSet(s \o t))
           /\ ToSet(s \o t) = ToSet(s) \cup ToSet(t)
<1> DEFINE S == ToSet(s) \cup ToSet(t)
<1>1. s \in Seq(S) /\ t \in Seq(S)
  OBVIOUS
<1>2. /\ s \o t \in Seq(S)
      /\ Len(s \o t) = Len(s) + Len(t)
      /\ \A i \in 1..(Len(s) + Len(t)) :
             (s \o t)[i] = IF i <= Len(s) THEN s[i] ELSE t[i - Len(s)]
  <2> HIDE DEF S
  <2> QED BY <1>1, ConcatProperties
<1>3. /\ DOMAIN s = 1..Len(s) /\ Len(s) \in Nat
      /\ DOMAIN t = 1..Len(t) /\ Len(t) \in Nat
      /\ DOMAIN (s \o t) = 1..(Len(s) + Len(t))
  BY <1>1, <1>2
<1>4. ToSet(s \o t) \subseteq S
  BY <1>2, <1>3 DEF ToSet
<1>5. ASSUME NEW x \in ToSet(s) PROVE x \in ToSet(s \o t)
  <2>1. PICK i \in 1..Len(s) : s[i] = x
    BY <1>3 DEF ToSet
  <2>2. i \in DOMAIN (s \o t) /\ (s \o t)[i] = x
    BY <1>2, <1>3, <2>1
  <2> QED BY <2>2 DEF ToSet
<1>6. ASSUME NEW x \in ToSet(t) PROVE x \in ToSet(s \o t)
  <2>1. PICK i \in 1..Len(t) : t[i] = x
    BY <1>3 DEF ToSet
  <2>2. Len(s) + i \in DOMAIN (s \o t) /\ (s \o t)[Len(s) + i] = x
    BY <1>2, <1>3, <2>1
  <2> QED BY <2>2 DEF ToSet
<1>7. ToSet(s \o t) = S
  BY <1>4, <1>5, <1>6
<1> QED BY <1>2, <1>7

\* The beginnings of a path.
LEMMA PathsBegin ==
    ASSUME NEW x, NEW y, NEW z
    PROVE  /\ SubSeq(<<x, y>>, 1, 1) = <<x>>
           /\ SubSeq(<<x, y, z>>, 1, 1) = <<x>>
           /\ SubSeq(<<x, y, z>>, 1, 2) = <<x, y>>
<1> DEFINE S == {x, y, z}
           two == <<x, y>>
           three == <<x, y, z>>
<1>1. /\ SubSeq(two, 1, 1) \in Seq(S) /\ Len(SubSeq(two, 1, 1)) = 1
      /\ SubSeq(two, 1, 1)[1] = x
  <2>1. \A i \in 1..1 : two[i] \in S
    OBVIOUS
  <2> QED BY <2>1, SubSeqProperties
<1>2. /\ SubSeq(three, 1, 1) \in Seq(S) /\ Len(SubSeq(three, 1, 1)) = 1
      /\ SubSeq(three, 1, 1)[1] = x
  <2>1. \A i \in 1..1 : three[i] \in S
    OBVIOUS
  <2> QED BY <2>1, SubSeqProperties
<1>3. /\ SubSeq(three, 1, 2) \in Seq(S) /\ Len(SubSeq(three, 1, 2)) = 2
      /\ SubSeq(three, 1, 2)[1] = x /\ SubSeq(three, 1, 2)[2] = y
  <2>1. \A i \in 1..2 : three[i] \in S
    OBVIOUS
  <2>2. /\ SubSeq(three, 1, 2) \in Seq(S) /\ Len(SubSeq(three, 1, 2)) = 2
        /\ \A i \in 1..2 : SubSeq(three, 1, 2)[i] = three[i]
    <3> HIDE DEF S, three
    <3> QED BY <2>1, SubSeqProperties
  <2> QED BY <2>2
<1>4. ASSUME NEW s \in Seq(S)
      PROVE  /\ Len(s) = 1 => s = <<s[1]>>
             /\ Len(s) = 2 => s = <<s[1], s[2]>>
  <2> HIDE DEF S
  <2> QED OBVIOUS
<1> HIDE DEF S, two, three
<1>5. SubSeq(two, 1, 1) = <<x>>
  BY <1>1, <1>4
<1>6. SubSeq(three, 1, 1) = <<x>>
  BY <1>2, <1>4
<1>7. SubSeq(three, 1, 2) = <<x, y>>
  BY <1>3, <1>4
<1> QED BY <1>5, <1>6, <1>7 DEF two, three

\* The commands an item sits under, by their paths, are those it is nested in.
LEMMA AboveIsLineage ==
    ASSUME NEW d, IsDefinition(d), ValidDefinition(d), NEW k \in Items(d)
    PROVE  Above(d, k) \subseteq Lineage(d, k)
<1>1. Items(d) \subseteq Nat \ {0}
  BY ItemsAreCounted
<1> SUFFICES ASSUME NEW j \in Items(d), j # k, NEW n \in 1..2, d.items[j].route = NoRoute,
                     Len(Path(d, k)) > n, Path(d, j) = SubSeq(Path(d, k), 1, n)
              PROVE  j \in Lineage(d, k)
  BY <1>1 DEF Above, Lineage
<1>3. j \in OfKinds(d, {"slash", "group"})
  BY OnlyCommandsContain DEF OfKinds
<1>4. d.items[k].class \in CommandKinds
  <2>1. SUFFICES ASSUME d.items[k].class \notin CommandKinds PROVE FALSE
    OBVIOUS
  <2>2. Parent(d, k) = 0
    BY <2>1, ItemsAreCounted DEF Parent
  <2>3. Len(Path(d, k)) = 1
    BY <2>2 DEF Path
  <2> QED BY <2>3
<1>5. k \in OfKinds(d, CommandKinds) /\ j \in OfKinds(d, CommandKinds)
  BY <1>3, <1>4 DEF OfKinds, CommandKinds, TopLevelKinds
<1>6. Nested(d, k) /\ Nested(d, j)
  BY <1>5, CommandsNest
<1> DEFINE p == d.items[k].parent
           q == d.items[p].parent
           name(x) == d.items[x].name
<1>7. RootKind(d, j) = "slash"
  <2>1. d.items[j].class \in {"slash", "group"}
    BY <1>3 DEF OfKinds
  <2>2. d.items[j].parent = 0 => d.items[j].class \in TopLevelKinds
    BY <1>1, <1>6 DEF Nested
  <2>3. \/ d.items[j].parent = 0 /\ RootKind(d, j) = d.items[j].class
        \/ RootKind(d, j) = "slash"
    BY <1>6, PathsOfNested
  <2> QED BY <2>1, <2>2, <2>3 DEF TopLevelKinds, ContextKinds
<1>8. \A x \in OfKinds(d, CommandKinds) :
          RootKind(d, x) = "slash" /\ Path(d, x) = Path(d, j) => x = j
  BY <1>5, <1>7 DEF ValidDefinition
<1>9. CASE p = 0
  <2>1. Len(Path(d, k)) = 1
    BY <1>6, <1>9, PathsOfNested
  <2> QED BY <2>1
<1>10. CASE p # 0 /\ q = 0
  <2>1. Path(d, k) = <<name(p), name(k)>>
    BY <1>6, <1>10, PathsOfNested
  <2>2. n = 1
    BY <2>1
  <2>3. SubSeq(<<name(p), name(k)>>, 1, 1) = <<name(p)>>
    BY PathsBegin
  <2>4. p \in Items(d) /\ d.items[p].class = "slash"
    BY <1>1, <1>6, <1>10 DEF Nested
  <2>5. p \in OfKinds(d, CommandKinds)
    BY <2>4 DEF OfKinds, CommandKinds, TopLevelKinds
  <2>6. Path(d, p) = <<name(p)>> /\ RootKind(d, p) = "slash"
    BY <1>10, <2>4, <2>5, CommandsNest, PathsOfNested
  <2>7. p = j
    BY <1>8, <2>1, <2>2, <2>3, <2>5, <2>6
  <2> QED BY <1>1, <2>7 DEF Lineage, Parent
<1>11. CASE p # 0 /\ q # 0
  <2>1. Path(d, k) = <<name(q), name(p), name(k)>>
    BY <1>6, <1>11, PathsOfNested
  <2>2. SubSeq(<<name(q), name(p), name(k)>>, 1, 1) = <<name(q)>>
    BY PathsBegin
  <2>3. SubSeq(<<name(q), name(p), name(k)>>, 1, 2) = <<name(q), name(p)>>
    BY PathsBegin
  <2>4. /\ p \in Items(d) /\ q \in Items(d) /\ d.items[q].parent = 0
        /\ d.items[q].class = "slash" /\ d.items[p].class = "group"
    BY <1>1, <1>6, <1>11 DEF Nested
  <2>5. p \in OfKinds(d, CommandKinds) /\ q \in OfKinds(d, CommandKinds)
    BY <2>4 DEF OfKinds, CommandKinds, TopLevelKinds
  <2>6. Path(d, q) = <<name(q)>> /\ RootKind(d, q) = "slash"
    BY <1>11, <2>4, <2>5, CommandsNest, PathsOfNested
  <2>7. Path(d, p) = <<name(q), name(p)>> /\ RootKind(d, p) = "slash"
    BY <1>11, <2>4, <2>5, CommandsNest, PathsOfNested
  <2>8. CASE n = 1
    <3>1. q = j
      BY <1>8, <2>1, <2>2, <2>5, <2>6, <2>8
    <3> QED BY <1>1, <1>11, <3>1 DEF Lineage, Parent
  <2>9. CASE n = 2
    <3>1. p = j
      BY <1>8, <2>1, <2>3, <2>5, <2>7, <2>9
    <3> QED BY <1>1, <3>1 DEF Lineage, Parent
  <2> QED BY <2>8, <2>9
<1> QED BY <1>9, <1>10, <1>11

\* checksForRoute collects all that is asked along an item's lineage.
LEMMA ChecksOfLineage ==
    ASSUME NEW d, IsDefinition(d), NEW k \in Items(d),
           NEW route, Holders(d, route) = {k}
    PROVE  /\ \A j \in Lineage(d, k) : ToSet(d.items[j].checks) \subseteq ToSet(ChecksFor(d, route))
           /\ ToSet(d.cogs[d.items[k].cog].checks) \subseteq ToSet(ChecksFor(d, route))
           /\ \A j \in Lineage(d, k) : d.items[j].permissions # <<>> =>
                  \E c \in ToSet(ChecksFor(d, route)) :
                      /\ c.kind = "has_permissions"
                      /\ ToSet(d.items[j].permissions) \subseteq ToSet(c.permissions)
<1> DEFINE p == Parent(d, k)
           q == Parent(d, p)
           checks(j) == IF j = 0 THEN <<>> ELSE d.items[j].checks
           granted(j) == IF j = 0 THEN <<>> ELSE d.items[j].permissions
           own == d.cogs[d.items[k].cog].checks
           asked == DefaultPermissions(d, k)
           more == IF asked = <<>> THEN <<>>
                   ELSE <<[kind |-> "has_permissions", permissions |-> asked,
                           route |-> NoRoute]>>
<1>1. Items(d) \subseteq Nat \ {0}
  BY ItemsAreCounted
<1>2. \A j \in Items(d) : Parent(d, j) = d.items[j].parent /\ Parent(d, j) \in {0} \cup Items(d)
  BY <1>1, ItemsAreCounted DEF Parent
<1>3. p \in {0} \cup Items(d) /\ q \in {0} \cup Items(d)
  <2>1. Parent(d, 0) = 0
    BY DEF Parent
  <2> QED BY <1>2, <2>1
<1>4. \A j \in {0} \cup Items(d) : /\ checks(j) \in Seq(ToSet(checks(j)))
                                   /\ granted(j) \in Seq(ToSet(granted(j)))
  <2>1. <<>> \in Seq(ToSet(<<>>))
    OBVIOUS
  <2>2. \A j \in Items(d) :
            /\ d.items[j].checks \in Seq(ToSet(d.items[j].checks))
            /\ d.items[j].permissions \in Seq(ToSet(d.items[j].permissions))
    BY DEF IsDefinition
  <2> QED BY <2>1, <2>2
<1>5. own \in Seq(ToSet(own))
  <2>1. d.items[k].cog \in DOMAIN d.cogs
    BY DEF IsDefinition
  <2>2. d.cogs[d.items[k].cog] \in ToSet(d.cogs)
    BY <2>1 DEF ToSet
  <2> QED BY <2>2 DEF IsDefinition
<1>6. /\ asked = (granted(q) \o granted(p)) \o granted(k)
      /\ Inherited(d, k) = ((own \o checks(q)) \o checks(p)) \o checks(k)
  BY DEF DefaultPermissions, Inherited
<1>7. ChecksFor(d, route) = Inherited(d, k) \o more
  <2> DEFINE first == CHOOSE m \in Holders(d, route) : \A j \in Holders(d, route) : m <= j
  <2>1. \E m \in Holders(d, route) : \A j \in Holders(d, route) : m <= j
    BY <1>1
  <2>2. first \in Holders(d, route)
    BY <2>1
  <2>3. first = k /\ Holders(d, route) # {}
    BY <2>2
  <2>4. ChecksFor(d, route) =
            Inherited(d, first) \o
                (IF DefaultPermissions(d, first) = <<>> THEN <<>>
                 ELSE <<[kind |-> "has_permissions", route |-> NoRoute,
                         permissions |-> DefaultPermissions(d, first)]>>)
    <3>1. Holders(d, route) # {}
      BY <2>3
    <3> QED BY ONLY <3>1 DEF ChecksFor
  <2> HIDE DEF first
  <2> QED BY <2>3, <2>4
<1> HIDE DEF p, q, checks, granted, own, asked
<1>8. /\ ToSet(asked) = ToSet(granted(q)) \cup ToSet(granted(p)) \cup ToSet(granted(k))
  <2>1. /\ granted(q) \o granted(p) \in Seq(ToSet(granted(q) \o granted(p)))
        /\ ToSet(granted(q) \o granted(p)) = ToSet(granted(q)) \cup ToSet(granted(p))
    BY <1>3, <1>4, ConcatHolds
  <2> QED BY <1>4, <1>6, <2>1, ConcatHolds
<1>9. /\ Inherited(d, k) \in Seq(ToSet(Inherited(d, k)))
      /\ ToSet(Inherited(d, k)) =
             ToSet(own) \cup ToSet(checks(q)) \cup ToSet(checks(p)) \cup ToSet(checks(k))
  <2> DEFINE two == own \o checks(q)
             three == two \o checks(p)
  <2>1. two \in Seq(ToSet(two)) /\ ToSet(two) = ToSet(own) \cup ToSet(checks(q))
    BY <1>3, <1>4, <1>5, ConcatHolds
  <2> HIDE DEF two
  <2>2. three \in Seq(ToSet(three)) /\ ToSet(three) = ToSet(two) \cup ToSet(checks(p))
    BY <1>3, <1>4, <2>1, ConcatHolds
  <2> HIDE DEF three
  <2>3. Inherited(d, k) = three \o checks(k)
    BY <1>6 DEF two, three
  <2>4. /\ three \o checks(k) \in Seq(ToSet(three \o checks(k)))
        /\ ToSet(three \o checks(k)) = ToSet(three) \cup ToSet(checks(k))
    BY <1>4, <2>2, ConcatHolds
  <2> QED BY <2>1, <2>2, <2>3, <2>4
<1>10. more \in Seq(ToSet(more))
  <2>1. ASSUME NEW x PROVE <<x>> \in Seq(ToSet(<<x>>))
    BY DEF ToSet
  <2>2. <<>> \in Seq(ToSet(<<>>))
    OBVIOUS
  <2> QED BY <2>1, <2>2
<1>11. ToSet(ChecksFor(d, route)) = ToSet(Inherited(d, k)) \cup ToSet(more)
  BY <1>7, <1>9, <1>10, ConcatHolds
<1>12. \A j \in Lineage(d, k) : /\ j \in {k, p, q} /\ j # 0
                                /\ checks(j) = d.items[j].checks
                                /\ granted(j) = d.items[j].permissions
  BY DEF Lineage, checks, granted, p, q
<1>13. \A j \in Lineage(d, k) : ToSet(d.items[j].checks) \subseteq ToSet(ChecksFor(d, route))
  BY <1>9, <1>11, <1>12
<1>14. ASSUME NEW j \in Lineage(d, k), d.items[j].permissions # <<>>
       PROVE  \E c \in ToSet(ChecksFor(d, route)) :
                  /\ c.kind = "has_permissions"
                  /\ ToSet(d.items[j].permissions) \subseteq ToSet(c.permissions)
  <2>1. ToSet(d.items[j].permissions) \subseteq ToSet(asked)
    BY <1>8, <1>12
  <2>2. ToSet(d.items[j].permissions) # {}
    <3>1. j \in Items(d)
      BY <1>3, <1>12
    <3>2. d.items[j].permissions \in Seq(ToSet(d.items[j].permissions))
      BY <3>1 DEF IsDefinition
    <3> QED BY <1>14, <3>2
  <2>3. asked # <<>>
    <3>1. ToSet(<<>>) = {}
      BY DEF ToSet
    <3> QED BY <2>1, <2>2, <3>1
  <2> DEFINE c == [kind |-> "has_permissions", permissions |-> asked, route |-> NoRoute]
  <2>4. c \in ToSet(more)
    BY <2>3 DEF ToSet
  <2>5. c.kind = "has_permissions" /\ c.permissions = asked
    OBVIOUS
  <2> HIDE DEF c, more
  <2> QED BY <1>11, <2>1, <2>4, <2>5
<1> QED BY <1>9, <1>11, <1>13, <1>14 DEF own

\* So a user who passes the plain checks of a planned item's route is entitled to it.
LEMMA PassedMeansEntitled ==
    ASSUME NEW d, IsDefinition(d), ValidDefinition(d), NEW k \in Items(d),
           NEW route, Holders(d, route) = {k}, NEW a,
           \A c \in ToSet(ChecksFor(d, route)) : Passes(c, a)
    PROVE  Entitled(d, k, a)
<1> DEFINE own == d.cogs[d.items[k].cog].checks
           checks == (UNION {ToSet(d.items[j].checks) : j \in Above(d, k)}) \cup ToSet(own)
           asked == {c \in checks : c.kind = "has_permissions"}
           needed == UNION ({ToSet(d.items[j].permissions) : j \in Above(d, k)}
                            \cup {ToSet(c.permissions) : c \in asked})
<1>1. Above(d, k) \subseteq Lineage(d, k)
  BY AboveIsLineage
<1>2. checks \subseteq ToSet(ChecksFor(d, route))
  <2>1. \A j \in Above(d, k) : ToSet(d.items[j].checks) \subseteq ToSet(ChecksFor(d, route))
    BY <1>1, ChecksOfLineage
  <2>2. ToSet(own) \subseteq ToSet(ChecksFor(d, route))
    BY ChecksOfLineage
  <2> HIDE DEF own
  <2> QED BY <2>1, <2>2
<1>3. \A c \in checks : Passes(c, a)
  BY <1>2
<1>4. \A c \in checks : /\ c.kind = "guild_only" => a.guild # NoGuild
                        /\ c.kind = "owner_only" => a.owner
  <2> HIDE DEF checks
  <2> QED BY <1>3 DEF Passes
<1>5. ASSUME "administrator" \notin a.permissions PROVE needed \subseteq a.permissions
  <2>1. \A c \in ToSet(ChecksFor(d, route)) :
            c.kind = "has_permissions" => ToSet(c.permissions) \subseteq a.permissions
    BY <1>5 DEF Passes
  <2>2. \A c \in asked : ToSet(c.permissions) \subseteq a.permissions
    BY <1>2, <2>1
  <2>3. \A j \in Above(d, k) : ToSet(d.items[j].permissions) \subseteq a.permissions
    <3> TAKE j \in Above(d, k)
    <3>1. d.items[j].permissions = <<>> => ToSet(d.items[j].permissions) = {}
      BY DEF ToSet
    <3> QED BY <1>1, <2>1, <3>1, ChecksOfLineage
  <2> HIDE DEF asked
  <2> QED BY <2>2, <2>3
<1> QED BY <1>4, <1>5 DEF Entitled

\* Only top-level commands of the user's and message's menus are not slash commands.
LEMMA CommandsWithOptions ==
    ASSUME NEW d, IsDefinition(d), ValidDefinition(d), NEW k \in Items(d),
           NEW o \in ToSet(d.items[k].options)
    PROVE  /\ k \in OfKinds(d, CommandKinds) /\ RootKind(d, k) = "slash"
           /\ d.items[k].route # NoRoute
<1>1. d.items[k].options # <<>>
  BY DEF ToSet
<1>2. k \in OfKinds(d, CommandKinds)
  BY <1>1 DEF IsDefinition, OfKinds
<1>3. d.items[k].class \notin ContextKinds
  BY <1>1, <1>2 DEF ValidDefinition, ValidCommand
<1>4. Nested(d, k)
  BY <1>2, CommandsNest
<1>5. d.items[k].parent = 0 => d.items[k].class \in TopLevelKinds
  BY <1>4, ItemsAreCounted DEF Nested
<1>6. RootKind(d, k) = "slash"
  BY <1>3, <1>4, <1>5, PathsOfNested DEF TopLevelKinds
<1>7. d.items[k].route # NoRoute
  BY <1>1, OnlyCommandsContain
<1> QED BY <1>2, <1>6, <1>7

\* A signature is of an item, of an option that suggests, or of checks.
LEMMA SignaturesAre ==
    ASSUME NEW d, NEW s \in Signatures(d)
    PROVE  \/ /\ s.item \in Owners(d) /\ s.type = RouteType(d.items[s.item].class)
              /\ s.route = d.items[s.item].route /\ s.option = 0
           \/ /\ s.type = "autocomplete" /\ s.item \in Items(d)
              /\ s.option \in DOMAIN d.items[s.item].options
              /\ d.items[s.item].options[s.option].suggest = s.route /\ s.route # NoRoute
           \/ s.type = "check" /\ s.route \in CheckRoutes(d) /\ s.item = 0 /\ s.option = 0
<1>1. CASE \E k \in Owners(d) : s = [type |-> RouteType(d.items[k].class), item |-> k,
                                     route |-> d.items[k].route, option |-> 0]
  BY <1>1
<1>2. CASE \E w \in Suggesting(d) : s = [type |-> "autocomplete", item |-> w[1],
               option |-> w[2], route |-> d.items[w[1]].options[w[2]].suggest]
  <2>1. PICK w \in Suggesting(d) : s = [type |-> "autocomplete", item |-> w[1],
               option |-> w[2], route |-> d.items[w[1]].options[w[2]].suggest]
    BY <1>2
  <2>2. /\ w[1] \in Items(d) /\ w[2] \in DOMAIN d.items[w[1]].options
        /\ d.items[w[1]].options[w[2]].suggest # NoRoute
    BY DEF Suggesting
  <2> QED BY <2>1, <2>2
<1>3. CASE \E r \in CheckRoutes(d) : s = [type |-> "check", route |-> r, item |-> 0,
                                          option |-> 0]
  BY <1>3
<1> QED BY <1>1, <1>2, <1>3 DEF Signatures

\* What a signature is of: its fields are all there is to it.
LEMMA SignaturesAreTheirFields ==
    ASSUME NEW d, NEW s \in Signatures(d), NEW t \in Signatures(d),
           s.type = t.type, s.route = t.route, s.item = t.item, s.option = t.option
    PROVE  s = t
<1>1. ASSUME NEW u \in Signatures(d)
      PROVE  \E type, route, item, option :
                 u = [type |-> type, route |-> route, item |-> item, option |-> option]
  BY DEF Signatures
<1>2. \A u \in Signatures(d) :
          u = [type |-> u.type, route |-> u.route, item |-> u.item, option |-> u.option]
  BY <1>1
<1> QED BY <1>2

\* The types of items' signatures.
LEMMA ItemTypes ==
    ASSUME NEW d, IsDefinition(d), NEW k \in Items(d)
    PROVE  RouteType(d.items[k].class) \in {"command", "component", "modal", "listener", "task"}
BY DEF IsDefinition, RouteType

\* Two signatures that an invocation matches along its route are the same.
LEMMA MatchesAreEqual ==
    ASSUME NEW d, IsDefinition(d), ValidDefinition(d), NEW v,
           NEW s \in Matching(d, v), NEW t \in Matching(d, v)
    PROVE  s = t
<1>1. /\ s \in Signatures(d) /\ s.route = v.route /\ Matches(d, s, v)
      /\ t \in Signatures(d) /\ t.route = v.route /\ Matches(d, t, v)
  BY DEF Matching
<1> DEFINE OfItem(x) == /\ x.item \in Owners(d) /\ x.type = RouteType(d.items[x.item].class)
                        /\ x.route = d.items[x.item].route /\ x.option = 0
           OfOption(x) == /\ x.type = "autocomplete" /\ x.item \in Items(d)
                          /\ x.option \in DOMAIN d.items[x.item].options
                          /\ d.items[x.item].options[x.option].suggest = x.route
                          /\ x.route # NoRoute
           OfChecks(x) == /\ x.type = "check" /\ x.route \in CheckRoutes(d)
                          /\ x.item = 0 /\ x.option = 0
<1>2. (OfItem(s) \/ OfOption(s) \/ OfChecks(s)) /\ (OfItem(t) \/ OfOption(t) \/ OfChecks(t))
  BY <1>1, SignaturesAre
<1>3. \A x : OfOption(x) => x.route \in SuggestRoutes(d)
  <2> TAKE x
  <2> HAVE OfOption(x)
  <2> DEFINE place == <<x.item, x.option>>
  <2>1. place \in Suggesting(d)
    BY DEF Suggesting
  <2>2. d.items[place[1]].options[place[2]].suggest = x.route
    OBVIOUS
  <2> HIDE DEF place
  <2> QED BY <2>1, <2>2 DEF SuggestRoutes
<1>4. \A x : OfItem(x) => x.route \in {d.items[k].route : k \in Owners(d)}
  OBVIOUS
<1>5. RoutesApart(d)
  BY DEF ValidDefinition
<1>6. CASE OfItem(s) /\ OfItem(t)
  <2>1. s.item = t.item
    BY <1>1, <1>5, <1>6 DEF RoutesApart
  <2> QED BY <1>1, <1>6, <2>1, SignaturesAreTheirFields
<1>7. CASE OfChecks(s) /\ OfChecks(t)
  BY <1>1, <1>7, SignaturesAreTheirFields
<1>8. CASE OfOption(s) /\ OfOption(t)
  <2> DEFINE o(x) == d.items[x.item].options[x.option]
  <2>1. \A x \in {s, t} : /\ x.item \in OfKinds(d, CommandKinds)
                          /\ RootKind(d, x.item) = "slash"
    <3> TAKE x \in {s, t}
    <3>1. o(x) \in ToSet(d.items[x.item].options) /\ x.item \in Items(d)
      BY <1>8 DEF ToSet
    <3> QED BY <3>1, CommandsWithOptions
  <2>2. /\ v.path = Path(d, s.item) /\ v.name = o(s).name
        /\ v.path = Path(d, t.item) /\ v.name = o(t).name
    BY <1>1, <1>8 DEF Matches, MatchesOption
  <2>3. s.item = t.item
    BY <2>1, <2>2 DEF ValidDefinition
  <2>4. s.option = t.option
    <3> DEFINE options == d.items[s.item].options
    <3>1. ValidOptions(options)
      BY <2>1 DEF ValidDefinition, ValidCommand
    <3>2. options \in Seq(ToSet(options))
      BY <1>8 DEF IsDefinition
    <3>3. /\ s.option \in 1..Len(options) /\ t.option \in 1..Len(options)
          /\ Len(options) \in Nat /\ options[s.option].name = options[t.option].name
      BY <1>8, <2>2, <2>3, <3>2
    <3>4. \A n \in 1..Len(options) : \A m \in 1..(n - 1) : options[m].name # options[n].name
      BY <3>1, <3>2 DEF ValidOptions
    <3> HIDE DEF options
    <3> QED BY <3>3, <3>4
  <2> QED BY <1>1, <1>8, <2>3, <2>4, SignaturesAreTheirFields
<1>9. ~(OfItem(s) /\ OfOption(t)) /\ ~(OfOption(s) /\ OfItem(t))
  BY <1>1, <1>3, <1>4, <1>5 DEF RoutesApart
<1>10. ~(OfItem(s) /\ OfChecks(t)) /\ ~(OfChecks(s) /\ OfItem(t))
  BY <1>1, <1>4, <1>5 DEF RoutesApart
<1>11. ~(OfChecks(s) /\ OfOption(t)) /\ ~(OfOption(s) /\ OfChecks(t))
  BY <1>1, <1>3, <1>5 DEF RoutesApart
<1> HIDE DEF OfItem, OfOption, OfChecks
<1> QED BY <1>2, <1>6, <1>7, <1>8, <1>9, <1>10, <1>11

\* Resolve never finds more than one signature for an invocation: whatever a valid
\* definition declares and whatever is invoked, "matches multiple signatures"
\* (contract/catalog.go) cannot be returned.
THEOREM ResolutionIsUnambiguous ==
    ASSUME NEW d, IsDefinition(d), ValidDefinition(d), NEW v
    PROVE  /\ Cardinality(Matching(d, v)) <= 1
           /\ Resolves(d, v) <=> ValidInvocation(v) /\ Matching(d, v) # {}
<1>1. CASE Matching(d, v) = {}
  <2>1. Cardinality(Matching(d, v)) = 0
    BY <1>1, FS_EmptySet
  <2> QED BY <1>1, <2>1 DEF Resolves
<1>2. CASE Matching(d, v) # {}
  <2>1. PICK s : s \in Matching(d, v)
    BY <1>2
  <2>2. Matching(d, v) = {s}
    BY <2>1, MatchesAreEqual
  <2>3. Cardinality(Matching(d, v)) = 1
    BY <2>2, FS_Singleton
  <2> QED BY <1>2, <2>3 DEF Resolves
<1> QED BY <1>1, <1>2

\* What resolves leads, by the definition's own plans, to the route it named.
LEMMA ResolvedIsPlanned ==
    ASSUME NEW d, IsDefinition(d), ValidDefinition(d), NEW a, a.kind \in ActKinds,
           NEW route, NEW state, Resolves(d, Invocation(d, a, route, state))
    PROVE  Leads(d, a, route)
<1> DEFINE v == Invocation(d, a, route, state)
<1>1. /\ v.kind = a.kind /\ v.route = route /\ v.class = a.class /\ v.path = a.path
      /\ v.name = a.name
  BY DEF Invocation
<1> HIDE DEF v
<1>2. ValidInvocation(v) /\ Matching(d, v) # {}
  BY ResolutionIsUnambiguous DEF v
<1>3. PICK s \in Signatures(d) : s.route = route /\ Matches(d, s, v)
  BY <1>1, <1>2 DEF Matching
<1>4. route # NoRoute
  BY <1>1, <1>2, TextsAreNotEmpty DEF ValidInvocation, NoRoute
<1>5. CASE /\ s.item \in Owners(d) /\ s.type = RouteType(d.items[s.item].class)
           /\ s.route = d.items[s.item].route
  <2> DEFINE k == s.item
  <2>1. k \in Items(d) /\ d.items[k].route = route
    BY <1>3, <1>5 DEF Owners
  <2>2. s.type \in {"command", "component", "modal", "listener", "task"}
    BY <1>5, <2>1, ItemTypes
  <2>3. CASE s.type = "command"
    <3>1. d.items[k].class \in CommandKinds
      BY <1>5, <2>1, <2>3 DEF IsDefinition, RouteType
    <3>2. /\ a.kind = "command" /\ a.class = RootKind(d, k) /\ a.path = Path(d, k)
      BY <1>1, <1>3, <2>3 DEF Matches, MatchesCommand
    <3>3. k \in Planned(d, a) /\ PlannedRoute(d, k, a) = route
      BY <1>4, <2>1, <3>1, <3>2 DEF Planned, PlannedRoute, OfKinds
    <3> QED BY <3>3 DEF Leads
  <2>4. CASE s.type = "listener"
    <3>1. d.items[k].class = "listener"
      BY <1>5, <2>1, <2>4 DEF RouteType
    <3>2. a.kind = "event" /\ a.name = d.items[k].event
      BY <1>1, <1>3, <2>4 DEF Matches
    <3>3. k \in Planned(d, a) /\ PlannedRoute(d, k, a) = route
      BY <2>1, <3>1, <3>2 DEF Planned, PlannedRoute, OfKinds
    <3> QED BY <3>3 DEF Leads
  <2>5. CASE s.type \in {"component", "modal", "task"}
    <3>1. d.items[k].class = s.type
      BY <1>5, <2>1, <2>5 DEF RouteType
    <3>2. a.kind = s.type
      BY <1>1, <1>3, <2>5 DEF Matches
    <3>3. a.name = d.items[k].name
      BY <1>1, <1>3, <2>5 DEF Matches, MatchesComponent, MatchesModal
    <3>4. k \in Planned(d, a) /\ PlannedRoute(d, k, a) = route
      BY <2>1, <2>5, <3>1, <3>2, <3>3 DEF Planned, PlannedRoute, OfKinds
    <3> QED BY <3>4 DEF Leads
  <2> QED BY <2>2, <2>3, <2>4, <2>5
<1>6. CASE /\ s.type = "autocomplete" /\ s.item \in Items(d)
           /\ s.option \in DOMAIN d.items[s.item].options
           /\ d.items[s.item].options[s.option].suggest = s.route
  <2> DEFINE k == s.item
             o == d.items[k].options[s.option]
  <2>1. o \in ToSet(d.items[k].options) /\ o.suggest = route
    BY <1>3, <1>6 DEF ToSet
  <2>2. a.kind = "autocomplete" /\ a.path = Path(d, k) /\ a.name = o.name
    BY <1>1, <1>3, <1>6 DEF Matches, MatchesOption
  <2>3. /\ k \in OfKinds(d, CommandKinds) /\ RootKind(d, k) = "slash"
        /\ d.items[k].route # NoRoute
    BY <1>6, <2>1, CommandsWithOptions
  <2>4. k \in Planned(d, a)
    BY <1>4, <2>1, <2>2, <2>3 DEF Planned
  <2>5. PlannedRoute(d, k, a) = route
    <3> DEFINE chosen == CHOOSE u \in ToSet(d.items[k].options) :
                             u.name = a.name /\ u.suggest # NoRoute
    <3>1. chosen \in ToSet(d.items[k].options) /\ chosen.name = a.name
      BY <1>4, <2>1, <2>2
    <3>2. chosen = o
      BY <1>6, <2>1, <2>2, <3>1, OptionsAreNamed
    <3> QED BY <2>1, <2>2, <3>2 DEF PlannedRoute
  <2> QED BY <2>4, <2>5 DEF Leads
<1>7. s.type # "check"
  BY <1>1, <1>3 DEF Matches, ActKinds, InteractionKinds
<1> QED BY <1>3, <1>5, <1>6, <1>7, SignaturesAre

\* The state an interaction is in when the program of an item runs.
Deferred(defer) == CASE defer = "create" -> "deferred_create"
                     [] defer = "update" -> "deferred_update"
                     [] OTHER -> "unacknowledged"

StateWhenRun(a, defer) ==
    IF a.kind \in {"event", "task"} THEN "none"
    ELSE IF a.kind = "autocomplete" THEN "unacknowledged" ELSE Deferred(defer)

\* What tuples hold.
LEMMA TuplesHold ==
    /\ \A x : ToSet(<<x>>) = {x} /\ Len(<<x>>) = 1
    /\ \A x, y : ToSet(<<x, y>>) = {x, y} /\ Len(<<x, y>>) = 2
    /\ \A x, y, z : ToSet(<<x, y, z>>) = {x, y, z} /\ Len(<<x, y, z>>) = 3
<1>1. ASSUME NEW x PROVE ToSet(<<x>>) = {x}
  BY DEF ToSet
<1>2. ASSUME NEW x, NEW y PROVE ToSet(<<x, y>>) = {x, y}
  BY DEF ToSet
<1>3. ASSUME NEW x, NEW y, NEW z PROVE ToSet(<<x, y, z>>) = {x, y, z}
  BY DEF ToSet
<1> QED BY <1>1, <1>2, <1>3

\* The names on a command's path are names.
LEMMA PathsHaveNames ==
    ASSUME NEW d, IsDefinition(d), ValidDefinition(d), NEW k \in OfKinds(d, CommandKinds)
    PROVE  Len(Path(d, k)) \in 1..3 /\ "" \notin ToSet(Path(d, k))
<1> DEFINE p == d.items[k].parent
           q == d.items[p].parent
           name(j) == d.items[j].name
<1>1. k \in Items(d) /\ Nested(d, k)
  BY CommandsNest DEF OfKinds
<1>2. \A j \in OfKinds(d, CommandKinds) : name(j) # ""
  <2> TAKE j \in OfKinds(d, CommandKinds)
  <2>1. name(j) \in Names \cup ContextNames
    BY DEF ValidDefinition, ValidCommand
  <2> QED BY <2>1, TextsAreNotEmpty
<1>3. p # 0 => p \in OfKinds(d, CommandKinds)
  BY <1>1, ItemsAreCounted DEF OfKinds
<1>4. p # 0 /\ q # 0 => q \in OfKinds(d, CommandKinds)
  BY <1>3, ItemsAreCounted DEF OfKinds
<1> HIDE DEF name
<1>5. CASE p = 0
  <2>1. Path(d, k) = <<name(k)>>
    BY <1>1, <1>5, PathsOfNested DEF name
  <2>2. ToSet(<<name(k)>>) = {name(k)} /\ Len(<<name(k)>>) = 1
    BY TuplesHold
  <2>3. ToSet(Path(d, k)) = {name(k)}
    BY <2>1, <2>2
  <2>4. Len(Path(d, k)) = 1
    BY <2>1, <2>2
  <2>5. "" \notin {name(k)}
    BY <1>2
  <2>6. Len(Path(d, k)) \in 1..3
    BY <2>4
  <2>7. "" \notin ToSet(Path(d, k))
    BY <2>3, <2>5
  <2> QED BY <2>6, <2>7
<1>6. CASE p # 0 /\ q = 0
  <2>1. Path(d, k) = <<name(p), name(k)>>
    BY <1>1, <1>6, PathsOfNested DEF name
  <2>2. ToSet(<<name(p), name(k)>>) = {name(p), name(k)} /\ Len(<<name(p), name(k)>>) = 2
    BY TuplesHold
  <2>3. ToSet(Path(d, k)) = {name(p), name(k)}
    BY <2>1, <2>2
  <2>4. Len(Path(d, k)) = 2
    BY <2>1, <2>2
  <2>5. "" \notin {name(p), name(k)}
    BY <1>2, <1>3, <1>6
  <2>6. Len(Path(d, k)) \in 1..3
    BY <2>4
  <2>7. "" \notin ToSet(Path(d, k))
    BY <2>3, <2>5
  <2> QED BY <2>6, <2>7
<1>7. CASE p # 0 /\ q # 0
  <2>1. Path(d, k) = <<name(q), name(p), name(k)>>
    BY <1>1, <1>7, PathsOfNested DEF name
  <2>2. ToSet(<<name(q), name(p), name(k)>>) = {name(q), name(p), name(k)} /\ Len(<<name(q), name(p), name(k)>>) = 3
    BY TuplesHold
  <2>3. ToSet(Path(d, k)) = {name(q), name(p), name(k)}
    BY <2>1, <2>2
  <2>4. Len(Path(d, k)) = 3
    BY <2>1, <2>2
  <2>5. "" \notin {name(q), name(p), name(k)}
    BY <1>2, <1>3, <1>4, <1>7
  <2>6. Len(Path(d, k)) \in 1..3
    BY <2>4
  <2>7. "" \notin ToSet(Path(d, k))
    BY <2>3, <2>5
  <2> QED BY <2>6, <2>7
<1> QED BY <1>5, <1>6, <1>7

\* What a plan was made of is well formed, given how the interaction stands.
LEMMA PlannedIsWellFormed ==
    ASSUME NEW d, IsDefinition(d), ValidDefinition(d), NoRepeats(d.keys, KVKeys),
           NEW a, a.kind \in ActKinds, SentByDiscord(a),
           NEW k \in Planned(d, a), FitsItem(d, k, a), NEW route, route \in RouteIDs,
           NEW state, state = StateWhenRun(a, d.items[k].defer),
           state = "deferred_update" => FromMessage(a)
    PROVE  ValidInvocation(Invocation(d, a, route, state))
<1> DEFINE v == Invocation(d, a, route, state)
           u == Invocation(d, a, NoRoute, "none")
           c == d.items[k]
<1>1. /\ v.kind = a.kind /\ v.route = route /\ v.state = state /\ v.origin = a.origin
      /\ v.guild = a.guild /\ v.author = a.author /\ v.member = a.member
      /\ v.permissions = a.permissions /\ v.class = a.class /\ v.path = a.path
      /\ v.name = a.name /\ v.entries = (IF a.guild = NoGuild THEN <<>> ELSE d.keys)
      /\ v.target = (IF a.class \in ContextKinds THEN a.class ELSE "none")
  BY DEF Invocation
<1>2. /\ u.options = v.options /\ u.focused = v.focused /\ u.fields = v.fields
      /\ u.guild = v.guild
  BY DEF Invocation
<1>3. k \in Items(d) /\ a.kind # "absent"
  BY DEF Planned, OfKinds, IsDefinition, CommandKinds, TopLevelKinds, ContextKinds
<1> HIDE DEF v, u
<1>5. ValidContext(v) /\ ValidEntries(v) /\ ValidOrigin(v)
  BY <1>1, <1>3 DEF SentByDiscord, ValidContext, ValidEntries, ValidOrigin, ActKinds,
     InteractionKinds
<1>6. ValidState(v)
  BY <1>1, <1>3 DEF ValidState, StateWhenRun, Deferred, FromMessage, ResponseStates, ActKinds,
     InteractionKinds
<1>7. ASSUME v.kind = "command" PROVE ValidCommandInput(v)
  <2>1. /\ k \in OfKinds(d, CommandKinds) /\ a.path = Path(d, k)
    BY <1>1, <1>7 DEF Planned
  <2>2. Len(v.path) \in 1..3 /\ "" \notin ToSet(v.path)
    BY <1>1, <2>1, PathsHaveNames
  <2>3. /\ ValidOptionValues(v.options)
        /\ a.class # "slash" => v.options = <<>>
    BY <1>1, <1>2, <1>7 DEF FitsItem, u
  <2>4. a.class \in TopLevelKinds
    BY <1>1, <1>7 DEF SentByDiscord
  <2> QED BY <1>1, <2>2, <2>3, <2>4 DEF ValidCommandInput, TopLevelKinds, ContextKinds
<1>8. ASSUME v.kind = "autocomplete" PROVE ValidAutocompleteInput(v)
  <2>1. k \in OfKinds(d, CommandKinds) /\ a.path = Path(d, k)
    BY <1>1, <1>8 DEF Planned
  <2>2. Len(v.path) \in 1..3 /\ "" \notin ToSet(v.path)
    BY <1>1, <2>1, PathsHaveNames
  <2>3. /\ ValidOptionValue(v.focused) /\ v.focused.name = a.name
        /\ ValidOptionValues(v.options)
    BY <1>1, <1>2, <1>8 DEF FitsItem, u
  <2> QED BY <1>1, <2>2, <2>3 DEF ValidAutocompleteInput
<1>9. a.kind \in {"component", "modal", "task"} =>
          k \in Items(d) \ OfKinds(d, CommandKinds) /\ a.name = c.name
  BY DEF Planned, OfKinds, CommandKinds, TopLevelKinds, ContextKinds
<1>10. a.kind \in {"component", "modal", "task"} => a.name \in HandlerIDs
  BY <1>9 DEF ValidDefinition
<1>11. ASSUME v.kind = "component" PROVE ValidComponentInput(v)
  <2>1. a.class = "button" /\ v.options = <<>>
    BY <1>1, <1>2, <1>11 DEF FitsItem, u
  <2> QED BY <1>1, <1>10, <1>11, <2>1 DEF ValidComponentInput
<1>12. ASSUME v.kind = "modal" PROVE ValidModalInput(v)
  <2>1. /\ Len(v.fields) \in 1..5 /\ ValidFields(v.fields, c.fields)
        /\ IsInjective([n \in DOMAIN v.fields |-> v.fields[n].id])
    BY <1>1, <1>2, <1>12 DEF FitsItem, u
  <2>2. ValidModalFields(c)
    BY <1>1, <1>12 DEF Planned, ValidDefinition
  <2>3. \A g \in ToSet(c.fields) : g.id \in HandlerIDs
    BY <2>2 DEF ValidModalFields, NoRepeats, ToSet
  <2>4. \A n \in DOMAIN v.fields : v.fields[n].id \in HandlerIDs
    <3> TAKE n \in DOMAIN v.fields
    <3>1. v.fields[n] \in ToSet(v.fields)
      BY DEF ToSet
    <3> QED BY <2>1, <2>3, <3>1 DEF ValidFields
  <2>5. ToSet([n \in DOMAIN v.fields |-> v.fields[n].id]) \subseteq HandlerIDs
    BY <2>4 DEF ToSet
  <2> QED BY <1>1, <1>10, <1>12, <2>1, <2>5 DEF ValidModalInput, NoRepeats
<1>13. v.kind \in {"event", "task"} => v.name # ""
  <2>1. a.kind = "event" => c.event # "" /\ a.name = c.event
    BY DEF Planned, ValidDefinition, OfKinds
  <2> QED BY <1>1, <1>10, <2>1, TextsAreNotEmpty
<1>14. ValidInvocation(v)
  BY <1>1, <1>5, <1>6, <1>7, <1>8, <1>11, <1>12, <1>13 DEF ValidInvocation
<1> QED BY <1>14 DEF v

\* And matches the item's signature.
LEMMA PlannedMatches ==
    ASSUME NEW d, IsDefinition(d), ValidDefinition(d),
           NEW a, a.kind \in ActKinds, NEW k \in Planned(d, a), FitsItem(d, k, a),
           NEW state, state = StateWhenRun(a, d.items[k].defer)
    PROVE  /\ PlannedRoute(d, k, a) \in RouteIDs
           /\ Matching(d, Invocation(d, a, PlannedRoute(d, k, a), state)) # {}
<1> DEFINE route == PlannedRoute(d, k, a)
           v == Invocation(d, a, route, state)
           u == Invocation(d, a, NoRoute, "none")
           c == d.items[k]
<1>1. /\ v.kind = a.kind /\ v.route = route /\ v.state = state
      /\ v.guild = a.guild /\ v.class = a.class /\ v.path = a.path /\ v.name = a.name
      /\ u.options = v.options /\ u.focused = v.focused /\ u.fields = v.fields
      /\ u.guild = v.guild
  BY DEF Invocation
<1>2. k \in Items(d) /\ a.kind # "absent"
  BY DEF Planned, OfKinds, IsDefinition, CommandKinds, TopLevelKinds, ContextKinds
<1> HIDE DEF v, u
<1>3. CASE a.kind = "autocomplete"
  <2>1. /\ a.path = Path(d, k)
        /\ \E o \in ToSet(c.options) : o.name = a.name /\ o.suggest # NoRoute
    BY <1>3 DEF Planned
  <2> DEFINE chosen == CHOOSE o \in ToSet(c.options) : o.name = a.name /\ o.suggest # NoRoute
  <2>2. /\ chosen \in ToSet(c.options) /\ chosen.name = a.name /\ chosen.suggest # NoRoute
    BY <2>1
  <2>3. route = chosen.suggest
    BY <1>3 DEF PlannedRoute
  <2> HIDE DEF chosen, route
  <2>4. PICK n \in DOMAIN c.options : c.options[n] = chosen
    BY <2>2 DEF ToSet
  <2>5. <<k, n>> \in Suggesting(d)
    BY <1>2, <2>2, <2>4 DEF Suggesting
  <2> DEFINE s == [type |-> "autocomplete", item |-> k, option |-> n, route |-> route]
  <2>6. s \in Signatures(d)
    <3>1. \E w \in Suggesting(d) : s = [type |-> "autocomplete", item |-> w[1],
              option |-> w[2], route |-> d.items[w[1]].options[w[2]].suggest]
      <4>1. <<k, n>>[1] = k /\ <<k, n>>[2] = n
        OBVIOUS
      <4>2. d.items[k].options[n].suggest = route
        BY <2>3, <2>4
      <4> QED BY <2>5, <4>1, <4>2
    <3> HIDE DEF s
    <3> QED BY <3>1 DEF Signatures
  <2>7. /\ chosen.kind = v.focused.kind
        /\ ValidRuntimeOptions(v.options, c.options, FALSE, v.guild)
    BY <1>1, <1>3, <2>2 DEF FitsItem, u
  <2>8. MatchesOption(d, k, n, v)
    BY <1>1, <2>1, <2>2, <2>4, <2>7 DEF MatchesOption
  <2>9. /\ s.type = "autocomplete" /\ s.item = k /\ s.option = n /\ s.route = route
    OBVIOUS
  <2> HIDE DEF s
  <2>10. Matches(d, s, v)
    BY <1>1, <1>3, <2>8, <2>9 DEF Matches
  <2>11. s \in Matching(d, v)
    BY <1>1, <2>6, <2>9, <2>10 DEF Matching
  <2>12. route \in RouteIDs
    <3>1. k \in OfKinds(d, CommandKinds)
      BY <1>3 DEF Planned
    <3>2. ValidOptions(c.options)
      BY <3>1 DEF ValidDefinition, ValidCommand
    <3>3. ValidOption(c.options[n])
      BY <3>2 DEF ValidOptions
    <3> QED BY <2>2, <2>3, <2>4, <3>3 DEF ValidOption
  <2> QED BY <2>11, <2>12 DEF route, v
<1>4. CASE a.kind # "autocomplete"
  <2>1. route = c.route
    BY <1>4 DEF PlannedRoute
  <2>2. ~Container(d, k)
    <3>1. CASE a.kind = "command"
      BY <1>2, <3>1, OnlyCommandsContain DEF Planned
    <3>2. CASE a.kind # "command"
      <4>1. d.items[k].class \notin {"slash", "group"}
        BY <1>4, <3>2 DEF Planned, OfKinds, ActKinds, InteractionKinds
      <4> QED BY <1>2, <4>1, OnlyCommandsContain
    <3> QED BY <3>1, <3>2
  <2>3. route \in RouteIDs
    BY <1>2, <2>1, <2>2, OnlyCommandsContain
  <2> DEFINE s == [type |-> RouteType(c.class), item |-> k, option |-> 0, route |-> c.route]
  <2>4. s \in Signatures(d)
    BY <1>2, <2>2 DEF Signatures, Owners
  <2>5. /\ s.type = RouteType(c.class) /\ s.item = k /\ s.route = route
    BY <2>1
  <2> HIDE DEF s, route
  <2>6. Matches(d, s, v)
    <3>1. CASE a.kind = "command"
      <4>1. /\ s.type = "command" /\ a.class = RootKind(d, k) /\ a.path = Path(d, k)
        BY <2>5, <3>1 DEF Planned, OfKinds, RouteType
      <4>2. ValidRuntimeOptions(v.options, c.options, TRUE, v.guild)
        BY <1>1, <3>1 DEF FitsItem, u
      <4>3. MatchesDefer(c, v)
        BY <1>1, <3>1 DEF MatchesDefer, StateWhenRun, Deferred
      <4> QED BY <1>1, <2>5, <3>1, <4>1, <4>2, <4>3 DEF Matches, MatchesCommand
    <3>2. CASE a.kind \in {"component", "modal"}
      <4>1. s.type = a.kind /\ a.name = c.name
        BY <2>5, <3>2 DEF Planned, OfKinds, RouteType, CommandKinds, TopLevelKinds,
           ContextKinds
      <4>2. MatchesDefer(c, v)
        BY <1>1, <3>2 DEF MatchesDefer, StateWhenRun, Deferred
      <4>3. a.kind = "component" => a.class \in ToSet(c.kinds)
        BY <1>1 DEF FitsItem
      <4>4. a.kind = "modal" => ValidFields(v.fields, c.fields)
        BY <1>1 DEF FitsItem, u
      <4> QED BY <1>1, <2>5, <3>2, <4>1, <4>2, <4>3, <4>4 DEF Matches, MatchesComponent,
              MatchesModal
    <3>3. CASE a.kind = "event"
      <4>1. s.type = "listener" /\ a.name = c.event
        BY <2>5, <3>3 DEF Planned, OfKinds, RouteType, CommandKinds, TopLevelKinds,
           ContextKinds
      <4> QED BY <1>1, <2>5, <3>3, <4>1 DEF Matches
    <3>4. CASE a.kind = "task"
      <4>1. s.type = "task" /\ a.name = c.name
        BY <2>5, <3>4 DEF Planned, OfKinds, RouteType, CommandKinds, TopLevelKinds,
           ContextKinds
      <4> QED BY <1>1, <2>5, <3>4, <4>1 DEF Matches
    <3> QED BY <1>2, <1>4, <3>1, <3>2, <3>3, <3>4 DEF ActKinds, InteractionKinds
  <2>7. s \in Matching(d, v)
    BY <1>1, <2>4, <2>5, <2>6 DEF Matching
  <2> QED BY <2>3, <2>7 DEF route, v
<1> QED BY <1>3, <1>4

\* So what a plan chose is what Resolve finds.
LEMMA PlannedResolves ==
    ASSUME NEW d, IsDefinition(d), ValidDefinition(d), NoRepeats(d.keys, KVKeys),
           NEW a, a.kind \in ActKinds, SentByDiscord(a),
           NEW k \in Planned(d, a), FitsItem(d, k, a),
           NEW state, state = StateWhenRun(a, d.items[k].defer),
           state = "deferred_update" => FromMessage(a)
    PROVE  Resolves(d, Invocation(d, a, PlannedRoute(d, k, a), state))
<1> DEFINE route == PlannedRoute(d, k, a)
<1>1. route \in RouteIDs /\ Matching(d, Invocation(d, a, route, state)) # {}
  BY PlannedMatches
<1> HIDE DEF route
<1>2. ValidInvocation(Invocation(d, a, route, state))
  BY <1>1, PlannedIsWellFormed
<1> QED BY <1>1, <1>2, ResolutionIsUnambiguous DEF route

-----------------------------------------------------------------------------
(* Effects. *)

\* The user passes the plain checks of a route of a bundle that compiles.
Passed(a, n, route) ==
    Known(n) /\ \A c \in ToSet(ChecksFor(Bundle(n), route)) : Passes(c, a)

\* What is known of a handler that may come to execute: its bundle admitted it, and
\* was loaded when the run began, and grants what its program returned for what the
\* user did.
Cleared(a, r) ==
    /\ r.at \in Admitted \ {"readmit"} => Passed(a, r.def, r.route)
    /\ r.at = "reply" /\ r.then = "run" => Passed(a, r.def, r.route)
    /\ r.at \in {"invoke", "execute", "retry"} => r.began = r.def
    /\ r.at = "execute" => /\ Granted(Bundle(r.def), r.outcome)
                           /\ Leads(Bundle(r.def), a, r.route)

\* An effect happened by the bundle that was loaded when its run began, within that
\* bundle's capabilities and for a user who passes the plain checks of the route that
\* what they did leads to.
EffectAllowed(e) ==
    /\ e.who \in Interactions /\ e.def = e.began
    /\ RequiredCapability(e) \in Bundle(e.def).capabilities \cup {"none"}
    /\ Passed(act(e.who), e.def, e.route)
    /\ Leads(Bundle(e.def), act(e.who), e.route)

EffectInv ==
    /\ \A i \in Interactions : Cleared(act(i), run[i])
    /\ \A e \in effects : EffectAllowed(e)

\* Only those pass the authorisation who pass every plain check.
LEMMA AllowedMeansPassed ==
    ASSUME NEW i \in Interactions, NEW n, Known(n),
           Allowed \in Authorizations(Bundle(n), Prepared(i, Bundle(n)))
    PROVE  Passed(act(i), n, run[i].route)
<1> DEFINE v == Prepared(i, Bundle(n))
<1>1. /\ v.route = run[i].route /\ v.guild = act(i).guild
      /\ v.owner = act(i).owner /\ v.permissions = act(i).permissions
  BY DEF Prepared, Invocation
<1>2. Allowed # Silent
  BY DEF Allowed, Silent
<1> HIDE DEF v
<1>3. \A c \in ToSet(ChecksFor(Bundle(n), v.route)) : Passes(c, v)
  BY <1>2 DEF Authorizations, v
<1>4. \A c : Passes(c, v) = Passes(c, act(i))
  BY <1>1 DEF Passes
<1> QED BY <1>1, <1>3, <1>4 DEF Passed

\* Bundles that compile are definitions, and what users do has one of a few kinds.
LEMMA KnownAreDefinitions ==
    ASSUME PipelineInv
    PROVE  /\ \A n : Known(n) => /\ IsDefinition(Bundle(n)) /\ ValidDefinition(Bundle(n))
                                 /\ NoRepeats(Bundle(n).keys, KVKeys)
           /\ \A i \in Interactions : act(i).kind \in ActKinds
<1>1. cast \in Casts
  BY DEF PipelineInv, PipelineShape
<1>2. \A i \in Interactions : act(i).kind \in ActKinds
  BY <1>1, CastsAreWellFormed DEF act, ActKinds
<1> QED BY <1>2, DefinitionsAreWellFormed DEF Known, Bundle

\* A program is run along the route that the user's deed leads to.
LEMMA ResolvedLeads ==
    ASSUME PipelineInv, NEW i \in Interactions, NEW n, Known(n),
           Resolves(Bundle(n), Prepared(i, Bundle(n)))
    PROVE  Leads(Bundle(n), act(i), run[i].route)
<1>1. Prepared(i, Bundle(n)) = Invocation(Bundle(n), act(i), run[i].route, run[i].state)
  BY DEF Prepared
<1> QED BY <1>1, KnownAreDefinitions, ResolvedIsPlanned

\* A handler that is not on its way to its program has nothing to be cleared of.
LEMMA ElsewhereIsCleared ==
    ASSUME NEW a, NEW r, r.at \notin Admitted \ {"readmit"},
           r.at = "reply" => r.then # "run"
    PROVE  Cleared(a, r)
BY DEF Cleared, Admitted

\* A step of one handler leaves the others' records and the effects alone.
LEMMA OneHandlerMoves ==
    ASSUME PipelineInv, NEW i \in Interactions,
           HandlerPart(i) \/ ProgramPart(i) \/ AnswerPart(i) \/ AutomationPart(i)
    PROVE  /\ UNCHANGED cast
           /\ \A j \in Interactions \ {i} : run'[j] = run[j]
           /\ UNCHANGED effects \/ ExecuteEffect(i) \/ EffectFails(i)
<1>1. DOMAIN run = Interactions
  BY DEF PipelineInv, PipelineShape, RunShape
<1>2. CASE HandlerPart(i)
  BY <1>1, <1>2 DEF HandlerPart, CheckRestrictions, ReadClock, Take, Dispatch, CheckEnabled,
     MakePlan, Admit, Defer, Go, Reply
<1>3. CASE ProgramPart(i)
  BY <1>1, <1>3 DEF ProgramPart, RunAdmitted, Invoke, InvokeStale, ExecuteReply, ExecuteEffect,
     EffectFails, EffectConflicts, Go, Finish
<1>4. CASE AnswerPart(i)
  BY <1>1, <1>4 DEF AnswerPart, AnswerNothing, AnswerWith, ReportError, Deliver, DeliveryFails,
     Refuse, Go, Reply
<1>5. CASE AutomationPart(i)
  BY <1>1, <1>5 DEF AutomationPart, Fire, TakeToken, NextListener, Go
<1> QED BY <1>2, <1>3, <1>4, <1>5

\* A handler that moves to a stage without a program needs no clearance.
LEMMA GoKeepsCleared ==
    ASSUME PipelineInv, NEW i \in Interactions, NEW to, Go(i, to),
           to \notin (Admitted \ {"readmit"}) \cup {"reply"}
    PROVE  Cleared(act(i), run'[i])
<1>1. run'[i].at = to
  BY DEF Go, PipelineInv, PipelineShape, RunShape, RunFields
<1> QED BY <1>1, ElsewhereIsCleared

\* Nor does one whose call to Discord is its last.
LEMMA ReplyKeepsCleared ==
    ASSUME PipelineInv, NEW i \in Interactions, NEW reply, NEW then, NEW else,
           Reply(i, reply, then, else), then # "run"
    PROVE  Cleared(act(i), run'[i])
<1>1. run'[i].at = "reply" /\ run'[i].then = then
  BY DEF Reply, PipelineInv, PipelineShape, RunShape, RunFields
<1> QED BY <1>1, ElsewhereIsCleared DEF Admitted

\* Before the program: admission clears the bundle and the route it goes on with.
LEMMA HandlerPartKeepsCleared ==
    ASSUME PipelineInv, NEW i \in Interactions, Cleared(act(i), run[i]), HandlerPart(i)
    PROVE  Cleared(act(i), run'[i])
<1>1. CASE CheckRestrictions(i) \/ Take(i) \/ Dispatch(i) \/ CheckEnabled(i)
  BY <1>1, GoKeepsCleared, ReplyKeepsCleared DEF CheckRestrictions, Take, Dispatch,
     CheckEnabled, Admitted
<1>2. CASE ReadClock(i)
  <2>1. run'[i].at = "cooldown"
    BY <1>2 DEF ReadClock, PipelineInv, PipelineShape, RunShape, RunFields
  <2> QED BY <2>1, ElsewhereIsCleared DEF Admitted
<1>3. CASE MakePlan(i)
  <2>1. CASE \E k, defer, route :
                 run' = [run EXCEPT ![i] = [run[i] EXCEPT !.at = "admit", !.item = k,
                                                !.defer = defer, !.route = route]]
    <3>1. run'[i].at = "admit"
      BY <2>1 DEF PipelineInv, PipelineShape, RunShape, RunFields
    <3> QED BY <3>1, ElsewhereIsCleared DEF Admitted
  <2>2. CASE Go(i, "error") \/ Reply(i, "acknowledge", "done", "done")
    BY <2>2, GoKeepsCleared, ReplyKeepsCleared DEF Admitted
  <2> QED BY <1>3, <2>1, <2>2 DEF MakePlan
<1>4. CASE Defer(i)
  <2>1. Passed(act(i), run[i].def, run[i].route)
    BY <1>4 DEF Defer, Active, Cleared, Admitted
  <2>2. CASE Go(i, "run")
    <3>1. run'[i].at = "run" /\ run'[i].def = run[i].def /\ run'[i].route = run[i].route
      BY <2>2 DEF Go, PipelineInv, PipelineShape, RunShape, RunFields
    <3> QED BY <2>1, <3>1 DEF Cleared
  <2>3. ASSUME NEW reply, Reply(i, reply, "run", "error") PROVE Cleared(act(i), run'[i])
    <3>1. run'[i].at = "reply" /\ run'[i].def = run[i].def /\ run'[i].route = run[i].route
      BY <2>3 DEF Reply, PipelineInv, PipelineShape, RunShape, RunFields
    <3> QED BY <2>1, <3>1 DEF Cleared
  <2>4. CASE Go(i, "error")
    BY <2>4, GoKeepsCleared DEF Admitted
  <2> QED BY <1>4, <2>2, <2>3, <2>4 DEF Defer
<1>5. CASE Admit(i)
  <2> DEFINE n == IF run[i].at = "retry" THEN run[i].def ELSE served
             v == Prepared(i, Bundle(n))
  <2>1. CASE Go(i, "error")
    BY <2>1, GoKeepsCleared DEF Admitted
  <2>2. ASSUME NEW decision \in Authorizations(Bundle(n), v), n # 0,
               run' = [run EXCEPT ![i] =
                     CASE decision = Failed -> [@ EXCEPT !.at = "error"]
                       [] decision \notin {Failed, Allowed} ->
                              [@ EXCEPT !.at = "respond",
                                        !.terminal = DenialFor(v, decision.denial)]
                       [] decision = Allowed /\ @.at = "admit" ->
                              [@ EXCEPT !.at = "defer", !.def = n]
                       [] decision = Allowed /\ @.at = "readmit" ->
                              [@ EXCEPT !.at = "invoke", !.def = n, !.refreshed = TRUE,
                                        !.began = served, !.attempt = 1]
                       [] OTHER -> [@ EXCEPT !.at = "invoke"]]
        PROVE  Cleared(act(i), run'[i])
    <3>1. Failed # Allowed
      BY DEF Failed, Allowed
    <3>0. Known(n)
      <4>1. CASE run[i].at = "retry"
        BY <4>1 DEF Cleared, Passed, Admitted
      <4>2. CASE run[i].at # "retry"
        BY <2>2, <4>2 DEF PipelineInv, PipelineShape
      <4> QED BY <4>1, <4>2
    <3>2. decision = Allowed => Passed(act(i), n, run[i].route)
      BY <2>2, <3>0, AllowedMeansPassed
    <3>3. run[i].at # "retry" => n = served
      OBVIOUS
    <3>4. run[i].at = "retry" => n = run[i].def
      OBVIOUS
    <3>5. run[i].at \in {"admit", "readmit", "retry"}
      BY <1>5 DEF Admit
    <3>6. run[i].at = "retry" => run[i].began = run[i].def
      BY DEF Cleared
    <3> HIDE DEF n, v
    <3>7. CASE decision = Failed
      <4>1. run' = [run EXCEPT ![i] = [@ EXCEPT !.at = "error"]]
        BY <2>2, <3>1, <3>7
      <4> QED BY <4>1, GoKeepsCleared DEF Go, Admitted
    <3>8. CASE decision \notin {Failed, Allowed}
      <4>1. \E t : run' = [run EXCEPT ![i] = [run[i] EXCEPT !.at = "respond", !.terminal = t]]
        BY <2>2, <3>8
      <4>2. run'[i].at = "respond"
        BY <4>1 DEF PipelineInv, PipelineShape, RunShape, RunFields
      <4> QED BY <4>2, ElsewhereIsCleared DEF Admitted
    <3>9. CASE decision = Allowed /\ run[i].at = "admit"
      <4>1. run' = [run EXCEPT ![i] = [@ EXCEPT !.at = "defer", !.def = n]]
        BY <2>2, <3>1, <3>9
      <4>2. run'[i].at = "defer" /\ run'[i].def = n /\ run'[i].route = run[i].route
        BY <4>1 DEF PipelineInv, PipelineShape, RunShape, RunFields
      <4> QED BY <3>2, <3>9, <4>2 DEF Cleared
    <3>10. CASE decision = Allowed /\ run[i].at = "readmit"
      <4>1. run' = [run EXCEPT ![i] = [@ EXCEPT !.at = "invoke", !.def = n,
                                                !.refreshed = TRUE, !.began = served,
                                                !.attempt = 1]]
        BY <2>2, <3>1, <3>10
      <4>2. /\ run'[i].at = "invoke" /\ run'[i].def = n /\ run'[i].began = served
            /\ run'[i].route = run[i].route
        BY <4>1 DEF PipelineInv, PipelineShape, RunShape, RunFields
      <4> QED BY <3>2, <3>3, <3>10, <4>2 DEF Cleared
    <3>11. CASE decision = Allowed /\ run[i].at = "retry"
      <4>1. run' = [run EXCEPT ![i] = [@ EXCEPT !.at = "invoke"]]
        BY <2>2, <3>1, <3>11
      <4>2. /\ run'[i].at = "invoke" /\ run'[i].def = run[i].def
            /\ run'[i].began = run[i].began /\ run'[i].route = run[i].route
        BY <4>1 DEF PipelineInv, PipelineShape, RunShape, RunFields
      <4> QED BY <3>2, <3>4, <3>6, <3>11, <4>2 DEF Cleared
    <3> QED BY <3>5, <3>7, <3>8, <3>9, <3>10, <3>11
  <2> QED BY <1>5, <2>1, <2>2 DEF Admit
<1> QED BY <1>1, <1>2, <1>3, <1>4, <1>5 DEF HandlerPart

\* During the program: what was cleared is what runs, also in a retry.
LEMMA ProgramPartKeepsCleared ==
    ASSUME PipelineInv, NEW i \in Interactions, Cleared(act(i), run[i]), ProgramPart(i)
    PROVE  Cleared(act(i), run'[i])
<1> DEFINE r == run[i]
<1>1. DOMAIN run = Interactions /\ DOMAIN r = RunFields
  BY DEF PipelineInv, PipelineShape, RunShape
<1>2. ASSUME NEW to \in {"error", "readmit"}, Go(i, to) PROVE Cleared(act(i), run'[i])
  BY <1>2, GoKeepsCleared DEF Admitted
<1>3. ASSUME NEW terminal, Finish(i, terminal) PROVE Cleared(act(i), run'[i])
  <2>1. run'[i].at = "respond"
    BY <1>1, <1>3 DEF Finish, RunFields
  <2> QED BY <2>1, ElsewhereIsCleared DEF Admitted
<1>4. CASE RunAdmitted(i)
  <2>1. Passed(act(i), r.def, r.route)
    BY <1>4 DEF RunAdmitted, Active, Cleared, Admitted
  <2>2. /\ run'[i].began = served /\ run'[i].def = r.def /\ run'[i].route = r.route
        /\ run'[i].at \in {"invoke", "readmit"}
        /\ run'[i].at = "invoke" => served = r.def
    BY <1>1, <1>4 DEF RunAdmitted, RunFields
  <2> QED BY <2>1, <2>2 DEF Cleared, Admitted
<1>5. CASE Invoke(i)
  <2>1. /\ r.at = "invoke" /\ Passed(act(i), r.def, r.route) /\ r.began = r.def
    BY <1>5 DEF Invoke, Active, Cleared, Admitted
  <2>2. CASE Go(i, "error")
    BY <1>2, <2>2
  <2>3. ASSUME NEW outcome, Granted(Bundle(r.def), outcome),
               Resolves(Bundle(r.def), Prepared(i, Bundle(r.def))),
               run' = [run EXCEPT ![i] = [@ EXCEPT !.at = "execute", !.outcome = outcome,
                                                   !.op = 1, !.executed = FALSE]]
        PROVE  Cleared(act(i), run'[i])
    <3>1. /\ run'[i].at = "execute" /\ run'[i].outcome = outcome
          /\ run'[i].def = r.def /\ run'[i].route = r.route /\ run'[i].began = r.began
      BY <1>1, <2>3 DEF RunFields
    <3>2. Leads(Bundle(r.def), act(i), r.route)
      BY <2>1, <2>3, ResolvedLeads DEF Passed
    <3> QED BY <2>1, <2>3, <3>1, <3>2 DEF Cleared
  <2> QED BY <1>5, <2>2, <2>3 DEF Invoke, Invocable
<1>6. CASE InvokeStale(i) \/ ExecuteReply(i)
  BY <1>2, <1>3, <1>6 DEF InvokeStale, ExecuteReply
<1>7. ASSUME r.at = "execute", run' = [run EXCEPT ![i] = Past(@)]
      PROVE  Cleared(act(i), run'[i])
  <2>1. /\ run'[i].at = "execute" /\ run'[i].outcome = r.outcome
        /\ run'[i].def = r.def /\ run'[i].route = r.route /\ run'[i].began = r.began
    BY <1>1, <1>7 DEF Past, RunFields
  <2> QED BY <1>7, <2>1 DEF Cleared, Admitted
<1>8. CASE ExecuteEffect(i) \/ EffectFails(i)
  BY <1>2, <1>3, <1>7, <1>8 DEF ExecuteEffect, EffectFails, HasOperation, Active
<1>9. CASE EffectConflicts(i)
  <2>1. /\ r.at = "execute" /\ Passed(act(i), r.def, r.route) /\ r.began = r.def
    BY <1>9 DEF EffectConflicts, HasOperation, Active, Cleared, Admitted
  <2>2. \/ Go(i, "error")
        \/ \E n : run' = [run EXCEPT ![i] = [run[i] EXCEPT !.at = "retry", !.attempt = n]]
    BY <1>9 DEF EffectConflicts, Go
  <2>3. ASSUME NEW n, run' = [run EXCEPT ![i] = [run[i] EXCEPT !.at = "retry", !.attempt = n]]
        PROVE  Cleared(act(i), run'[i])
    <3>1. /\ run'[i].at = "retry"
          /\ run'[i].def = r.def /\ run'[i].route = r.route /\ run'[i].began = r.began
      BY <1>1, <2>3 DEF RunFields
    <3> QED BY <2>1, <3>1 DEF Cleared
  <2> QED BY <1>2, <2>2, <2>3
<1> QED BY <1>4, <1>5, <1>6, <1>8, <1>9 DEF ProgramPart

\* After the program, and across a deferral: only a deferral goes on to run.
LEMMA AnswerPartKeepsCleared ==
    ASSUME PipelineInv, NEW i \in Interactions, Cleared(act(i), run[i]), AnswerPart(i)
    PROVE  Cleared(act(i), run'[i])
<1>1. ASSUME NEW to \in {"error", "next", "done"}, Go(i, to)
      PROVE  Cleared(act(i), run'[i])
  BY <1>1, GoKeepsCleared DEF Admitted
<1>2. ASSUME NEW reply, NEW else, Reply(i, reply, "done", else)
      PROVE  Cleared(act(i), run'[i])
  BY <1>2, ReplyKeepsCleared
<1>3. CASE AnswerNothing(i)
  BY <1>1, <1>2, <1>3 DEF AnswerNothing, End
<1>4. CASE AnswerWith(i) \/ ReportError(i)
  BY <1>1, <1>2, <1>4 DEF AnswerWith, ReportError
<1>5. CASE Deliver(i)
  <2>1. /\ run[i].at = "reply" /\ run[i].then \in {"done", "run"}
    BY <1>5, WhileReplying DEF Deliver, HandlerWell, ReplyHolds
  <2>2. /\ run'[i].at = run[i].then /\ run'[i].def = run[i].def
        /\ run'[i].route = run[i].route
    BY <1>5 DEF Deliver, PipelineInv, PipelineShape, RunShape, RunFields
  <2> QED BY <2>1, <2>2 DEF Cleared, Admitted
<1>6. CASE DeliveryFails(i) \/ Refuse(i)
  <2>1. Go(i, run[i].else) /\ Active(i, "reply")
    BY <1>6 DEF DeliveryFails, Refuse
  <2>2. run[i].else \in {"done", "error"}
    BY <2>1, FailedCallKeepsWell
  <2> QED BY <1>1, <2>1, <2>2
<1> QED BY <1>3, <1>4, <1>5, <1>6 DEF AnswerPart

\* An automation is admitted before each of its listeners.
LEMMA AutomationPartKeepsCleared ==
    ASSUME PipelineInv, NEW i \in Interactions, AutomationPart(i)
    PROVE  Cleared(act(i), run'[i])
<1>1. run'[i].at \in {"done", "limit", "next", "admit"}
  <2>1. CASE Fire(i)
    BY <2>1 DEF Fire, Go, PipelineInv, PipelineShape, RunShape, RunFields
  <2>2. CASE TakeToken(i)
    <3>1. \/ \E todo : run' = [run EXCEPT ![i] = [run[i] EXCEPT !.at = "next", !.todo = todo]]
          \/ run' = [run EXCEPT ![i] = [run[i] EXCEPT !.at = "done"]]
      BY <2>2 DEF TakeToken
    <3>2. i \in DOMAIN run /\ "at" \in DOMAIN run[i]
      BY DEF PipelineInv, PipelineShape, RunShape, RunFields
    <3>3. ASSUME NEW todo,
                 run' = [run EXCEPT ![i] = [run[i] EXCEPT !.at = "next", !.todo = todo]]
          PROVE  run'[i].at = "next"
      BY <3>2, <3>3
    <3>4. CASE run' = [run EXCEPT ![i] = [run[i] EXCEPT !.at = "done"]]
      BY <3>2, <3>4
    <3> QED BY <3>1, <3>3, <3>4
  <2>3. CASE NextListener(i)
    <3>1. \/ run' = [run EXCEPT ![i] = [run[i] EXCEPT !.at = "done"]]
          \/ \E todo, k, route : run' = [run EXCEPT ![i] =
                 [NewRun(act(i)) EXCEPT !.at = "admit", !.todo = todo, !.item = k,
                                        !.route = route]]
      BY <2>3 DEF NextListener
    <3>2. ASSUME NEW todo, NEW k, NEW route, run' = [run EXCEPT ![i] =
                 [NewRun(act(i)) EXCEPT !.at = "admit", !.todo = todo, !.item = k,
                                        !.route = route]]
          PROVE  run'[i].at = "admit"
      BY <3>2 DEF PipelineInv, PipelineShape, RunShape, NewRun
    <3>3. CASE run' = [run EXCEPT ![i] = [run[i] EXCEPT !.at = "done"]]
      BY <3>3 DEF PipelineInv, PipelineShape, RunShape, RunFields
    <3> QED BY <3>1, <3>2, <3>3
  <2> QED BY <2>1, <2>2, <2>3 DEF AutomationPart
<1> QED BY <1>1, ElsewhereIsCleared DEF Admitted

\* The effect of an operation that was cleared is allowed.
LEMMA ClearedEffectsAreAllowed ==
    ASSUME PipelineInv, NEW i \in Interactions, Cleared(act(i), run[i]),
           ExecuteEffect(i) \/ EffectFails(i), NEW e \in effects'
    PROVE  e \in effects \/ EffectAllowed(e)
<1> DEFINE o == Current(i)
           new == [who |-> i, def |-> run[i].def, route |-> run[i].route,
                   began |-> run[i].began, kind |-> o.kind]
<1>1. /\ effects' = effects \cup {new} \/ effects' = effects
      /\ Active(i, "execute") /\ run[i].op <= Len(run[i].outcome)
  BY DEF ExecuteEffect, EffectFails, TakesEffect, Effect, HasOperation
<1>2. /\ run[i].began = run[i].def /\ Passed(act(i), run[i].def, run[i].route)
      /\ Granted(Bundle(run[i].def), run[i].outcome)
      /\ Leads(Bundle(run[i].def), act(i), run[i].route)
  BY <1>1 DEF Cleared, Active, Admitted
<1>3. run[i].op \in 1..Len(run[i].outcome) /\ run[i].outcome \in Seq(ToSet(run[i].outcome))
  BY <1>1, WhileExecuting DEF OutcomeHolds
<1>4. o \in ToSet(run[i].outcome)
  BY <1>3 DEF Current, ToSet
<1>5. RequiredCapability(o) \in Bundle(run[i].def).capabilities \cup {"none"}
  BY <1>2, <1>4 DEF Granted
<1>6. /\ new.who = i /\ new.def = run[i].def /\ new.route = run[i].route
      /\ new.began = run[i].began /\ new.kind = o.kind
  OBVIOUS
<1> HIDE DEF o, new
<1>7. RequiredCapability(new) = RequiredCapability(o)
  BY <1>6 DEF RequiredCapability
<1> QED BY <1>1, <1>2, <1>5, <1>6, <1>7 DEF EffectAllowed

\* Every step keeps what is known of effects and of those that may have some.
LEMMA EffectStep ==
    ASSUME PipelineInv, EffectInv, [PipelineNext]_allVars
    PROVE  EffectInv'
<1>1. ASSUME UNCHANGED <<run, cast, effects>> PROVE EffectInv'
  BY <1>1 DEF EffectInv, EffectAllowed, act
<1>2. CASE Reload \/ Unload \/ Tick \/ UNCHANGED allVars
  BY <1>1, <1>2 DEF Reload, Unload, Tick, allVars
<1>3. ASSUME NEW i \in Interactions, PipelineStep(i) PROVE EffectInv'
  <2>1. CASE LaunchHandler(i) \/ FinishHandler(i) \/ PanicHandler(i)
    BY <1>1, <2>1 DEF LaunchHandler, FinishHandler, PanicHandler
  <2>2. CASE DispatcherStep(i)
    BY <1>1, <2>2 DEF DispatcherStep, Reject, Beyond
  <2>3. CASE HandlerPart(i) \/ ProgramPart(i) \/ AnswerPart(i) \/ AutomationPart(i)
    <3>1. /\ UNCHANGED cast
          /\ \A j \in Interactions \ {i} : run'[j] = run[j]
          /\ UNCHANGED effects \/ ExecuteEffect(i) \/ EffectFails(i)
      BY <2>3, OneHandlerMoves
    <3>2. Cleared(act(i), run[i])
      BY DEF EffectInv
    <3>3. Cleared(act(i), run'[i])
      BY <2>3, <3>2, HandlerPartKeepsCleared, ProgramPartKeepsCleared,
         AnswerPartKeepsCleared, AutomationPartKeepsCleared
    <3>4. \A j \in Interactions : act(j)' = act(j)
      BY <3>1 DEF act
    <3>5. \A j \in Interactions : Cleared(act(j)', run'[j])
      BY <3>1, <3>3, <3>4 DEF EffectInv
    <3>6. \A e \in effects' : EffectAllowed(e)
      BY <3>1, <3>2, ClearedEffectsAreAllowed DEF EffectInv
    <3>7. \A e : EffectAllowed(e)' = EffectAllowed(e)
      BY <3>1 DEF EffectAllowed, act
    <3> QED BY <3>5, <3>6, <3>7 DEF EffectInv
  <2> QED BY <1>3, <2>1, <2>2, <2>3 DEF PipelineStep
<1> QED BY <1>2, <1>3 DEF PipelineNext

\* So it holds from the first state on.
LEMMA EffectsKeepTheirInvariant == PipelineSpec => []EffectInv
<1>1. PipelineInit => EffectInv
  <2> SUFFICES ASSUME PipelineInit PROVE EffectInv
    OBVIOUS
  <2>1. ASSUME NEW i \in Interactions
        PROVE  run[i].at \in {"preflight", "enabled", "done", "fire", "clock"}
    <3>1. run[i] = NewRun(act(i))
      BY DEF PipelineInit
    <3>2. act(i).kind \in InteractionKinds \cup {"event", "task", "absent"}
      BY CastsAreWellFormed DEF PipelineInit, act
    <3>3. CASE act(i).kind \in InteractionKinds
      BY <3>1, <3>3 DEF NewRun, Start, InteractionKinds
    <3>4. CASE act(i).kind \in {"event", "task", "absent"}
      BY <3>1, <3>4 DEF NewRun, Start
    <3> QED BY <3>2, <3>3, <3>4
  <2> QED BY <2>1, ElsewhereIsCleared DEF EffectInv, Admitted, PipelineInit
<1>2. PipelineInv /\ EffectInv /\ [PipelineNext]_allVars => EffectInv'
  BY EffectStep
<1> QED BY <1>1, <1>2, PipelineInvariant, PTL DEF PipelineSpec

\* Every effect is one of the bundle that was loaded when its run began, which has the
\* capability for it and whose checks the user passed: however often the plugin was
\* replaced between admission and execution, and whatever was retried.
THEOREM EffectsWereAllowed == PipelineSpec => [](\A e \in effects : EffectAllowed(e))
<1>1. EffectInv => \A e \in effects : EffectAllowed(e)
  BY DEF EffectInv
<1> QED BY <1>1, EffectsKeepTheirInvariant, PTL

\* An allowed effect is authorised: its route is one the user's deed leads to, by a
\* command, a handler or a listener that is the only one along it; and whoever passes
\* what checksForRoute collected for the route is entitled to that item, by all that
\* its cog and the commands above it ask.
LEMMA AllowedIsAuthorized ==
    ASSUME PipelineInv, \A e \in effects : EffectAllowed(e)
    PROVE  EffectsAuthorized
<1> SUFFICES ASSUME NEW e \in effects
             PROVE  LET d == Bundle(e.def)
                        a == act(e.who)
                    IN  /\ e.def = e.began
                        /\ RequiredCapability(e) \in d.capabilities \cup {"none"}
                        /\ \E k \in Planned(d, a) :
                               /\ PlannedRoute(d, k, a) = e.route
                               /\ Suggesters(d, e.route) \subseteq {k} => Entitled(d, k, a)
  BY DEF EffectsAuthorized
<1> DEFINE d == Bundle(e.def)
           a == act(e.who)
<1>1. /\ e.who \in Interactions /\ e.def = e.began
      /\ RequiredCapability(e) \in d.capabilities \cup {"none"}
      /\ Passed(a, e.def, e.route) /\ Leads(d, a, e.route)
  BY DEF EffectAllowed
<1>2. IsDefinition(d) /\ ValidDefinition(d) /\ a.kind \in ActKinds
  BY <1>1, KnownAreDefinitions DEF Passed
<1>3. \A c \in ToSet(ChecksFor(d, e.route)) : Passes(c, a)
  BY <1>1 DEF Passed
<1> HIDE DEF d, a
<1>4. PICK k \in Planned(d, a) : PlannedRoute(d, k, a) = e.route
  BY <1>1 DEF Leads
<1>5. k \in Items(d)
  BY DEF Planned, OfKinds
<1>6. ASSUME Suggesters(d, e.route) \subseteq {k} PROVE Entitled(d, k, a)
  <2>1. Holders(d, e.route) = {k}
    BY <1>2, <1>4, <1>6, PlannedStandAlone
  <2> QED BY <1>2, <1>3, <1>5, <2>1, PassedMeansEntitled
<1> QED BY <1>1, <1>4, <1>6 DEF d, a

\* Whatever admitted a handler, whatever was planned and however often the plugin was
\* replaced on the way: an effect is authorised by the definition it is executed with.
THEOREM EffectsAreAuthorized == PipelineSpec => []EffectsAuthorized
<1>1. PipelineInv /\ (\A e \in effects : EffectAllowed(e)) => EffectsAuthorized
  BY AllowedIsAuthorized
<1> QED BY <1>1, PipelineInvariant, EffectsWereAllowed, PTL

-----------------------------------------------------------------------------
(* Plans and invocations. *)

\* The stages after the deferral was sent, if there is one.
Running == {"run", "readmit", "retry", "invoke", "execute"}

\* The state a handler carries along is the one its item's deferral leads to; only an
\* answer to a message is deferred by an update.
StateKept(a, r) ==
    /\ r.at \in Entering => r.state = StateWhenRun(a, "none")
    /\ r.at \in Running =>
           /\ r.state = StateWhenRun(a, r.defer)
           /\ r.state = "deferred_update" => FromMessage(a)
    /\ r.at = "reply" /\ r.then = "run" =>
           /\ a.kind \in InteractionKinds \ {"autocomplete"}
           /\ \/ r.reply = "defer_create" /\ r.defer = "create"
              \/ r.reply = "defer_update" /\ r.defer = "update" /\ FromMessage(a)

\* Elsewhere there is nothing to keep.
LEMMA ElsewhereStateIsKept ==
    ASSUME NEW a, NEW r, r.at \notin Entering \cup Running, r.at = "reply" => r.then # "run"
    PROVE  StateKept(a, r)
BY DEF StateKept

LEMMA GoKeepsState ==
    ASSUME PipelineInv, NEW i \in Interactions, NEW to, Go(i, to), StateKept(act(i), run[i]),
           \/ to \notin Entering \cup Running \cup {"reply"}
           \/ to \in Entering /\ run[i].at \in Entering
           \/ to \in Running /\ run[i].at \in Running
    PROVE  StateKept(act(i), run'[i])
<1>1. /\ run'[i].at = to /\ run'[i].state = run[i].state /\ run'[i].defer = run[i].defer
  BY DEF Go, PipelineInv, PipelineShape, RunShape, RunFields
<1> QED BY <1>1 DEF StateKept, Entering, Running

LEMMA ReplyKeepsStates ==
    ASSUME PipelineInv, NEW i \in Interactions, NEW reply, NEW then, NEW else,
           Reply(i, reply, then, else), then # "run"
    PROVE  StateKept(act(i), run'[i])
<1>1. run'[i].at = "reply" /\ run'[i].then = then
  BY DEF Reply, PipelineInv, PipelineShape, RunShape, RunFields
<1> QED BY <1>1, ElsewhereStateIsKept DEF Entering, Running

\* A record that keeps its state and its deferral.
LEMMA SameStateIsKept ==
    ASSUME NEW a, NEW r, NEW t, StateKept(a, r),
           t.state = r.state, t.defer = r.defer,
           \/ r.at \in Running /\ t.at \in Running
           \/ r.at \in Entering /\ t.at \in Entering
           \/ t.at \notin Entering \cup Running \cup {"reply"}
    PROVE  StateKept(a, t)
BY DEF StateKept, Entering, Running

\* Up to the deferral; none leaves the state as it is.
LEMMA HandlerPartKeepsState ==
    ASSUME PipelineInv, NEW i \in Interactions, StateKept(act(i), run[i]), HandlerPart(i)
    PROVE  StateKept(act(i), run'[i])
<1>1. i \in DOMAIN run /\ DOMAIN run[i] = RunFields
  BY DEF PipelineInv, PipelineShape, RunShape
<1>2. CASE CheckRestrictions(i) \/ Take(i) \/ Dispatch(i) \/ CheckEnabled(i)
  BY <1>2, GoKeepsState, ReplyKeepsStates DEF CheckRestrictions, Take, Dispatch,
     CheckEnabled, Active, Entering, Running
<1>3. CASE ReadClock(i)
  <2>1. /\ run'[i].at = "cooldown" /\ run[i].at = "clock"
        /\ run'[i].state = run[i].state /\ run'[i].defer = run[i].defer
    BY <1>1, <1>3 DEF ReadClock, Active, RunFields
  <2> QED BY <2>1, SameStateIsKept DEF Entering
<1>4. CASE MakePlan(i)
  <2>1. CASE \E k, defer, route :
                 run' = [run EXCEPT ![i] = [run[i] EXCEPT !.at = "admit", !.item = k,
                                                !.defer = defer, !.route = route]]
    <3>1. run'[i].at = "admit" /\ run'[i].state = run[i].state
      BY <1>1, <2>1 DEF RunFields
    <3>2. run[i].at = "plan"
      BY <1>4 DEF MakePlan, Active
    <3> QED BY <3>1, <3>2 DEF StateKept, Entering, Running
  <2>2. CASE Go(i, "error") \/ Reply(i, "acknowledge", "done", "done")
    BY <2>2, GoKeepsState, ReplyKeepsStates DEF Entering, Running
  <2> QED BY <1>4, <2>1, <2>2 DEF MakePlan
<1>5. CASE Defer(i)
  <2>1. run[i].at = "defer" /\ run[i].state = StateWhenRun(act(i), "none")
    BY <1>5 DEF Defer, Active, StateKept, Entering
  <2>2. ASSUME run[i].defer = "none" \/ act(i).kind = "autocomplete" \/ Automated(i),
               Go(i, "run")
        PROVE  StateKept(act(i), run'[i])
    <3>1. /\ run'[i].at = "run" /\ run'[i].state = run[i].state
          /\ run'[i].defer = run[i].defer
      BY <1>1, <2>2 DEF Go, RunFields
    <3>2. run[i].state = StateWhenRun(act(i), run[i].defer)
      BY <2>1, <2>2 DEF StateWhenRun, Automated
    <3>3. run[i].state # "deferred_update"
      BY <2>1 DEF StateWhenRun, Deferred
    <3> QED BY <3>1, <3>2, <3>3 DEF StateKept, Entering
  <2>3. ASSUME NEW reply, Reply(i, reply, "run", "error"),
               act(i).kind \in InteractionKinds \ {"autocomplete"},
               \/ reply = "defer_create" /\ run[i].defer = "create"
               \/ reply = "defer_update" /\ run[i].defer = "update" /\ FromMessage(act(i))
        PROVE  StateKept(act(i), run'[i])
    <3>1. /\ run'[i].at = "reply" /\ run'[i].then = "run" /\ run'[i].reply = reply
          /\ run'[i].defer = run[i].defer
      BY <1>1, <2>3 DEF Reply, RunFields
    <3> QED BY <2>3, <3>1 DEF StateKept, Entering, Running
  <2>4. CASE Go(i, "error")
    BY <2>4, GoKeepsState DEF Entering, Running
  <2>5. FromMessage(act(i)) => act(i).kind \in InteractionKinds \ {"autocomplete"}
    BY DEF FromMessage, InteractionKinds
  <2> QED BY <1>5, <2>2, <2>3, <2>4, <2>5 DEF Defer
<1>6. CASE Admit(i)
  <2> DEFINE n == IF run[i].at = "retry" THEN run[i].def ELSE served
             v == Prepared(i, Bundle(n))
  <2>1. /\ run'[i].state = run[i].state /\ run'[i].defer = run[i].defer
        /\ \/ run'[i].at \in {"error", "respond"}
           \/ run'[i].at = "defer" /\ run[i].at = "admit"
           \/ run'[i].at = "invoke" /\ run[i].at \in {"readmit", "retry"}
    <3>1. CASE Go(i, "error")
      BY <1>1, <3>1 DEF Go, RunFields
    <3>2. ASSUME NEW decision \in Authorizations(Bundle(n), v), n # 0,
               run' = [run EXCEPT ![i] =
                     CASE decision = Failed -> [@ EXCEPT !.at = "error"]
                       [] decision \notin {Failed, Allowed} ->
                              [@ EXCEPT !.at = "respond",
                                        !.terminal = DenialFor(v, decision.denial)]
                       [] decision = Allowed /\ @.at = "admit" ->
                              [@ EXCEPT !.at = "defer", !.def = n]
                       [] decision = Allowed /\ @.at = "readmit" ->
                              [@ EXCEPT !.at = "invoke", !.def = n, !.refreshed = TRUE,
                                        !.began = served, !.attempt = 1]
                       [] OTHER -> [@ EXCEPT !.at = "invoke"]]
          PROVE  /\ run'[i].state = run[i].state /\ run'[i].defer = run[i].defer
                 /\ \/ run'[i].at \in {"error", "respond"}
                    \/ run'[i].at = "defer" /\ run[i].at = "admit"
                    \/ run'[i].at = "invoke" /\ run[i].at \in {"readmit", "retry"}
      <4> HIDE DEF n, v
      <4>1. Failed # Allowed
        BY DEF Failed, Allowed
      <4>2. run[i].at \in {"admit", "readmit", "retry"}
        BY <1>6 DEF Admit
      <4>3. CASE decision = Failed
        <5>1. run' = [run EXCEPT ![i] = [run[i] EXCEPT !.at = "error"]]
          BY <3>2, <4>1, <4>3
        <5> QED BY <1>1, <5>1 DEF RunFields
      <4>4. CASE decision \notin {Failed, Allowed}
        <5>1. \E t : run' = [run EXCEPT ![i] = [run[i] EXCEPT !.at = "respond", !.terminal = t]]
          BY <3>2, <4>4
        <5> QED BY <1>1, <5>1 DEF RunFields
      <4>5. CASE decision = Allowed /\ run[i].at = "admit"
        <5>1. run' = [run EXCEPT ![i] = [run[i] EXCEPT !.at = "defer", !.def = n]]
          BY <3>2, <4>1, <4>5
        <5> QED BY <1>1, <4>5, <5>1 DEF RunFields
      <4>6. CASE decision = Allowed /\ run[i].at = "readmit"
        <5>1. run' = [run EXCEPT ![i] = [run[i] EXCEPT !.at = "invoke", !.def = n,
                                             !.refreshed = TRUE, !.began = served,
                                             !.attempt = 1]]
          BY <3>2, <4>1, <4>6
        <5> QED BY <1>1, <4>6, <5>1 DEF RunFields
      <4>7. CASE decision = Allowed /\ run[i].at = "retry"
        <5>1. run' = [run EXCEPT ![i] = [run[i] EXCEPT !.at = "invoke"]]
          BY <3>2, <4>1, <4>7
        <5> QED BY <1>1, <4>7, <5>1 DEF RunFields
      <4> QED BY <4>2, <4>3, <4>4, <4>5, <4>6, <4>7
    <3> QED BY <1>6, <3>1, <3>2 DEF Admit
  <2> QED BY <2>1, SameStateIsKept DEF Entering, Running
<1> QED BY <1>2, <1>3, <1>4, <1>5, <1>6 DEF HandlerPart

\* The program and its effects, also in a retry.
LEMMA ProgramPartKeepsState ==
    ASSUME PipelineInv, NEW i \in Interactions, StateKept(act(i), run[i]), ProgramPart(i)
    PROVE  StateKept(act(i), run'[i])
<1> DEFINE r == run[i]
<1>1. DOMAIN run = Interactions /\ DOMAIN r = RunFields
  BY DEF PipelineInv, PipelineShape, RunShape
<1>2. r.at \in Running
  BY DEF ProgramPart, RunAdmitted, Invoke, InvokeStale, ExecuteReply, ExecuteEffect,
     EffectFails, EffectConflicts, HasOperation, Active, Running
<1>3. /\ run'[i].state = r.state /\ run'[i].defer = r.defer
      /\ run'[i].at \in Running \cup {"error", "respond"}
  <2>1. CASE RunAdmitted(i)
    BY <1>1, <2>1 DEF RunAdmitted, RunFields, Running
  <2>2. CASE Invoke(i)
    BY <1>1, <2>2 DEF Invoke, Go, RunFields, Running
  <2>3. CASE InvokeStale(i)
    BY <1>1, <2>3 DEF InvokeStale, Go, RunFields, Running
  <2>4. CASE ExecuteReply(i)
    BY <1>1, <2>4 DEF ExecuteReply, Finish, RunFields
  <2>5. CASE ExecuteEffect(i)
    BY <1>1, <1>2, <2>5 DEF ExecuteEffect, Past, RunFields
  <2>6. CASE EffectFails(i)
    BY <1>1, <1>2, <2>6 DEF EffectFails, Finish, Go, Past, RunFields
  <2>7. CASE EffectConflicts(i)
    <3>1. \/ run' = [run EXCEPT ![i] = [run[i] EXCEPT !.at = "error"]]
          \/ \E n : run' = [run EXCEPT ![i] = [run[i] EXCEPT !.at = "retry", !.attempt = n]]
      BY <2>7 DEF EffectConflicts
    <3> QED BY <1>1, <3>1 DEF RunFields, Running
  <2> QED BY <2>1, <2>2, <2>3, <2>4, <2>5, <2>6, <2>7 DEF ProgramPart
<1> QED BY <1>2, <1>3, SameStateIsKept DEF Entering, Running

\* A deferral that is delivered leads to the state the item's program runs in.
LEMMA AnswerPartKeepsState ==
    ASSUME PipelineInv, NEW i \in Interactions, StateKept(act(i), run[i]), AnswerPart(i)
    PROVE  StateKept(act(i), run'[i])
<1>1. ASSUME NEW to \in {"error", "next", "done"}, Go(i, to)
      PROVE  StateKept(act(i), run'[i])
  BY <1>1, GoKeepsState DEF Entering, Running
<1>2. ASSUME NEW reply, NEW else, Reply(i, reply, "done", else)
      PROVE  StateKept(act(i), run'[i])
  BY <1>2, ReplyKeepsStates
<1>3. CASE AnswerNothing(i)
  BY <1>1, <1>2, <1>3 DEF AnswerNothing, End
<1>4. CASE AnswerWith(i) \/ ReportError(i)
  BY <1>1, <1>2, <1>4 DEF AnswerWith, ReportError
<1>5. CASE Deliver(i)
  <2>1. run[i].at = "reply" /\ run[i].then \in {"done", "run"}
    BY <1>5, WhileReplying DEF Deliver, HandlerWell, ReplyHolds
  <2>2. /\ run'[i].at = run[i].then /\ run'[i].defer = run[i].defer
        /\ run'[i].state = StateAfter(run[i])
    BY <1>5 DEF Deliver, PipelineInv, PipelineShape, RunShape, RunFields
  <2>3. CASE run[i].then = "done"
    BY <2>2, <2>3, ElsewhereStateIsKept DEF Entering, Running
  <2>4. CASE run[i].then = "run"
    <3>1. /\ act(i).kind \in InteractionKinds \ {"autocomplete"}
          /\ \/ run[i].reply = "defer_create" /\ run[i].defer = "create"
             \/ /\ run[i].reply = "defer_update" /\ run[i].defer = "update"
                /\ FromMessage(act(i))
      BY <2>1, <2>4 DEF StateKept
    <3>2. StateAfter(run[i]) = Deferred(run[i].defer)
      BY <3>1 DEF StateAfter, Deferred
    <3>3. StateWhenRun(act(i), run[i].defer) = Deferred(run[i].defer)
      BY <3>1 DEF StateWhenRun, InteractionKinds
    <3>4. Deferred(run[i].defer) = "deferred_update" => FromMessage(act(i))
      BY <3>1 DEF Deferred
    <3> QED BY <2>2, <2>4, <3>2, <3>3, <3>4 DEF StateKept, Entering
  <2> QED BY <2>1, <2>3, <2>4
<1>6. CASE DeliveryFails(i) \/ Refuse(i)
  <2>1. Go(i, run[i].else) /\ Active(i, "reply")
    BY <1>6 DEF DeliveryFails, Refuse
  <2>2. run[i].else \in {"done", "error"}
    BY <2>1, FailedCallKeepsWell
  <2> QED BY <1>1, <2>1, <2>2
<1> QED BY <1>3, <1>4, <1>5, <1>6 DEF AnswerPart

\* Each listener starts from the beginning.
LEMMA AutomationPartKeepsState ==
    ASSUME PipelineInv, NEW i \in Interactions, AutomationPart(i)
    PROVE  StateKept(act(i), run'[i])
<1>1. i \in DOMAIN run /\ DOMAIN run[i] = RunFields
  BY DEF PipelineInv, PipelineShape, RunShape
<1>2. CASE Fire(i) \/ TakeToken(i)
  <2>1. \/ \E to \in {"done", "limit"} : Go(i, to)
        \/ \E todo : run' = [run EXCEPT ![i] = [run[i] EXCEPT !.at = "next", !.todo = todo]]
        \/ run' = [run EXCEPT ![i] = [run[i] EXCEPT !.at = "done"]]
    BY <1>2 DEF Fire, TakeToken
  <2>2. run'[i].at \in {"done", "limit", "next"}
    BY <1>1, <2>1 DEF Go, RunFields
  <2> QED BY <2>2, ElsewhereStateIsKept DEF Entering, Running
<1>3. CASE NextListener(i)
  <2>1. \/ run' = [run EXCEPT ![i] = [run[i] EXCEPT !.at = "done"]]
        \/ \E todo, k, route : run' = [run EXCEPT ![i] =
               [NewRun(act(i)) EXCEPT !.at = "admit", !.todo = todo, !.item = k,
                                      !.route = route]]
    BY <1>3 DEF NextListener
  <2>2. CASE run' = [run EXCEPT ![i] = [run[i] EXCEPT !.at = "done"]]
    <3>1. run'[i].at = "done"
      BY <1>1, <2>2 DEF RunFields
    <3> QED BY <3>1, ElsewhereStateIsKept DEF Entering, Running
  <2>3. ASSUME NEW todo, NEW k, NEW route, run' = [run EXCEPT ![i] =
               [NewRun(act(i)) EXCEPT !.at = "admit", !.todo = todo, !.item = k,
                                      !.route = route]]
        PROVE  StateKept(act(i), run'[i])
    <3>1. run'[i].at = "admit" /\ run'[i].state = NewRun(act(i)).state
      BY <1>1, <2>3 DEF NewRun
    <3>2. NewRun(act(i)).state = StateWhenRun(act(i), "none")
      BY DEF NewRun, StateWhenRun, Deferred
    <3> QED BY <3>1, <3>2 DEF StateKept, Entering, Running
  <2> QED BY <2>1, <2>2, <2>3
<1> QED BY <1>2, <1>3 DEF AutomationPart

StatesKept == \A i \in Interactions : StateKept(act(i), run[i])

\* Whichever way a handler goes, with denials, errors, conflicts and reloads.
LEMMA StatesStayKept == PipelineSpec => []StatesKept
<1>1. PipelineInit => StatesKept
  <2> SUFFICES ASSUME PipelineInit, NEW i \in Interactions PROVE StateKept(act(i), run[i])
    BY DEF StatesKept
  <2>1. run[i] = NewRun(act(i))
    BY DEF PipelineInit
  <2>2. run[i].state = StateWhenRun(act(i), "none")
    BY <2>1 DEF NewRun, StateWhenRun, Deferred
  <2>3. run[i].at \notin Running \cup {"reply"}
    BY <2>1 DEF NewRun, Start, Running
  <2> QED BY <2>2, <2>3 DEF StateKept
<1>2. PipelineInv /\ StatesKept /\ [PipelineNext]_allVars => StatesKept'
  <2> SUFFICES ASSUME PipelineInv, StatesKept, [PipelineNext]_allVars PROVE StatesKept'
    OBVIOUS
  <2>1. ASSUME UNCHANGED <<run, cast>> PROVE StatesKept'
    BY <2>1 DEF StatesKept, act
  <2>2. CASE Reload \/ Unload \/ Tick \/ UNCHANGED allVars
    BY <2>1, <2>2 DEF Reload, Unload, Tick, allVars
  <2>3. ASSUME NEW i \in Interactions, PipelineStep(i) PROVE StatesKept'
    <3>1. CASE LaunchHandler(i) \/ FinishHandler(i) \/ PanicHandler(i)
      BY <2>1, <3>1 DEF LaunchHandler, FinishHandler, PanicHandler
    <3>2. CASE DispatcherStep(i)
      BY <2>1, <3>2 DEF DispatcherStep, Reject, Beyond
    <3>3. CASE HandlerPart(i) \/ ProgramPart(i) \/ AnswerPart(i) \/ AutomationPart(i)
      <4>1. /\ UNCHANGED cast
            /\ \A j \in Interactions \ {i} : run'[j] = run[j]
        BY <3>3, OneHandlerMoves
      <4>2. StateKept(act(i), run'[i])
        BY <3>3, HandlerPartKeepsState, ProgramPartKeepsState, AnswerPartKeepsState,
           AutomationPartKeepsState DEF StatesKept
      <4>3. \A j \in Interactions : act(j)' = act(j)
        BY <4>1 DEF act
      <4> QED BY <4>1, <4>2, <4>3 DEF StatesKept
    <3> QED BY <2>3, <3>1, <3>2, <3>3 DEF PipelineStep
  <2> QED BY <2>2, <2>3 DEF PipelineNext
<1> QED BY <1>1, <1>2, PipelineInvariant, PTL DEF PipelineSpec

\* What is about to be invoked was admitted: its bundle compiles.
LEMMA InvokedAreKnown ==
    ASSUME EffectInv, NEW i \in Interactions, run[i].at = "invoke"
    PROVE  Known(run[i].def)
BY DEF EffectInv, Cleared, Passed, Admitted

\* For every definition and every input a user can enter for what it shows: the route a
\* plan chose by path, handler or event resolves, with the state the deferral left,
\* from the invocation alone, unless bundles were exchanged on the way.
THEOREM PlansAreResolved == PipelineSpec => []PlansResolve
<1>1. PipelineInv /\ EffectInv /\ StatesKept => PlansResolve
  <2> SUFFICES ASSUME PipelineInv, EffectInv, StatesKept,
                      NEW i \in Interactions, Settled(i), act(i).class \notin SelectKinds
               PROVE  Resolves(Bundle(run[i].def), Prepared(i, Bundle(run[i].def)))
    BY DEF PlansResolve
  <2> DEFINE d == Bundle(run[i].def)
             a == act(i)
             k == run[i].item
  <2>1. /\ run[i].at = "invoke" /\ a.sees = run[i].def /\ k \in Planned(d, a)
        /\ run[i].route = PlannedRoute(d, k, a) /\ run[i].defer = d.items[k].defer
    BY DEF Settled
  <2>2. Known(run[i].def)
    BY <2>1, InvokedAreKnown
  <2>3. /\ IsDefinition(d) /\ ValidDefinition(d) /\ NoRepeats(d.keys, KVKeys)
        /\ a.kind \in ActKinds
    BY <2>2, KnownAreDefinitions
  <2>4. a.kind # "absent"
    BY <2>1, <2>3 DEF Planned, OfKinds, IsDefinition, CommandKinds, TopLevelKinds,
       ContextKinds
  <2>5. cast \in Casts
    BY DEF PipelineInv, PipelineShape
  <2>6. SentByDiscord(a) /\ FitsItem(d, k, a)
    BY <2>1, <2>4, <2>5, UsersSendWhatTheySee DEF act, Bundle
  <2>7. /\ run[i].state = StateWhenRun(a, d.items[k].defer)
        /\ run[i].state = "deferred_update" => FromMessage(a)
    BY <2>1 DEF StatesKept, StateKept, Running
  <2>8. Prepared(i, d) = Invocation(d, a, PlannedRoute(d, k, a), run[i].state)
    BY <2>1 DEF Prepared
  <2> HIDE DEF d, a, k
  <2> QED BY <2>1, <2>3, <2>6, <2>7, <2>8, PlannedResolves DEF d
<1> QED BY <1>1, PipelineInvariant, EffectsKeepTheirInvariant, StatesStayKept, PTL

=============================================================================
