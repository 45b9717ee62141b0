------------------------ MODULE InteractionDispatcher -------------------------
(***************************************************************************)
(* The interaction dispatcher (runtime/discord/interactions/dispatcher.go):*)
(* handlers run in a bounded number of slots; an interaction that finds no *)
(* slot, or whose handler panics, is answered by a rejection.  Rejections  *)
(* run in a few slots of their own and wait in a bounded queue that the    *)
(* goroutines holding those slots drain.                                   *)
(*                                                                         *)
(* Nothing but buffered channels synchronises the goroutines: each channel *)
(* operation, and each reading of the queue's length, is a step.  The      *)
(* goroutine that runs rejections is named by the interaction that         *)
(* launched it; one that hands over on its way out goes on as its          *)
(* successor.                                                              *)
(***************************************************************************)
EXTENDS Integers, FiniteSets, Sequences

CONSTANTS
    Interactions,   \* calls of Launch
    Slots,          \* capacity of slots
    RejectSlots,    \* capacity of rejectSlots
    QueueCap        \* capacity of rejectQueue

ASSUME InteractionsFinite == IsFiniteSet(Interactions)
ASSUME CapacitiesPositive == /\ Slots \in Nat \ {0}
                             /\ RejectSlots \in Nat \ {0}
                             /\ QueueCap \in Nat \ {0}

VARIABLES
    call,           \* where the interaction's own goroutine stands
    queue,          \* rejectQueue
    worker,         \* where the rejection goroutine it launched stands
    job,            \* the rejection that goroutine is running
    answers,        \* how often the interaction was answered by a rejection
    dropped         \* interactions whose rejection the full queue refused

vars == <<call, queue, worker, job, answers, dropped>>

Init ==
    /\ call = [i \in Interactions |-> "new"]
    /\ queue = <<>>
    /\ worker = [i \in Interactions |-> "none"]
    /\ job = [i \in Interactions |-> i]
    /\ answers = [i \in Interactions |-> 0]
    /\ dropped = {}

SlotFree == Cardinality({i \in Interactions : call[i] = "running"}) < Slots

\* Goroutines that hold a rejection slot.
Holding == {w \in Interactions : worker[w] \in {"run", "receive", "release"}}
RejectSlotFree == Cardinality(Holding) < RejectSlots

-----------------------------------------------------------------------------
(* Launch and the handler. *)

Launch(i) ==
    /\ call[i] = "new"
    /\ call' = [call EXCEPT ![i] = IF SlotFree THEN "running" ELSE "reject"]
    /\ UNCHANGED <<queue, worker, job, answers, dropped>>

HandlerReturns(i) ==
    /\ call[i] = "running"
    /\ call' = [call EXCEPT ![i] = "done"]
    /\ UNCHANGED <<queue, worker, job, answers, dropped>>

\* The deferred function frees the slot before it launches the rejection.
HandlerPanics(i) ==
    /\ call[i] = "running"
    /\ call' = [call EXCEPT ![i] = "reject"]
    /\ UNCHANGED <<queue, worker, job, answers, dropped>>

-----------------------------------------------------------------------------
(* launchRejection. *)

\* startRejection: a goroutine that starts with this job.
StartRejection(i) ==
    /\ call[i] = "reject"
    /\ IF RejectSlotFree
       THEN /\ call' = [call EXCEPT ![i] = "done"]
            /\ worker' = [worker EXCEPT ![i] = "run"]
            /\ job' = [job EXCEPT ![i] = i]
       ELSE /\ call' = [call EXCEPT ![i] = "enqueue"]
            /\ UNCHANGED <<worker, job>>
    /\ UNCHANGED <<queue, answers, dropped>>

\* Mutation: leaves the rejection to the goroutines that run already.
Enqueue_Only(i) ==
    /\ call[i] = "enqueue"
    /\ Len(queue) < QueueCap
    /\ queue' = Append(queue, i)
    /\ call' = [call EXCEPT ![i] = "done"]
    /\ UNCHANGED <<worker, job, answers, dropped>>

Enqueue(i) ==
    /\ call[i] = "enqueue"
    /\ Len(queue) < QueueCap
    /\ queue' = Append(queue, i)
    /\ call' = [call EXCEPT ![i] = "kick"]
    /\ UNCHANGED <<worker, job, answers, dropped>>

DropRejection(i) ==
    /\ call[i] = "enqueue"
    /\ Len(queue) >= QueueCap
    /\ dropped' = dropped \cup {i}
    /\ call' = [call EXCEPT ![i] = "done"]
    /\ UNCHANGED <<queue, worker, job, answers>>

\* startQueuedRejection: a goroutine that starts with the queue.
StartQueued(i) ==
    /\ call[i] = "kick"
    /\ call' = [call EXCEPT ![i] = "done"]
    /\ worker' = [worker EXCEPT ![i] = IF RejectSlotFree THEN "receive" ELSE @]
    /\ UNCHANGED <<queue, job, answers, dropped>>

-----------------------------------------------------------------------------
(* runRejections. *)

\* A rejection that panics is recovered and counts as run.
RunRejection(w) ==
    /\ worker[w] = "run"
    /\ answers' = [answers EXCEPT ![job[w]] = @ + 1]
    /\ worker' = [worker EXCEPT ![w] = "receive"]
    /\ UNCHANGED <<call, queue, job, dropped>>

Receive(w) ==
    /\ worker[w] = "receive"
    /\ queue # <<>>
    /\ job' = [job EXCEPT ![w] = Head(queue)]
    /\ queue' = Tail(queue)
    /\ worker' = [worker EXCEPT ![w] = "run"]
    /\ UNCHANGED <<call, answers, dropped>>

ReceiveNothing(w) ==
    /\ worker[w] = "receive"
    /\ queue = <<>>
    /\ worker' = [worker EXCEPT ![w] = "release"]
    /\ UNCHANGED <<call, queue, job, answers, dropped>>

\* The deferred function: free the slot, then look at the queue again.
Release(w) ==
    /\ worker[w] = "release"
    /\ worker' = [worker EXCEPT ![w] = "look"]
    /\ UNCHANGED <<call, queue, job, answers, dropped>>

\* Mutation: does not look at the queue again.
LookAgain_Leaves(w) ==
    /\ worker[w] = "look"
    /\ worker' = [worker EXCEPT ![w] = "none"]
    /\ UNCHANGED <<call, queue, job, answers, dropped>>

LookAgain(w) ==
    /\ worker[w] = "look"
    /\ worker' = [worker EXCEPT
           ![w] = IF queue = <<>> THEN "none" ELSE "restart"]
    /\ UNCHANGED <<call, queue, job, answers, dropped>>

Restart(w) ==
    /\ worker[w] = "restart"
    /\ worker' = [worker EXCEPT
           ![w] = IF RejectSlotFree THEN "receive" ELSE "none"]
    /\ UNCHANGED <<call, queue, job, answers, dropped>>

-----------------------------------------------------------------------------
CallStep(i) == \/ StartRejection(i) \/ Enqueue(i)
               \/ DropRejection(i) \/ StartQueued(i)

WorkerStep(w) == \/ RunRejection(w) \/ Receive(w) \/ ReceiveNothing(w)
                 \/ Release(w) \/ LookAgain(w) \/ Restart(w)

HandlerStep(i) == Launch(i) \/ HandlerReturns(i) \/ HandlerPanics(i)

Next == \E i \in Interactions : HandlerStep(i) \/ CallStep(i) \/ WorkerStep(i)

Spec == Init /\ [][Next]_vars

\* Goroutines are scheduled and a rejection's reply returns; nothing says that a
\* handler ever does.
Fairness ==
    \A i \in Interactions : WF_vars(CallStep(i)) /\ WF_vars(WorkerStep(i))

FairSpec == Spec /\ Fairness

-----------------------------------------------------------------------------
(* Properties *)

CallStages == {"new", "running", "reject", "enqueue", "kick", "done"}
WorkerStages == {"none", "run", "receive", "release", "look", "restart"}

\* Every variable holds a value of its kind.
TypeOK ==
    /\ call \in [Interactions -> CallStages]
    /\ queue \in Seq(Interactions) /\ Len(queue) <= QueueCap
    /\ worker \in [Interactions -> WorkerStages]
    /\ job \in [Interactions -> Interactions]
    /\ answers \in [Interactions -> Nat]
    /\ dropped \in SUBSET Interactions

\* A rejection in the queue is attended to: a goroutine is on its way to the
\* queue, or will look at it before it ends.  None is left behind by a goroutine
\* that saw the queue empty just before the rejection was put into it
\* (dispatcher.go:86-88 against :112-118).
QueueIsAttended ==
    queue # <<>> => \/ \E w \in Interactions : worker[w] # "none"
                    \/ \E i \in Interactions : call[i] = "kick"

\* An interaction is answered at most once, and never after its rejection was
\* dropped.  (The handler's own reply is not seen from here.)
AnsweredOnce ==
    \A i \in Interactions :
        /\ answers[i] <= 1
        /\ i \in dropped => answers[i] = 0

\* An interaction that is to be rejected is answered, or dropped because the
\* queue was full.
RejectionsEnd ==
    \A i \in Interactions :
        call[i] = "reject" ~> (answers[i] = 1 \/ i \in dropped)

=============================================================================
