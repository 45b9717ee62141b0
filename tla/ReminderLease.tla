----------------------------- MODULE ReminderLease -----------------------------
(***************************************************************************)
(* Delivery of reminders by lease (runtime/discord/automation/reminders.go *)
(* over storage/postgres/automation/reminders.go).                         *)
(*                                                                         *)
(* A worker is the reminder poll of one scheduler plan, with the lease id  *)
(* the plan drew.  It claims a batch of due rows in a transaction, sends   *)
(* each one and finishes its row.  Workers of several processes, and the   *)
(* worker of a plan that was restarted while it still runs its batch,      *)
(* share the table; a worker's time is the clock it read when it polled.   *)
(***************************************************************************)
EXTENDS Integers, FiniteSets

CONSTANTS
    Reminders,      \* reminder ids
    Workers,        \* lease ids, one per scheduler plan ever started
    Unparsable,     \* reminders whose stored schedule does not parse
    None,           \* SQL NULL
    Limit,          \* reminderClaimLimit
    Lease,          \* reminderLeaseDuration, in clock ticks
    Period,         \* ticks from a run to the schedule's next one
    Year,           \* the 365 days that park a disabled reminder
    MaxFailures,    \* reminderMaxFailures
    MaxClock        \* bound: the clock stops here

ASSUME TimesPositive ==
    /\ Lease \in Nat \ {0} /\ Period \in Nat \ {0} /\ Year \in Nat \ {0}
    /\ Limit \in Nat \ {0} /\ MaxFailures \in Nat \ {0} /\ MaxClock \in Nat
ASSUME NoneIsNoWorker == None \notin Workers
ASSUME NoneIsNoReminder == None \notin Reminders

VARIABLES
    clock,      \* the database's and the processes' clock
    row,        \* the rows of table reminders
    status,     \* of a worker: "unborn", "running", "cancelled" or "dead"
    phase,      \* where the worker's poll stands
    at,         \* PollDue's local now
    snap,       \* failure counts as the candidate SELECT returned them
    todo,       \* the candidates, then the claimed reminders left to run
    hand,       \* the reminder runOne works on
    verdict,    \* what runOne will write: next run, failures, enabled
    occ,        \* history: next_run_at of each row when the worker claimed it
    tries       \* history: the send attempts of each reminder

locals == <<at, snap, todo, hand, verdict, occ>>
vars == <<clock, row, status, phase, at, snap, todo, hand, verdict, occ, tries>>

NoVerdict == [next |-> 0, failures |-> 0, enabled |-> FALSE]

Init ==
    /\ clock = 1
    /\ row = [r \in Reminders |->
           [exists |-> TRUE, enabled |-> TRUE, nextRun |-> 1, failures |-> 0,
            leaseId |-> None, leaseUntil |-> 0]]
    /\ status = [w \in Workers |-> "unborn"]
    /\ phase = [w \in Workers |-> "idle"]
    /\ at = [w \in Workers |-> 0]
    /\ snap = [w \in Workers |-> [r \in Reminders |-> 0]]
    /\ todo = [w \in Workers |-> {}]
    /\ hand = [w \in Workers |-> None]
    /\ verdict = [w \in Workers |-> NoVerdict]
    /\ occ = [w \in Workers |-> [r \in Reminders |-> 0]]
    /\ tries = [r \in Reminders |-> {}]

Tick ==
    /\ clock < MaxClock
    /\ clock' = clock + 1
    /\ UNCHANGED <<row, status, phase, locals, tries>>

-----------------------------------------------------------------------------
(* The scheduler starts and cancels workers; processes crash. *)

StartWorker(w) ==
    /\ status[w] = "unborn"
    /\ status' = [status EXCEPT ![w] = "running"]
    /\ UNCHANGED <<clock, row, phase, locals, tries>>

\* Runtime.Stop cancels the run context and does not wait for a batch.
CancelWorker(w) ==
    /\ status[w] = "running"
    /\ status' = [status EXCEPT ![w] = "cancelled"]
    /\ UNCHANGED <<clock, row, phase, locals, tries>>

\* The worker is gone; its locals are cleared as nothing reads them again.
Crash(w) ==
    /\ status[w] \in {"running", "cancelled"}
    /\ status' = [status EXCEPT ![w] = "dead"]
    /\ phase' = [phase EXCEPT ![w] = "idle"]
    /\ todo' = [todo EXCEPT ![w] = {}]
    /\ hand' = [hand EXCEPT ![w] = None]
    /\ UNCHANGED <<clock, row, at, snap, verdict, occ, tries>>

\* A user deletes a reminder, leased or not.
DeleteReminder(r) ==
    /\ row[r].exists
    /\ row' = [row EXCEPT ![r].exists = FALSE]
    /\ UNCHANGED <<clock, status, phase, locals, tries>>

-----------------------------------------------------------------------------
(* PollDue: ClaimDueReminders reads, then updates under the same guard. *)

\* Mutation: a lease may be taken in its last tick.
Claimable_Early(r, now) ==
    /\ row[r].exists /\ row[r].enabled
    /\ row[r].nextRun <= now
    /\ row[r].leaseId = None \/ row[r].leaseUntil <= now

\* The WHERE clause shared by the SELECT and the UPDATE, at time now.
Claimable(r, now) ==
    /\ row[r].exists /\ row[r].enabled
    /\ row[r].nextRun <= now
    /\ row[r].leaseId = None \/ row[r].leaseUntil < now

\* ORDER BY next_run_at LIMIT: the earliest Limit rows.
Earliest(S) ==
    {C \in SUBSET S :
        /\ Cardinality(C) = IF Cardinality(S) < Limit THEN Cardinality(S)
                                                      ELSE Limit
        /\ \A r \in C, q \in S \ C : row[r].nextRun <= row[q].nextRun}

\* Mutation: a row with a lease id is never a candidate again.
SelectCandidates_Unleased(w) ==
    /\ status[w] = "running"
    /\ phase[w] = "idle"
    /\ \E C \in Earliest({r \in Reminders : /\ Claimable(r, clock)
                                            /\ row[r].leaseId = None}) :
           /\ C # {}
           /\ todo' = [todo EXCEPT ![w] = C]
           /\ snap' = [snap EXCEPT ![w] =
                  [r \in Reminders |-> IF r \in C THEN row[r].failures ELSE 0]]
    /\ at' = [at EXCEPT ![w] = clock]
    /\ phase' = [phase EXCEPT ![w] = "selected"]
    /\ UNCHANGED <<clock, row, status, hand, verdict, occ, tries>>

SelectCandidates(w) ==
    /\ status[w] = "running"
    /\ phase[w] = "idle"
    /\ \E C \in Earliest({r \in Reminders : Claimable(r, clock)}) :
           /\ C # {}
           /\ todo' = [todo EXCEPT ![w] = C]
           /\ snap' = [snap EXCEPT ![w] =
                  [r \in Reminders |-> IF r \in C THEN row[r].failures ELSE 0]]
    /\ at' = [at EXCEPT ![w] = clock]
    /\ phase' = [phase EXCEPT ![w] = "selected"]
    /\ UNCHANGED <<clock, row, status, hand, verdict, occ, tries>>

\* The rows after w took the lease of those in C.
Leased(w, C) ==
    [r \in Reminders |->
        IF r \in C
        THEN [row[r] EXCEPT !.leaseId = w, !.leaseUntil = at[w] + Lease]
        ELSE row[r]]

\* Mutation: the UPDATE trusts the SELECT.
ClaimCandidates_Unguarded(w) ==
    LET C == todo[w]
    IN  /\ status[w] = "running"
        /\ phase[w] = "selected"
        /\ row' = Leased(w, C)
        /\ occ' = [occ EXCEPT ![w] =
               [r \in Reminders |-> IF r \in C THEN row[r].nextRun ELSE 0]]
        /\ phase' = [phase EXCEPT ![w] = "batch"]
        /\ UNCHANGED <<clock, status, at, snap, todo, hand, verdict, tries>>

\* Mutation: the claim moves the schedule on.
ClaimCandidates_Advances(w) ==
    LET C == {r \in todo[w] : Claimable(r, at[w])}
    IN  /\ status[w] = "running"
        /\ phase[w] = "selected"
        /\ row' = [r \in Reminders |->
               IF r \in C
               THEN [row[r] EXCEPT !.leaseId = w, !.leaseUntil = at[w] + Lease,
                                   !.nextRun = at[w] + Period]
               ELSE row[r]]
        /\ occ' = [occ EXCEPT ![w] =
               [r \in Reminders |-> IF r \in C THEN row[r].nextRun ELSE 0]]
        /\ todo' = [todo EXCEPT ![w] = C]
        /\ phase' = [phase EXCEPT ![w] = "batch"]
        /\ UNCHANGED <<clock, status, at, snap, hand, verdict, tries>>

\* The UPDATEs and the commit: a row another worker took meanwhile is left out.
ClaimCandidates(w) ==
    LET C == {r \in todo[w] : Claimable(r, at[w])}
    IN  /\ status[w] = "running"
        /\ phase[w] = "selected"
        /\ row' = Leased(w, C)
        /\ occ' = [occ EXCEPT ![w] =
               [r \in Reminders |-> IF r \in C THEN row[r].nextRun ELSE 0]]
        /\ todo' = [todo EXCEPT ![w] = C]
        /\ phase' = [phase EXCEPT ![w] = "batch"]
        /\ UNCHANGED <<clock, status, at, snap, hand, verdict, tries>>

\* The transaction fails or its context is cancelled: it rolls back.
ClaimFails(w) ==
    /\ phase[w] = "selected"
    /\ phase' = [phase EXCEPT ![w] = "idle"]
    /\ todo' = [todo EXCEPT ![w] = {}]
    /\ UNCHANGED <<clock, row, status, at, snap, hand, verdict, occ, tries>>

\* The commit takes effect and its answer is lost: the rows are leased, and the
\* worker runs none of them.
ClaimLost(w) ==
    /\ phase[w] = "selected"
    /\ row' = Leased(w, {r \in todo[w] : Claimable(r, at[w])})
    /\ phase' = [phase EXCEPT ![w] = "idle"]
    /\ todo' = [todo EXCEPT ![w] = {}]
    /\ UNCHANGED <<clock, status, at, snap, hand, verdict, occ, tries>>

\* The loop over the batch is over.
EndBatch(w) ==
    /\ phase[w] = "batch"
    /\ todo[w] = {}
    /\ phase' = [phase EXCEPT ![w] = "idle"]
    /\ at' = [at EXCEPT ![w] = 0]
    /\ snap' = [snap EXCEPT ![w] = [r \in Reminders |-> 0]]
    /\ occ' = [occ EXCEPT ![w] = [r \in Reminders |-> 0]]
    /\ UNCHANGED <<clock, row, status, todo, hand, verdict, tries>>

-----------------------------------------------------------------------------
(* runOne: send, decide, finish.  A cancelled worker runs its batch too. *)

Conclude(w, r, failures, enabled) ==
    /\ verdict' = [verdict EXCEPT ![w] =
           [next |-> at[w] + (IF enabled THEN Period ELSE Year),
            failures |-> failures, enabled |-> enabled]]
    /\ hand' = [hand EXCEPT ![w] = r]
    /\ todo' = [todo EXCEPT ![w] = @ \ {r}]
    /\ phase' = [phase EXCEPT ![w] = "finish"]

\* A schedule that does not parse disables the reminder without a send.
RejectSchedule(w, r) ==
    /\ phase[w] = "batch"
    /\ r \in todo[w] \cap Unparsable
    /\ Conclude(w, r, snap[w][r] + 1, FALSE)
    /\ UNCHANGED <<clock, row, status, at, snap, occ, tries>>

Attempt(w, r, ok) == [occ |-> occ[w][r], at |-> at[w], by |-> w, ok |-> ok]

SendSucceeds(w, r) ==
    /\ phase[w] = "batch"
    /\ r \in todo[w] \ Unparsable
    /\ tries' = [tries EXCEPT ![r] = @ \cup {Attempt(w, r, TRUE)}]
    /\ Conclude(w, r, 0, TRUE)
    /\ UNCHANGED <<clock, row, status, at, snap, occ>>

\* Mutation: disables one failure early.
SendFails_Early(w, r) ==
    LET failures == snap[w][r] + 1
    IN  /\ phase[w] = "batch"
        /\ r \in todo[w] \ Unparsable
        /\ tries' = [tries EXCEPT ![r] = @ \cup {Attempt(w, r, FALSE)}]
        /\ Conclude(w, r, failures, failures + 1 < MaxFailures)
        /\ UNCHANGED <<clock, row, status, at, snap, occ>>

\* CreateMessage, or the DM lookup before it, reports an error; the message may
\* have reached Discord all the same, so an attempt counts as a possible delivery.
SendFails(w, r) ==
    LET failures == snap[w][r] + 1
    IN  /\ phase[w] = "batch"
        /\ r \in todo[w] \ Unparsable
        /\ tries' = [tries EXCEPT ![r] = @ \cup {Attempt(w, r, FALSE)}]
        /\ Conclude(w, r, failures, failures < MaxFailures)
        /\ UNCHANGED <<clock, row, status, at, snap, occ>>

NextInBatch(w) ==
    /\ hand' = [hand EXCEPT ![w] = None]
    /\ verdict' = [verdict EXCEPT ![w] = NoVerdict]
    /\ phase' = [phase EXCEPT ![w] = "batch"]

\* UPDATE ... WHERE id AND lease_id: no row matches once the lease has moved.
FinishRun(w) ==
    LET r == hand[w]
        v == verdict[w]
    IN  /\ status[w] = "running"
        /\ phase[w] = "finish"
        /\ row' = IF row[r].exists /\ row[r].leaseId = w
                  THEN [row EXCEPT ![r] =
                           [exists |-> TRUE, enabled |-> v.enabled,
                            nextRun |-> v.next, failures |-> v.failures,
                            leaseId |-> None, leaseUntil |-> 0]]
                  ELSE row
        /\ NextInBatch(w)
        /\ UNCHANGED <<clock, status, at, snap, todo, occ, tries>>

\* The update fails, as it does once the context is cancelled; the error is
\* dropped and the row stays leased.
FinishFails(w) ==
    /\ phase[w] = "finish"
    /\ NextInBatch(w)
    /\ UNCHANGED <<clock, row, status, at, snap, todo, occ, tries>>

-----------------------------------------------------------------------------

RunOne(w) ==
    \/ \E r \in Reminders :
           RejectSchedule(w, r) \/ SendSucceeds(w, r) \/ SendFails(w, r)
    \/ FinishRun(w)
    \/ FinishFails(w)

Poll(w) ==
    \/ SelectCandidates(w) \/ ClaimCandidates(w) \/ ClaimFails(w) \/ ClaimLost(w)
    \/ EndBatch(w)

Next ==
    \/ Tick
    \/ \E r \in Reminders : DeleteReminder(r)
    \/ \E w \in Workers :
           StartWorker(w) \/ CancelWorker(w) \/ Crash(w) \/ Poll(w) \/ RunOne(w)

Spec == Init /\ [][Next]_vars

\* Time passes, a started poll goes on, and a worker whose claims keep failing
\* commits one in the end.
Fairness ==
    /\ WF_vars(Tick)
    /\ \A w \in Workers :
           /\ WF_vars(StartWorker(w))
           /\ WF_vars(Poll(w) \/ RunOne(w))
           /\ SF_vars(ClaimCandidates(w))

FairSpec == Spec /\ Fairness

-----------------------------------------------------------------------------
(* Properties. *)

Row == [exists : BOOLEAN, enabled : BOOLEAN, nextRun : Nat, failures : Nat,
        leaseId : Workers \cup {None}, leaseUntil : Nat]

Try == [occ : Nat, at : Nat, by : Workers, ok : BOOLEAN]

\* Rows, worker locals and histories have their types.
TypeOK ==
    /\ clock \in Nat
    /\ row \in [Reminders -> Row]
    /\ status \in [Workers -> {"unborn", "running", "cancelled", "dead"}]
    /\ phase \in [Workers -> {"idle", "selected", "batch", "finish"}]
    /\ at \in [Workers -> Nat]
    /\ snap \in [Workers -> [Reminders -> Nat]]
    /\ todo \in [Workers -> SUBSET Reminders]
    /\ hand \in [Workers -> Reminders \cup {None}]
    /\ \A w \in Workers : phase[w] = "finish" => hand[w] \in Reminders
    /\ verdict \in [Workers -> [next : Nat, failures : Nat, enabled : BOOLEAN]]
    /\ occ \in [Workers -> [Reminders -> Nat]]
    /\ tries \in [Reminders -> SUBSET Try]

\* The worker has claimed r and not yet finished it.
Holds(w, r) == phase[w] \in {"batch", "finish"} /\ r \in todo[w] \cup {hand[w]}

\* Two workers work on one reminder only after a lease has run out: however
\* SELECTs and UPDATEs of two claims interleave, whatever is cancelled.
LeaseExclusive ==
    \A v, w \in Workers, r \in Reminders :
        v # w /\ Holds(v, r) /\ Holds(w, r) =>
            at[v] + Lease < clock \/ at[w] + Lease < clock

\* One occurrence of a reminder is sent at most once per lease: two attempts at
\* it were claimed more than a lease apart, however the first was interrupted.
AttemptsLeaseApart ==
    \A r \in Reminders : \A s, t \in tries[r] :
        s.occ = t.occ /\ s # t =>
            s.at + Lease < t.at \/ t.at + Lease < s.at

\* An occurrence is passed over only after an attempt to send it, or because
\* the schedule cannot be parsed: a crash or a lost finish never skips one.
NoOccurrenceSkipped ==
    [][\A r \in Reminders :
           row'[r].nextRun # row[r].nextRun =>
               \/ r \in Unparsable
               \/ \E t \in tries[r] : t.occ = row[r].nextRun]_vars

\* A late finish of a worker that lost its lease never moves a schedule back.
ScheduleMovesForward ==
    [][\A r \in Reminders : row'[r].nextRun >= row[r].nextRun]_vars

\* A reminder is disabled for failing only after MaxFailures attempts failed,
\* although failure counts are computed from an old snapshot of the row.
NeverDisabledEarly ==
    \A r \in Reminders \ Unparsable :
        ~row[r].enabled =>
            Cardinality({t \in tries[r] : ~t.ok}) >= MaxFailures

\* As long as some worker keeps running, nothing due is left unclaimed in the end:
\* a reminder whose worker crashed or was cancelled is claimed again once its lease
\* has run out, unless it is deleted or finished late.
DueIsReclaimed ==
    \/ <>[](\A w \in Workers : status[w] # "running")
    \/ <>[](\A r \in Reminders : ~Claimable(r, clock))

=============================================================================
