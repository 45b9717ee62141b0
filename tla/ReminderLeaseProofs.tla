-------------------------- MODULE ReminderLeaseProofs --------------------------
(* Theorems about ReminderLease for every set of reminders and workers and *)
(* every lease, period and bound.                                          *)
EXTENDS ReminderLease, FiniteSetTheorems, TLAPS

Apart(s, t) == s + Lease < t \/ t + Lease < s

LocalsInv ==
    \A w \in Workers :
        /\ at[w] <= clock
        /\ phase[w] # "finish" => hand[w] = None
        /\ phase[w] = "finish" => hand[w] \notin todo[w] /\ verdict[w].next > at[w]

\* What a worker knows of a row it claimed, lease lost or not.
HeldInv ==
    \A w \in Workers, r \in Reminders : Holds(w, r) =>
        /\ occ[w][r] <= row[r].nextRun /\ occ[w][r] <= at[w]
        /\ row[r].leaseId = w => /\ row[r].leaseUntil = at[w] + Lease
                                 /\ row[r].nextRun = occ[w][r]
        /\ row[r].exists /\ row[r].leaseId # w => at[w] + Lease < clock
        /\ row[r].exists /\ row[r].nextRun = occ[w][r] =>
               row[r].leaseId # None /\ row[r].leaseUntil >= at[w] + Lease

\* An attempt at the occurrence a row still waits for is covered by its lease.
TriesInv ==
    \A r \in Reminders : \A t \in tries[r] :
        /\ t.occ <= row[r].nextRun
        /\ row[r].exists /\ row[r].nextRun = t.occ =>
               row[r].leaseId # None /\ row[r].leaseUntil >= t.at + Lease

\* A worker about to send is a lease apart from everybody at that occurrence.
SenderApart ==
    \A w \in Workers, r \in Reminders : Holds(w, r) =>
        /\ r \in todo[w] => \A t \in tries[r] :
               t.occ = occ[w][r] => Apart(t.at, at[w])
        /\ \A v \in Workers \ {w} :
               Holds(v, r) /\ occ[v][r] = occ[w][r] => Apart(at[v], at[w])

\* What is about to be finished was sent, unless it could not be parsed.
SentInv ==
    \A w \in Workers :
        phase[w] = "finish" /\ hand[w] \notin Unparsable =>
            \E t \in tries[hand[w]] : t.occ = occ[w][hand[w]]

LeaseInv ==
    /\ TypeOK
    /\ LocalsInv
    /\ HeldInv
    /\ TriesInv
    /\ SenderApart
    /\ SentInv
    /\ LeaseExclusive
    /\ AttemptsLeaseApart

-----------------------------------------------------------------------------
(* Type correctness. *)

\* The initial state is well typed.
LEMMA InitTypeOK == Init => TypeOK
BY DEF Init, TypeOK, Row, NoVerdict

\* A deleted row is a row.
LEMMA RowDeleted ==
    ASSUME NEW x \in Row PROVE [x EXCEPT !.exists = FALSE] \in Row
BY DEF Row

\* A claimed row is a row.
LEMMA RowClaimed ==
    ASSUME NEW x \in Row, NEW w \in Workers, NEW n \in Nat
    PROVE  [x EXCEPT !.leaseId = w, !.leaseUntil = n] \in Row
BY DEF Row

\* Rows whose lease was taken are rows.
LEMMA RowsLeased ==
    ASSUME TypeOK, NEW w \in Workers, NEW C
    PROVE  Leased(w, C) \in [Reminders -> Row]
<1>1. at[w] + Lease \in Nat
  BY TimesPositive DEF TypeOK
<1>2. \A r \in Reminders :
          /\ row[r] \in Row
          /\ [row[r] EXCEPT !.leaseId = w, !.leaseUntil = at[w] + Lease] \in Row
  BY <1>1, RowClaimed DEF TypeOK
<1> QED BY <1>2 DEF Leased

\* The steps of a claim keep every variable's type.
LEMMA PollTypeOK ==
    ASSUME TypeOK, NEW w \in Workers, Poll(w)
    PROVE  TypeOK'
<1> USE TimesPositive DEF TypeOK
<1>1. CASE SelectCandidates(w)
  <2>1. PICK C \in SUBSET Reminders :
            /\ todo' = [todo EXCEPT ![w] = C]
            /\ snap' = [snap EXCEPT ![w] =
                   [r \in Reminders |-> IF r \in C THEN row[r].failures ELSE 0]]
    BY <1>1 DEF SelectCandidates, Earliest
  <2>2. snap' \in [Workers -> [Reminders -> Nat]]
    BY <2>1 DEF Row
  <2>3. QED BY <1>1, <2>1, <2>2 DEF SelectCandidates
<1>2. CASE ClaimCandidates(w)
  <2>1. row' \in [Reminders -> Row]
    BY <1>2, RowsLeased DEF ClaimCandidates
  <2>2. occ' \in [Workers -> [Reminders -> Nat]]
    BY <1>2 DEF ClaimCandidates, Row
  <2>3. todo' \in [Workers -> SUBSET Reminders]
    BY <1>2 DEF ClaimCandidates
  <2>4. QED BY <1>2, <2>1, <2>2, <2>3 DEF ClaimCandidates
<1>3. CASE ClaimFails(w)       BY <1>3 DEF ClaimFails
<1>4. CASE ClaimLost(w)        BY <1>4, RowsLeased DEF ClaimLost
<1>5. CASE EndBatch(w)         BY <1>5 DEF EndBatch
<1>6. QED BY <1>1, <1>2, <1>3, <1>4, <1>5 DEF Poll

\* The steps of a run keep every variable's type.
LEMMA RunTypeOK ==
    ASSUME TypeOK, NEW w \in Workers, RunOne(w)
    PROVE  TypeOK'
<1> USE TimesPositive DEF TypeOK, Row, Try, Conclude, Attempt, NextInBatch,
                          NoVerdict
<1>1. ASSUME NEW r \in Reminders, RejectSchedule(w, r) PROVE TypeOK'
  BY <1>1 DEF RejectSchedule
<1>2. ASSUME NEW r \in Reminders, SendSucceeds(w, r) PROVE TypeOK'
  <2>1. Attempt(w, r, TRUE) \in Try
    OBVIOUS
  <2>2. tries' \in [Reminders -> SUBSET Try]
    BY <1>2, <2>1 DEF SendSucceeds
  <2>3. QED BY <1>2, <2>2 DEF SendSucceeds
<1>3. ASSUME NEW r \in Reminders, SendFails(w, r) PROVE TypeOK'
  <2>1. Attempt(w, r, FALSE) \in Try
    OBVIOUS
  <2>2. tries' \in [Reminders -> SUBSET Try]
    BY <1>3, <2>1 DEF SendFails
  <2>3. QED BY <1>3, <2>2 DEF SendFails
<1>4. CASE FinishRun(w)        BY <1>4 DEF FinishRun
<1>5. CASE FinishFails(w)      BY <1>5 DEF FinishFails
<1>6. QED BY <1>1, <1>2, <1>3, <1>4, <1>5 DEF RunOne

\* So does every step.
LEMMA TypeStep == TypeOK /\ [Next]_vars => TypeOK'
<1> SUFFICES ASSUME TypeOK, [Next]_vars PROVE TypeOK'
  OBVIOUS
<1> USE DEF TypeOK, locals
<1>1. CASE UNCHANGED vars
  BY <1>1 DEF vars
<1>2. CASE Tick
  BY <1>2 DEF Tick
<1>3. ASSUME NEW r \in Reminders, DeleteReminder(r) PROVE TypeOK'
  <2>1. [row[r] EXCEPT !.exists = FALSE] \in Row
    BY RowDeleted
  <2>2. row' \in [Reminders -> Row]
    BY <1>3, <2>1 DEF DeleteReminder
  <2>3. QED BY <1>3, <2>2 DEF DeleteReminder
<1>4. ASSUME NEW w \in Workers, StartWorker(w) \/ CancelWorker(w) \/ Crash(w)
      PROVE  TypeOK'
  BY <1>4 DEF StartWorker, CancelWorker, Crash
<1>5. QED BY <1>1, <1>2, <1>3, <1>4, PollTypeOK, RunTypeOK DEF Next

\* Rows, locals and histories keep their types.
THEOREM TypeCorrect == Spec => []TypeOK
BY InitTypeOK, TypeStep, PTL DEF Spec

-----------------------------------------------------------------------------
(* The lease invariant, action by action. *)

\* LeaseInv without its type conjunct.
ApartInv ==
    /\ LocalsInv
    /\ HeldInv
    /\ TriesInv
    /\ SenderApart
    /\ SentInv
    /\ LeaseExclusive
    /\ AttemptsLeaseApart

\* No reminder is held at first.
LEMMA InitApart == Init => ApartInv
BY DEF Init, ApartInv, LocalsInv, HeldInv, TriesInv, SenderApart, SentInv,
       LeaseExclusive, AttemptsLeaseApart, Holds

\* Time passing keeps holders apart.
LEMMA TickApart ==
    ASSUME LeaseInv, Tick
    PROVE  ApartInv'
<1> USE TimesPositive DEF LeaseInv, Tick, locals, Holds, TypeOK
<1>1. LocalsInv'
  BY DEF LocalsInv
<1>2. HeldInv' /\ LeaseExclusive'
  <2>1. clock' = clock + 1 /\ clock \in Nat /\ at \in [Workers -> Nat]
    OBVIOUS
  <2>2. \A w \in Workers : at[w] + Lease < clock => at[w] + Lease < clock'
    BY <2>1
  <2>3. UNCHANGED <<row, phase, at, todo, hand, occ>>
    OBVIOUS
  <2>4. QED BY ONLY <2>2, <2>3, HeldInv, LeaseExclusive
            DEF HeldInv, LeaseExclusive, Holds
<1>3. TriesInv' /\ SenderApart' /\ SentInv' /\ AttemptsLeaseApart'
  BY DEF TriesInv, SenderApart, SentInv, AttemptsLeaseApart, Apart
<1>4. QED BY <1>1, <1>2, <1>3 DEF ApartInv

\* Steps that change no row, clock or attempt and only shrink what is held.
LEMMA ShrinkApart ==
    ASSUME LeaseInv, UNCHANGED <<clock, row, tries>>, LocalsInv',
           \A w \in Workers : phase'[w] = "finish" =>
               /\ phase[w] = "finish" /\ hand'[w] = hand[w]
               /\ occ'[w] = occ[w],
           \A w \in Workers, r \in Reminders : Holds(w, r)' =>
               /\ Holds(w, r)
               /\ at'[w] = at[w] /\ occ'[w] = occ[w]
               /\ r \in todo'[w] => r \in todo[w]
    PROVE  ApartInv'
<1> USE DEF LeaseInv
<1>1. HeldInv'
  BY DEF HeldInv
<1>2. TriesInv' /\ AttemptsLeaseApart'
  BY DEF TriesInv, AttemptsLeaseApart
<1>3. SenderApart'
  BY DEF SenderApart, Apart
<1>4. SentInv'
  BY DEF SentInv
<1>5. LeaseExclusive'
  BY DEF LeaseExclusive
<1>6. QED BY <1>1, <1>2, <1>3, <1>4, <1>5 DEF ApartInv

\* Deleting a reminder keeps holders apart.
LEMMA DeleteApart ==
    ASSUME LeaseInv, NEW q \in Reminders, DeleteReminder(q)
    PROVE  ApartInv'
<1>1. \A r \in Reminders :
          /\ row'[r].nextRun = row[r].nextRun
          /\ row'[r].leaseId = row[r].leaseId
          /\ row'[r].leaseUntil = row[r].leaseUntil
          /\ row'[r].exists => row[r].exists
  BY DEF DeleteReminder, LeaseInv, TypeOK, Row
<1>2. UNCHANGED <<clock, status, phase, at, snap, todo, hand, verdict, occ, tries>>
  BY DEF DeleteReminder, locals
<1>3. HeldInv'
  BY <1>1, <1>2 DEF LeaseInv, HeldInv, Holds
<1>4. TriesInv'
  BY <1>1, <1>2 DEF LeaseInv, TriesInv
<1>5. LocalsInv' /\ SenderApart' /\ SentInv' /\ LeaseExclusive'
         /\ AttemptsLeaseApart'
  BY <1>2 DEF LeaseInv, LocalsInv, SenderApart, Apart, SentInv, LeaseExclusive,
              AttemptsLeaseApart, Holds
<1>6. QED BY <1>3, <1>4, <1>5 DEF ApartInv

\* A worker that goes away keeps the others apart.
LEMMA CrashApart ==
    ASSUME LeaseInv, NEW w \in Workers,
           StartWorker(w) \/ CancelWorker(w) \/ Crash(w)
    PROVE  ApartInv'
<1> USE DEF StartWorker, CancelWorker, Crash, locals, LeaseInv, TypeOK
<1>1. LocalsInv'
  BY DEF LocalsInv
<1>2. QED BY <1>1, ShrinkApart DEF Holds

\* A claim keeps holders apart: it takes only rows whose lease has run out.
LEMMA PollApart ==
    ASSUME LeaseInv, NEW w \in Workers,
           SelectCandidates(w) \/ ClaimFails(w) \/ EndBatch(w)
    PROVE  ApartInv'
<1> USE DEF LeaseInv, TypeOK
<1>1. CASE SelectCandidates(w)
  <2>1. LocalsInv'
    BY <1>1 DEF SelectCandidates, LocalsInv
  <2>2. QED BY <1>1, <2>1, ShrinkApart DEF SelectCandidates, Holds
<1>2. CASE ClaimFails(w)
  <2>1. LocalsInv'
    BY <1>2 DEF ClaimFails, LocalsInv
  <2>2. QED BY <1>2, <2>1, ShrinkApart DEF ClaimFails, Holds
<1>3. CASE EndBatch(w)
  <2>1. LocalsInv'
    BY <1>3 DEF EndBatch, LocalsInv
  <2>2. QED BY <1>3, <2>1, ShrinkApart DEF EndBatch, Holds
<1>4. QED BY <1>1, <1>2, <1>3

\* A claim takes only rows whose previous lease ended before the claim's time.
LEMMA ClaimApart ==
    ASSUME LeaseInv, NEW w \in Workers, ClaimCandidates(w)
    PROVE  ApartInv'
<1> DEFINE C == {r \in todo[w] : Claimable(r, at[w])}
<1>1. /\ phase[w] = "selected" /\ hand[w] = None /\ at[w] <= clock
      /\ clock \in Nat /\ at \in [Workers -> Nat]
      /\ occ \in [Workers -> [Reminders -> Nat]]
      /\ todo \in [Workers -> SUBSET Reminders]
      /\ phase \in [Workers -> {"idle", "selected", "batch", "finish"}]
      /\ hand \in [Workers -> Reminders \cup {None}]
  BY DEF ClaimCandidates, LeaseInv, LocalsInv, TypeOK
<1>2. \A r \in Reminders :
          /\ row[r].nextRun \in Nat /\ row[r].leaseUntil \in Nat
          /\ row'[r].nextRun = row[r].nextRun
          /\ row'[r].exists = row[r].exists
          /\ r \in C =>
                 /\ row[r].exists /\ row[r].nextRun <= at[w]
                 /\ row[r].leaseId = None \/ row[r].leaseUntil < at[w]
                 /\ row'[r].leaseId = w /\ row'[r].leaseUntil = at[w] + Lease
          /\ r \notin C =>
                 /\ row'[r].leaseId = row[r].leaseId
                 /\ row'[r].leaseUntil = row[r].leaseUntil
  BY DEF ClaimCandidates, Leased, Claimable, LeaseInv, TypeOK, Row
<1>3. /\ occ' = [occ EXCEPT ![w] =
             [r \in Reminders |-> IF r \in C THEN row[r].nextRun ELSE 0]]
      /\ todo' = [todo EXCEPT ![w] = C]
      /\ phase' = [phase EXCEPT ![w] = "batch"]
      /\ UNCHANGED <<clock, at, hand, verdict, tries>>
  BY DEF ClaimCandidates
<1>4. /\ \A r \in Reminders : ~Holds(w, r)
      /\ \A r \in Reminders : Holds(w, r)' <=> r \in C
      /\ \A v \in Workers \ {w}, r \in Reminders : Holds(v, r)' <=> Holds(v, r)
      /\ \A v \in Workers \ {w} : occ'[v] = occ[v] /\ todo'[v] = todo[v]
      /\ \A r \in C : occ'[w][r] = row[r].nextRun
  BY <1>1, <1>3, NoneIsNoReminder DEF Holds
<1>5. LocalsInv'
  BY <1>3, <1>1 DEF LocalsInv, LeaseInv
<1>6. \A v \in Workers \ {w}, r \in C : Holds(v, r) =>
          /\ at[v] + Lease < clock
          /\ occ[v][r] = row[r].nextRun => at[v] + Lease < at[w]
  BY <1>1, <1>2, TimesPositive DEF LeaseInv, HeldInv
<1>7. HeldInv'
  <2> SUFFICES ASSUME NEW v \in Workers, NEW r \in Reminders, Holds(v, r)'
               PROVE
        /\ occ'[v][r] <= row'[r].nextRun /\ occ'[v][r] <= at'[v]
        /\ row'[r].leaseId = v => /\ row'[r].leaseUntil = at'[v] + Lease
                                  /\ row'[r].nextRun = occ'[v][r]
        /\ row'[r].exists /\ row'[r].leaseId # v => at'[v] + Lease < clock'
        /\ row'[r].exists /\ row'[r].nextRun = occ'[v][r] =>
               row'[r].leaseId # None /\ row'[r].leaseUntil >= at'[v] + Lease
    BY DEF HeldInv
  <2>1. CASE v = w
    BY <2>1, <1>1, <1>2, <1>3, <1>4, NoneIsNoWorker, TimesPositive
  <2>2. CASE v # w /\ r \in C
    BY <2>2, <1>1, <1>2, <1>3, <1>4, <1>6, NoneIsNoWorker, TimesPositive
    DEF LeaseInv, HeldInv
  <2>3. CASE v # w /\ r \notin C
    BY <2>3, <1>2, <1>3, <1>4 DEF LeaseInv, HeldInv
  <2>4. QED BY <2>1, <2>2, <2>3
<1>8. \A r \in C : \A t \in tries[r] :
          t.occ = row[r].nextRun => t.at + Lease < at[w]
  <2>1. \A r \in Reminders : \A t \in tries[r] : t.at \in Nat
    BY DEF LeaseInv, TypeOK, Try
  <2>2. C \subseteq Reminders
    BY <1>1
  <2>3. QED BY <2>1, <2>2, <1>1, <1>2, TimesPositive DEF LeaseInv, TriesInv
<1>9. TriesInv'
  <2> SUFFICES ASSUME NEW r \in Reminders, NEW t \in tries[r]
               PROVE
        /\ t.occ <= row'[r].nextRun
        /\ row'[r].exists /\ row'[r].nextRun = t.occ =>
               row'[r].leaseId # None /\ row'[r].leaseUntil >= t.at + Lease
    BY <1>3 DEF TriesInv
  <2>1. t.at \in Nat /\ t.occ \in Nat
    BY DEF LeaseInv, TypeOK, Try
  <2>2. CASE r \in C
    BY <2>1, <2>2, <1>1, <1>2, <1>8, NoneIsNoWorker, TimesPositive
    DEF LeaseInv, TriesInv
  <2>3. CASE r \notin C
    BY <2>3, <1>2 DEF LeaseInv, TriesInv
  <2>4. QED BY <2>2, <2>3
<1>10. SenderApart'
  <2>1. \A r \in C : \A t \in tries[r] : t.occ = occ'[w][r] => Apart(t.at, at[w])
    BY <1>4, <1>8 DEF Apart
  <2>2. \A r \in C, v \in Workers \ {w} :
            Holds(v, r) /\ occ[v][r] = occ'[w][r] =>
                Apart(at[v], at[w]) /\ Apart(at[w], at[v])
    BY <1>4, <1>6 DEF Apart
  <2>3. ASSUME NEW v \in Workers, NEW r \in Reminders, Holds(v, r)'
        PROVE  /\ r \in todo'[v] => \A t \in tries[r] :
                      t.occ = occ'[v][r] => Apart(t.at, at[v])
               /\ \A u \in Workers \ {v} :
                      Holds(u, r)' /\ occ'[u][r] = occ'[v][r] =>
                          Apart(at[u], at[v])
    <3>1. CASE v = w
      <4>1. r \in C
        BY <3>1, <2>3, <1>4
      <4>2. QED BY <4>1, <3>1, <2>1, <2>2, <1>4
    <3>2. CASE v # w
      <4>1. Holds(v, r) /\ occ'[v] = occ[v] /\ todo'[v] = todo[v]
        BY <3>2, <2>3, <1>4
      <4>2. /\ r \in todo[v] => \A t \in tries[r] :
                   t.occ = occ[v][r] => Apart(t.at, at[v])
            /\ \A u \in Workers \ {v} :
                   Holds(u, r) /\ occ[u][r] = occ[v][r] => Apart(at[u], at[v])
        BY <4>1 DEF LeaseInv, SenderApart
      <4>3. ASSUME NEW u \in Workers \ {v}, Holds(u, r)',
                   occ'[u][r] = occ'[v][r]
            PROVE  Apart(at[u], at[v])
        <5>1. CASE u = w
          <6>1. r \in C
            BY <5>1, <4>3, <1>4
          <6>2. QED BY <6>1, <5>1, <4>1, <4>3, <3>2, <2>2
        <5>2. CASE u # w
          BY <5>2, <4>1, <4>2, <4>3, <1>4
        <5>3. QED BY <5>1, <5>2
      <4>4. QED BY <4>1, <4>2, <4>3
    <3>3. QED BY <3>1, <3>2
  <2>4. at' = at /\ tries' = tries
    BY <1>3
  <2>5. QED BY <2>3, <2>4 DEF SenderApart, Apart
<1>11. SentInv'
  <2> SUFFICES ASSUME NEW v \in Workers, phase'[v] = "finish",
                      hand'[v] \notin Unparsable
               PROVE  \E t \in tries'[hand'[v]] : t.occ = occ'[v][hand'[v]]
    BY DEF SentInv
  <2>1. v # w /\ phase[v] = "finish"
    BY <1>1, <1>3
  <2>2. UNCHANGED <<hand, tries>> /\ occ'[v] = occ[v]
    BY <2>1, <1>3, <1>4
  <2>3. QED BY <2>1, <2>2 DEF LeaseInv, SentInv
<1>12. LeaseExclusive'
  <2>1. \A u, v \in Workers, r \in Reminders :
            u # v /\ Holds(u, r)' /\ Holds(v, r)' =>
                at[u] + Lease < clock \/ at[v] + Lease < clock
    BY <1>4, <1>6 DEF LeaseInv, LeaseExclusive
  <2>2. QED BY <2>1, <1>3 DEF LeaseExclusive
<1>13. AttemptsLeaseApart'
  BY <1>3 DEF LeaseInv, AttemptsLeaseApart
<1>14. QED BY <1>5, <1>7, <1>9, <1>10, <1>11, <1>12, <1>13 DEF ApartInv

\* A claim whose answer is lost leaves its rows leased and held by nobody.
LEMMA LostApart ==
    ASSUME LeaseInv, NEW w \in Workers, ClaimLost(w)
    PROVE  ApartInv'
<1> DEFINE C == {r \in todo[w] : Claimable(r, at[w])}
<1>1. /\ phase[w] = "selected" /\ hand[w] = None /\ at[w] <= clock
      /\ clock \in Nat /\ at \in [Workers -> Nat]
      /\ todo \in [Workers -> SUBSET Reminders]
      /\ phase \in [Workers -> {"idle", "selected", "batch", "finish"}]
  BY DEF ClaimLost, LeaseInv, LocalsInv, TypeOK
<1>2. \A r \in Reminders :
          /\ row[r].nextRun \in Nat /\ row[r].leaseUntil \in Nat
          /\ row'[r].nextRun = row[r].nextRun
          /\ row'[r].exists = row[r].exists
          /\ r \in C =>
                 /\ row[r].exists /\ row[r].nextRun <= at[w]
                 /\ row[r].leaseId = None \/ row[r].leaseUntil < at[w]
                 /\ row'[r].leaseId = w /\ row'[r].leaseUntil = at[w] + Lease
          /\ r \notin C =>
                 /\ row'[r].leaseId = row[r].leaseId
                 /\ row'[r].leaseUntil = row[r].leaseUntil
  BY DEF ClaimLost, Leased, Claimable, LeaseInv, TypeOK, Row
<1>3. /\ todo' = [todo EXCEPT ![w] = {}]
      /\ phase' = [phase EXCEPT ![w] = "idle"]
      /\ UNCHANGED <<clock, at, hand, verdict, occ, tries>>
  BY DEF ClaimLost
<1>4. \A v \in Workers, r \in Reminders : Holds(v, r)' => v # w /\ Holds(v, r)
  BY <1>1, <1>3 DEF Holds
<1>5. HeldInv'
  <2> SUFFICES ASSUME NEW v \in Workers \ {w}, NEW r \in Reminders, Holds(v, r)
               PROVE
        /\ occ[v][r] <= row'[r].nextRun /\ occ[v][r] <= at[v]
        /\ row'[r].leaseId = v => /\ row'[r].leaseUntil = at[v] + Lease
                                  /\ row'[r].nextRun = occ[v][r]
        /\ row'[r].exists /\ row'[r].leaseId # v => at[v] + Lease < clock
        /\ row'[r].exists /\ row'[r].nextRun = occ[v][r] =>
               row'[r].leaseId # None /\ row'[r].leaseUntil >= at[v] + Lease
    BY <1>3, <1>4 DEF HeldInv
  <2>1. CASE r \in C
    BY <2>1, <1>1, <1>2, NoneIsNoWorker, TimesPositive DEF LeaseInv, HeldInv
  <2>2. CASE r \notin C
    BY <2>2, <1>2 DEF LeaseInv, HeldInv
  <2>3. QED BY <2>1, <2>2
<1>6. TriesInv'
  <2> SUFFICES ASSUME NEW r \in Reminders, NEW t \in tries[r]
               PROVE
        /\ t.occ <= row'[r].nextRun
        /\ row'[r].exists /\ row'[r].nextRun = t.occ =>
               row'[r].leaseId # None /\ row'[r].leaseUntil >= t.at + Lease
    BY <1>3 DEF TriesInv
  <2>1. t.at \in Nat /\ t.occ \in Nat
    BY DEF LeaseInv, TypeOK, Try
  <2>2. CASE r \in C
    BY <2>1, <2>2, <1>1, <1>2, NoneIsNoWorker, TimesPositive
    DEF LeaseInv, TriesInv
  <2>3. CASE r \notin C
    BY <2>3, <1>2 DEF LeaseInv, TriesInv
  <2>4. QED BY <2>2, <2>3
<1>7. LocalsInv' /\ SenderApart' /\ SentInv' /\ LeaseExclusive'
         /\ AttemptsLeaseApart'
  <2>1. LocalsInv' /\ SentInv' /\ AttemptsLeaseApart'
    BY <1>1, <1>3 DEF LocalsInv, SentInv, AttemptsLeaseApart, LeaseInv
  <2>2. LeaseExclusive'
    BY <1>3, <1>4 DEF LeaseExclusive, LeaseInv
  <2>3. \A v \in Workers \ {w} : todo'[v] = todo[v]
    BY <1>3
  <2>4. SenderApart'
    BY <1>3, <1>4, <2>3 DEF SenderApart, Apart, LeaseInv
  <2>5. QED BY <2>1, <2>2, <2>4
<1>8. QED BY <1>5, <1>6, <1>7 DEF ApartInv

\* A worker concludes r: it attempted it, or r's schedule does not parse.
LEMMA ConcludeApart ==
    ASSUME LeaseInv, NEW w \in Workers, NEW q \in Reminders,
           NEW f, NEW e \in BOOLEAN, NEW ok \in BOOLEAN,
           phase[w] = "batch", q \in todo[w], Conclude(w, q, f, e),
           UNCHANGED <<clock, row, at, occ>>,
           \/ tries' = [tries EXCEPT ![q] = @ \cup {Attempt(w, q, ok)}]
           \/ tries' = tries /\ q \in Unparsable
    PROVE  ApartInv'
<1>1. /\ phase' = [phase EXCEPT ![w] = "finish"]
      /\ hand' = [hand EXCEPT ![w] = q]
      /\ todo' = [todo EXCEPT ![w] = @ \ {q}]
      /\ verdict'[w].next > at[w]
      /\ \A v \in Workers \ {w} : verdict'[v] = verdict[v]
  BY TimesPositive DEF Conclude, LeaseInv, TypeOK
<1>2. /\ at \in [Workers -> Nat] /\ occ \in [Workers -> [Reminders -> Nat]]
      /\ todo \in [Workers -> SUBSET Reminders]
      /\ phase \in [Workers -> {"idle", "selected", "batch", "finish"}]
      /\ hand \in [Workers -> Reminders \cup {None}]
      /\ hand[w] = None
  BY DEF LeaseInv, LocalsInv, TypeOK
<1>3. \A v \in Workers, r \in Reminders : Holds(v, r)' <=> Holds(v, r)
  BY <1>1, <1>2, NoneIsNoReminder DEF Holds
<1>4. LocalsInv'
  BY <1>1, <1>2 DEF LeaseInv, LocalsInv
<1>5. HeldInv'
  BY <1>3 DEF LeaseInv, HeldInv
<1>6. LeaseExclusive'
  BY <1>3 DEF LeaseInv, LeaseExclusive
<1> DEFINE new == Attempt(w, q, ok)
<1>7. /\ \A r \in Reminders \ {q} : tries'[r] = tries[r]
      /\ tries'[q] = tries[q] \cup {new} \/ tries'[q] = tries[q]
      /\ q \notin Unparsable => new \in tries'[q]
  BY DEF LeaseInv, TypeOK
<1>8. new.occ = occ[w][q] /\ new.at = at[w]
  BY DEF Attempt
<1>9. Holds(w, q)
  BY DEF Holds
<1>10. TriesInv'
  <2>1. /\ occ[w][q] <= row[q].nextRun
        /\ row[q].exists /\ row[q].nextRun = occ[w][q] =>
               row[q].leaseId # None /\ row[q].leaseUntil >= at[w] + Lease
    BY <1>9 DEF LeaseInv, HeldInv
  <2>2. QED BY <2>1, <1>7, <1>8 DEF LeaseInv, TriesInv
<1>11. SenderApart'
  <2>1. \A v \in Workers \ {w} :
            Holds(v, q) /\ occ[v][q] = occ[w][q] => Apart(at[w], at[v])
    BY <1>9 DEF LeaseInv, SenderApart, Apart
  <2>2. \A v \in Workers, r \in Reminders : r \in todo'[v] =>
            r \in todo[v] /\ (v = w => r # q)
    BY <1>1, <1>2
  <2>3. ASSUME NEW v \in Workers, NEW r \in Reminders, Holds(v, r),
               r \in todo'[v], NEW t \in tries'[r], t.occ = occ[v][r]
        PROVE  Apart(t.at, at[v])
    <3>1. CASE t \in tries[r]
      BY <3>1, <2>2, <2>3 DEF LeaseInv, SenderApart
    <3>2. CASE t \notin tries[r]
      <4>1. r = q /\ t = new
        BY <3>2, <2>3, <1>7
      <4>2. v # w
        BY <4>1, <2>2, <2>3
      <4>3. QED BY <4>1, <4>2, <2>1, <2>3, <1>8
    <3>3. QED BY <3>1, <3>2
  <2>4. QED BY <2>3, <1>3 DEF LeaseInv, SenderApart, Apart
<1>12. SentInv'
  <2> SUFFICES ASSUME NEW v \in Workers, phase'[v] = "finish",
                      hand'[v] \notin Unparsable
               PROVE  \E t \in tries'[hand'[v]] : t.occ = occ'[v][hand'[v]]
    BY DEF SentInv
  <2>1. CASE v = w
    BY <2>1, <1>1, <1>2, <1>7, <1>8
  <2>2. CASE v # w
    <3>1. phase[v] = "finish" /\ hand'[v] = hand[v] /\ hand[v] \in Reminders
      BY <2>2, <1>1, <1>2 DEF LeaseInv, TypeOK
    <3>2. tries[hand[v]] \subseteq tries'[hand[v]]
      BY <3>1, <1>7
    <3>3. QED BY <3>1, <3>2 DEF LeaseInv, SentInv
  <2>3. QED BY <2>1, <2>2
<1>13. AttemptsLeaseApart'
  <2>1. \A t \in tries[q] : t.occ = new.occ => Apart(t.at, new.at)
    BY <1>8, <1>9 DEF LeaseInv, SenderApart
  <2>2. ASSUME NEW r \in Reminders, NEW x \in tries'[r], NEW t \in tries'[r],
               x.occ = t.occ, x # t
        PROVE  x.at + Lease < t.at \/ t.at + Lease < x.at
    <3>1. CASE x \in tries[r] /\ t \in tries[r]
      BY <3>1, <2>2 DEF LeaseInv, AttemptsLeaseApart
    <3>2. CASE x \notin tries[r] \/ t \notin tries[r]
      <4>1. r = q /\ tries'[q] = tries[q] \cup {new}
        BY <3>2, <2>2, <1>7
      <4> HIDE DEF new
      <4>2. x \in tries[q] \cup {new} /\ t \in tries[q] \cup {new}
        BY <4>1, <2>2
      <4>3. (x = new /\ t \in tries[q]) \/ (t = new /\ x \in tries[q])
        <5>1. x \notin tries[q] \/ t \notin tries[q]
          BY <3>2, <4>1
        <5>2. ASSUME x \notin tries[q] PROVE x = new /\ t \in tries[q]
          BY <5>2, <4>2, <2>2
        <5>3. ASSUME t \notin tries[q] PROVE t = new /\ x \in tries[q]
          BY <5>3, <4>2, <2>2
        <5>4. QED BY <5>1, <5>2, <5>3
      <4>4. QED BY <4>1, <4>3, <2>1, <2>2 DEF Apart
    <3>3. QED BY <3>1, <3>2
  <2>3. QED BY <2>2 DEF AttemptsLeaseApart
<1>14. QED BY <1>4, <1>5, <1>6, <1>10, <1>11, <1>12, <1>13 DEF ApartInv

\* Sending keeps holders apart and attempts a lease apart.
LEMMA RunApart ==
    ASSUME LeaseInv, NEW w \in Workers, NEW r \in Reminders,
           RejectSchedule(w, r) \/ SendSucceeds(w, r) \/ SendFails(w, r)
    PROVE  ApartInv'
<1>1. CASE RejectSchedule(w, r)
  BY <1>1, ConcludeApart DEF RejectSchedule
<1>2. CASE SendSucceeds(w, r)
  BY <1>2, ConcludeApart DEF SendSucceeds
<1>3. CASE SendFails(w, r)
  <2>1. (snap[w][r] + 1 < MaxFailures) \in BOOLEAN
    OBVIOUS
  <2>2. QED BY <1>3, <2>1, ConcludeApart DEF SendFails
<1>4. QED BY <1>1, <1>2, <1>3

\* Only the lease's worker writes the row, and it moves the schedule forward.
LEMMA FinishApart ==
    ASSUME LeaseInv, NEW w \in Workers, FinishRun(w)
    PROVE  ApartInv' /\ \A r \in Reminders : row'[r].nextRun >= row[r].nextRun
<1>1. PICK q \in Reminders : q = hand[w]
  BY DEF FinishRun, LeaseInv, TypeOK
<1> DEFINE lessee == row[q].exists /\ row[q].leaseId = w
<1>2. /\ phase[w] = "finish" /\ hand[w] = q /\ q \notin todo[w]
      /\ at \in [Workers -> Nat] /\ occ \in [Workers -> [Reminders -> Nat]]
      /\ phase \in [Workers -> {"idle", "selected", "batch", "finish"}]
      /\ hand \in [Workers -> Reminders \cup {None}]
      /\ verdict[w].next > at[w] /\ verdict[w].next \in Nat
  BY <1>1 DEF FinishRun, LeaseInv, LocalsInv, TypeOK
<1>3. /\ phase' = [phase EXCEPT ![w] = "batch"]
      /\ hand' = [hand EXCEPT ![w] = None]
      /\ \A v \in Workers \ {w} : verdict'[v] = verdict[v]
      /\ UNCHANGED <<clock, at, todo, occ, tries>>
  BY DEF FinishRun, NextInBatch, LeaseInv, TypeOK
<1>4. /\ ~Holds(w, q)' /\ Holds(w, q)
      /\ \A v \in Workers, r \in Reminders : Holds(v, r)' => Holds(v, r)
  BY <1>2, <1>3, NoneIsNoReminder DEF Holds
<1>5. /\ \A r \in Reminders : row[r].nextRun \in Nat
      /\ \A r \in Reminders \ {q} : row'[r] = row[r]
      /\ ~lessee => row' = row
      /\ lessee => /\ row'[q].exists
                   /\ row'[q].nextRun = verdict[w].next
                   /\ row'[q].leaseId = None
  BY <1>1, <1>2 DEF FinishRun, LeaseInv, TypeOK, Row
<1>6. lessee => row[q].nextRun = occ[w][q] /\ occ[w][q] <= at[w]
  BY <1>4 DEF LeaseInv, HeldInv
<1>7. lessee => row'[q].nextRun > row[q].nextRun
  BY <1>2, <1>5, <1>6
<1>8. \A r \in Reminders : row'[r].nextRun >= row[r].nextRun
  BY <1>5, <1>7, <1>2
<1>9. HeldInv'
  <2> SUFFICES ASSUME NEW v \in Workers, NEW r \in Reminders, Holds(v, r)'
               PROVE
        /\ occ[v][r] <= row'[r].nextRun /\ occ[v][r] <= at[v]
        /\ row'[r].leaseId = v => /\ row'[r].leaseUntil = at[v] + Lease
                                  /\ row'[r].nextRun = occ[v][r]
        /\ row'[r].exists /\ row'[r].leaseId # v => at[v] + Lease < clock
        /\ row'[r].exists /\ row'[r].nextRun = occ[v][r] =>
               row'[r].leaseId # None /\ row'[r].leaseUntil >= at[v] + Lease
    BY <1>3 DEF HeldInv
  <2>1. Holds(v, r) /\ (v = w => r # q)
    BY <1>4
  <2>2. CASE r = q /\ lessee
    <3>1. /\ occ[v][r] <= row[r].nextRun /\ occ[v][r] <= at[v]
          /\ at[v] + Lease < clock
      BY <2>1, <2>2 DEF LeaseInv, HeldInv
    <3>2. occ[v][r] < row'[r].nextRun
      BY <3>1, <2>2, <1>2, <1>5, <1>7
    <3>3. QED BY <3>1, <3>2, <2>2, <1>2, <1>5, NoneIsNoWorker
  <2>3. CASE r # q \/ ~lessee
    BY <2>1, <2>3, <1>5 DEF LeaseInv, HeldInv
  <2>4. QED BY <2>2, <2>3
<1>10. TriesInv'
  <2> SUFFICES ASSUME NEW r \in Reminders, NEW t \in tries[r]
               PROVE
        /\ t.occ <= row'[r].nextRun
        /\ row'[r].exists /\ row'[r].nextRun = t.occ =>
               row'[r].leaseId # None /\ row'[r].leaseUntil >= t.at + Lease
    BY <1>3 DEF TriesInv
  <2>1. CASE r = q /\ lessee
    <3>1. t.occ \in Nat /\ t.occ <= row[r].nextRun
      BY DEF LeaseInv, TriesInv, TypeOK, Try
    <3>2. t.occ < row'[r].nextRun
      BY <3>1, <2>1, <1>2, <1>5, <1>7
    <3>3. QED BY <3>1, <3>2, <2>1, <1>2, <1>5
  <2>2. CASE r # q \/ ~lessee
    BY <2>2, <1>5 DEF LeaseInv, TriesInv
  <2>3. QED BY <2>1, <2>2
<1>11. LocalsInv'
  BY <1>2, <1>3 DEF LeaseInv, LocalsInv
<1>12. SenderApart' /\ LeaseExclusive' /\ AttemptsLeaseApart'
  BY <1>3, <1>4 DEF LeaseInv, SenderApart, Apart, LeaseExclusive,
                    AttemptsLeaseApart
<1>13. SentInv'
  BY <1>2, <1>3 DEF LeaseInv, SentInv
<1>14. QED BY <1>8, <1>9, <1>10, <1>11, <1>12, <1>13 DEF ApartInv

-----------------------------------------------------------------------------
(* The invariant and what follows from it. *)

\* A lost finish keeps holders apart: the row stays leased.
LEMMA FinishFailsApart ==
    ASSUME LeaseInv, NEW w \in Workers, FinishFails(w)
    PROVE  ApartInv'
<1>1. /\ phase[w] = "finish"
      /\ phase' = [phase EXCEPT ![w] = "batch"]
      /\ hand' = [hand EXCEPT ![w] = None]
      /\ \A v \in Workers \ {w} : verdict'[v] = verdict[v]
      /\ UNCHANGED <<clock, row, at, todo, occ, tries>>
  BY DEF FinishFails, NextInBatch, LeaseInv, TypeOK
<1>2. /\ phase \in [Workers -> {"idle", "selected", "batch", "finish"}]
      /\ hand \in [Workers -> Reminders \cup {None}]
  BY DEF LeaseInv, TypeOK
<1>3. LocalsInv'
  BY <1>1, <1>2 DEF LeaseInv, LocalsInv
<1>4. \A v \in Workers, r \in Reminders : Holds(v, r)' => Holds(v, r)
  BY <1>1, <1>2, NoneIsNoReminder DEF Holds
<1>5. \A v \in Workers : phase'[v] = "finish" =>
          phase[v] = "finish" /\ hand'[v] = hand[v]
  BY <1>1, <1>2
<1>6. QED BY <1>1, <1>3, <1>4, <1>5, ShrinkApart

\* The lease invariant is inductive.
LEMMA LeaseStep == LeaseInv /\ [Next]_vars => LeaseInv'
<1> SUFFICES ASSUME LeaseInv, [Next]_vars PROVE LeaseInv'
  OBVIOUS
<1>1. TypeOK'
  BY TypeStep DEF LeaseInv
<1>2. ApartInv'
  <2>1. CASE UNCHANGED vars
    <3>1. LocalsInv'
      BY <2>1 DEF vars, LeaseInv, LocalsInv
    <3>2. QED BY <2>1, <3>1, ShrinkApart DEF vars, Holds
  <2>2. CASE Next
    BY <2>2, TickApart, DeleteApart, CrashApart, PollApart, ClaimApart,
       LostApart, RunApart, FinishApart, FinishFailsApart
    DEF Next, Poll, RunOne
  <2>3. QED BY <2>1, <2>2
<1>3. QED BY <1>1, <1>2 DEF LeaseInv, ApartInv

\* Every reachable state satisfies the lease invariant: the row names the last
\* worker that claimed it and when, and all earlier holders are out of time.
THEOREM LeaseInvariant == Spec => []LeaseInv
<1>1. Init => LeaseInv
  BY InitTypeOK, InitApart DEF LeaseInv, ApartInv
<1>2. QED BY <1>1, LeaseStep, PTL DEF Spec

\* Two workers never work on one reminder within a lease.
THEOREM OneHolderPerLease == Spec => []LeaseExclusive
<1>1. LeaseInv => LeaseExclusive
  BY DEF LeaseInv
<1>2. QED BY <1>1, LeaseInvariant, PTL

\* One occurrence is attempted at most once per lease.
THEOREM OneAttemptPerLease == Spec => []AttemptsLeaseApart
<1>1. LeaseInv => AttemptsLeaseApart
  BY DEF LeaseInv
<1>2. QED BY <1>1, LeaseInvariant, PTL

\* Only FinishRun, and only for the lessee, changes when a reminder runs next.
LEMMA NextRunFrame ==
    ASSUME LeaseInv, [Next]_vars, NEW r \in Reminders,
           row'[r].nextRun # row[r].nextRun
    PROVE  \E w \in Workers : FinishRun(w) /\ r = hand[w] /\ row[r].leaseId = w
<1>1. \A q \in Reminders : row[q] \in Row
  BY DEF LeaseInv, TypeOK
<1>2. row' # row
  OBVIOUS
<1>3. ASSUME NEW q \in Reminders, DeleteReminder(q) PROVE FALSE
  BY <1>1, <1>3 DEF DeleteReminder, LeaseInv, TypeOK
<1>4. ASSUME NEW w \in Workers, ClaimCandidates(w) \/ ClaimLost(w) PROVE FALSE
  <2>1. PICK C : row' = Leased(w, C)
    BY <1>4 DEF ClaimCandidates, ClaimLost
  <2> QED BY <1>1, <2>1 DEF Leased, Row
<1>5. PICK w \in Workers : FinishRun(w)
  BY <1>2, <1>3, <1>4
  DEF Next, vars, Tick, StartWorker, CancelWorker, Crash, Poll,
      SelectCandidates, ClaimFails, EndBatch, RunOne, RejectSchedule,
      SendSucceeds, SendFails, FinishFails
<1>6. r = hand[w] /\ row[r].leaseId = w
  BY <1>1, <1>5 DEF FinishRun, LeaseInv, TypeOK
<1>7. QED BY <1>5, <1>6

\* A crash, a cancellation or a lost finish never skips an occurrence.
THEOREM NothingSkipped == Spec => NoOccurrenceSkipped
<1> DEFINE Skip == \A r \in Reminders :
               row'[r].nextRun # row[r].nextRun =>
                   \/ r \in Unparsable
                   \/ \E t \in tries[r] : t.occ = row[r].nextRun
<1>1. LeaseInv /\ [Next]_vars => [Skip]_vars
  <2> SUFFICES ASSUME LeaseInv, [Next]_vars, NEW r \in Reminders,
                      row'[r].nextRun # row[r].nextRun, r \notin Unparsable
               PROVE  \E t \in tries[r] : t.occ = row[r].nextRun
    OBVIOUS
  <2>1. PICK w \in Workers :
            FinishRun(w) /\ r = hand[w] /\ row[r].leaseId = w
    BY NextRunFrame
  <2>2. phase[w] = "finish" /\ Holds(w, r)
    BY <2>1 DEF FinishRun, Holds
  <2>3. row[r].nextRun = occ[w][r]
    BY <2>1, <2>2 DEF LeaseInv, HeldInv
  <2>4. QED BY <2>1, <2>2, <2>3 DEF LeaseInv, SentInv
<1>2. QED BY <1>1, LeaseInvariant, PTL DEF Spec, NoOccurrenceSkipped

\* A finish never moves a schedule back.
THEOREM ForwardOnly == Spec => ScheduleMovesForward
<1> DEFINE Forward == \A r \in Reminders : row'[r].nextRun >= row[r].nextRun
<1>1. LeaseInv /\ [Next]_vars => [Forward]_vars
  <2> SUFFICES ASSUME LeaseInv, [Next]_vars, NEW r \in Reminders
               PROVE  row'[r].nextRun >= row[r].nextRun
    OBVIOUS
  <2>1. row[r].nextRun \in Nat
    BY DEF LeaseInv, TypeOK, Row
  <2>2. CASE row'[r].nextRun = row[r].nextRun
    BY <2>1, <2>2
  <2>3. CASE row'[r].nextRun # row[r].nextRun
    BY <2>3, NextRunFrame, FinishApart
  <2>4. QED BY <2>2, <2>3
<1>2. QED BY <1>1, LeaseInvariant, PTL DEF Spec, ScheduleMovesForward

-----------------------------------------------------------------------------
(* When a reminder is disabled. *)

\* The attempts at r that failed.
FailedTries(r) == {t \in tries[r] : ~t.ok}

\* Every count of failures a worker may act on - in the row, in an old snapshot
\* of it, in the verdict about to be written - is at most the attempts that
\* failed; the numbers are of finite sets.
CountsInv ==
    /\ \A r \in Reminders : IsFiniteSet(tries[r])
    /\ \A r \in Reminders \ Unparsable :
           /\ row[r].failures <= Cardinality(FailedTries(r))
           /\ \A w \in Workers : snap[w][r] <= Cardinality(FailedTries(r))
           /\ \A w \in Workers : phase[w] = "finish" /\ hand[w] = r =>
                  /\ verdict[w].failures <= Cardinality(FailedTries(r))
                  /\ ~verdict[w].enabled => verdict[w].failures >= MaxFailures

\* The inductive invariant behind NeverDisabledEarly.
FailInv == CountsInv /\ NeverDisabledEarly

\* Adding attempts never lowers the number of those that failed.
LEMMA FailedTriesGrow ==
    ASSUME NEW S, NEW t, IsFiniteSet(S)
    PROVE  /\ IsFiniteSet(S \cup {t})
           /\ Cardinality({x \in S : ~x.ok}) \in Nat
           /\ Cardinality({x \in S \cup {t} : ~x.ok}) \in Nat
           /\ Cardinality({x \in S : ~x.ok})
                <= Cardinality({x \in S \cup {t} : ~x.ok})
           /\ ~t.ok /\ t \notin S =>
                  Cardinality({x \in S \cup {t} : ~x.ok})
                      = Cardinality({x \in S : ~x.ok}) + 1
<1> DEFINE A == {x \in S : ~x.ok}
           B == {x \in S \cup {t} : ~x.ok}
<1>1. IsFiniteSet(S \cup {t})
  BY FS_AddElement
<1>2. IsFiniteSet(A) /\ IsFiniteSet(B)
  <2>1. A \subseteq S /\ B \subseteq S \cup {t}
    OBVIOUS
  <2> QED BY <1>1, <2>1, FS_Subset
<1>3. Cardinality(A) \in Nat /\ Cardinality(B) \in Nat
  BY <1>2, FS_CardinalityType
<1>4. Cardinality(A) <= Cardinality(B)
  <2>1. A \subseteq B
    OBVIOUS
  <2> QED BY <1>2, <2>1, FS_Subset
<1>5. ASSUME ~t.ok, t \notin S PROVE Cardinality(B) = Cardinality(A) + 1
  <2>1. B = A \cup {t} /\ t \notin A
    BY <1>5
  <2> QED BY <1>2, <2>1, FS_AddElement
<1> QED BY <1>1, <1>3, <1>4, <1>5

\* A step that adds no attempt and counts nothing anew keeps FailInv.
LEMMA CountsFrame ==
    ASSUME FailInv, UNCHANGED tries,
           \A r \in Reminders : /\ row'[r].failures = row[r].failures
                                /\ row'[r].enabled = row[r].enabled,
           \A w \in Workers, r \in Reminders : snap'[w][r] = snap[w][r],
           \A w \in Workers : phase'[w] = "finish" =>
               /\ phase[w] = "finish" /\ hand'[w] = hand[w]
               /\ verdict'[w] = verdict[w]
    PROVE  FailInv'
BY DEF FailInv, CountsInv, FailedTries, NeverDisabledEarly

\* A worker concludes r: it attempted it once more, or r's schedule does not
\* parse; the count goes up only with an attempt that failed.
LEMMA ConcludeCounts ==
    ASSUME LeaseInv, FailInv, NEW w \in Workers, NEW q \in Reminders,
           NEW f \in Nat, NEW e \in BOOLEAN, NEW ok \in BOOLEAN,
           phase[w] = "batch", q \in todo[w], Conclude(w, q, f, e),
           UNCHANGED <<row, snap>>,
           \/ /\ tries' = [tries EXCEPT ![q] = @ \cup {Attempt(w, q, ok)}]
              /\ \/ ok /\ f = 0 /\ e
                 \/ ~ok /\ f = snap[w][q] + 1 /\ e = (f < MaxFailures)
           \/ tries' = tries /\ q \in Unparsable
    PROVE  FailInv'
<1> DEFINE new == Attempt(w, q, ok)
           Now(r) == Cardinality(FailedTries(r))
           Then(r) == Cardinality({t \in tries'[r] : ~t.ok})
<1>1. /\ phase' = [phase EXCEPT ![w] = "finish"]
      /\ hand' = [hand EXCEPT ![w] = q]
      /\ verdict'[w].failures = f /\ verdict'[w].enabled = e
      /\ \A v \in Workers \ {w} : verdict'[v] = verdict[v]
      /\ phase \in [Workers -> {"idle", "selected", "batch", "finish"}]
      /\ hand \in [Workers -> Reminders \cup {None}]
      /\ snap \in [Workers -> [Reminders -> Nat]]
      /\ \A r \in Reminders : row[r].failures \in Nat
      /\ \A v \in Workers : verdict[v].failures \in Nat
  BY DEF Conclude, LeaseInv, TypeOK, Row
<1>2. new.ok = ok /\ new \notin tries[q]
  <2>1. new.occ = occ[w][q] /\ new.at = at[w] /\ new.ok = ok
    BY DEF Attempt
  <2>2. \A t \in tries[q] : t.occ = occ[w][q] => Apart(t.at, at[w])
    BY DEF LeaseInv, SenderApart, Holds
  <2>3. at[w] \in Nat
    BY DEF LeaseInv, TypeOK
  <2> QED BY <2>1, <2>2, <2>3, TimesPositive DEF Apart
<1>3. \/ tries' = [tries EXCEPT ![q] = @ \cup {new}]
      \/ tries' = tries
  OBVIOUS
<1> HIDE DEF new
<1>4. \A r \in Reminders :
          /\ IsFiniteSet(tries'[r])
          /\ Now(r) \in Nat /\ Then(r) \in Nat /\ Now(r) <= Then(r)
  <2> SUFFICES ASSUME NEW r \in Reminders
               PROVE  /\ IsFiniteSet(tries'[r])
                      /\ Now(r) \in Nat /\ Then(r) \in Nat /\ Now(r) <= Then(r)
    OBVIOUS
  <2>1. IsFiniteSet(tries[r]) /\ tries \in [Reminders -> SUBSET Try]
    BY DEF FailInv, CountsInv, LeaseInv, TypeOK
  <2>2. CASE tries'[r] = tries[r]
    <3>1. Then(r) = Now(r) /\ Now(r) \in Nat
      BY <2>1, <2>2, FailedTriesGrow DEF FailedTries
    <3> QED BY <2>1, <2>2, <3>1
  <2>3. CASE tries'[r] = tries[r] \cup {new}
    <3>1. /\ IsFiniteSet(tries[r] \cup {new})
          /\ Cardinality({x \in tries[r] : ~x.ok}) \in Nat
          /\ Cardinality({x \in tries[r] \cup {new} : ~x.ok}) \in Nat
          /\ Cardinality({x \in tries[r] : ~x.ok})
               <= Cardinality({x \in tries[r] \cup {new} : ~x.ok})
      BY <2>1, FailedTriesGrow
    <3> QED BY <2>3, <3>1, Zenon DEF FailedTries
  <2> QED BY <2>1, <2>2, <2>3, <1>3
<1>5. CountsInv'
  <2> SUFFICES ASSUME NEW r \in Reminders \ Unparsable
               PROVE  /\ row[r].failures <= Then(r)
                      /\ \A v \in Workers : snap[v][r] <= Then(r)
                      /\ \A v \in Workers : phase'[v] = "finish" /\ hand'[v] = r =>
                             /\ verdict'[v].failures <= Then(r)
                             /\ ~verdict'[v].enabled =>
                                    verdict'[v].failures >= MaxFailures
    BY <1>4 DEF CountsInv, FailedTries
  <2>1. /\ row[r].failures <= Now(r)
        /\ \A v \in Workers : snap[v][r] <= Now(r)
        /\ \A v \in Workers : phase[v] = "finish" /\ hand[v] = r =>
               /\ verdict[v].failures <= Now(r)
               /\ ~verdict[v].enabled => verdict[v].failures >= MaxFailures
    BY DEF FailInv, CountsInv
  <2>2. /\ Now(r) \in Nat /\ Then(r) \in Nat /\ Now(r) <= Then(r)
        /\ row[r].failures \in Nat
        /\ \A v \in Workers : snap[v][r] \in Nat /\ verdict[v].failures \in Nat
    BY <1>1, <1>4
  <2>3. ASSUME r = q
        PROVE  f <= Then(r) /\ (~e => f >= MaxFailures)
    <3>1. tries' = [tries EXCEPT ![q] = @ \cup {new}]
      BY <2>3 DEF new
    <3>2. tries'[q] = tries[q] \cup {new}
      BY <3>1 DEF LeaseInv, TypeOK
    <3>3. CASE ok /\ f = 0 /\ e
      BY <2>2, <3>3
    <3>4. CASE ~ok /\ f = snap[w][q] + 1 /\ e = (f < MaxFailures)
      <4>1. IsFiniteSet(tries[q])
        BY DEF FailInv, CountsInv
      <4>2. Then(q) = Now(q) + 1
        BY <1>2, <3>2, <3>4, <4>1, FailedTriesGrow DEF FailedTries
      <4>3. snap[w][q] \in Nat /\ snap[w][q] <= Now(q) /\ Now(q) \in Nat
        BY <2>1, <2>2, <2>3
      <4>4. ~e => ~(f < MaxFailures)
        BY <3>4
      <4>5. f \in Nat /\ f = snap[w][q] + 1
        BY <3>4
      <4> HIDE DEF Now, Then
      <4>6. f <= Then(q)
        BY <4>2, <4>3, <4>5
      <4>7. ~e => f >= MaxFailures
        BY <4>4, <4>5, TimesPositive
      <4> QED BY <2>3, <4>6, <4>7, Zenon
    <3> QED BY <2>3, <3>3, <3>4
  <2> HIDE DEF Now, Then
  <2> QED BY <1>1, <2>1, <2>2, <2>3
<1>6. NeverDisabledEarly'
  <2> SUFFICES ASSUME NEW r \in Reminders \ Unparsable, ~row[r].enabled
               PROVE  Then(r) >= MaxFailures
    BY DEF NeverDisabledEarly
  <2>1. Now(r) >= MaxFailures
    BY DEF FailInv, NeverDisabledEarly, FailedTries
  <2>2. Now(r) \in Nat /\ Then(r) \in Nat /\ Now(r) <= Then(r)
    BY <1>4
  <2> HIDE DEF Now, Then
  <2> QED BY <2>1, <2>2, TimesPositive
<1> QED BY <1>5, <1>6 DEF FailInv

\* A finish writes a count that is covered by failed attempts, and disables the
\* reminder only with MaxFailures of them.
LEMMA FinishCounts ==
    ASSUME LeaseInv, FailInv, NEW w \in Workers, FinishRun(w)
    PROVE  FailInv'
<1>1. PICK q \in Reminders : q = hand[w]
  BY DEF FinishRun, LeaseInv, TypeOK
<1>2. /\ phase[w] = "finish" /\ hand[w] = q
      /\ \A r \in Reminders \ {q} : row'[r] = row[r]
      /\ \/ row'[q] = row[q]
         \/ /\ row'[q].failures = verdict[w].failures
            /\ row'[q].enabled = verdict[w].enabled
      /\ \A v \in Workers : phase'[v] = "finish" =>
             phase[v] = "finish" /\ hand'[v] = hand[v] /\ verdict'[v] = verdict[v]
      /\ UNCHANGED <<snap, tries>>
  BY <1>1 DEF FinishRun, NextInBatch, LeaseInv, TypeOK
<1>3. \A r \in Reminders : Cardinality(FailedTries(r)) \in Nat
  <2> SUFFICES ASSUME NEW r \in Reminders
               PROVE  Cardinality(FailedTries(r)) \in Nat
    OBVIOUS
  <2>1. IsFiniteSet(tries[r])
    BY DEF FailInv, CountsInv
  <2> QED BY <2>1, FailedTriesGrow DEF FailedTries
<1>4. CountsInv'
  BY <1>2 DEF FailInv, CountsInv, FailedTries
<1>5. NeverDisabledEarly'
  <2> SUFFICES ASSUME NEW r \in Reminders \ Unparsable, ~row'[r].enabled
               PROVE  Cardinality(FailedTries(r)) >= MaxFailures
    BY <1>2 DEF NeverDisabledEarly, FailedTries
  <2>1. CASE row'[r] = row[r]
    BY <2>1 DEF FailInv, NeverDisabledEarly, FailedTries
  <2>2. CASE row'[r] # row[r]
    <3>1. r = q /\ ~verdict[w].enabled
      BY <1>2, <2>2
    <3>2. /\ verdict[w].failures >= MaxFailures
          /\ verdict[w].failures <= Cardinality(FailedTries(r))
      BY <1>2, <3>1 DEF FailInv, CountsInv
    <3>3. verdict[w].failures \in Nat
      BY DEF LeaseInv, TypeOK
    <3> QED BY <1>3, <3>2, <3>3, TimesPositive
  <2> QED BY <2>1, <2>2
<1> QED BY <1>4, <1>5 DEF FailInv

\* Every step keeps FailInv, in the states that keep attempts a lease apart.
LEMMA FailStep == LeaseInv /\ FailInv /\ [Next]_vars => FailInv'
<1> SUFFICES ASSUME LeaseInv, FailInv, [Next]_vars PROVE FailInv'
  OBVIOUS
<1>0. TypeOK
  BY DEF LeaseInv
<1>1. CASE UNCHANGED vars
  BY <1>1, CountsFrame DEF vars
<1>2. CASE Tick
  BY <1>2, CountsFrame DEF Tick, locals
<1>3. ASSUME NEW r \in Reminders, DeleteReminder(r) PROVE FailInv'
  BY <1>0, <1>3, CountsFrame DEF DeleteReminder, locals, TypeOK, Row
<1>4. ASSUME NEW w \in Workers, StartWorker(w) \/ CancelWorker(w) \/ Crash(w)
      PROVE  FailInv'
  BY <1>0, <1>4, CountsFrame
     DEF StartWorker, CancelWorker, Crash, locals, TypeOK
<1>5. ASSUME NEW w \in Workers, SelectCandidates(w) PROVE FailInv'
  <2>1. PICK C \in SUBSET Reminders :
            snap' = [snap EXCEPT ![w] =
                [r \in Reminders |-> IF r \in C THEN row[r].failures ELSE 0]]
    BY <1>5 DEF SelectCandidates, Earliest
  <2>2. /\ UNCHANGED <<row, tries>>
        /\ \A v \in Workers : phase'[v] = "finish" =>
               /\ phase[v] = "finish" /\ hand'[v] = hand[v]
               /\ verdict'[v] = verdict[v]
    BY <1>0, <1>5 DEF SelectCandidates, TypeOK
  <2>3. \A r \in Reminders \ Unparsable, v \in Workers :
            snap'[v][r] <= Cardinality(FailedTries(r))
    <3> SUFFICES ASSUME NEW r \in Reminders \ Unparsable, NEW v \in Workers
                 PROVE  snap'[v][r] <= Cardinality(FailedTries(r))
      OBVIOUS
    <3>1. IsFiniteSet(tries[r])
      BY DEF FailInv, CountsInv
    <3>2. Cardinality(FailedTries(r)) \in Nat
      BY <3>1, FailedTriesGrow DEF FailedTries
    <3>3. snap'[v][r] \in {snap[v][r], row[r].failures, 0}
      BY <1>0, <2>1 DEF TypeOK
    <3> QED BY <3>2, <3>3 DEF FailInv, CountsInv
  <2> QED BY <2>2, <2>3 DEF FailInv, CountsInv, FailedTries, NeverDisabledEarly
<1>6. ASSUME NEW w \in Workers, ClaimCandidates(w) \/ ClaimLost(w)
      PROVE  FailInv'
  <2>1. \A r \in Reminders : /\ row'[r].failures = row[r].failures
                             /\ row'[r].enabled = row[r].enabled
    <3> SUFFICES ASSUME NEW r \in Reminders
                 PROVE  /\ row'[r].failures = row[r].failures
                        /\ row'[r].enabled = row[r].enabled
      OBVIOUS
    <3>1. \/ row'[r] = row[r]
          \/ row'[r] = [row[r] EXCEPT !.leaseId = w, !.leaseUntil = at[w] + Lease]
      BY <1>6 DEF ClaimCandidates, ClaimLost, Leased
    <3>2. row[r] \in Row
      BY <1>0 DEF TypeOK
    <3> QED BY <3>1, <3>2 DEF Row
  <2>2. /\ UNCHANGED <<tries, snap, hand, verdict>>
        /\ \/ phase' = [phase EXCEPT ![w] = "batch"]
           \/ phase' = [phase EXCEPT ![w] = "idle"]
        /\ DOMAIN phase = Workers
    BY <1>0, <1>6 DEF ClaimCandidates, ClaimLost, TypeOK
  <2>3. \A v \in Workers : phase'[v] = "finish" => phase[v] = "finish"
    BY <2>2
  <2> QED BY <2>1, <2>2, <2>3, CountsFrame
<1>7. ASSUME NEW w \in Workers, ClaimFails(w) PROVE FailInv'
  BY <1>0, <1>7, CountsFrame DEF ClaimFails, TypeOK
<1>8. ASSUME NEW w \in Workers, EndBatch(w) PROVE FailInv'
  <2>1. /\ UNCHANGED <<row, tries, hand, verdict>>
        /\ \A v \in Workers : phase'[v] = "finish" => phase[v] = "finish"
        /\ \A v \in Workers, r \in Reminders : snap'[v][r] \in {snap[v][r], 0}
    BY <1>0, <1>8 DEF EndBatch, TypeOK
  <2>2. \A r \in Reminders : Cardinality(FailedTries(r)) \in Nat
    <3> SUFFICES ASSUME NEW r \in Reminders
                 PROVE  Cardinality(FailedTries(r)) \in Nat
      OBVIOUS
    <3>1. IsFiniteSet(tries[r])
      BY DEF FailInv, CountsInv
    <3> QED BY <3>1, FailedTriesGrow DEF FailedTries
  <2>3. \A r \in Reminders \ Unparsable, v \in Workers :
            snap'[v][r] <= Cardinality(FailedTries(r))
    BY <2>1, <2>2 DEF FailInv, CountsInv
  <2> QED BY <2>1, <2>3 DEF FailInv, CountsInv, FailedTries, NeverDisabledEarly
<1>9. ASSUME NEW w \in Workers, NEW r \in Reminders,
             RejectSchedule(w, r) \/ SendSucceeds(w, r) \/ SendFails(w, r)
      PROVE  FailInv'
  <2>1. snap[w][r] + 1 \in Nat /\ 0 \in Nat
        /\ (snap[w][r] + 1 < MaxFailures) \in BOOLEAN
    BY <1>0, TimesPositive DEF TypeOK
  <2>2. CASE RejectSchedule(w, r)
    BY <2>1, <2>2, ConcludeCounts DEF RejectSchedule
  <2>3. CASE SendSucceeds(w, r)
    BY <2>1, <2>3, ConcludeCounts DEF SendSucceeds
  <2>4. CASE SendFails(w, r)
    BY <2>1, <2>4, ConcludeCounts DEF SendFails
  <2> QED BY <1>9, <2>2, <2>3, <2>4
<1>10. ASSUME NEW w \in Workers, FinishFails(w) PROVE FailInv'
  BY <1>0, <1>10, CountsFrame DEF FinishFails, NextInBatch, TypeOK
<1> QED BY <1>1, <1>2, <1>3, <1>4, <1>5, <1>6, <1>7, <1>8, <1>9, <1>10,
           FinishCounts
        DEF Next, Poll, RunOne

\* However old the counts the workers act on, a reminder is disabled for
\* failing only after MaxFailures attempts failed.
THEOREM DisabledAfterFailures == Spec => []NeverDisabledEarly
<1>1. Init => FailInv
  <2> SUFFICES ASSUME Init PROVE FailInv
    OBVIOUS
  <2>1. \A r \in Reminders : tries[r] = {} /\ FailedTries(r) = {}
    BY DEF Init, FailedTries
  <2>2. IsFiniteSet({}) /\ Cardinality({}) = 0
    BY FS_EmptySet
  <2>3. /\ \A r \in Reminders : row[r].failures = 0 /\ row[r].enabled
        /\ \A w \in Workers : /\ phase[w] = "idle"
                              /\ \A r \in Reminders : snap[w][r] = 0
    BY DEF Init
  <2>4. CountsInv
    <3>1. \A r \in Reminders :
              IsFiniteSet(tries[r]) /\ Cardinality(FailedTries(r)) = 0
      BY <2>1, <2>2
    <3> QED BY <2>3, <3>1 DEF CountsInv
  <2>5. NeverDisabledEarly
    BY <2>3 DEF NeverDisabledEarly
  <2> QED BY <2>4, <2>5 DEF FailInv
<1>2. FailInv => NeverDisabledEarly
  BY DEF FailInv
<1> QED BY <1>1, <1>2, FailStep, LeaseInvariant, PTL DEF Spec
=============================================================================
