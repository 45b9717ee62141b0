------------------------ MODULE PluginGenerationProofs ------------------------
(* Theorems about PluginGeneration for every set of generations, callers   *)
(* and closers.                                                            *)
EXTENDS PluginGeneration, FiniteSetTheorems, TLAPS

\* The counter that Drain and Release trust is the number of callbacks that
\* hold a slot.
SlotCount == \A g \in Generations : active[g] = Cardinality(Serving(g))

ReleasedIsQuiet ==
    \A g \in Generations : released[g] => ~accepting[g] /\ active[g] = 0

\* Before its swap, and when it is refused, a generation is outside the manager.
OutsideManager ==
    \A g \in Generations :
        /\ loader[g] \in {"built", "ready", "refused", "dispose"} =>
               current # g /\ retirement[g] = "no"
        /\ loader[g] \in {"built", "ready"} => accepting[g] /\ ~released[g]

CurrentIsFresh ==
    current # None =>
        /\ retirement[current] = "no"
        /\ loader[current] \in {"drain", "done"}

\* What is about to be drained has already left the manager.
DrainsWhatLeft ==
    /\ \A g \in Generations :
           loader[g] = "drain" => /\ previous[g] \in Generations
                                  /\ retirement[previous[g]] # "no"
    /\ \A k \in Closers :
           closer[k] = "drain" => /\ closing[k] \in Generations
                                  /\ retirement[closing[k]] # "no"

\* How far a dispatch has got says how often the generation was replaced.
DispatchSeesSwaps ==
    \A c \in Callers :
        /\ caller[c] \in {"acquire", "running", "recheck"} =>
               loader[target[c]] \in {"drain", "done"}
        /\ caller[c] \in {"idle", "stale"} => attempt[c] = 1
        /\ caller[c] \in {"read", "acquire"} =>
               swaps + 1 >= seenSwaps[c] + attempt[c]
        /\ caller[c] = "acquire" /\ current # target[c] =>
               swaps >= seenSwaps[c] + attempt[c]
        /\ caller[c] = "recheck" =>
               current # target[c] /\ swaps >= seenSwaps[c] + attempt[c]

DispatchInv ==
    /\ TypeOK
    /\ SlotCount
    /\ ReleasedIsQuiet
    /\ OutsideManager
    /\ CurrentIsFresh
    /\ CurrentServes
    /\ DrainsWhatLeft
    /\ DispatchSeesSwaps
    /\ StaleMeansReplacedTwice

-----------------------------------------------------------------------------
(* Type correctness. *)

\* The initial state is well typed.
LEMMA InitTypeOK == Init => TypeOK
BY DEF Init, TypeOK, MaxAttempts, UnderWay

\* The steps of an activation keep every variable's type.
LEMMA LoaderTypeOK ==
    ASSUME TypeOK, NEW g \in Generations, LoaderStep(g)
    PROVE  TypeOK'
<1> USE DEF TypeOK, managerVars, slotVars, loaderVars, callerVars, closerVars,
           UnderWay
<1>1. CASE CheckReady(g)        BY <1>1 DEF CheckReady
<1>2. CASE Swap(g)              BY <1>2 DEF Swap, BeginRetirement
<1>3. CASE RefuseDuplicate(g)   BY <1>3 DEF RefuseDuplicate
<1>4. CASE DrainPrevious(g)     BY <1>4 DEF DrainPrevious, BeginDrain
<1>5. CASE DrainRefused(g)      BY <1>5 DEF DrainRefused, BeginDrain
<1>6. CASE ReleaseRefused(g)    BY <1>6 DEF ReleaseRefused, Release
<1>7. QED BY <1>1, <1>2, <1>3, <1>4, <1>5, <1>6 DEF LoaderStep

\* The steps of a dispatch keep every variable's type.
LEMMA DispatchTypeOK ==
    ASSUME TypeOK, NEW c \in Callers,
           StartCall(c) \/ DispatchStep(c) \/ FinishCallback(c)
    PROVE  TypeOK'
<1> USE DEF TypeOK, managerVars, slotVars, loaderVars, callerVars, closerVars,
           MaxAttempts
<1>1. CASE StartCall(c)         BY <1>1 DEF StartCall
<1>2. CASE ReadCurrent(c)       BY <1>2 DEF ReadCurrent
<1>3. CASE ReadNone(c)          BY <1>3 DEF ReadNone, Return
<1>4. CASE Acquire(c)           BY <1>4 DEF Acquire
<1>5. CASE AcquireRefused(c)    BY <1>5 DEF AcquireRefused
<1>6. CASE Retry(c)             BY <1>6 DEF Retry
<1>7. CASE GiveUp(c)            BY <1>7 DEF GiveUp, Return
<1>8. CASE FinishCallback(c)    BY <1>8 DEF FinishCallback, Return
<1>9. QED BY <1>1, <1>2, <1>3, <1>4, <1>5, <1>6, <1>7, <1>8 DEF DispatchStep

\* The steps of a retirement keep every variable's type.
LEMMA RetireTypeOK ==
    ASSUME TypeOK, NEW g \in Generations, RetireStep(g)
    PROVE  TypeOK'
<1> USE DEF TypeOK, managerVars, slotVars, loaderVars, callerVars, closerVars,
           UnderWay
<1>1. CASE DrainReturns(g)      BY <1>1 DEF DrainReturns
<1>2. CASE DrainDeadline(g)     BY <1>2 DEF DrainDeadline
<1>3. CASE GraceDeadline(g)     BY <1>3 DEF GraceDeadline
<1>4. CASE ReleaseRetired(g)    BY <1>4 DEF ReleaseRetired, Release
<1>5. CASE FinishRetirement(g)  BY <1>5 DEF FinishRetirement
<1>6. QED BY <1>1, <1>2, <1>3, <1>4, <1>5 DEF RetireStep

\* The steps of a Close keep every variable's type.
LEMMA CloseTypeOK ==
    ASSUME TypeOK, NEW k \in Closers, CloseManager(k) \/ CloseStep(k)
    PROVE  TypeOK'
<1> USE DEF TypeOK, managerVars, slotVars, loaderVars, callerVars, closerVars,
           UnderWay
<1>1. CASE CloseManager(k)
  BY <1>1 DEF CloseManager, BeginRetirement, Retiring
<1>2. CASE DrainClosing(k)      BY <1>2 DEF DrainClosing, BeginDrain
<1>3. CASE CloseReturns(k)      BY <1>3 DEF CloseReturns
<1>4. CASE CloseDeadline(k)     BY <1>4 DEF CloseDeadline
<1>5. QED BY <1>1, <1>2, <1>3, <1>4 DEF CloseStep

\* So does every step.
LEMMA TypeStep == TypeOK /\ [Next]_vars => TypeOK'
<1> SUFFICES ASSUME TypeOK, [Next]_vars PROVE TypeOK'
  OBVIOUS
<1>1. CASE UNCHANGED vars
  BY <1>1 DEF vars, managerVars, slotVars, loaderVars, callerVars,
              closerVars, TypeOK
<1>2. CASE Next
  BY <1>2, LoaderTypeOK, DispatchTypeOK, RetireTypeOK, CloseTypeOK DEF Next
<1>3. QED BY <1>1, <1>2

\* Every state of the system is well typed.
THEOREM TypeCorrect == Spec => []TypeOK
BY InitTypeOK, TypeStep, PTL DEF Spec

-----------------------------------------------------------------------------
(* The slot counter. *)

\* A step that changes neither the counters nor who runs where keeps the count.
LEMMA SlotCountKept ==
    ASSUME SlotCount, active' = active,
           \A c \in Callers, g \in Generations :
               caller'[c] = "running" /\ target'[c] = g
                   <=> caller[c] = "running" /\ target[c] = g
    PROVE  SlotCount'
<1>1. \A g \in Generations : Serving(g)' = Serving(g)
  BY DEF Serving
<1>2. QED BY <1>1 DEF SlotCount

\* The callbacks on a generation are finitely many.
LEMMA ServingFinite == \A g : IsFiniteSet(Serving(g))
BY CallersFinite, FS_Subset DEF Serving

\* acquire counts the callback it admits.
LEMMA SlotCountAcquire ==
    ASSUME TypeOK, SlotCount, NEW c \in Callers, Acquire(c)
    PROVE  SlotCount'
<1>1. PICK t \in Generations : t = target[c] /\ caller[c] = "acquire"
  BY DEF Acquire, TypeOK
<1>2. active' = [active EXCEPT ![t] = active[t] + 1]
  BY <1>1 DEF Acquire
<1>3. /\ caller' = [caller EXCEPT ![c] = "running"]
      /\ target' = target
  BY DEF Acquire
<1>4. Serving(t)' = Serving(t) \cup {c} /\ c \notin Serving(t)
  BY <1>1, <1>3 DEF Serving, TypeOK
<1>5. \A g \in Generations \ {t} : Serving(g)' = Serving(g)
  BY <1>1, <1>3 DEF Serving, TypeOK
<1>6. Cardinality(Serving(t)') = Cardinality(Serving(t)) + 1
  BY <1>4, ServingFinite, FS_AddElement
<1>7. \A g \in Generations : active[g] = Cardinality(Serving(g))
  BY DEF SlotCount
<1>8. active \in [Generations -> Int]
  BY DEF TypeOK
<1>9. ASSUME NEW g \in Generations PROVE active'[g] = Cardinality(Serving(g)')
  <2>1. CASE g = t  BY <2>1, <1>1, <1>2, <1>6, <1>7, <1>8
  <2>2. CASE g # t  BY <2>2, <1>2, <1>5, <1>7, <1>8
  <2>3. QED BY <2>1, <2>2
<1>10. QED BY <1>9 DEF SlotCount

\* The release function of a slot counts its callback out.
LEMMA SlotCountFinish ==
    ASSUME TypeOK, SlotCount, NEW c \in Callers, FinishCallback(c)
    PROVE  SlotCount'
<1>1. PICK t \in Generations : t = target[c] /\ caller[c] = "running"
  BY DEF FinishCallback, TypeOK
<1>2. active' = [active EXCEPT ![t] = active[t] - 1]
  BY <1>1 DEF FinishCallback
<1>3. /\ caller' = [caller EXCEPT ![c] = "idle"]
      /\ target' = [target EXCEPT ![c] = None]
  BY DEF FinishCallback, Return
<1>4. Serving(t)' = Serving(t) \ {c} /\ c \in Serving(t)
  BY <1>1, <1>3 DEF Serving, TypeOK
<1>5. \A g \in Generations \ {t} : Serving(g)' = Serving(g)
  BY <1>1, <1>3 DEF Serving, TypeOK
<1>6. Cardinality(Serving(t)') = Cardinality(Serving(t)) - 1
  BY <1>4, ServingFinite, FS_RemoveElement
<1>7. \A g \in Generations : active[g] = Cardinality(Serving(g))
  BY DEF SlotCount
<1>8. active \in [Generations -> Int]
  BY DEF TypeOK
<1>9. ASSUME NEW g \in Generations PROVE active'[g] = Cardinality(Serving(g)')
  <2>1. CASE g = t  BY <2>1, <1>1, <1>2, <1>6, <1>7, <1>8
  <2>2. CASE g # t  BY <2>2, <1>2, <1>5, <1>7, <1>8
  <2>3. QED BY <2>1, <2>2
<1>10. QED BY <1>9 DEF SlotCount

\* Every step keeps the slot counter exact.
LEMMA SlotCountStep ==
    ASSUME TypeOK, SlotCount, [Next]_vars
    PROVE  SlotCount'
<1> USE DEF managerVars, slotVars, loaderVars, callerVars, closerVars
<1>1. ASSUME UNCHANGED <<active, caller, target>> PROVE SlotCount'
  BY <1>1, SlotCountKept
<1>2. CASE UNCHANGED vars
  BY <1>1, <1>2 DEF vars
<1>3. ASSUME NEW g \in Generations, LoaderStep(g) PROVE SlotCount'
  BY <1>1, <1>3 DEF LoaderStep, CheckReady, Swap, RefuseDuplicate,
       DrainPrevious, DrainRefused, ReleaseRefused
<1>4. ASSUME NEW g \in Generations, RetireStep(g) PROVE SlotCount'
  BY <1>1, <1>4 DEF RetireStep, DrainReturns, DrainDeadline, GraceDeadline,
       ReleaseRetired, FinishRetirement
<1>5. ASSUME NEW k \in Closers, CloseManager(k) \/ CloseStep(k)
      PROVE  SlotCount'
  BY <1>1, <1>5 DEF CloseManager, CloseStep, DrainClosing, CloseReturns,
       CloseDeadline
<1>6. ASSUME NEW c \in Callers, StartCall(c) \/ DispatchStep(c)
      PROVE  SlotCount'
  <2>1. CASE Acquire(c)
    BY <2>1, SlotCountAcquire
  <2>2. CASE ~Acquire(c)
    <3>1. active' = active
      BY <1>6, <2>2 DEF StartCall, DispatchStep, ReadCurrent, ReadNone,
           AcquireRefused, Retry, GiveUp
    <3>2. \A d \in Callers, g \in Generations :
              caller'[d] = "running" /\ target'[d] = g
                  <=> caller[d] = "running" /\ target[d] = g
      BY <1>6, <2>2 DEF TypeOK, StartCall, DispatchStep, ReadCurrent, ReadNone,
           AcquireRefused, Retry, GiveUp, Return
    <3>3. QED BY <3>1, <3>2, SlotCountKept
  <2>3. QED BY <2>1, <2>2
<1>7. QED BY <1>2, <1>3, <1>4, <1>5, <1>6, SlotCountFinish DEF Next

-----------------------------------------------------------------------------
(* What the manager serves, and what a dispatch may conclude from it. *)

\* DispatchInv without the type and slot-count conjuncts, which the steps
\* below preserve one by one.
ServingInv ==
    /\ ReleasedIsQuiet
    /\ OutsideManager
    /\ CurrentIsFresh
    /\ CurrentServes
    /\ DrainsWhatLeft
    /\ DispatchSeesSwaps
    /\ StaleMeansReplacedTwice

\* The initial state satisfies the dispatch invariant.
LEMMA InitDispatchInv == Init => DispatchInv
<1> SUFFICES ASSUME Init PROVE DispatchInv
  OBVIOUS
<1>1. TypeOK
  BY InitTypeOK
<1>2. SlotCount
  <2>1. \A g \in Generations : Serving(g) = {} /\ active[g] = 0
    BY DEF Init, Serving
  <2>2. QED BY <2>1, FS_EmptySet DEF SlotCount
<1>3. ServingInv
  BY NoneIsNoGeneration
  DEF Init, ServingInv, ReleasedIsQuiet, OutsideManager, CurrentIsFresh,
       CurrentServes, DrainsWhatLeft, DispatchSeesSwaps,
       StaleMeansReplacedTwice
<1>4. QED BY <1>1, <1>2, <1>3 DEF DispatchInv, ServingInv

\* The steps of an activation keep the dispatch invariant.
LEMMA LoaderServing ==
    ASSUME DispatchInv, NEW g \in Generations, LoaderStep(g)
    PROVE  ServingInv'
<1> USE DEF DispatchInv, ServingInv, TypeOK, ReleasedIsQuiet, OutsideManager,
           CurrentIsFresh, CurrentServes, DrainsWhatLeft, DispatchSeesSwaps,
           StaleMeansReplacedTwice, MaxAttempts, managerVars, slotVars,
           loaderVars, callerVars, closerVars
<1>1. CASE CheckReady(g)        BY <1>1 DEF CheckReady
<1>2. CASE Swap(g)              BY <1>2, NoneIsNoGeneration DEF Swap, BeginRetirement
<1>3. CASE RefuseDuplicate(g)   BY <1>3 DEF RefuseDuplicate
<1>4. CASE DrainPrevious(g)     BY <1>4 DEF DrainPrevious, BeginDrain
<1>5. CASE DrainRefused(g)      BY <1>5 DEF DrainRefused, BeginDrain
<1>6. CASE ReleaseRefused(g)    BY <1>6 DEF ReleaseRefused, Release
<1>7. QED BY <1>1, <1>2, <1>3, <1>4, <1>5, <1>6 DEF LoaderStep

\* The steps of a dispatch keep the dispatch invariant.
LEMMA DispatchServing ==
    ASSUME DispatchInv, NEW c \in Callers,
           StartCall(c) \/ DispatchStep(c) \/ FinishCallback(c)
    PROVE  ServingInv'
<1> USE DEF DispatchInv, ServingInv, TypeOK, ReleasedIsQuiet, OutsideManager,
           CurrentIsFresh, CurrentServes, DrainsWhatLeft, DispatchSeesSwaps,
           StaleMeansReplacedTwice, MaxAttempts, managerVars, slotVars,
           loaderVars, callerVars, closerVars
<1>1. CASE StartCall(c)         BY <1>1 DEF StartCall
<1>2. CASE ReadCurrent(c)       BY <1>2 DEF ReadCurrent
<1>3. CASE ReadNone(c)          BY <1>3 DEF ReadNone, Return
<1>4. CASE Acquire(c)           BY <1>4 DEF Acquire
<1>5. CASE AcquireRefused(c)
  <2>1. caller[c] = "acquire" /\ target[c] \in Generations
    BY <1>5 DEF AcquireRefused
  <2>2. current # target[c]
    BY <1>5, <2>1, NoneIsNoGeneration DEF AcquireRefused
  <2>3. QED BY <1>5, <2>1, <2>2 DEF AcquireRefused
<1>6. CASE Retry(c)             BY <1>6 DEF Retry
<1>7. CASE GiveUp(c)            BY <1>7 DEF GiveUp, Return
<1>8. CASE FinishCallback(c)
  <2>1. target[c] \in Generations /\ c \in Serving(target[c])
    BY <1>8 DEF FinishCallback, Serving
  <2>2. active[target[c]] # 0
    BY <2>1, ServingFinite, FS_EmptySet DEF SlotCount
  <2>3. QED BY <1>8, <2>1, <2>2 DEF FinishCallback, Return
<1>9. QED BY <1>1, <1>2, <1>3, <1>4, <1>5, <1>6, <1>7, <1>8 DEF DispatchStep

\* The steps of a retirement keep the dispatch invariant.
LEMMA RetireServing ==
    ASSUME DispatchInv, NEW g \in Generations, RetireStep(g)
    PROVE  ServingInv'
<1> USE DEF DispatchInv, ServingInv, TypeOK, ReleasedIsQuiet, OutsideManager,
           CurrentIsFresh, CurrentServes, DrainsWhatLeft, DispatchSeesSwaps,
           StaleMeansReplacedTwice, MaxAttempts, managerVars, slotVars,
           loaderVars, callerVars, closerVars
<1>1. CASE DrainReturns(g)      BY <1>1 DEF DrainReturns
<1>2. CASE DrainDeadline(g)     BY <1>2 DEF DrainDeadline
<1>3. CASE GraceDeadline(g)     BY <1>3 DEF GraceDeadline
<1>4. CASE ReleaseRetired(g)    BY <1>4 DEF ReleaseRetired, Release
<1>5. CASE FinishRetirement(g)  BY <1>5 DEF FinishRetirement
<1>6. QED BY <1>1, <1>2, <1>3, <1>4, <1>5 DEF RetireStep

\* The steps of a Close keep the dispatch invariant.
LEMMA CloseServing ==
    ASSUME DispatchInv, NEW k \in Closers, CloseManager(k) \/ CloseStep(k)
    PROVE  ServingInv'
<1> USE DEF DispatchInv, ServingInv, TypeOK, ReleasedIsQuiet, OutsideManager,
           CurrentIsFresh, CurrentServes, DrainsWhatLeft, DispatchSeesSwaps,
           StaleMeansReplacedTwice, MaxAttempts, managerVars, slotVars,
           loaderVars, callerVars, closerVars
<1>1. CASE CloseManager(k)
  BY <1>1, NoneIsNoGeneration DEF CloseManager, BeginRetirement
<1>2. CASE DrainClosing(k)      BY <1>2 DEF DrainClosing, BeginDrain
<1>3. CASE CloseReturns(k)      BY <1>3 DEF CloseReturns
<1>4. CASE CloseDeadline(k)     BY <1>4 DEF CloseDeadline
<1>5. QED BY <1>1, <1>2, <1>3, <1>4 DEF CloseStep

\* The dispatch invariant is inductive.
LEMMA DispatchInvStep == DispatchInv /\ [Next]_vars => DispatchInv'
<1> SUFFICES ASSUME DispatchInv, [Next]_vars PROVE DispatchInv'
  OBVIOUS
<1>1. TypeOK'
  BY TypeStep DEF DispatchInv
<1>2. SlotCount'
  BY SlotCountStep DEF DispatchInv
<1>3. ServingInv'
  <2>1. CASE UNCHANGED vars
    BY <2>1
    DEF DispatchInv, ServingInv, ReleasedIsQuiet, OutsideManager,
        CurrentIsFresh, CurrentServes, DrainsWhatLeft, DispatchSeesSwaps,
        StaleMeansReplacedTwice, vars, managerVars, slotVars, loaderVars,
        callerVars, closerVars
  <2>2. CASE Next
    BY <2>2, LoaderServing, DispatchServing, RetireServing, CloseServing
    DEF Next
  <2>3. QED BY <2>1, <2>2
<1>4. QED BY <1>1, <1>2, <1>3 DEF DispatchInv, ServingInv

\* Every reachable state satisfies the dispatch invariant: the slot counter is
\* exact, what the manager holds serves, and a stale answer took two swaps.
THEOREM DispatchInvariant == Spec => []DispatchInv
BY InitDispatchInv, DispatchInvStep, PTL DEF Spec

\* A callback never runs on a program that Release has taken apart.
THEOREM CallbacksAreSafe == Spec => []NoCallbackOnReleased
<1>1. DispatchInv => NoCallbackOnReleased
  <2> SUFFICES ASSUME DispatchInv, NEW g \in Generations, released[g]
               PROVE  Serving(g) = {}
    BY DEF NoCallbackOnReleased
  <2>1. Cardinality(Serving(g)) = 0
    BY DEF DispatchInv, SlotCount, ReleasedIsQuiet
  <2>2. QED BY <2>1, ServingFinite, FS_EmptySet
<1>2. QED BY <1>1, DispatchInvariant, PTL

\* The generation in the manager is never one that drains or was released.
THEOREM CurrentAlwaysServes == Spec => []CurrentServes
<1>1. DispatchInv => CurrentServes
  BY DEF DispatchInv
<1>2. QED BY <1>1, DispatchInvariant, PTL

\* One swap never makes a dispatch fail.
THEOREM OneSwapIsAbsorbed == Spec => []StaleMeansReplacedTwice
<1>1. DispatchInv => StaleMeansReplacedTwice
  BY DEF DispatchInv
<1>2. QED BY <1>1, DispatchInvariant, PTL

-----------------------------------------------------------------------------
(* Retirements and the channel Close waits on. *)

\* Each retirement that awaits its BeginDrain is awaited by one goroutine.
OneDrainerEach ==
    /\ \A g \in Generations :
           loader[g] = "drain" => retirement[previous[g]] = "swapped"
    /\ \A k \in Closers :
           closer[k] = "drain" => retirement[closing[k]] = "swapped"
    /\ \A g, h \in Generations :
           loader[g] = "drain" /\ loader[h] = "drain" /\ g # h =>
               previous[g] # previous[h]
    /\ \A k, l \in Closers :
           closer[k] = "drain" /\ closer[l] = "drain" /\ k # l =>
               closing[k] # closing[l]
    /\ \A g \in Generations, k \in Closers :
           loader[g] = "drain" /\ closer[k] = "drain" =>
               previous[g] # closing[k]

ChannelsInOrder ==
    /\ \A n \in closed : n <= retired
    /\ \A k \in Closers : waitsFor[k] <= retired

\* A retirement that a Close call owes keeps the call's channel in the field.
OwedHoldsChannel ==
    \A k \in Closers :
        /\ \A g \in owed[k] :
               /\ retirement[g] # "no"
               /\ g \in Retiring => waitsFor[k] = retired
        /\ closer[k] = "closed" => waitsFor[k] \in closed

RetirementInv ==
    /\ DispatchInv
    /\ OneDrainerEach
    /\ ChannelsInOrder
    /\ OwedHoldsChannel
    /\ ChannelOpenWhilePending

\* The retirements under way are finitely many.
LEMMA RetiringFinite == IsFiniteSet(Retiring)
BY GenerationsFinite, FS_Subset DEF Retiring

\* The initial state satisfies the retirement invariant.
LEMMA InitRetirementInv == Init => RetirementInv
<1> SUFFICES ASSUME Init PROVE RetirementInv
  OBVIOUS
<1>1. Retiring = {}
  BY DEF Init, Retiring, UnderWay
<1>2. Cardinality(Retiring) = 0
  BY <1>1, FS_EmptySet
<1>3. QED
  BY <1>2, InitDispatchInv
  DEF Init, RetirementInv, OneDrainerEach, ChannelsInOrder, OwedHoldsChannel,
      ChannelOpenWhilePending

\* A step that moves a retirement between two phases under way, or none, keeps
\* everything about the channel.
LEMMA PhaseKept ==
    ASSUME RetirementInv, TypeOK',
           UNCHANGED <<pending, retired, closed, waitsFor, owed>>,
           \A g \in Generations :
               \/ retirement'[g] = retirement[g]
               \/ retirement'[g] \in UnderWay /\ retirement[g] \in UnderWay,
           \A k \in Closers :
               closer'[k] = "closed" => waitsFor[k] \in closed
    PROVE  ChannelsInOrder' /\ OwedHoldsChannel' /\ ChannelOpenWhilePending'
<1>1. Retiring' = Retiring
  BY DEF Retiring
<1>2. \A g \in Generations : retirement[g] # "no" => retirement'[g] # "no"
  BY DEF UnderWay
<1>3. \A k \in Closers : owed[k] \subseteq Generations
  BY DEF RetirementInv, DispatchInv, TypeOK
<1>4. QED
  BY <1>1, <1>2, <1>3
  DEF RetirementInv, ChannelsInOrder, OwedHoldsChannel, ChannelOpenWhilePending

\* Beginning the retirement of the current generation.
LEMMA BeginKept ==
    ASSUME RetirementInv, TypeOK', current # None, BeginRetirement(current),
           UNCHANGED closed
    PROVE  /\ Retiring' = Retiring \cup {current}
           /\ ChannelOpenWhilePending'
           /\ \A n \in closed : n <= retired'
           /\ retired <= retired'
           /\ \A k \in Closers : \A g \in owed[k] :
                  /\ retirement'[g] # "no"
                  /\ g \in Retiring' => waitsFor[k] = retired'
<1> USE DEF RetirementInv
<1>1. current \in Generations /\ retirement[current] = "no"
  BY DEF DispatchInv, TypeOK, CurrentIsFresh
<1>2. retirement' = [retirement EXCEPT ![current] = "swapped"]
  BY DEF BeginRetirement
<1>3. retirement \in [Generations -> UnderWay \cup {"no", "done"}]
  BY DEF DispatchInv, TypeOK
<1>4. Retiring' = Retiring \cup {current} /\ current \notin Retiring
  BY <1>1, <1>2, <1>3 DEF Retiring, UnderWay
<1>5. Cardinality(Retiring') = Cardinality(Retiring) + 1
  BY <1>4, RetiringFinite, FS_AddElement
<1>6. Cardinality(Retiring) \in Nat /\ (pending = 0 => Retiring = {})
  BY RetiringFinite, FS_CardinalityType, FS_EmptySet
  DEF ChannelOpenWhilePending
<1>7. /\ pending' = pending + 1
      /\ retired' = IF pending = 0 THEN retired + 1 ELSE retired
  BY DEF BeginRetirement
<1>8. retired \in Nat /\ closed \subseteq Nat
  BY DEF DispatchInv, TypeOK
<1>9. ChannelOpenWhilePending'
  <2>1. pending' = Cardinality(Retiring')
    BY <1>5, <1>7 DEF ChannelOpenWhilePending
  <2>2. retired' \notin closed
    BY <1>7, <1>8 DEF ChannelOpenWhilePending, ChannelsInOrder
  <2>3. pending' # 0
    BY <1>6, <1>7 DEF ChannelOpenWhilePending
  <2>4. QED BY <2>1, <2>2, <2>3 DEF ChannelOpenWhilePending
<1>10. \A n \in closed : n <= retired'
  BY <1>7, <1>8 DEF ChannelsInOrder
<1>11. retired <= retired'
  BY <1>7, <1>8
<1>12. ASSUME NEW k \in Closers, NEW g \in owed[k]
       PROVE  /\ retirement'[g] # "no"
              /\ g \in Retiring' => waitsFor[k] = retired'
  <2>1. g \in Generations
    BY DEF DispatchInv, TypeOK
  <2>2. retirement[g] # "no" /\ (g \in Retiring => waitsFor[k] = retired)
    BY DEF OwedHoldsChannel
  <2>3. retirement'[g] # "no"
    BY <2>1, <2>2, <1>2, <1>3
  <2>4. ASSUME g \in Retiring' PROVE waitsFor[k] = retired'
    <3>1. g \in Retiring
      BY <2>2, <2>4, <1>1, <1>4
    <3>2. QED BY <3>1, <2>2, <1>6, <1>7
  <2>5. QED BY <2>3, <2>4
<1>13. QED BY <1>4, <1>9, <1>10, <1>11, <1>12

\* Every step keeps one goroutine per retirement that awaits its drain.
LEMMA OneDrainerStep ==
    ASSUME RetirementInv, [Next]_vars
    PROVE  OneDrainerEach'
<1> USE DEF RetirementInv, DispatchInv, TypeOK, OneDrainerEach, UnderWay,
           managerVars, slotVars, loaderVars, callerVars, closerVars
<1>1. CASE UNCHANGED vars
  BY <1>1 DEF vars
<1>2. ASSUME NEW g \in Generations, LoaderStep(g) PROVE OneDrainerEach'
  <2>1. CASE CheckReady(g)        BY <2>1 DEF CheckReady
  <2>2. CASE Swap(g)
    BY <2>2, NoneIsNoGeneration
    DEF Swap, BeginRetirement, CurrentIsFresh, DrainsWhatLeft
  <2>3. CASE RefuseDuplicate(g)   BY <2>3 DEF RefuseDuplicate
  <2>4. CASE DrainPrevious(g)     BY <2>4 DEF DrainPrevious, BeginDrain
  <2>5. CASE DrainRefused(g)      BY <2>5 DEF DrainRefused, BeginDrain
  <2>6. CASE ReleaseRefused(g)    BY <2>6 DEF ReleaseRefused, Release
  <2>7. QED BY <1>2, <2>1, <2>2, <2>3, <2>4, <2>5, <2>6 DEF LoaderStep
<1>3. ASSUME NEW g \in Generations, RetireStep(g) PROVE OneDrainerEach'
  BY <1>3 DEF RetireStep, DrainReturns, DrainDeadline, GraceDeadline,
              ReleaseRetired, FinishRetirement, DrainsWhatLeft
<1>4. ASSUME NEW k \in Closers, CloseManager(k) \/ CloseStep(k)
      PROVE  OneDrainerEach'
  <2>1. CASE CloseManager(k)
    BY <2>1, NoneIsNoGeneration
    DEF CloseManager, BeginRetirement, CurrentIsFresh, DrainsWhatLeft
  <2>2. CASE DrainClosing(k)      BY <2>2 DEF DrainClosing, BeginDrain
  <2>3. CASE CloseReturns(k)      BY <2>3 DEF CloseReturns
  <2>4. CASE CloseDeadline(k)     BY <2>4 DEF CloseDeadline
  <2>5. QED BY <1>4, <2>1, <2>2, <2>3, <2>4 DEF CloseStep
<1>5. ASSUME NEW c \in Callers,
             StartCall(c) \/ DispatchStep(c) \/ FinishCallback(c)
      PROVE  OneDrainerEach'
  BY <1>5 DEF StartCall, DispatchStep, ReadCurrent, ReadNone, Acquire,
              AcquireRefused, Retry, GiveUp, FinishCallback
<1>6. QED BY <1>1, <1>2, <1>3, <1>4, <1>5 DEF Next

ChannelInv == ChannelsInOrder /\ OwedHoldsChannel /\ ChannelOpenWhilePending

\* A swap keeps the counter and the channels in step.
LEMMA SwapChannel ==
    ASSUME RetirementInv, TypeOK', NEW g \in Generations, Swap(g)
    PROVE  ChannelInv'
<1>1. UNCHANGED <<closed, closer, waitsFor, owed>>
  BY DEF Swap, closerVars
<1>2. CASE current = None
  <2>1. UNCHANGED <<pending, retired, retirement>>
    BY <1>2 DEF Swap
  <2>2. QED BY <1>1, <2>1, PhaseKept
               DEF ChannelInv, RetirementInv, OwedHoldsChannel
<1>3. CASE current # None
  <2>1. BeginRetirement(current)
    BY <1>3 DEF Swap
  <2>2. \A k \in Closers : waitsFor[k] \in Nat
    BY DEF RetirementInv, DispatchInv, TypeOK
  <2>3. retired \in Nat /\ retired' \in Nat
    BY DEF RetirementInv, DispatchInv, TypeOK
  <2>4. ChannelsInOrder'
    BY <1>1, <1>3, <2>1, <2>2, <2>3, BeginKept
    DEF ChannelsInOrder, RetirementInv
  <2>5. OwedHoldsChannel'
    BY <1>1, <1>3, <2>1, BeginKept DEF OwedHoldsChannel, RetirementInv
  <2>6. QED BY <1>1, <1>3, <2>1, <2>4, <2>5, BeginKept DEF ChannelInv
<1>4. QED BY <1>2, <1>3

\* So does Close, which captures the channel of its own retirement.
LEMMA CloseChannel ==
    ASSUME RetirementInv, TypeOK', NEW k \in Closers, CloseManager(k)
    PROVE  ChannelInv'
<1>1. UNCHANGED closed
  BY DEF CloseManager
<1>2. /\ waitsFor' = [waitsFor EXCEPT ![k] = retired']
      /\ owed' = [owed EXCEPT ![k] = Retiring']
  BY DEF CloseManager
<1>3. /\ closer[k] # "closed" /\ closer'[k] # "closed"
      /\ \A l \in Closers : l # k => closer'[l] = closer[l]
  BY DEF CloseManager, RetirementInv, DispatchInv, TypeOK
<1>4. /\ ChannelOpenWhilePending'
      /\ \A n \in closed : n <= retired'
      /\ retired <= retired'
      /\ \A l \in Closers : \A g \in owed[l] :
             /\ retirement'[g] # "no"
             /\ g \in Retiring' => waitsFor[l] = retired'
  <2>1. CASE current = None
    <3>1. UNCHANGED <<pending, retired, retirement>>
      BY <2>1 DEF CloseManager
    <3>2. Retiring' = Retiring
      BY <3>1 DEF Retiring
    <3>3. retired \in Nat
      BY DEF RetirementInv, DispatchInv, TypeOK
    <3>4. QED
      BY <1>1, <3>1, <3>2, <3>3
      DEF RetirementInv, ChannelOpenWhilePending, ChannelsInOrder,
          OwedHoldsChannel
  <2>2. CASE current # None
    <3>1. BeginRetirement(current)
      BY <2>2 DEF CloseManager
    <3>2. QED BY <1>1, <2>2, <3>1, BeginKept
  <2>3. QED BY <2>1, <2>2
<1>5. /\ waitsFor \in [Closers -> Nat] /\ owed \in [Closers -> SUBSET Generations]
      /\ retired \in Nat /\ retired' \in Nat
  BY DEF RetirementInv, DispatchInv, TypeOK
<1>6. ChannelsInOrder'
  BY <1>1, <1>2, <1>4, <1>5 DEF ChannelsInOrder, RetirementInv
<1>7. OwedHoldsChannel'
  <2> SUFFICES ASSUME NEW l \in Closers
               PROVE  /\ \A g \in owed'[l] :
                             /\ retirement'[g] # "no"
                             /\ g \in Retiring' => waitsFor'[l] = retired'
                      /\ closer'[l] = "closed" => waitsFor'[l] \in closed'
    BY DEF OwedHoldsChannel
  <2>1. CASE l = k
    <3>1. owed'[l] = Retiring' /\ waitsFor'[l] = retired'
      BY <1>2, <1>5, <2>1
    <3>2. \A g \in Retiring' : retirement'[g] # "no"
      BY DEF Retiring, UnderWay
    <3>3. QED BY <1>3, <2>1, <3>1, <3>2
  <2>2. CASE l # k
    <3>1. owed'[l] = owed[l] /\ waitsFor'[l] = waitsFor[l]
      BY <1>2, <1>5, <2>2
    <3>2. closer'[l] = "closed" => waitsFor[l] \in closed
      BY <1>3, <2>2 DEF RetirementInv, OwedHoldsChannel
    <3>3. QED BY <1>1, <1>4, <3>1, <3>2
  <2>3. QED BY <2>1, <2>2
<1>8. QED BY <1>4, <1>6, <1>7 DEF ChannelInv

\* So does the end of a retirement, which may close the channel.
LEMMA FinishChannel ==
    ASSUME RetirementInv, TypeOK', NEW g \in Generations, FinishRetirement(g)
    PROVE  ChannelInv'
<1>1. /\ retirement[g] = "ending"
      /\ retirement' = [retirement EXCEPT ![g] = "done"]
      /\ pending' = pending - 1
      /\ closed' = IF pending = 1 THEN closed \cup {retired} ELSE closed
      /\ UNCHANGED <<retired, closer, waitsFor, owed>>
  BY DEF FinishRetirement, closerVars
<1>2. /\ retirement \in [Generations -> UnderWay \cup {"no", "done"}]
      /\ retired \in Nat
      /\ owed \in [Closers -> SUBSET Generations]
  BY DEF RetirementInv, DispatchInv, TypeOK
<1>3. Retiring' = Retiring \ {g} /\ g \in Retiring
  BY <1>1, <1>2 DEF Retiring, UnderWay
<1>4. Cardinality(Retiring') = Cardinality(Retiring) - 1
  BY <1>3, RetiringFinite, FS_RemoveElement
<1>5. Cardinality(Retiring) \in Nat
  BY RetiringFinite, FS_CardinalityType
<1>6. pending = Cardinality(Retiring) /\ (retired \in closed <=> pending = 0)
  BY DEF RetirementInv, ChannelOpenWhilePending
<1>7. Cardinality(Retiring) # 0
  BY <1>3, RetiringFinite, FS_EmptySet
<1>8. ChannelOpenWhilePending'
  BY <1>1, <1>4, <1>5, <1>6, <1>7 DEF ChannelOpenWhilePending
<1>9. ChannelsInOrder'
  BY <1>1, <1>2 DEF ChannelsInOrder, RetirementInv
<1>10. OwedHoldsChannel'
  BY <1>1, <1>2, <1>3 DEF OwedHoldsChannel, RetirementInv
<1>11. QED BY <1>8, <1>9, <1>10 DEF ChannelInv

\* So does every step.
LEMMA ChannelStep ==
    ASSUME RetirementInv, [Next]_vars
    PROVE  ChannelInv'
<1>1. TypeOK'
  BY TypeStep DEF RetirementInv, DispatchInv
<1> DEFINE
      SamePhases ==
          \A g \in Generations :
              \/ retirement'[g] = retirement[g]
              \/ retirement'[g] \in UnderWay /\ retirement[g] \in UnderWay
      CloseHonest ==
          \A k \in Closers : closer'[k] = "closed" => waitsFor[k] \in closed
<1> USE DEF managerVars, slotVars, loaderVars, callerVars, closerVars
<1>2. ASSUME UNCHANGED <<pending, retired, closed, waitsFor, owed>>,
             SamePhases, CloseHonest
      PROVE  ChannelInv'
  BY <1>1, <1>2, PhaseKept DEF ChannelInv
<1>3. \A k \in Closers : closer[k] = "closed" => waitsFor[k] \in closed
  BY DEF RetirementInv, OwedHoldsChannel
<1>4. ASSUME UNCHANGED <<pending, retired, closed, waitsFor, owed, closer>>,
             SamePhases
      PROVE  ChannelInv'
  BY <1>2, <1>3, <1>4
<1>5. CASE UNCHANGED vars
  BY <1>4, <1>5 DEF vars
<1>6. ASSUME NEW g \in Generations, LoaderStep(g) PROVE ChannelInv'
  <2>1. CASE Swap(g)
    BY <1>1, <2>1, SwapChannel
  <2>2. CASE DrainPrevious(g)
    <3>1. SamePhases
      BY <2>2 DEF DrainPrevious, RetirementInv, DispatchInv, TypeOK,
                  OneDrainerEach, UnderWay
    <3>2. QED BY <1>4, <2>2, <3>1 DEF DrainPrevious
  <2>3. CASE CheckReady(g) \/ RefuseDuplicate(g) \/ DrainRefused(g)
               \/ ReleaseRefused(g)
    BY <1>4, <2>3 DEF CheckReady, RefuseDuplicate, DrainRefused,
                      ReleaseRefused
  <2>4. QED BY <1>6, <2>1, <2>2, <2>3 DEF LoaderStep
<1>7. ASSUME NEW g \in Generations, RetireStep(g) PROVE ChannelInv'
  <2>1. CASE FinishRetirement(g)
    BY <1>1, <2>1, FinishChannel
  <2>2. CASE ~FinishRetirement(g)
    <3>1. SamePhases
      BY <1>7, <2>2
      DEF RetireStep, DrainReturns, DrainDeadline, GraceDeadline,
          ReleaseRetired, RetirementInv, DispatchInv, TypeOK, UnderWay
    <3>2. QED
      BY <1>4, <1>7, <2>2, <3>1
      DEF RetireStep, DrainReturns, DrainDeadline, GraceDeadline,
          ReleaseRetired
  <2>3. QED BY <2>1, <2>2
<1>8. ASSUME NEW k \in Closers, CloseManager(k) \/ CloseStep(k)
      PROVE  ChannelInv'
  <2>1. CASE CloseManager(k)
    BY <1>1, <2>1, CloseChannel
  <2>2. CASE DrainClosing(k)
    <3>1. SamePhases
      BY <2>2 DEF DrainClosing, RetirementInv, DispatchInv, TypeOK,
                  OneDrainerEach, UnderWay
    <3>2. CloseHonest
      BY <1>3, <2>2 DEF DrainClosing, RetirementInv, DispatchInv, TypeOK
    <3>3. QED BY <1>2, <2>2, <3>1, <3>2 DEF DrainClosing
  <2>3. CASE CloseReturns(k) \/ CloseDeadline(k)
    <3>1. CloseHonest
      BY <1>3, <2>3
      DEF CloseReturns, CloseDeadline, RetirementInv, DispatchInv, TypeOK
    <3>2. QED BY <1>2, <2>3, <3>1 DEF CloseReturns, CloseDeadline
  <2>4. QED BY <1>8, <2>1, <2>2, <2>3 DEF CloseStep
<1>9. ASSUME NEW c \in Callers,
             StartCall(c) \/ DispatchStep(c) \/ FinishCallback(c)
      PROVE  ChannelInv'
  BY <1>4, <1>9 DEF StartCall, DispatchStep, ReadCurrent, ReadNone, Acquire,
                    AcquireRefused, Retry, GiveUp, FinishCallback
<1>10. QED BY <1>5, <1>6, <1>7, <1>8, <1>9 DEF Next

\* The retirement invariant is inductive.
LEMMA RetirementInvStep == RetirementInv /\ [Next]_vars => RetirementInv'
BY DispatchInvStep, OneDrainerStep, ChannelStep DEF RetirementInv, ChannelInv

\* Every reachable state satisfies the retirement invariant: the pending counter
\* is exact and each Close waits on a channel that its retirements keep open.
THEOREM RetirementInvariant == Spec => []RetirementInv
BY InitRetirementInv, RetirementInvStep, PTL DEF Spec

\* finishRetirement never closes a closed channel, and Close never waits on one
\* that nobody will close.
THEOREM ChannelMatchesPending == Spec => []ChannelOpenWhilePending
<1>1. RetirementInv => ChannelOpenWhilePending
  BY DEF RetirementInv
<1>2. QED BY <1>1, RetirementInvariant, PTL

\* A Close that returned nil has seen every retirement it owed end.
THEOREM CloseIsComplete == Spec => []CloseWaitsForRetirements
<1>1. RetirementInv => CloseWaitsForRetirements
  <2> SUFFICES ASSUME RetirementInv, NEW k \in Closers, closer[k] = "closed",
                      NEW g \in owed[k]
               PROVE  retirement[g] = "done"
    BY DEF CloseWaitsForRetirements
  <2>1. g \in Generations /\ retirement[g] \in UnderWay \cup {"no", "done"}
    BY DEF RetirementInv, DispatchInv, TypeOK
  <2>2. g \notin Retiring
    <3> SUFFICES ASSUME g \in Retiring PROVE FALSE
      OBVIOUS
    <3>1. retired \in closed
      BY DEF RetirementInv, OwedHoldsChannel
    <3>2. Cardinality(Retiring) = 0
      BY <3>1 DEF RetirementInv, ChannelOpenWhilePending
    <3>3. QED BY <3>2, RetiringFinite, FS_EmptySet
  <2>3. retirement[g] # "no"
    BY DEF RetirementInv, OwedHoldsChannel
  <2>4. QED BY <2>1, <2>2, <2>3 DEF Retiring
<1>2. QED BY <1>1, RetirementInvariant, PTL

-----------------------------------------------------------------------------
(* No generation is dropped without being released or cancelled. *)

DisposalInv ==
    /\ TypeOK
    /\ \A g \in Generations :
           /\ drainClosed[g] => ~accepting[g] /\ active[g] = 0
           /\ retirement[g] = "grace" => cancelled[g]
           /\ retirement[g] = "release" => drainClosed[g]
           /\ retirement[g] \in {"ending", "done"} => released[g] \/ cancelled[g]

\* Every step keeps the account of drained and disposed generations.
LEMMA DisposalStep ==
    ASSUME DisposalInv, SlotCount, [Next]_vars
    PROVE  DisposalInv'
<1>1. TypeOK'
  BY TypeStep DEF DisposalInv
<1> USE <1>1 DEF DisposalInv, TypeOK, managerVars, slotVars, loaderVars,
                 callerVars, closerVars, UnderWay
<1>2. CASE UNCHANGED vars
  BY <1>2 DEF vars
<1>3. ASSUME NEW g \in Generations, LoaderStep(g) PROVE DisposalInv'
  BY <1>3 DEF LoaderStep, CheckReady, Swap, BeginRetirement, RefuseDuplicate,
              DrainPrevious, DrainRefused, BeginDrain, ReleaseRefused, Release
<1>4. ASSUME NEW g \in Generations, RetireStep(g) PROVE DisposalInv'
  BY <1>4 DEF RetireStep, DrainReturns, DrainDeadline, GraceDeadline,
              ReleaseRetired, Release, FinishRetirement
<1>5. ASSUME NEW k \in Closers, CloseManager(k) \/ CloseStep(k)
      PROVE  DisposalInv'
  BY <1>5 DEF CloseManager, BeginRetirement, CloseStep, DrainClosing,
              BeginDrain, CloseReturns, CloseDeadline
<1>6. ASSUME NEW c \in Callers, FinishCallback(c) PROVE DisposalInv'
  <2>1. target[c] \in Generations /\ c \in Serving(target[c])
    BY <1>6 DEF FinishCallback, Serving
  <2>2. active[target[c]] # 0
    BY <2>1, ServingFinite, FS_EmptySet DEF SlotCount
  <2>3. QED BY <1>6, <2>1, <2>2 DEF FinishCallback
<1>7. ASSUME NEW c \in Callers, StartCall(c) \/ DispatchStep(c)
      PROVE  DisposalInv'
  BY <1>7 DEF StartCall, DispatchStep, ReadCurrent, ReadNone, Acquire,
              AcquireRefused, Retry, GiveUp
<1>8. QED BY <1>2, <1>3, <1>4, <1>5, <1>6, <1>7 DEF Next

\* Every reachable state satisfies the disposal invariant.
LEMMA DisposalInvariant == Spec => []DisposalInv
<1>1. Init => DisposalInv
  BY InitTypeOK DEF Init, DisposalInv
<1>2. DispatchInv => SlotCount
  BY DEF DispatchInv
<1>3. QED BY <1>1, <1>2, DisposalStep, DispatchInvariant, PTL DEF Spec

\* A retirement that ended released its generation or cancelled its callbacks.
THEOREM NothingLeaksSilently == Spec => []NoSilentLeak
<1>1. DisposalInv => NoSilentLeak
  BY DEF DisposalInv, NoSilentLeak
<1>2. QED BY <1>1, DisposalInvariant, PTL

\* Once Drain has reported that a generation is idle, it stays idle.
THEOREM DrainIsFinal == Spec => []DrainedIsFinal
<1>1. DisposalInv /\ SlotCount => DrainedIsFinal
  <2> SUFFICES ASSUME DisposalInv, SlotCount,
                      NEW g \in Generations, drainClosed[g]
               PROVE  ~accepting[g] /\ Serving(g) = {}
    BY DEF DrainedIsFinal
  <2>1. ~accepting[g] /\ Cardinality(Serving(g)) = 0
    BY DEF DisposalInv, SlotCount
  <2>2. QED BY <2>1, ServingFinite, FS_EmptySet
<1>2. DispatchInv => SlotCount
  BY DEF DispatchInv
<1>3. QED BY <1>1, <1>2, DisposalInvariant, DispatchInvariant, PTL

=============================================================================
