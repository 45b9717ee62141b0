--------------------------- MODULE PluginGeneration ---------------------------
(***************************************************************************)
(* Generations of one plugin's Starlark program and the manager that swaps *)
(* them (internal/runtime/plugins/starlark/generation).                    *)
(*                                                                         *)
(* A generation serves callbacks while it accepts; a swap takes it out of  *)
(* the manager, lets its callbacks drain, cancels them at a deadline and   *)
(* then releases the program they run on.  Dispatchers, activations,       *)
(* retirement goroutines and Close calls interleave at every lock.         *)
(*                                                                         *)
(* Each generation is activated once, by the loader that built it          *)
(* (host/load.go:168-295), so Activate's "already current" return, which   *)
(* needs a second activation of one generation, has no action.             *)
(***************************************************************************)
EXTENDS Integers, FiniteSets

CONSTANTS
    Generations,    \* built generations, each with the loader that activates it
    Callers,        \* goroutines that dispatch callbacks through the manager
    Closers,        \* goroutines that close the manager
    IdOf,           \* the GenerationID of a generation
    None            \* Go's nil generation

ASSUME GenerationsFinite == IsFiniteSet(Generations)
ASSUME CallersFinite == IsFiniteSet(Callers)
ASSUME NoneIsNoGeneration == None \notin Generations

VARIABLES
    current,        \* manager.current
    pending,        \* manager.pending
    retired,        \* manager.retired: the number of the channel in the field
    closed,         \* the retired channels that have been closed
    accepting,      \* generation.accepting
    active,         \* generation.active
    drainClosed,    \* generation.drained is closed
    released,       \* generation.released
    cancelled,      \* generation.retireCtx is cancelled
    loader,         \* where the activation of a generation stands
    previous,       \* Activate's local: the generation it replaced
    retirement,     \* where the retirement of a generation stands
    caller,         \* where a dispatch stands
    target,         \* Invoke's local: the generation it read
    attempt,        \* Invoke's local: the loop counter, from 1
    closer,         \* where a Close call stands
    closing,        \* Close's local: the generation it took out
    waitsFor,       \* Close's local: the retired channel it captured
    swaps,          \* history: how often manager.current has changed
    seenSwaps,      \* history: swaps when the dispatch began
    owed            \* history: retirements under way when Close captured

managerVars == <<current, pending, retired, closed>>
slotVars    == <<accepting, active, drainClosed, released, cancelled>>
loaderVars  == <<loader, previous>>
callerVars  == <<caller, target, attempt, seenSwaps>>
closerVars  == <<closer, closing, waitsFor, owed>>

vars == <<managerVars, slotVars, loaderVars, retirement, callerVars,
          closerVars, swaps>>

MaxAttempts == 2

\* Retirements counted by manager.pending.
UnderWay == {"swapped", "drain", "grace", "release", "ending"}
Retiring == {g \in Generations : retirement[g] \in UnderWay}

Serving(g) == {c \in Callers : caller[c] = "running" /\ target[c] = g}

Init ==
    /\ current = None
    /\ pending = 0
    /\ retired = 0
    /\ closed = {0}
    /\ accepting = [g \in Generations |-> TRUE]
    /\ active = [g \in Generations |-> 0]
    /\ drainClosed = [g \in Generations |-> FALSE]
    /\ released = [g \in Generations |-> FALSE]
    /\ cancelled = [g \in Generations |-> FALSE]
    /\ loader = [g \in Generations |-> "built"]
    /\ previous = [g \in Generations |-> None]
    /\ retirement = [g \in Generations |-> "no"]
    /\ caller = [c \in Callers |-> "idle"]
    /\ target = [c \in Callers |-> None]
    /\ attempt = [c \in Callers |-> 1]
    /\ closer = [k \in Closers |-> "open"]
    /\ closing = [k \in Closers |-> None]
    /\ waitsFor = [k \in Closers |-> 0]
    /\ swaps = 0
    /\ seenSwaps = [c \in Callers |-> 0]
    /\ owed = [k \in Closers |-> {}]

-----------------------------------------------------------------------------
(* The generation's own lock-protected operations. *)

BeginDrain(g) ==
    /\ accepting' = [accepting EXCEPT ![g] = FALSE]
    /\ drainClosed' = [drainClosed EXCEPT ![g] = @ \/ active[g] = 0]

\* Releasing twice is a no-op; an undrained generation refuses.
Release(g) ==
    LET ok == ~released[g] /\ ~accepting[g] /\ active[g] = 0
    IN  /\ released' = [released EXCEPT ![g] = @ \/ ok]
        /\ cancelled' = [cancelled EXCEPT ![g] = @ \/ ok]

\* The manager counts a retirement and, if it is the only one, replaces the
\* channel that Close waits on.
BeginRetirement(g) ==
    /\ pending' = pending + 1
    /\ retired' = IF pending = 0 THEN retired + 1 ELSE retired
    /\ retirement' = [retirement EXCEPT ![g] = "swapped"]

-----------------------------------------------------------------------------
(* Activate, called by the loader of g. *)

\* The ready check takes only the generation's lock.
CheckReady(g) ==
    /\ loader[g] = "built"
    /\ loader' = [loader EXCEPT
           ![g] = IF accepting[g] /\ ~released[g] THEN "ready" ELSE "refused"]
    /\ UNCHANGED <<managerVars, slotVars, previous, retirement, callerVars,
                   closerVars, swaps>>

DuplicateId(g) == current # None /\ IdOf[current] = IdOf[g]

\* The swap under the manager's lock.
Swap(g) ==
    /\ loader[g] = "ready"
    /\ ~DuplicateId(g)
    /\ current' = g
    /\ previous' = [previous EXCEPT ![g] = current]
    /\ swaps' = swaps + 1
    /\ IF current = None
       THEN /\ loader' = [loader EXCEPT ![g] = "done"]
            /\ UNCHANGED <<pending, retired, retirement>>
       ELSE /\ loader' = [loader EXCEPT ![g] = "drain"]
            /\ BeginRetirement(current)
    /\ UNCHANGED <<closed, slotVars, callerVars, closerVars>>

RefuseDuplicate(g) ==
    /\ loader[g] = "ready"
    /\ DuplicateId(g)
    /\ loader' = [loader EXCEPT ![g] = "refused"]
    /\ UNCHANGED <<managerVars, slotVars, previous, retirement, callerVars,
                   closerVars, swaps>>

\* After the unlock: drain what was replaced and start its retirement.
DrainPrevious(g) ==
    /\ loader[g] = "drain"
    /\ loader' = [loader EXCEPT ![g] = "done"]
    /\ BeginDrain(previous[g])
    /\ retirement' = [retirement EXCEPT ![previous[g]] = "drain"]
    /\ UNCHANGED <<managerVars, active, released, cancelled, previous,
                   callerVars, closerVars, swaps>>

\* The loader disposes of a generation the manager refused.
DrainRefused(g) ==
    /\ loader[g] = "refused"
    /\ loader' = [loader EXCEPT ![g] = "dispose"]
    /\ BeginDrain(g)
    /\ UNCHANGED <<managerVars, active, released, cancelled, previous,
                   retirement, callerVars, closerVars, swaps>>

ReleaseRefused(g) ==
    /\ loader[g] = "dispose"
    /\ loader' = [loader EXCEPT ![g] = "done"]
    /\ Release(g)
    /\ UNCHANGED <<managerVars, accepting, active, drainClosed, previous,
                   retirement, callerVars, closerVars, swaps>>

-----------------------------------------------------------------------------
(* Invoke and Check: the two dispatch loops of the manager are the same. *)

StartCall(c) ==
    /\ caller[c] \in {"idle", "stale"}
    /\ caller' = [caller EXCEPT ![c] = "read"]
    /\ seenSwaps' = [seenSwaps EXCEPT ![c] = swaps]
    /\ UNCHANGED <<managerVars, slotVars, loaderVars, retirement, target,
                   attempt, closerVars, swaps>>

\* The dispatch is over: its locals are gone.
Return(c, how) ==
    /\ caller' = [caller EXCEPT ![c] = how]
    /\ target' = [target EXCEPT ![c] = None]
    /\ attempt' = [attempt EXCEPT ![c] = 1]

ReadCurrent(c) ==
    /\ caller[c] = "read"
    /\ current # None
    /\ caller' = [caller EXCEPT ![c] = "acquire"]
    /\ target' = [target EXCEPT ![c] = current]
    /\ UNCHANGED <<managerVars, slotVars, loaderVars, retirement, attempt,
                   seenSwaps, closerVars, swaps>>

ReadNone(c) ==
    /\ caller[c] = "read"
    /\ current = None
    /\ Return(c, "idle")
    /\ UNCHANGED <<managerVars, slotVars, loaderVars, retirement, seenSwaps,
                   closerVars, swaps>>

\* Mutation: a generation that drains or was released admits a callback.
Acquire_Unchecked(c) ==
    /\ caller[c] = "acquire"
    /\ active' = [active EXCEPT ![target[c]] = @ + 1]
    /\ caller' = [caller EXCEPT ![c] = "running"]
    /\ UNCHANGED <<managerVars, accepting, drainClosed, released, cancelled,
                   loaderVars, retirement, target, attempt, seenSwaps,
                   closerVars, swaps>>

Acquire(c) ==
    LET g == target[c]
    IN  /\ caller[c] = "acquire"
        /\ accepting[g] /\ ~released[g]
        /\ active' = [active EXCEPT ![g] = @ + 1]
        /\ caller' = [caller EXCEPT ![c] = "running"]
        /\ UNCHANGED <<managerVars, accepting, drainClosed, released,
                       cancelled, loaderVars, retirement, target, attempt,
                       seenSwaps, closerVars, swaps>>

AcquireRefused(c) ==
    /\ caller[c] = "acquire"
    /\ ~accepting[target[c]] \/ released[target[c]]
    /\ caller' = [caller EXCEPT ![c] = "recheck"]
    /\ UNCHANGED <<managerVars, slotVars, loaderVars, retirement, target,
                   attempt, seenSwaps, closerVars, swaps>>

\* The deferred release function, with closeDrainedLocked.
FinishCallback(c) ==
    LET g == target[c]
    IN  /\ caller[c] = "running"
        /\ active' = [active EXCEPT ![g] = @ - 1]
        /\ drainClosed' = [drainClosed EXCEPT
               ![g] = @ \/ (~accepting[g] /\ active[g] = 1)]
        /\ Return(c, "idle")
        /\ UNCHANGED <<managerVars, accepting, released, cancelled,
                       loaderVars, retirement, seenSwaps, closerVars, swaps>>

Retry(c) ==
    /\ caller[c] = "recheck"
    /\ current # target[c]
    /\ attempt[c] < MaxAttempts
    /\ attempt' = [attempt EXCEPT ![c] = @ + 1]
    /\ caller' = [caller EXCEPT ![c] = "read"]
    /\ UNCHANGED <<managerVars, slotVars, loaderVars, retirement, target,
                   seenSwaps, closerVars, swaps>>

GiveUp(c) ==
    /\ caller[c] = "recheck"
    /\ current = target[c] \/ attempt[c] = MaxAttempts
    /\ Return(c, "stale")
    /\ UNCHANGED <<managerVars, slotVars, loaderVars, retirement, seenSwaps,
                   closerVars, swaps>>

-----------------------------------------------------------------------------
(* The goroutine finishRetirement(g). *)

DrainReturns(g) ==
    /\ retirement[g] \in {"drain", "grace"}
    /\ drainClosed[g]
    /\ retirement' = [retirement EXCEPT ![g] = "release"]
    /\ UNCHANGED <<managerVars, slotVars, loaderVars, callerVars, closerVars,
                   swaps>>

\* Mutation: the deadline does not cancel the callbacks.
DrainDeadline_NoCancel(g) ==
    /\ retirement[g] = "drain"
    /\ retirement' = [retirement EXCEPT ![g] = "grace"]
    /\ UNCHANGED <<managerVars, slotVars, loaderVars, callerVars, closerVars,
                   swaps>>

\* The retirement deadline: cancel the callbacks and wait once more.
DrainDeadline(g) ==
    /\ retirement[g] = "drain"
    /\ cancelled' = [cancelled EXCEPT ![g] = TRUE]
    /\ retirement' = [retirement EXCEPT ![g] = "grace"]
    /\ UNCHANGED <<managerVars, accepting, active, drainClosed, released,
                   loaderVars, callerVars, closerVars, swaps>>

\* Mutation: waits for cancelled callbacks without a deadline.
GraceDeadline_Waits(g) ==
    /\ retirement[g] = "grace"
    /\ drainClosed[g]
    /\ retirement' = [retirement EXCEPT ![g] = "ending"]
    /\ UNCHANGED <<managerVars, slotVars, loaderVars, callerVars, closerVars,
                   swaps>>

\* A callback outlived its cancellation: the generation is left unreleased.
GraceDeadline(g) ==
    /\ retirement[g] = "grace"
    /\ retirement' = [retirement EXCEPT ![g] = "ending"]
    /\ UNCHANGED <<managerVars, slotVars, loaderVars, callerVars, closerVars,
                   swaps>>

ReleaseRetired(g) ==
    /\ retirement[g] = "release"
    /\ Release(g)
    /\ retirement' = [retirement EXCEPT ![g] = "ending"]
    /\ UNCHANGED <<managerVars, accepting, active, drainClosed, loaderVars,
                   callerVars, closerVars, swaps>>

FinishRetirement(g) ==
    /\ retirement[g] = "ending"
    /\ pending' = pending - 1
    /\ closed' = IF pending = 1 THEN closed \cup {retired} ELSE closed
    /\ retirement' = [retirement EXCEPT ![g] = "done"]
    /\ UNCHANGED <<current, retired, slotVars, loaderVars, callerVars,
                   closerVars, swaps>>

-----------------------------------------------------------------------------
(* Close. *)

\* Mutation: captures the channel before its own retirement is counted.
CloseManager_CapturesFirst(k) ==
    /\ closer[k] = "open"
    /\ current' = None
    /\ closing' = [closing EXCEPT ![k] = current]
    /\ IF current = None
       THEN /\ closer' = [closer EXCEPT ![k] = "wait"]
            /\ UNCHANGED <<pending, retired, retirement, swaps>>
       ELSE /\ closer' = [closer EXCEPT ![k] = "drain"]
            /\ swaps' = swaps + 1
            /\ BeginRetirement(current)
    /\ waitsFor' = [waitsFor EXCEPT ![k] = retired]
    /\ owed' = [owed EXCEPT ![k] = Retiring']
    /\ UNCHANGED <<closed, slotVars, loaderVars, callerVars>>

CloseManager(k) ==
    /\ closer[k] = "open"
    /\ current' = None
    /\ closing' = [closing EXCEPT ![k] = current]
    /\ IF current = None
       THEN /\ closer' = [closer EXCEPT ![k] = "wait"]
            /\ UNCHANGED <<pending, retired, retirement, swaps>>
       ELSE /\ closer' = [closer EXCEPT ![k] = "drain"]
            /\ swaps' = swaps + 1
            /\ BeginRetirement(current)
    /\ waitsFor' = [waitsFor EXCEPT ![k] = retired']
    /\ owed' = [owed EXCEPT ![k] = Retiring']
    /\ UNCHANGED <<closed, slotVars, loaderVars, callerVars>>

DrainClosing(k) ==
    /\ closer[k] = "drain"
    /\ closer' = [closer EXCEPT ![k] = "wait"]
    /\ BeginDrain(closing[k])
    /\ retirement' = [retirement EXCEPT ![closing[k]] = "drain"]
    /\ UNCHANGED <<managerVars, active, released, cancelled, loaderVars,
                   callerVars, closing, waitsFor, owed, swaps>>

CloseReturns(k) ==
    /\ closer[k] = "wait"
    /\ waitsFor[k] \in closed
    /\ closer' = [closer EXCEPT ![k] = "closed"]
    /\ UNCHANGED <<managerVars, slotVars, loaderVars, retirement, callerVars,
                   closing, waitsFor, owed, swaps>>

CloseDeadline(k) ==
    /\ closer[k] = "wait"
    /\ closer' = [closer EXCEPT ![k] = "timedOut"]
    /\ UNCHANGED <<managerVars, slotVars, loaderVars, retirement, callerVars,
                   closing, waitsFor, owed, swaps>>

-----------------------------------------------------------------------------

LoaderStep(g) ==
    \/ CheckReady(g) \/ Swap(g) \/ RefuseDuplicate(g) \/ DrainPrevious(g)
    \/ DrainRefused(g) \/ ReleaseRefused(g)

DispatchStep(c) ==
    \/ ReadCurrent(c) \/ ReadNone(c) \/ Acquire(c) \/ AcquireRefused(c)
    \/ Retry(c) \/ GiveUp(c)

RetireStep(g) ==
    \/ DrainReturns(g) \/ DrainDeadline(g) \/ GraceDeadline(g)
    \/ ReleaseRetired(g) \/ FinishRetirement(g)

CloseStep(k) == DrainClosing(k) \/ CloseReturns(k) \/ CloseDeadline(k)

Next ==
    \/ \E g \in Generations : LoaderStep(g) \/ RetireStep(g)
    \/ \E c \in Callers : StartCall(c) \/ DispatchStep(c) \/ FinishCallback(c)
    \/ \E k \in Closers : CloseManager(k) \/ CloseStep(k)

Spec == Init /\ [][Next]_vars

\* Goroutines that are runnable run and timers fire.  Nothing is assumed of a
\* callback: it may never return, which is why the retirement has deadlines.
Fairness ==
    /\ \A g \in Generations : WF_vars(LoaderStep(g)) /\ WF_vars(RetireStep(g))
    /\ \A c \in Callers : WF_vars(DispatchStep(c))
    /\ \A k \in Closers : WF_vars(CloseStep(k))

FairSpec == Spec /\ Fairness

-----------------------------------------------------------------------------
(* Properties. *)

\* Every variable has the type its Go field has.
TypeOK ==
    /\ current \in Generations \cup {None}
    /\ pending \in Int
    /\ retired \in Nat
    /\ closed \in SUBSET Nat
    /\ accepting \in [Generations -> BOOLEAN]
    /\ active \in [Generations -> Int]
    /\ drainClosed \in [Generations -> BOOLEAN]
    /\ released \in [Generations -> BOOLEAN]
    /\ cancelled \in [Generations -> BOOLEAN]
    /\ loader \in [Generations ->
           {"built", "ready", "refused", "drain", "dispose", "done"}]
    /\ previous \in [Generations -> Generations \cup {None}]
    /\ retirement \in [Generations -> UnderWay \cup {"no", "done"}]
    /\ caller \in [Callers ->
           {"idle", "read", "acquire", "running", "recheck", "stale"}]
    /\ target \in [Callers -> Generations \cup {None}]
    /\ \A c \in Callers : caller[c] \in {"acquire", "running", "recheck"} =>
                              target[c] \in Generations
    /\ attempt \in [Callers -> 1..MaxAttempts]
    /\ closer \in [Closers -> {"open", "drain", "wait", "closed", "timedOut"}]
    /\ closing \in [Closers -> Generations \cup {None}]
    /\ waitsFor \in [Closers -> Nat]
    /\ swaps \in Nat
    /\ seenSwaps \in [Callers -> Nat]
    /\ owed \in [Closers -> SUBSET Generations]

\* A callback never runs on a generation whose routes and catalog Release has
\* set to nil: executionProgram reads them without the lifecycle lock.
NoCallbackOnReleased ==
    \A g \in Generations : released[g] => Serving(g) = {}

\* A drain that was reported is final: Drain waits on a channel, so once it is
\* closed no callback may be running or be admitted any more.
DrainedIsFinal ==
    \A g \in Generations :
        drainClosed[g] => ~accepting[g] /\ Serving(g) = {}

\* What the manager hands to dispatchers can serve: it is never a generation
\* that drains or was released, however swaps, closes and retirements overlap.
CurrentServes ==
    current # None => accepting[current] /\ ~released[current]

\* A dispatch is answered "stale" only when the generation was replaced twice
\* while it ran: one swap is always absorbed by the second attempt.
StaleMeansReplacedTwice ==
    \A c \in Callers : caller[c] = "stale" => swaps >= seenSwaps[c] + 2

\* Close returns nil only after every retirement that was under way when it
\* took the lock, its own included, has ended, even if later activations gave
\* the manager a new channel.
CloseWaitsForRetirements ==
    \A k \in Closers :
        closer[k] = "closed" => \A g \in owed[k] : retirement[g] = "done"

\* The retired channel is closed exactly while no retirement is pending, so
\* finishRetirement never closes a closed channel (a panic in Go).
ChannelOpenWhilePending ==
    /\ pending = Cardinality(Retiring)
    /\ retired \in closed <=> pending = 0

\* A generation whose retirement ended is released, or its callbacks were
\* cancelled first: an undrained program is never dropped silently.
NoSilentLeak ==
    \A g \in Generations :
        retirement[g] = "done" => released[g] \/ cancelled[g]

\* Every generation taken out of the manager finishes retiring, whatever its
\* callbacks do.
RetirementEnds ==
    \A g \in Generations :
        retirement[g] = "swapped" ~> retirement[g] = "done"

=============================================================================
