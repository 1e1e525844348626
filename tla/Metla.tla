-------------------------------- MODULE Metla -------------------------------
(***************************************************************************)
(* Metla, Cynic's collector: a sliced tri-colour major mark with an        *)
(* incremental-update (Dijkstra) write barrier, sticky mark bits and       *)
(* minor collections over a dirty list, and a major sweep whose object     *)
(* list is deferred and sliced.  The mutator runs between any two slices.  *)
(*                                                                         *)
(* A mark or sweep slice handles one item: the code's 8192 are 8192 such   *)
(* slices with no mutator step between them.                               *)
(*                                                                         *)
(* A definition marked "fault" is a plausible bug in the one below it; the *)
(* mutation runs swap it in, and the specification never uses it.          *)
(***************************************************************************)
EXTENDS JsHeap

CONSTANTS
    SlicedMajors,    \* whether the allocation thresholds let a safe point
                     \* start a sliced major, or only an explicit collect
                     \* runs a full cycle
    FullEveryNMinor  \* full_every_n_minor, 32 in the code

ASSUME SlicedMajorsAssumption == SlicedMajors \in BOOLEAN
ASSUME FullEveryNMinorAssumption == FullEveryNMinor \in Nat \ {0}

\* The per-kind lists whose mature half the termination leaves to the lazy
\* sweep, and those a minor collection scans in full.
ObjectListKinds == {"object", "array"}
UnscannedGenerators == {"function"}                             \* fault
MinorScannedKinds == {"function", "generator"}

VARIABLES
    gen,            \* generation of a cell
    color,          \* mark_color
    dirty,          \* cells whose dirty bit is set
    dirty_list,     \* the remembered set
    live_color,     \* the colour that means marked
    marking_phase,  \* "idle" or "marking"
    worklist,       \* mark_worklist and mark_env_worklist
    sweep_phase,    \* "idle" or "sweeping"
    unswept,        \* objects_mature below sweep_cursor
    minors          \* minor_cycles_since_full, saturating at the backstop

gcVars == <<gen, color, dirty, dirty_list, live_color,
            marking_phase, worklist, sweep_phase, unswept, minors>>
vars == <<heapVars, gcVars>>

Marking == marking_phase = "marking"
Sweeping == sweep_phase = "sweeping"
Black == {c \in Live : color[c] = live_color}
Young == {c \in Live : gen[c] = "young"}
Mature == {c \in Live : gen[c] = "mature"}
\* Dead objects the deferred sweep has still to free.
Condemned == {c \in unswept : color[c] # live_color}

-----------------------------------------------------------------------------
(* Marking.                                                                *)

\* markValue on each cell of S: colour it and enqueue its unmarked
\* children.  A worklist entry coloured meanwhile pops as a no-op, so it
\* is dropped here.
MarkEach(S) ==
    /\ color' = [c \in Cells |-> IF c \in S THEN live_color ELSE color[c]]
    /\ worklist' = (worklist \cup SuccOf(S \ Black)) \ (Black \cup S)

\* The worklist is empty once c has been popped and marked.
DrainedBy(c) == worklist \cup Succ(c) \subseteq Black \cup {c}

-----------------------------------------------------------------------------
(* The write barrier.                                                      *)

\* Fault: the generational barrier alone.
NoShade(c, v) == {}

\* Dijkstra arm: a black container shades the value it receives.
Shaded(c, v) ==
    IF Marking /\ c \in Black /\ v # Null /\ v \notin Black THEN {v} ELSE {}

\* Card-marking arm: put a container on the dirty list once.
Remember(c) ==
    /\ dirty' = dirty \cup {c}
    /\ dirty_list' = IF c \in dirty THEN dirty_list ELSE dirty_list \cup {c}

writeBarrier(c, v) ==
    /\ worklist' = worklist \cup Shaded(c, v)
    /\ IF gen[c] = "mature" /\ v # Null /\ gen[v] = "young"
         THEN Remember(c)
         ELSE UNCHANGED <<dirty, dirty_list>>
    /\ UNCHANGED <<gen, color, live_color, marking_phase, sweep_phase, unswept,
                   minors>>

\* Fault: a raw internal-slot store with no barrier after it.
NoTypedSlotBarrier(c) == UNCHANGED gcVars

\* The typed-slot barrier runs after the store and sees only the holder: it
\* re-scans the slots of a black one and remembers a mature one.
rememberTypedSlotWrite(c) ==
    /\ worklist' = IF Marking /\ c \in Black
                     THEN worklist \cup (Succ(c)' \ Black)
                     ELSE worklist
    /\ IF gen[c] = "mature"
         THEN Remember(c)
         ELSE UNCHANGED <<dirty, dirty_list>>
    /\ UNCHANGED <<gen, color, live_color, marking_phase, sweep_phase, unswept,
                   minors>>

-----------------------------------------------------------------------------
(* Mutator operations.                                                     *)

\* Fault: a cell is born unmarked.
BornWhite == 1 - live_color

\* Every allocation is young and born with the live colour.
BirthColor == live_color

\* Only a rope marks the children it is born with.
BirthShade(k, init) ==
    IF k = "rope" /\ Marking THEN {init[s] : s \in Slots} \ {Null} ELSE {}

AllocateCell(c, k, r, init) ==
    /\ Allocate(c, k, r, init)
    /\ gen' = [gen EXCEPT ![c] = "young"]
    /\ LET shade == BirthShade(k, init)
       IN  /\ color' = [d \in Cells |-> IF d = c THEN BirthColor
                                        ELSE IF d \in shade THEN live_color
                                        ELSE color[d]]
           /\ worklist' = (worklist \cup SuccOf(shade \ Black))
                              \ (Black \cup shade)
    /\ UNCHANGED <<dirty, dirty_list, live_color, marking_phase,
                   sweep_phase, unswept, minors>>

LoadSlot(r, c, s) == Load(r, c, s) /\ UNCHANGED gcVars
DropRegister(r) == ClearRegister(r) /\ UNCHANGED gcVars

\* A barriered property, element, environment or value-slot store.
StoreSlot(c, s, v) ==
    /\ kind[c] \in {"object", "array", "function"}
    /\ writeBarrier(c, v)
    /\ WriteSlot(c, s, v)

\* A raw internal-slot store followed by noteInternalSlotWrite.
StoreTypedSlot(c, s, v) ==
    /\ kind[c] \in ObjectListKinds
    /\ WriteSlot(c, s, v)
    /\ rememberTypedSlotWrite(c)

\* A running generator writes its registers in place, with no barrier.
WriteFrameRegister(s, v) ==
    /\ running # Null
    /\ WriteSlot(running, s, v)
    /\ UNCHANGED gcVars

OpenHandle(h, r) == PushHandle(h, r) /\ UNCHANGED gcVars
CloseHandle(h, r) == CloseScope(h, r) /\ UNCHANGED gcVars
ResumeGenerator(g) == Resume(g) /\ UNCHANGED gcVars

\* Saving the frame stores its environment, this and home object back into
\* the generator through the barrier; its registers are there already.
YieldGenerator ==
    /\ Yield
    /\ \E saved \in Succ(running) \cup {Null} : writeBarrier(running, saved)

-----------------------------------------------------------------------------
(* Major cycles.                                                           *)

\* The colour is one bit.
Flip(lc) == 1 - lc

\* Flip the colour, unmark the mature generation (the young one is
\* unmarked by the flip), and mark every root.
beginIncrementalMajor ==
    LET lc == Flip(live_color)
        unmarked == [c \in Cells |-> IF c \in Mature THEN live_color
                                                     ELSE color[c]]
        black == {c \in Live : unmarked[c] = lc} \cup RootCells
    IN  /\ live_color' = lc
        /\ color' = [c \in Cells |-> IF c \in RootCells THEN lc
                                                        ELSE unmarked[c]]
        /\ worklist' = (worklist \cup SuccOf(RootCells)) \ black
        /\ marking_phase' = "marking"
        /\ UNCHANGED <<heapVars, gen, dirty, dirty_list, sweep_phase, unswept,
                       minors>>

\* Fault: the deferred objects keep their dirty bits.
StaleDirtyBits(deferred) == dirty \cap deferred

\* The sweeps clear the bits of the survivors they visit, and a pre-pass
\* those of the dirty list, which the deferred sweep would miss.
DirtyAfterMajor(deferred) == (dirty \cap deferred) \ dirty_list

\* collectFullTail once every cell of marked is coloured lc: free what is
\* unmarked, tenure every survivor, empty the dirty list.  A lazy tail
\* leaves the unmarked part of objects_mature to the sliced sweep.  finished
\* holds the cells a sweep completed at the start of the cycle has freed.
collectFullTail(marked, lc, lazy, finished) ==
    LET deferred == IF lazy THEN {c \in Mature : kind[c] \in ObjectListKinds}
                            ELSE {}
        freed == finished \cup {c \in Live : c \notin marked \cup deferred}
        survivors == Live \ freed
    IN  /\ Free(freed)
        /\ gen' = [c \in Cells |-> IF c \in survivors THEN "mature" ELSE "young"]
        /\ color' = [c \in Cells |-> IF c \in survivors \cap marked THEN lc
                                     ELSE IF c \in survivors THEN color[c]
                                     ELSE 0]
        /\ dirty' = DirtyAfterMajor(deferred)
        /\ dirty_list' = {}
        /\ live_color' = lc
        /\ marking_phase' = "idle"
        /\ worklist' = {}
        /\ minors' = 0
        /\ sweep_phase' = IF lazy THEN "sweeping" ELSE "idle"
        /\ unswept' = IF lazy
                        THEN {c \in survivors : kind[c] \in ObjectListKinds}
                        ELSE {}

\* Fault: it re-scans the realm roots and forgets the handle scopes.
FinishWithoutHandles(lazy) ==
    collectFullTail(Trace(Black, worklist \cup RegValues \cup FrameValues),
                    live_color, lazy, {})

\* The termination re-scans the roots, then drains to completion.
finishIncrementalMajor(lazy) ==
    collectFullTail(Trace(Black, worklist \cup RootCells), live_color, lazy, {})

\* An explicit collection finishes a mark in flight; otherwise it finishes
\* a pending sweep and runs a whole cycle.
FinishMarkInFlight ==
    /\ Marking
    /\ finishIncrementalMajor(FALSE)

\* Fault: an explicit collection leaves its sweep to the safe points.
CollectLazily ==
    /\ ~Marking
    /\ LET lc == Flip(live_color)
           spared == {c \in Young : color[c] = lc}
       IN  collectFullTail(Trace(spared, RootCells), lc, TRUE, Condemned)

CollectFromIdle ==
    /\ ~Marking
    /\ LET lc == Flip(live_color)
           spared == {c \in Young : color[c] = lc}
       IN  collectFullTail(Trace(spared, RootCells), lc, FALSE, Condemned)

collectGarbage == FinishMarkInFlight \/ CollectFromIdle

-----------------------------------------------------------------------------
(* The safe point: sweep before mark before a new cycle.                   *)

\* Fault: the cursor does not move past a survivor.
StayOnSurvivor(c) == IF c \in Condemned THEN unswept \ {c} ELSE unswept

\* The cursor moves down past every object it has looked at.
PastCursor(c) == unswept \ {c}

SweepSlice ==
    /\ Sweeping
    /\ \/ \E c \in unswept :
            LET freed == {c} \cap Condemned
            IN  /\ Free(freed)
                /\ unswept' = PastCursor(c)
                /\ gen' = [d \in Cells |-> IF d \in freed THEN "young" ELSE gen[d]]
                /\ color' = [d \in Cells |-> IF d \in freed THEN 0 ELSE color[d]]
                /\ dirty' = dirty \ freed
                /\ sweep_phase' = IF unswept' = {} THEN "idle" ELSE "sweeping"
       \/ /\ unswept = {}
          /\ sweep_phase' = "idle"
          /\ UNCHANGED <<heapVars, unswept, gen, color, dirty>>
    /\ UNCHANGED <<dirty_list, live_color, marking_phase, worklist, minors>>

MarkSlice ==
    /\ ~Sweeping /\ Marking
    /\ \E c \in worklist :
         /\ ~DrainedBy(c)
         /\ MarkEach({c})
    /\ UNCHANGED <<heapVars, gen, dirty, dirty_list, live_color,
                   marking_phase, sweep_phase, unswept, minors>>

FinishSlice ==
    /\ ~Sweeping /\ Marking
    /\ worklist = {} \/ \E c \in worklist : DrainedBy(c)
    /\ finishIncrementalMajor(TRUE)

StartMajor ==
    /\ SlicedMajors
    /\ ~Sweeping /\ ~Marking
    /\ beginIncrementalMajor

\* Fault: nothing ever forces a major.
NoBackstop == FALSE

\* Enough minor cycles have passed to force a major.
BackstopDue == SlicedMajors /\ minors + 1 >= FullEveryNMinor

\* A minor cycle traces from the roots, the dirty containers and every
\* mature function and generator; the sticky marks of the mature
\* generation stop the trace.
collectYoung ==
    /\ ~Sweeping /\ ~Marking
    /\ ~BackstopDue
    /\ LET scanned == dirty_list \cup {c \in Mature : kind[c] \in MinorScannedKinds}
           marked == Trace(Mature \cap Black, RootCells \cup SuccOf(scanned))
           freed == Young \ marked
           survivors == Live \ freed
       IN  /\ Free(freed)
           /\ gen' = [c \in Cells |-> IF c \in survivors THEN "mature" ELSE "young"]
           /\ color' = [c \in Cells |-> IF c \in marked THEN live_color
                                        ELSE IF c \in survivors THEN color[c]
                                        ELSE 0]
           /\ dirty' = dirty \ (dirty_list \cup Young)
           /\ dirty_list' = {}
    /\ minors' = IF minors < FullEveryNMinor THEN minors + 1 ELSE minors
    /\ UNCHANGED <<live_color, marking_phase, worklist, sweep_phase, unswept>>

-----------------------------------------------------------------------------
Init ==
    /\ HeapInit
    /\ gen = [c \in Cells |-> "young"]
    /\ color = [c \in Cells |-> 0]
    /\ dirty = {}
    /\ dirty_list = {}
    /\ live_color = 0
    /\ marking_phase = "idle"
    /\ worklist = {}
    /\ sweep_phase = "idle"
    /\ unswept = {}
    /\ minors = 0

Mutator ==
    \/ \E c \in Cells, k \in Kinds, r \in Registers, init \in [Slots -> Values] :
           AllocateCell(c, k, r, init)
    \/ \E r \in Registers, c \in Cells, s \in Slots : LoadSlot(r, c, s)
    \/ \E r \in Registers : DropRegister(r)
    \/ \E c \in Cells, s \in Slots, v \in Values :
           StoreSlot(c, s, v) \/ StoreTypedSlot(c, s, v)
    \/ \E s \in Slots, v \in Values : WriteFrameRegister(s, v)
    \/ \E h \in Handles, r \in Registers : OpenHandle(h, r) \/ CloseHandle(h, r)
    \/ \E g \in Cells : ResumeGenerator(g)
    \/ YieldGenerator

SafePoint == SweepSlice \/ MarkSlice \/ FinishSlice \/ StartMajor \/ collectYoung

Next == Mutator \/ SafePoint \/ collectGarbage

Spec == Init /\ [][Next]_vars

\* The dispatch loop crosses a safe point on every back edge and call, and a
\* program that keeps running keeps allocating.
FairSpec == Spec /\ WF_vars(SafePoint)
-----------------------------------------------------------------------------
(* Correctness.                                                            *)

TypeOK ==
    /\ kind \in [Cells -> Kinds \cup {"free"}]
    /\ slot \in [Cells -> [Slots -> Values]]
    /\ reg \in [Registers -> Values]
    /\ handle \in [Handles -> Values]
    /\ running \in Values
    /\ gen \in [Cells -> {"young", "mature"}]
    /\ color \in [Cells -> {0, 1}]
    /\ dirty \subseteq Cells
    /\ dirty_list \subseteq Cells
    /\ live_color \in {0, 1}
    /\ marking_phase \in {"idle", "marking"}
    /\ worklist \subseteq Cells
    /\ sweep_phase \in {"idle", "sweeping"}
    /\ unswept \subseteq Cells
    /\ minors \in 0 .. FullEveryNMinor

\* No pointer the program can follow leads to a freed header
\* (sweepList, sweepObjectsMatureBudget, promoteYoungList).
NoDangling == Reachable \subseteq Live

\* Incremental-update invariant of the sliced mark: a marked cell points
\* only at marked cells and at cells queued on the worklist (writeBarrier).
NoHiddenWhite ==
    Marking => \A c \in Black : Succ(c) \subseteq Black \cup worklist

\* A pointer from the mature generation to the young one leaves a container
\* on the dirty list, or one the minor cycle scans anyway: what
\* verifyRememberedSet asserts before every minor cycle.
RememberedSetComplete ==
    \A c \in Mature \ Condemned : \A d \in Succ(c) \cap Young :
        c \in dirty_list \/ kind[c] \in MinorScannedKinds

\* dirty == true iff on the dirty list: a stale bit would make the barrier
\* skip a fresh old-to-young store (collectFullTail).
DirtyBitIsMembership == dirty = dirty_list

\* Sticky marks: outside a major mark every cell is marked, except the dead
\* objects the deferred sweep still holds.  A minor cycle stops its trace at
\* mature cells on the strength of this (beginMinorCycle).
StickyMarks ==
    ~Marking => \A c \in Live : c \in Black \/ (Sweeping /\ c \in unswept)

\* A minor or explicit collection, and the start of a sliced mark, never
\* run over a half-done mark or sweep of another colour: a sweep and a mark
\* are never both in flight, and an idle collector holds no queued work.
PhasesExclusive ==
    /\ ~(Marking /\ Sweeping)
    /\ ~Marking => worklist = {}
    /\ ~Sweeping => unswept = {}

\* The cells the deferred sweep will not free.
Intact == Live \ Condemned

\* Nothing the program holds, and nothing an intact cell points at, is free
\* or about to be freed: a barriered store never revives a cell the mark
\* has given up on (sweepObjectsMatureBudget).
IntactClosed == TraceClosed(Intact, {}, RootCells)

\* What the actions take for granted: the deferred sweep holds mature cells,
\* only intact containers are remembered, only a generator runs, and only
\* a sliced major leaves a mark in flight.
Bookkeeping ==
    /\ unswept \subseteq Mature
    /\ dirty_list \subseteq Intact
    /\ running # Null => kind[running] = "generator"
    /\ Marking => SlicedMajors

\* The inductive invariant behind NoDangling and KeepsHeapPromise
\* (MetlaProofs): all of the above, for the whole heap.
IInv ==
    /\ TypeOK
    /\ PhasesExclusive
    /\ Bookkeeping
    /\ DirtyBitIsMembership
    /\ StickyMarks
    /\ IntactClosed
    /\ RememberedSetComplete
    /\ NoHiddenWhite

\* Between a program's own steps the collector only frees cells the program
\* cannot reach: the specification of JsHeap.
KeepsHeapPromise == HeapSpec

\* An explicit collection that starts its own cycle frees every unreachable
\* cell, even with a deferred sweep pending (Realm.collectGarbage).
ExplicitCollectIsPrecise ==
    [][CollectFromIdle => Live' = Reachable]_vars

\* A sliced cycle always ends: allocate-black and the barrier leave the
\* mark a finite set of cells to colour, and nothing is added to the sweep.
CycleTerminates == (Marking \/ Sweeping) ~> ~(Marking \/ Sweeping)

\* A cell the program cannot reach is freed, in whatever generation and
\* whichever phase it died: the minor-cycle backstop forces a major.
GarbageReclaimed ==
    \A c \in Cells : (c \in Live \ Reachable) ~> (c \notin Live)
-----------------------------------------------------------------------------
(* What the comments at the unbarriered stores promise.                    *)

KeepsReferents(k, c) == kind[c] = k => Succ(c) \subseteq Live

\* A reachable dense literal still holds its elements: makeDenseArray and
\* make_array_n store them raw because "the array is young".
ArrayLiteralKeepsElements ==
    \A c \in Reachable : KeepsReferents("array", c)

\* A reachable suspended generator still holds its saved frame, which the
\* frame wrote in place while it ran.
SuspendedFrameSurvives ==
    \A c \in Reachable \ {running} : KeepsReferents("generator", c)
=============================================================================
