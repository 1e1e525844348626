---------------------------- MODULE MetlaProofs ----------------------------
(***************************************************************************)
(* Proofs about Metla for every heap, root set, kind set and threshold:    *)
(* the inductive invariant, memory safety, and the refinement of JsHeap.   *)
(***************************************************************************)
EXTENDS Metla, TLAPS

\* The kinds whose every pointer is stored through a barrier, or shaded at
\* birth.  A sliced mark is sound over these only (the runs literal
\* and frame); stop-the-world majors and minors are sound over all kinds.
BarrieredKinds == SlicedMajors => Kinds \subseteq {"object", "rope"}

-----------------------------------------------------------------------------
(* The trace.                                                              *)

\* A trace colours the seeds, and what was coloured stays so (markValue).
LEMMA TraceHoldsSeeds ==
    ASSUME NEW black, NEW seeds \in SUBSET Cells
    PROVE  /\ seeds \subseteq Trace(black, seeds)
           /\ black \subseteq Trace(black, seeds)
BY DEF Trace, TraceClosed

\* A trace colours the children of every cell it colours (markValue).
LEMMA TraceFollows ==
    ASSUME NEW black, NEW seeds, NEW c \in Trace(black, seeds) \ black
    PROVE  Succ(c) \subseteq Trace(black, seeds)
<1> SUFFICES ASSUME NEW d \in Succ(c), d \notin black
             PROVE  d \in Trace(black, seeds)
    BY DEF Trace
<1>1. c \in Cells /\ d \in Cells
    BY DEF Trace, Succ
<1>2. ASSUME NEW T \in SUBSET Cells, TraceClosed(T, black, seeds)
      PROVE  d \in T
  <2>1. c \in T
      BY <1>2 DEF Trace
  <2>2. QED
      BY <1>2, <2>1 DEF TraceClosed
<1>3. QED
    BY <1>1, <1>2 DEF Trace

\* A trace colours nothing outside a closed set that holds the seeds.
LEMMA TraceLeast ==
    ASSUME NEW black, NEW seeds, NEW T \in SUBSET Cells,
           TraceClosed(T, black, seeds)
    PROVE  Trace(black, seeds) \subseteq T \cup black
BY DEF Trace

-----------------------------------------------------------------------------
(* Types.                                                                  *)

LEMMA TypeInit == Init => TypeOK
BY FullEveryNMinorAssumption
DEF Init, HeapInit, TypeOK, Values, EmptySlots

LEMMA TypeFree ==
    ASSUME TypeOK, NEW S, Free(S)
    PROVE  /\ kind' \in [Cells -> Kinds \cup {"free"}]
           /\ slot' \in [Cells -> [Slots -> Values]]
           /\ reg' \in [Registers -> Values]
           /\ handle' \in [Handles -> Values]
           /\ running' \in Values
BY DEF TypeOK, Free, Values, EmptySlots

LEMMA TypeBarrier ==
    ASSUME TypeOK, NEW c \in Cells, NEW v \in Values, writeBarrier(c, v)
    PROVE  /\ worklist' \subseteq Cells
           /\ dirty' \subseteq Cells
           /\ dirty_list' \subseteq Cells
BY DEF TypeOK, writeBarrier, Shaded, Remember, Values

LEMMA TypeMutator == TypeOK /\ Mutator => TypeOK'
<1> SUFFICES ASSUME TypeOK, Mutator PROVE TypeOK'
    OBVIOUS
<1>1. ASSUME NEW c \in Cells, NEW k \in Kinds, NEW r \in Registers,
             NEW init \in [Slots -> Values], AllocateCell(c, k, r, init)
      PROVE  TypeOK'
  <2>1. /\ kind' \in [Cells -> Kinds \cup {"free"}]
        /\ slot' \in [Cells -> [Slots -> Values]]
        /\ reg' \in [Registers -> Values]
      BY <1>1 DEF AllocateCell, Allocate, TypeOK, Values
  <2>2. /\ gen' \in [Cells -> {"young", "mature"}]
        /\ color' \in [Cells -> {0, 1}]
        /\ worklist' \subseteq Cells
      BY <1>1 DEF AllocateCell, TypeOK, BirthColor, SuccOf
  <2>3. QED
      BY <1>1, <2>1, <2>2 DEF AllocateCell, Allocate, TypeOK
<1>2. ASSUME NEW r \in Registers, NEW c \in Cells, NEW s \in Slots,
             LoadSlot(r, c, s)
      PROVE  TypeOK'
    BY <1>2 DEF LoadSlot, Load, gcVars, TypeOK
<1>3. ASSUME NEW r \in Registers, DropRegister(r)
      PROVE  TypeOK'
    BY <1>3 DEF DropRegister, ClearRegister, gcVars, TypeOK, Values
<1>4. ASSUME NEW c \in Cells, NEW s \in Slots, NEW v \in Values,
             StoreSlot(c, s, v)
      PROVE  TypeOK'
  <2>1. slot' \in [Cells -> [Slots -> Values]]
      BY <1>4 DEF StoreSlot, WriteSlot, TypeOK
  <2>2. QED
      BY <1>4, <2>1, TypeBarrier DEF StoreSlot, WriteSlot, writeBarrier, TypeOK
<1>5. ASSUME NEW c \in Cells, NEW s \in Slots, NEW v \in Values,
             StoreTypedSlot(c, s, v)
      PROVE  TypeOK'
  <2>1. slot' \in [Cells -> [Slots -> Values]]
      BY <1>5 DEF StoreTypedSlot, WriteSlot, TypeOK
  <2>2. worklist' \subseteq Cells /\ dirty' \subseteq Cells /\ dirty_list' \subseteq Cells
      BY <1>5 DEF StoreTypedSlot, rememberTypedSlotWrite, Remember, Succ, TypeOK
  <2>3. QED
      BY <1>5, <2>1, <2>2
      DEF StoreTypedSlot, WriteSlot, rememberTypedSlotWrite, TypeOK
<1>6. ASSUME NEW s \in Slots, NEW v \in Values, WriteFrameRegister(s, v)
      PROVE  TypeOK'
    BY <1>6 DEF WriteFrameRegister, WriteSlot, gcVars, TypeOK, Values
<1>7. ASSUME NEW h \in Handles, NEW r \in Registers,
             OpenHandle(h, r) \/ CloseHandle(h, r)
      PROVE  TypeOK'
    BY <1>7
    DEF OpenHandle, PushHandle, CloseHandle, CloseScope, gcVars, TypeOK, Values
<1>8. ASSUME NEW g \in Cells, ResumeGenerator(g)
      PROVE  TypeOK'
    BY <1>8 DEF ResumeGenerator, Resume, gcVars, TypeOK, Values
<1>9. CASE YieldGenerator
  <2>1. PICK saved \in Succ(running) \cup {Null} : writeBarrier(running, saved)
      BY <1>9 DEF YieldGenerator
  <2>2. running \in Cells /\ saved \in Values
      BY <1>9 DEF YieldGenerator, Yield, TypeOK, Values, Succ
  <2>3. QED
      BY <1>9, <2>1, <2>2, TypeBarrier
      DEF YieldGenerator, Yield, writeBarrier, TypeOK, Values
<1>10. QED
    BY <1>1, <1>2, <1>3, <1>4, <1>5, <1>6, <1>7, <1>8, <1>9 DEF Mutator

LEMMA TypeTail ==
    ASSUME TypeOK, NEW marked, NEW lc \in {0, 1}, NEW lazy \in BOOLEAN,
           NEW finished, collectFullTail(marked, lc, lazy, finished)
    PROVE  TypeOK'
<1>1. /\ gen' \in [Cells -> {"young", "mature"}]
      /\ color' \in [Cells -> {0, 1}]
      /\ dirty' \subseteq Cells
      /\ unswept' \subseteq Cells
    BY DEF collectFullTail, TypeOK, Live, DirtyAfterMajor
<1>2. PICK S : Free(S)
    BY DEF collectFullTail
<1>3. minors' \in 0 .. FullEveryNMinor
    BY FullEveryNMinorAssumption DEF collectFullTail
<1>4. QED
    BY <1>1, <1>2, <1>3, TypeFree DEF collectFullTail, TypeOK

LEMMA TypeCollector == TypeOK /\ (SafePoint \/ collectGarbage) => TypeOK'
<1> SUFFICES ASSUME TypeOK, SafePoint \/ collectGarbage PROVE TypeOK'
    OBVIOUS
<1>0. live_color \in {0, 1} /\ Flip(live_color) \in {0, 1}
    BY DEF TypeOK, Flip
<1>1. CASE SweepSlice
    BY <1>1, TypeFree DEF SweepSlice, PastCursor, TypeOK, heapVars
<1>2. CASE MarkSlice
    BY <1>2 DEF MarkSlice, MarkEach, SuccOf, TypeOK, heapVars
<1>3. CASE FinishSlice
    BY <1>3, <1>0, TypeTail DEF FinishSlice, finishIncrementalMajor
<1>4. CASE StartMajor
    BY <1>4, <1>0 DEF StartMajor, beginIncrementalMajor, SuccOf, TypeOK, heapVars
<1>5. CASE collectYoung
  <2>1. PICK S : Free(S)
      BY <1>5 DEF collectYoung
  <2>2. minors' \in 0 .. FullEveryNMinor
      BY <1>5, FullEveryNMinorAssumption DEF collectYoung, TypeOK
  <2>3. QED
      BY <1>5, <2>1, <2>2, TypeFree DEF collectYoung, TypeOK
<1>6. CASE collectGarbage
    BY <1>6, <1>0, TypeTail
    DEF collectGarbage, FinishMarkInFlight, CollectFromIdle, finishIncrementalMajor
<1>7. QED
    BY <1>1, <1>2, <1>3, <1>4, <1>5, <1>6 DEF SafePoint

\* Every state of Metla has its type: the mark colour stays one bit and the
\* minor counter within the backstop whatever the constants.
THEOREM TypeCorrect == Spec => []TypeOK
<1>1. TypeOK /\ [Next]_vars => TypeOK'
  <2>1. TypeOK /\ UNCHANGED vars => TypeOK'
      BY DEF vars, heapVars, gcVars, TypeOK
  <2>2. QED
      BY <2>1, TypeMutator, TypeCollector DEF Next
<1>2. QED
    BY <1>1, TypeInit, PTL DEF Spec
-----------------------------------------------------------------------------
(* The inductive invariant: mutator steps.                                 *)

LEMMA InitIInv == Init => IInv
<1> SUFFICES ASSUME Init PROVE IInv
    OBVIOUS
<1>1. Live = {} /\ unswept = {} /\ RootCells = {} /\ ~Marking
    BY NullAssumption
    DEF Init, HeapInit, Live, RootCells, RegValues, HandleValues, FrameValues,
        Marking
<1>2. PhasesExclusive /\ Bookkeeping /\ DirtyBitIsMembership /\ StickyMarks
    BY <1>1
    DEF Init, HeapInit, PhasesExclusive, Bookkeeping, DirtyBitIsMembership,
        StickyMarks, Sweeping
<1>3. IntactClosed /\ RememberedSetComplete /\ NoHiddenWhite
    BY <1>1 DEF IntactClosed, TraceClosed, Intact, RememberedSetComplete, Mature,
                NoHiddenWhite
<1>4. QED
    BY <1>2, <1>3, TypeInit DEF IInv

\* What the program holds is intact, and an intact cell points at intact
\* cells only.
LEMMA HeldIsIntact ==
    ASSUME IInv
    PROVE  /\ RootCells \subseteq Intact
           /\ Operands \subseteq Intact
           /\ \A c \in Intact : Succ(c) \subseteq Intact
           /\ Intact \subseteq Live
BY DEF IInv, IntactClosed, TraceClosed, RootCells, Operands, Intact

\* A step that only moves intact cells between roots keeps the invariant.
LEMMA RootMoveKeeps ==
    ASSUME IInv, TypeOK', UNCHANGED <<kind, slot>>, UNCHANGED gcVars,
           RootCells' \subseteq Intact,
           running' # Null => kind[running'] = "generator"
    PROVE  IInv'
<1>1. /\ Live' = Live /\ Black' = Black /\ Young' = Young /\ Mature' = Mature
      /\ Condemned' = Condemned /\ Intact' = Intact
      /\ Marking' = Marking /\ Sweeping' = Sweeping
    BY DEF gcVars, Live, Black, Young, Mature, Condemned, Intact, Marking, Sweeping
<1>2. \A c \in Cells : Succ(c)' = Succ(c)
    BY DEF Succ
<1>3. /\ PhasesExclusive' /\ DirtyBitIsMembership' /\ StickyMarks'
      /\ RememberedSetComplete' /\ NoHiddenWhite'
    BY <1>1, <1>2
    DEF IInv, gcVars, PhasesExclusive, DirtyBitIsMembership, StickyMarks,
        RememberedSetComplete, NoHiddenWhite, Mature, Black, Live
<1>4. Bookkeeping'
    BY <1>1 DEF IInv, gcVars, Bookkeeping
<1>5. IntactClosed'
    BY <1>1, <1>2, HeldIsIntact DEF IntactClosed, TraceClosed, Intact, Live
<1>6. QED
    BY <1>3, <1>4, <1>5 DEF IInv

\* A step that lets an intact container c point at one more intact value v
\* keeps the invariant when it remembers and shades as the barrier does.
LEMMA StoreKeeps ==
    ASSUME IInv, TypeOK',
           NEW c \in Cells, NEW v \in Values,
           c \in Intact, v # Null => v \in Intact,
           UNCHANGED <<kind, gen, color, live_color, marking_phase,
                       sweep_phase, unswept, minors>>,
           \A x \in Cells \ {c} : Succ(x)' = Succ(x),
           Succ(c)' \subseteq Succ(c) \cup {v},
           RootCells' \subseteq Intact,
           running' # Null => kind[running'] = "generator",
           dirty' = dirty_list',
           dirty_list \subseteq dirty_list',
           dirty_list' \subseteq dirty_list \cup {c},
           c \in Mature /\ v \in Young =>
               c \in dirty_list' \/ kind[c] \in MinorScannedKinds,
           worklist \subseteq worklist',
           Marking \/ worklist' = worklist,
           Marking /\ c \in Black => Succ(c)' \subseteq Black \cup worklist'
    PROVE  IInv'
<1>1. /\ Live' = Live /\ Black' = Black /\ Young' = Young /\ Mature' = Mature
      /\ Condemned' = Condemned /\ Intact' = Intact
      /\ Marking' = Marking /\ Sweeping' = Sweeping
    BY DEF Live, Black, Young, Mature, Condemned, Intact, Marking, Sweeping
<1>2. Null \notin Cells /\ \A x \in Cells : Succ(x)' \subseteq Cells
    BY NullAssumption DEF Succ
<1>3. PhasesExclusive' /\ DirtyBitIsMembership' /\ StickyMarks'
    BY <1>1 DEF IInv, PhasesExclusive, DirtyBitIsMembership, StickyMarks
<1>4. Bookkeeping'
    BY <1>1 DEF IInv, Bookkeeping
<1>5. IntactClosed'
  <2>1. \A x \in Intact : Succ(x)' \subseteq Intact
      BY <1>2, HeldIsIntact DEF Intact, Live
  <2>2. QED
      BY <1>1, <2>1 DEF IntactClosed, TraceClosed
<1>6. RememberedSetComplete'
  <2> SUFFICES ASSUME NEW x \in Mature \ Condemned, NEW d \in Succ(x)' \cap Young
               PROVE  x \in dirty_list' \/ kind[x] \in MinorScannedKinds
      BY <1>1 DEF RememberedSetComplete
  <2>1. x \in Cells
      BY DEF Mature, Live
  <2>2. d \in Succ(x) => x \in dirty_list \/ kind[x] \in MinorScannedKinds
      BY DEF IInv, RememberedSetComplete
  <2>3. d \in Succ(x) \/ (x = c /\ d = v)
      BY <2>1
  <2>4. QED
      BY <2>2, <2>3
<1>7. NoHiddenWhite'
    BY <1>1 DEF IInv, NoHiddenWhite, Black, Live
<1>8. QED
    BY <1>3, <1>4, <1>5, <1>6, <1>7 DEF IInv

LEMMA AllocateKeeps ==
    ASSUME IInv, TypeOK', BarrieredKinds,
           NEW c \in Cells, NEW k \in Kinds, NEW r \in Registers,
           NEW init \in [Slots -> Values], AllocateCell(c, k, r, init)
    PROVE  IInv'
<1> DEFINE shade == BirthShade(k, init)
<1>1. /\ Live' = Live \cup {c} /\ c \notin Live
      /\ Marking' = Marking /\ Sweeping' = Sweeping
      /\ Mature' = Mature /\ Young' = Young \cup {c} /\ c \notin Young
  <2>1. k # "free" /\ TypeOK
      BY KindsAssumption DEF AllKinds, IInv
  <2>2. \A x \in Cells : /\ kind'[x] = IF x = c THEN k ELSE kind[x]
                         /\ gen'[x] = IF x = c THEN "young" ELSE gen[x]
      BY <2>1 DEF AllocateCell, Allocate, TypeOK
  <2>3. QED
      BY <2>1, <2>2
      DEF AllocateCell, Allocate, Live, Marking, Sweeping, Mature, Young
<1>2. /\ \A x \in Cells \ {c} : Succ(x)' = Succ(x)
      /\ Succ(c)' = {d \in Cells : \E s \in Slots : init[s] = d}
      /\ Succ(c)' \subseteq Operands
    BY NullAssumption DEF AllocateCell, Allocate, TypeOK, IInv, Succ
<1>3. Operands \subseteq Intact /\ c \notin Intact
    BY <1>1, HeldIsIntact
<1>4. shade \subseteq Intact /\ (~Marking => shade = {})
    BY <1>3 DEF BirthShade, AllocateCell, Allocate
<1>5. /\ \A d \in Cells : color'[d] = IF d \in shade \cup {c} THEN live_color
                                                            ELSE color[d]
      /\ live_color' = live_color
      /\ worklist' = (worklist \cup SuccOf(shade \ Black)) \ (Black \cup shade)
    BY DEF AllocateCell, BirthColor
<1>6. Black' = Black \cup shade \cup {c}
    BY <1>1, <1>4, <1>5 DEF Black, Live, Intact
<1>7. Condemned' = Condemned /\ Intact' = Intact \cup {c} /\ unswept' = unswept
  <2>1. unswept' = unswept /\ unswept \subseteq Live
      BY DEF AllocateCell, IInv, Bookkeeping, Mature
  <2>2. shade = {} \/ unswept = {}
      BY <1>4 DEF IInv, PhasesExclusive
  <2>3. Condemned' = Condemned
      BY <1>1, <1>5, <2>1, <2>2 DEF Condemned, Live
  <2>4. QED
      BY <1>1, <2>1, <2>3 DEF Intact, Condemned
<1>8. PhasesExclusive'
  <2>1. ~Marking => worklist' = {}
      BY <1>4, <1>5 DEF IInv, PhasesExclusive, SuccOf
  <2>2. QED
      BY <1>1, <1>7, <2>1 DEF IInv, PhasesExclusive
<1>9. DirtyBitIsMembership'
    BY DEF AllocateCell, IInv, DirtyBitIsMembership
<1>10. Bookkeeping'
  <2>1. /\ dirty_list' = dirty_list /\ running' = running
        /\ \A x \in Live : kind'[x] = kind[x]
      BY <1>1 DEF AllocateCell, Allocate, IInv, TypeOK, Live
  <2>2. running # Null => running \in Live
      BY HeldIsIntact DEF RootCells, FrameValues
  <2>3. QED
      BY <1>1, <1>7, <2>1, <2>2 DEF IInv, Bookkeeping
<1>11. StickyMarks'
    BY <1>1, <1>6, <1>7 DEF IInv, StickyMarks
<1>12. IntactClosed'
  <2>1. \A x \in Intact' : Succ(x)' \subseteq Intact'
      BY <1>2, <1>3, <1>7, HeldIsIntact DEF Intact, Live
  <2>2. RegValues' \subseteq RegValues \cup {c}
      BY DEF AllocateCell, Allocate, RegValues, IInv, TypeOK
  <2>3. HandleValues' = HandleValues
      BY DEF AllocateCell, Allocate, HandleValues
  <2>4. FrameValues' \subseteq Intact'
    <3>1. running' = running /\ (running # Null => running \in Intact)
        BY HeldIsIntact DEF AllocateCell, Allocate, RootCells, FrameValues
    <3>2. QED
        BY <1>7, <2>1, <3>1 DEF FrameValues
  <2>5. QED
      BY <1>7, <2>1, <2>2, <2>3, <2>4, HeldIsIntact
      DEF IntactClosed, TraceClosed, RootCells
<1>13. RememberedSetComplete'
  <2> SUFFICES ASSUME NEW x \in Mature \ Condemned, NEW d \in Succ(x)' \cap Young'
               PROVE  x \in dirty_list' \/ kind'[x] \in MinorScannedKinds
      BY <1>1, <1>7 DEF RememberedSetComplete
  <2>1. x \in Intact /\ x # c /\ x \in Cells
      BY <1>1 DEF Mature, Intact, Live
  <2>2. d \in Succ(x) \cap Young
      BY <1>1, <1>2, <1>3, <2>1, HeldIsIntact
  <2>3. kind'[x] = kind[x] /\ dirty_list' = dirty_list
      BY <2>1 DEF AllocateCell, Allocate, IInv, TypeOK
  <2>4. QED
      BY <2>2, <2>3 DEF IInv, RememberedSetComplete
<1>14. NoHiddenWhite'
  <2> SUFFICES ASSUME Marking, NEW x \in Black', NEW d \in Succ(x)'
               PROVE  d \in Black' \cup worklist'
      BY <1>1 DEF NoHiddenWhite
  <2>1. CASE x = c
    <3>1. k \in {"object", "rope"}
        BY DEF IInv, Bookkeeping, BarrieredKinds
    <3>2. k = "rope"
        BY <2>1, <1>2, <3>1, NullAssumption DEF AllocateCell, Allocate, EmptySlots
    <3>3. d \in shade
        BY <2>1, <1>2, <3>2, NullAssumption DEF BirthShade
    <3>4. QED
        BY <1>6, <3>3
  <2>2. CASE x \in Black /\ x # c
      BY <2>2, <1>2, <1>5, <1>6 DEF IInv, NoHiddenWhite, Black, Live
  <2>3. CASE x \in shade \ Black /\ x # c
    <3>1. x \in Cells /\ d \in Succ(x) /\ d \in Cells
        BY <2>3, <1>2, <1>4 DEF Intact, Live, Succ
    <3>2. QED
        BY <2>3, <3>1, <1>5, <1>6 DEF SuccOf
  <2>4. QED
      BY <1>6, <2>1, <2>2, <2>3
<1>15. QED
    BY <1>8, <1>9, <1>10, <1>11, <1>12, <1>13, <1>14 DEF IInv

LEMMA MutatorKeeps == IInv /\ BarrieredKinds /\ Mutator => IInv'
<1> SUFFICES ASSUME IInv, BarrieredKinds, Mutator PROVE IInv'
    OBVIOUS
<1>0. TypeOK' /\ TypeOK
    BY TypeMutator DEF IInv
<1>1. ASSUME NEW c \in Cells, NEW k \in Kinds, NEW r \in Registers,
             NEW init \in [Slots -> Values], AllocateCell(c, k, r, init)
      PROVE  IInv'
    BY <1>0, <1>1, AllocateKeeps
<1>2. ASSUME NEW r \in Registers, NEW c \in Cells, NEW s \in Slots,
             LoadSlot(r, c, s)
      PROVE  IInv'
  <2>1. RegValues' \subseteq RegValues \cup Succ(c) /\ Succ(c) \subseteq Intact
      BY <1>0, <1>2, HeldIsIntact DEF LoadSlot, Load, RegValues, Succ, TypeOK
  <2>2. HandleValues' = HandleValues /\ FrameValues' = FrameValues
      BY <1>2 DEF LoadSlot, Load, HandleValues, FrameValues, Succ
  <2>3. QED
      BY <1>0, <1>2, <2>1, <2>2, RootMoveKeeps, HeldIsIntact
      DEF LoadSlot, Load, RootCells, IInv, Bookkeeping
<1>3. ASSUME NEW r \in Registers, DropRegister(r)
      PROVE  IInv'
  <2>1. RootCells' \subseteq RootCells
      BY <1>0, <1>3, NullAssumption
      DEF DropRegister, ClearRegister, RootCells, RegValues, HandleValues,
          FrameValues, Succ, TypeOK
  <2>2. QED
      BY <1>0, <1>3, <2>1, RootMoveKeeps, HeldIsIntact
      DEF DropRegister, ClearRegister, IInv, Bookkeeping
<1>4. ASSUME NEW h \in Handles, NEW r \in Registers,
             OpenHandle(h, r) \/ CloseHandle(h, r)
      PROVE  IInv'
  <2>1. RootCells' \subseteq RootCells
      BY <1>0, <1>4, NullAssumption
      DEF OpenHandle, PushHandle, CloseHandle, CloseScope, RootCells, RegValues,
          HandleValues, FrameValues, Succ, TypeOK
  <2>2. QED
      BY <1>0, <1>4, <2>1, RootMoveKeeps, HeldIsIntact
      DEF OpenHandle, PushHandle, CloseHandle, CloseScope, IInv, Bookkeeping
<1>5. ASSUME NEW g \in Cells, ResumeGenerator(g)
      PROVE  IInv'
  <2>1. g \in Intact /\ Succ(g) \subseteq Intact
      BY <1>5, HeldIsIntact DEF ResumeGenerator, Resume, RootCells
  <2>2. RootCells' \subseteq RootCells \cup {g} \cup Succ(g)
      BY <1>5 DEF ResumeGenerator, Resume, RootCells, RegValues, HandleValues,
                  FrameValues, Succ
  <2>3. QED
      BY <1>0, <1>5, <2>1, <2>2, RootMoveKeeps, HeldIsIntact
      DEF ResumeGenerator, Resume
<1>6. ASSUME NEW c \in Cells, NEW s \in Slots, NEW v \in Values, WriteSlot(c, s, v)
      PROVE  /\ \A x \in Cells \ {c} : Succ(x)' = Succ(x)
             /\ Succ(c)' \subseteq Succ(c) \cup {v}
             /\ c \in Intact /\ (v # Null => v \in Intact)
             /\ RootCells' \subseteq Intact
             /\ running' # Null => kind[running'] = "generator"
             /\ kind' = kind
  <2>1. /\ \A x \in Cells \ {c} : Succ(x)' = Succ(x)
        /\ Succ(c)' \subseteq Succ(c) \cup {v}
      BY <1>0, <1>6 DEF WriteSlot, Succ, TypeOK
  <2>2. c \in Intact /\ (v # Null => v \in Intact)
      BY <1>6, HeldIsIntact DEF WriteSlot
  <2>3. FrameValues' \subseteq Intact
    <3>1. running' = running /\ (running # Null => running \in Intact)
        BY <1>6, HeldIsIntact DEF WriteSlot, RootCells, FrameValues
    <3>2. running # Null => Succ(running)' \subseteq Intact
        BY <2>1, <2>2, <3>1, HeldIsIntact, NullAssumption DEF Intact, Live, Succ
    <3>3. QED
        BY <3>1, <3>2 DEF FrameValues
  <2>4. RegValues' = RegValues /\ HandleValues' = HandleValues
      BY <1>6 DEF WriteSlot, RegValues, HandleValues
  <2>5. QED
      BY <1>6, <2>1, <2>2, <2>3, <2>4, HeldIsIntact
      DEF WriteSlot, RootCells, IInv, Bookkeeping
<1>7. ASSUME NEW c \in Cells, NEW s \in Slots, NEW v \in Values,
             StoreSlot(c, s, v)
      PROVE  IInv'
  <2>1. WriteSlot(c, s, v) /\ writeBarrier(c, v)
      BY <1>7 DEF StoreSlot
  <2>2. /\ dirty' = dirty_list' /\ dirty_list \subseteq dirty_list'
        /\ dirty_list' \subseteq dirty_list \cup {c}
        /\ c \in Mature /\ v \in Young => c \in dirty_list'
      BY <2>1, NullAssumption
      DEF writeBarrier, Remember, IInv, DirtyBitIsMembership, Mature, Young, Live
  <2>3. /\ worklist \subseteq worklist' /\ (Marking \/ worklist' = worklist)
        /\ Marking /\ c \in Black => Succ(c)' \subseteq Black \cup worklist'
      BY <2>1, <1>6, NullAssumption
      DEF writeBarrier, Shaded, IInv, NoHiddenWhite, Succ
  <2>4. QED
      BY <1>0, <1>6, <2>1, <2>2, <2>3, StoreKeeps DEF writeBarrier
<1>8. ASSUME NEW c \in Cells, NEW s \in Slots, NEW v \in Values,
             StoreTypedSlot(c, s, v)
      PROVE  IInv'
  <2>1. WriteSlot(c, s, v) /\ rememberTypedSlotWrite(c)
      BY <1>8 DEF StoreTypedSlot
  <2>2. /\ dirty' = dirty_list' /\ dirty_list \subseteq dirty_list'
        /\ dirty_list' \subseteq dirty_list \cup {c}
        /\ c \in Mature => c \in dirty_list'
      BY <2>1
      DEF rememberTypedSlotWrite, Remember, IInv, DirtyBitIsMembership, Mature
  <2>3. /\ worklist \subseteq worklist' /\ (Marking \/ worklist' = worklist)
        /\ Marking /\ c \in Black => Succ(c)' \subseteq Black \cup worklist'
      BY <2>1 DEF rememberTypedSlotWrite
  <2>4. QED
      BY <1>0, <1>6, <2>1, <2>2, <2>3, StoreKeeps DEF rememberTypedSlotWrite
<1>9. ASSUME NEW s \in Slots, NEW v \in Values, WriteFrameRegister(s, v)
      PROVE  IInv'
  <2>1. PICK g \in Cells : g = running /\ WriteSlot(g, s, v) /\ UNCHANGED gcVars
      BY <1>0, <1>9 DEF WriteFrameRegister, TypeOK, Values
  <2>2. kind[g] = "generator" /\ g \in Live
      BY <2>1, <1>9 DEF WriteFrameRegister, IInv, Bookkeeping, Live, TypeOK
  <2>3. ~Marking
      BY <1>0, <2>1, <2>2 DEF IInv, Bookkeeping, BarrieredKinds, TypeOK
  <2>4. dirty' = dirty_list'
      BY <2>1 DEF gcVars, IInv, DirtyBitIsMembership
  <2>5. QED
      BY <1>0, <1>6, <2>1, <2>2, <2>3, <2>4, StoreKeeps
      DEF gcVars, MinorScannedKinds
<1>10. CASE YieldGenerator
  <2>0. PICK g \in Cells : g = running
      BY <1>0, <1>10 DEF YieldGenerator, Yield, TypeOK, Values
  <2>1. PICK saved \in Succ(g) \cup {Null} : writeBarrier(g, saved)
      BY <1>10, <2>0 DEF YieldGenerator
  <2>2. /\ g \in Intact
        /\ saved \in Values /\ (saved # Null => saved \in Intact)
      BY <1>10, <2>0, HeldIsIntact
      DEF YieldGenerator, Yield, Values, Succ, RootCells, FrameValues
  <2>3. \A x \in Cells : Succ(x)' = Succ(x)
      BY <1>10 DEF YieldGenerator, Yield, Succ
  <2>4. RootCells' \subseteq Intact /\ running' = Null
      BY <1>10, HeldIsIntact
      DEF YieldGenerator, Yield, RootCells, RegValues, HandleValues, FrameValues
  <2>5. /\ dirty' = dirty_list' /\ dirty_list \subseteq dirty_list'
        /\ dirty_list' \subseteq dirty_list \cup {g}
        /\ g \in Mature /\ saved \in Young => g \in dirty_list'
      BY <2>1, NullAssumption
      DEF writeBarrier, Remember, IInv, DirtyBitIsMembership, Mature, Young, Live
  <2>6. /\ worklist \subseteq worklist' /\ (Marking \/ worklist' = worklist)
        /\ Marking /\ g \in Black => Succ(g)' \subseteq Black \cup worklist'
      BY <2>1, <2>2, <2>3 DEF writeBarrier, Shaded, IInv, NoHiddenWhite
  <2>7. QED
      BY <1>0, <1>10, <2>1, <2>2, <2>3, <2>4, <2>5, <2>6, StoreKeeps
      DEF YieldGenerator, Yield, writeBarrier
<1>11. QED
    BY <1>1, <1>2, <1>3, <1>4, <1>5, <1>7, <1>8, <1>9, <1>10 DEF Mutator
-----------------------------------------------------------------------------
(* The inductive invariant: collector steps.                               *)

LEMMA ReachableWithin ==
    ASSUME NEW T \in SUBSET Cells, RootCells \subseteq T,
           \A c \in T : Succ(c) \subseteq T
    PROVE  Reachable \subseteq T
<1>1. TraceClosed(T, {}, RootCells)
    BY DEF TraceClosed
<1>2. QED
    BY <1>1, TraceLeast DEF Reachable

\* Freeing cells rewrites nothing else the program can see.
LEMMA FreeEffect ==
    ASSUME TypeOK, NEW S \in SUBSET Live, Free(S)
    PROVE  /\ Live' = Live \ S
           /\ \A x \in Cells \ S : kind'[x] = kind[x] /\ Succ(x)' = Succ(x)
           /\ RegValues' = RegValues /\ HandleValues' = HandleValues
           /\ running' = running
BY NullAssumption
DEF Free, Live, Succ, RegValues, HandleValues, TypeOK, EmptySlots

\* What is held stays held when only cells outside a closed set are freed.
LEMMA FreeKeepsRoots ==
    ASSUME TypeOK, NEW S \in SUBSET Live, Free(S), RootCells \cap S = {}
    PROVE  RootCells' = RootCells
<1>1. running # Null => running \in Cells \ S
    BY DEF TypeOK, Values, RootCells, FrameValues
<1>2. QED
    BY <1>1, FreeEffect DEF RootCells, FrameValues

\* The tail of a major cycle, whichever way the mark got there: marked is
\* closed and holds the roots, and the cells a pending sweep had condemned
\* are finished off first.
LEMMA TailKeeps ==
    ASSUME IInv, NEW marked, NEW lc \in {0, 1}, NEW lazy \in BOOLEAN,
           NEW finished, collectFullTail(marked, lc, lazy, finished),
           RootCells \subseteq marked,
           \A c \in marked \cap Live : Succ(c) \subseteq marked,
           finished = Condemned, marked \cap Condemned = {},
           lazy => Black \subseteq marked /\ lc = live_color
    PROVE  /\ IInv'
           /\ Intact' = marked \cap Live
           /\ Free(Live \ Live')
           /\ Live \ Live' \subseteq Live \ Reachable
<1> DEFINE deferred == IF lazy THEN {c \in Mature : kind[c] \in ObjectListKinds}
                               ELSE {}
           freed == finished \cup {c \in Live : c \notin marked \cup deferred}
           survivors == Live \ freed
           kept == marked \cap Live
<1>1. TypeOK /\ TypeOK'
    BY TypeTail DEF IInv
<1>2. Condemned \subseteq Live /\ unswept \subseteq Live
    BY DEF IInv, Bookkeeping, Condemned, Mature
<1>3. kept \subseteq survivors /\ kept \subseteq Intact
    BY DEF Intact
<1>4. Free(freed) /\ freed \subseteq Live /\ freed \cap kept = {}
    BY <1>2, <1>3 DEF collectFullTail
<1>5. /\ Live' = survivors
      /\ \A x \in survivors : kind'[x] = kind[x] /\ Succ(x)' = Succ(x)
      /\ running' = running
    BY <1>1, <1>4, FreeEffect DEF Live
<1>6. RootCells \subseteq kept /\ \A x \in kept : Succ(x) \subseteq kept
    BY <1>3, HeldIsIntact
<1>7. RootCells' = RootCells
    BY <1>1, <1>4, <1>6, FreeKeepsRoots
<1>8. Mature' = survivors /\ Young' = {}
    BY <1>5 DEF collectFullTail, Mature, Young, Live
<1>9. \A x \in survivors : color'[x] = IF x \in marked THEN lc ELSE color[x]
    BY DEF collectFullTail, Live
<1>10. Black' \cap survivors = kept
  <2>1. ASSUME NEW x \in survivors, x \notin marked
        PROVE  color[x] # lc
    <3>1. lazy
        BY <2>1
    <3>2. x \in Live /\ x \notin Black
        BY <2>1, <3>1
    <3>3. QED
        BY <3>1, <3>2 DEF Black
  <2>2. QED
      BY <1>3, <1>5, <1>9, <2>1 DEF Black, collectFullTail
<1>11. unswept' = IF lazy THEN {c \in survivors : kind[c] \in ObjectListKinds} ELSE {}
    BY DEF collectFullTail
<1>12. \A x \in survivors \ marked : lazy /\ x \in unswept'
    BY <1>11
<1>13. Intact' = kept
  <2>1. live_color' = lc
      BY DEF collectFullTail
  <2>2. Condemned' = survivors \ marked
      BY <1>5, <1>9, <1>10, <1>11, <1>12, <2>1 DEF Condemned, Black
  <2>3. QED
      BY <1>3, <1>5, <2>2 DEF Intact
<1>14. PhasesExclusive' /\ DirtyBitIsMembership'
    BY DEF collectFullTail, PhasesExclusive, Marking, Sweeping, IInv,
           DirtyBitIsMembership, DirtyAfterMajor
<1>15. Bookkeeping'
  <2>1. running # Null => kind'[running] = kind[running]
      BY <1>3, <1>5, <1>6 DEF RootCells, FrameValues
  <2>2. ~Marking' /\ dirty_list' = {}
      BY DEF collectFullTail, Marking
  <2>3. QED
      BY <1>5, <1>8, <1>11, <2>1, <2>2 DEF IInv, Bookkeeping
<1>16. StickyMarks'
  <2>1. lazy => Sweeping'
      BY DEF collectFullTail, Sweeping
  <2>2. QED
      BY <1>5, <1>10, <1>12, <2>1 DEF StickyMarks
<1>17. IntactClosed'
    BY <1>3, <1>5, <1>6, <1>7, <1>13 DEF IntactClosed, TraceClosed
<1>18. RememberedSetComplete' /\ NoHiddenWhite'
    BY <1>8 DEF RememberedSetComplete, NoHiddenWhite, collectFullTail, Marking
<1>19. Free(Live \ Live') /\ Live \ Live' \subseteq Live \ Reachable
  <2>1. Reachable \subseteq kept
      BY <1>6, ReachableWithin DEF Live
  <2>2. Live \ Live' = freed
      BY <1>4, <1>5
  <2>3. QED
      BY <1>4, <2>1, <2>2
<1>20. QED
    BY <1>1, <1>13, <1>14, <1>15, <1>16, <1>17, <1>18, <1>19 DEF IInv

\* The termination of a mark in flight.
LEMMA FinishKeeps ==
    ASSUME IInv, Marking, NEW lazy \in BOOLEAN, finishIncrementalMajor(lazy)
    PROVE  /\ IInv'
           /\ Free(Live \ Live')
           /\ Live \ Live' \subseteq Live \ Reachable
<1> DEFINE marked == Trace(Black, worklist \cup RootCells)
<1>1. Condemned = {} /\ live_color \in {0, 1}
    BY DEF IInv, PhasesExclusive, Condemned, TypeOK
<1>2. worklist \cup RootCells \subseteq marked /\ Black \subseteq marked
  <2>1. worklist \cup RootCells \subseteq Cells
      BY HeldIsIntact DEF IInv, TypeOK, Intact, Live
  <2>2. QED
      BY <2>1, TraceHoldsSeeds
<1>3. \A c \in marked \cap Live : Succ(c) \subseteq marked
    BY <1>2, TraceFollows DEF IInv, NoHiddenWhite
<1>4. collectFullTail(marked, live_color, lazy, {})
    BY DEF finishIncrementalMajor
<1> HIDE DEF marked
<1>5. QED
    BY <1>1, <1>2, <1>3, <1>4, TailKeeps

\* An explicit cycle from idle, over a pending sweep or none.
LEMMA CollectKeeps ==
    ASSUME IInv, CollectFromIdle
    PROVE  /\ IInv'
           /\ Live' = Reachable
           /\ Free(Live \ Live')
           /\ Live \ Live' \subseteq Live \ Reachable
<1> DEFINE lc == Flip(live_color)
           spared == {c \in Young : color[c] = lc}
           marked == Trace(spared, RootCells)
<1>1. lc \in {0, 1} /\ lc # live_color
    BY DEF IInv, TypeOK, Flip
<1>2. spared = {}
  <2>1. \A c \in Young : c \in Black /\ c \notin Mature
      BY DEF CollectFromIdle, IInv, StickyMarks, Bookkeeping, Young, Mature
  <2>2. QED
      BY <1>1, <2>1 DEF Black
<1>3. marked = Reachable
    BY <1>2 DEF Reachable
<1>4. RootCells \subseteq Cells
    BY HeldIsIntact DEF Intact, Live
<1>5. RootCells \subseteq marked /\ \A c \in marked : Succ(c) \subseteq marked
    BY <1>2, <1>4, TraceHoldsSeeds, TraceFollows
<1>6. marked \subseteq Intact
  <2>1. Intact \subseteq Cells
      BY DEF Intact, Live
  <2>2. QED
      BY <1>3, <2>1, ReachableWithin, HeldIsIntact
<1>7. collectFullTail(marked, lc, FALSE, Condemned)
    BY DEF CollectFromIdle
<1> HIDE DEF marked, lc
<1>8. /\ IInv' /\ Intact' = marked \cap Live /\ Free(Live \ Live')
      /\ Live \ Live' \subseteq Live \ Reachable
    BY <1>1, <1>5, <1>6, <1>7, TailKeeps DEF Intact
<1>9. Live' = Intact'
    BY <1>7 DEF collectFullTail, Intact, Condemned
<1>10. QED
    BY <1>3, <1>6, <1>8, <1>9, HeldIsIntact

LEMMA SweepKeeps ==
    ASSUME IInv, SweepSlice
    PROVE  /\ IInv'
           /\ \/ UNCHANGED heapVars
              \/ /\ Free(Live \ Live')
                 /\ Live \ Live' \subseteq Live \ Reachable
<1>0. TypeOK /\ TypeOK' /\ ~Marking /\ ~Marking' /\ worklist' = {}
    BY TypeCollector
    DEF SafePoint, IInv, SweepSlice, PhasesExclusive, Marking
<1>1. CASE /\ unswept = {} /\ sweep_phase' = "idle"
           /\ UNCHANGED <<heapVars, unswept, gen, color, dirty>>
  <2>1. /\ Live' = Live /\ Black' = Black /\ Young' = Young /\ Mature' = Mature
        /\ Condemned' = {} /\ Condemned = {} /\ Intact' = Intact
        /\ RootCells' = RootCells /\ \A c \in Cells : Succ(c)' = Succ(c)
      BY <1>1 DEF SweepSlice, heapVars, Live, Black, Young, Mature, Condemned,
                  Intact, RootCells, RegValues, HandleValues, FrameValues, Succ
  <2>2. PhasesExclusive' /\ Bookkeeping' /\ DirtyBitIsMembership' /\ StickyMarks'
      BY <1>0, <1>1, <2>1
      DEF SweepSlice, heapVars, IInv, PhasesExclusive, Bookkeeping,
          DirtyBitIsMembership, StickyMarks, Sweeping
  <2>3. IntactClosed' /\ RememberedSetComplete' /\ NoHiddenWhite'
    <3>1. IntactClosed'
        BY <2>1 DEF IInv, IntactClosed, TraceClosed, Intact, Live
    <3>2. RememberedSetComplete'
        BY <1>1, <2>1
        DEF SweepSlice, heapVars, IInv, RememberedSetComplete, Mature, Live
    <3>3. QED
        BY <1>0, <3>1, <3>2 DEF NoHiddenWhite
  <2>4. QED
      BY <1>0, <1>1, <2>2, <2>3 DEF IInv
<1>2. ASSUME NEW c \in unswept, Free({c} \cap Condemned),
             unswept' = unswept \ {c},
             gen' = [d \in Cells |-> IF d \in {c} \cap Condemned THEN "young"
                                                                 ELSE gen[d]],
             color' = [d \in Cells |-> IF d \in {c} \cap Condemned THEN 0
                                                                   ELSE color[d]],
             dirty' = dirty \ ({c} \cap Condemned),
             sweep_phase' = IF unswept' = {} THEN "idle" ELSE "sweeping"
      PROVE  /\ IInv'
             /\ Free(Live \ Live')
             /\ Live \ Live' \subseteq Live \ Reachable
  <2> DEFINE freed == {c} \cap Condemned
  <2>1. freed \in SUBSET Live /\ freed \cap Intact = {} /\ unswept \subseteq Mature
      BY DEF IInv, Bookkeeping, Mature, Intact
  <2>2. /\ Live' = Live \ freed
        /\ \A x \in Cells \ freed : kind'[x] = kind[x] /\ Succ(x)' = Succ(x)
        /\ running' = running
      BY <1>0, <1>2, <2>1, FreeEffect
  <2>3. RootCells' = RootCells
      BY <1>0, <1>2, <2>1, FreeKeepsRoots, HeldIsIntact
  <2>4. /\ Mature' = Mature \ freed /\ Young' = Young \ freed
        /\ Black' = Black \ freed
      BY <1>2, <2>2 DEF SweepSlice, Mature, Young, Black, Live
  <2>5. Condemned' = Condemned \ freed /\ Intact' = Intact
    <3>1. Condemned' = Condemned \ freed
        BY <1>2, <2>1 DEF SweepSlice, Condemned, Mature, Live
    <3>2. QED
        BY <2>1, <2>2, <3>1 DEF Intact
  <2>6. PhasesExclusive'
      BY <1>0, <1>2 DEF PhasesExclusive, Sweeping
  <2>7. DirtyBitIsMembership' /\ dirty_list' = dirty_list
      BY <1>2, <2>1 DEF SweepSlice, IInv, DirtyBitIsMembership, Bookkeeping
  <2>8. Bookkeeping'
    <3>1. running # Null => running \in Cells \ freed
        BY <2>1, HeldIsIntact DEF RootCells, FrameValues, Intact, Live
    <3>2. unswept' \subseteq Mature'
        BY <1>2, <2>1, <2>4
    <3>3. QED
        BY <1>0, <2>2, <2>5, <2>7, <3>1, <3>2 DEF IInv, Bookkeeping
  <2>9. StickyMarks'
    <3> SUFFICES ASSUME NEW x \in Live', x \notin Black'
                 PROVE  Sweeping' /\ x \in unswept'
        BY DEF StickyMarks
    <3>1. x \in Live /\ x \notin Black /\ x \in unswept /\ x \notin freed
        BY <1>0, <2>2, <2>4 DEF IInv, StickyMarks
    <3>2. x # c
        BY <3>1 DEF Condemned, Black
    <3>3. QED
        BY <1>2, <3>1, <3>2 DEF Sweeping
  <2>10. IntactClosed'
      BY <2>1, <2>2, <2>3, <2>5, HeldIsIntact
      DEF IntactClosed, TraceClosed, Intact, Live
  <2>11. RememberedSetComplete'
    <3> SUFFICES ASSUME NEW x \in Mature' \ Condemned', NEW d \in Succ(x)' \cap Young'
                 PROVE  x \in dirty_list' \/ kind'[x] \in MinorScannedKinds
        BY DEF RememberedSetComplete
    <3>1. x \in Mature \ Condemned /\ x \in Cells \ freed
        BY <2>4, <2>5 DEF Mature, Live
    <3>2. d \in Succ(x) \cap Young
        BY <2>2, <2>4, <3>1
    <3>3. QED
        BY <2>2, <2>7, <3>1, <3>2 DEF IInv, RememberedSetComplete
  <2>12. NoHiddenWhite'
      BY <1>0 DEF NoHiddenWhite
  <2>13. Reachable \subseteq Intact
      BY ReachableWithin, HeldIsIntact DEF Intact, Live
  <2>14. Live \ Live' = freed /\ Free(freed)
      BY <1>2, <2>1, <2>2
  <2> HIDE DEF freed
  <2>15. QED
      BY <1>0, <2>1, <2>6, <2>7, <2>8, <2>9, <2>10, <2>11, <2>12, <2>13, <2>14
      DEF IInv
<1>3. QED
    BY <1>1, <1>2 DEF SweepSlice, PastCursor

LEMMA MarkSliceKeeps == ASSUME IInv, MarkSlice PROVE IInv'
<1>1. PICK c \in worklist : MarkEach({c})
    BY DEF MarkSlice
<1>2. TypeOK /\ TypeOK' /\ c \in Cells /\ Marking /\ Marking' /\ ~Sweeping /\ ~Sweeping'
    BY TypeCollector DEF SafePoint, IInv, MarkSlice, TypeOK, Marking, Sweeping
<1>3. unswept = {} /\ unswept' = {} /\ Condemned = {} /\ Condemned' = {}
    BY <1>2 DEF IInv, MarkSlice, PhasesExclusive, Condemned
<1>4. /\ Live' = Live /\ Young' = Young /\ Mature' = Mature /\ Intact' = Intact
      /\ RootCells' = RootCells /\ \A x \in Cells : Succ(x)' = Succ(x)
    BY <1>3 DEF MarkSlice, heapVars, Live, Young, Mature, Intact, RootCells,
                RegValues, HandleValues, FrameValues, Succ
<1>5. Black' = Black \cup ({c} \cap Live)
    BY <1>1, <1>2, <1>4 DEF MarkSlice, MarkEach, Black, Live
<1>6. PhasesExclusive' /\ DirtyBitIsMembership' /\ StickyMarks'
    BY <1>2, <1>3
    DEF MarkSlice, PhasesExclusive, IInv, DirtyBitIsMembership, StickyMarks
<1>7. Bookkeeping' /\ IntactClosed' /\ RememberedSetComplete'
  <2>1. Bookkeeping'
      BY <1>2, <1>3, <1>4 DEF MarkSlice, heapVars, IInv, Bookkeeping
  <2>2. IntactClosed'
      BY <1>4 DEF IInv, IntactClosed, TraceClosed, Intact, Live
  <2>3. RememberedSetComplete'
      BY <1>3, <1>4
      DEF MarkSlice, heapVars, IInv, RememberedSetComplete, Mature, Live
  <2>4. QED
      BY <2>1, <2>2, <2>3
<1>8. NoHiddenWhite'
  <2> SUFFICES ASSUME NEW x \in Black', NEW d \in Succ(x)'
               PROVE  d \in Black' \cup worklist'
      BY DEF NoHiddenWhite
  <2>1. x \in Intact /\ d \in Succ(x) /\ d \in Live
      BY <1>3, <1>4, HeldIsIntact DEF Black, Intact, Live
  <2>2. worklist' = (worklist \cup SuccOf({c} \ Black)) \ (Black \cup {c})
      BY <1>1 DEF MarkEach
  <2>3. CASE x \in Black
      BY <1>2, <1>5, <2>1, <2>2, <2>3 DEF IInv, NoHiddenWhite
  <2>4. CASE x \notin Black
    <3>1. x = c /\ d \in SuccOf({c} \ Black)
        BY <1>5, <2>1, <2>4 DEF SuccOf, Intact, Live
    <3>2. QED
        BY <1>5, <2>1, <2>2, <3>1
  <2>5. QED
      BY <2>3, <2>4
<1>9. QED
    BY <1>2, <1>6, <1>7, <1>8 DEF IInv

LEMMA StartKeeps == ASSUME IInv, StartMajor PROVE IInv'
<1> DEFINE lc == Flip(live_color)
           unmarked == [c \in Cells |-> IF c \in Mature THEN live_color ELSE color[c]]
<1>1. /\ TypeOK /\ TypeOK' /\ SlicedMajors
      /\ ~Marking /\ Marking' /\ ~Sweeping /\ ~Sweeping'
    BY TypeCollector
    DEF SafePoint, IInv, StartMajor, beginIncrementalMajor, Marking, Sweeping
<1>2. unswept = {} /\ unswept' = {} /\ Condemned = {} /\ Condemned' = {}
    BY <1>1 DEF IInv, StartMajor, beginIncrementalMajor, PhasesExclusive, Condemned
<1>3. lc # live_color /\ live_color' = lc
    BY <1>1 DEF StartMajor, beginIncrementalMajor, TypeOK, Flip
<1>4. /\ Live' = Live /\ Young' = Young /\ Mature' = Mature /\ Intact' = Intact
      /\ RootCells' = RootCells /\ \A x \in Cells : Succ(x)' = Succ(x)
    BY <1>2 DEF StartMajor, beginIncrementalMajor, heapVars, Live, Young, Mature,
                Intact, RootCells, RegValues, HandleValues, FrameValues, Succ
<1>5. \A c \in Live : unmarked[c] = live_color
  <2>1. \A c \in Live : color[c] = live_color
      BY <1>1, <1>2 DEF IInv, StickyMarks, Black
  <2>2. QED
      BY <2>1 DEF Live
<1>6. Black' = RootCells
  <2>1. RootCells \subseteq Live
      BY HeldIsIntact
  <2>2. \A c \in Cells : color'[c] = IF c \in RootCells THEN lc ELSE unmarked[c]
      BY DEF StartMajor, beginIncrementalMajor
  <2>3. QED
      BY <1>3, <1>4, <1>5, <2>1, <2>2 DEF Black, Live
<1>7. worklist' = (worklist \cup SuccOf(RootCells)) \ RootCells
  <2>1. {c \in Live : unmarked[c] = lc} = {}
      BY <1>3, <1>5
  <2>2. QED
      BY <2>1 DEF StartMajor, beginIncrementalMajor
<1>8. PhasesExclusive' /\ DirtyBitIsMembership' /\ StickyMarks'
    BY <1>1, <1>2
    DEF StartMajor, beginIncrementalMajor, PhasesExclusive, IInv,
        DirtyBitIsMembership, StickyMarks
<1>9. Bookkeeping' /\ IntactClosed' /\ RememberedSetComplete'
  <2>1. Bookkeeping'
      BY <1>1, <1>2, <1>4
      DEF StartMajor, beginIncrementalMajor, heapVars, IInv, Bookkeeping
  <2>2. IntactClosed'
      BY <1>4 DEF IInv, IntactClosed, TraceClosed, Intact, Live
  <2>3. RememberedSetComplete'
      BY <1>2, <1>4
      DEF StartMajor, beginIncrementalMajor, heapVars, IInv,
          RememberedSetComplete, Mature, Live
  <2>4. QED
      BY <2>1, <2>2, <2>3
<1>10. NoHiddenWhite'
  <2> SUFFICES ASSUME NEW x \in RootCells, NEW d \in Succ(x)'
               PROVE  d \in RootCells \cup worklist'
      BY <1>6 DEF NoHiddenWhite
  <2>1. x \in Cells /\ d \in Succ(x) /\ d \in Cells
      BY <1>4, HeldIsIntact DEF Intact, Live, Succ
  <2>2. QED
      BY <1>7, <2>1 DEF SuccOf
<1>11. QED
    BY <1>1, <1>8, <1>9, <1>10 DEF IInv

LEMMA YoungKeeps ==
    ASSUME IInv, collectYoung
    PROVE  /\ IInv'
           /\ Free(Live \ Live')
           /\ Live \ Live' \subseteq Live \ Reachable
<1> DEFINE scanned == dirty_list \cup {c \in Mature : kind[c] \in MinorScannedKinds}
           seeds == RootCells \cup SuccOf(scanned)
           marked == Trace(Mature \cap Black, seeds)
           freed == Young \ marked
           kept == Live \ freed
<1>1. TypeOK /\ TypeOK' /\ ~Marking /\ ~Sweeping /\ ~Marking' /\ ~Sweeping'
    BY TypeCollector DEF SafePoint, IInv, collectYoung, Marking, Sweeping
<1>2. unswept = {} /\ unswept' = {} /\ Condemned = {} /\ Condemned' = {}
    BY <1>1 DEF IInv, collectYoung, PhasesExclusive, Condemned
<1>3. Intact = Live /\ Live \subseteq Black /\ Mature \cap Black = Mature
    BY <1>1, <1>2 DEF Intact, IInv, StickyMarks, Mature
<1>4. Live = Mature \cup Young /\ Mature \cap Young = {}
    BY <1>1 DEF Live, Mature, Young, TypeOK
<1>5. seeds \subseteq marked /\ RootCells \subseteq Live
  <2>1. seeds \subseteq Cells
      BY HeldIsIntact DEF Intact, Live, SuccOf
  <2>2. QED
      BY <1>3, <2>1, TraceHoldsSeeds, HeldIsIntact
<1>6. Free(freed) /\ freed \subseteq Live
    BY <1>4 DEF collectYoung
<1>7. /\ Live' = kept
      /\ \A x \in Cells \ freed : kind'[x] = kind[x] /\ Succ(x)' = Succ(x)
      /\ running' = running
    BY <1>1, <1>6, FreeEffect
<1>8. RootCells \subseteq kept /\ RootCells' = RootCells
    BY <1>1, <1>5, <1>6, FreeKeepsRoots
<1>9. \A x \in kept : Succ(x) \subseteq kept
  <2> SUFFICES ASSUME NEW x \in kept, NEW d \in Succ(x), d \in Young
               PROVE  d \in marked
      BY <1>3, <1>4, HeldIsIntact
  <2>1. x \in Cells /\ d \in Cells
      BY DEF Live, Succ
  <2>2. CASE x \in Mature
    <3>1. x \in scanned
        BY <1>2, <2>2 DEF IInv, RememberedSetComplete
    <3>2. QED
        BY <1>5, <2>1, <3>1 DEF SuccOf
  <2>3. CASE x \in marked \ (Mature \cap Black)
      BY <2>3, TraceFollows
  <2>4. QED
      BY <1>3, <1>4, <2>2, <2>3
<1>10. Mature' = kept /\ Young' = {}
    BY <1>6, <1>7 DEF collectYoung, Mature, Young, Live
<1>11. Black' = kept
  <2>1. \A x \in kept : color'[x] = live_color
      BY <1>3 DEF collectYoung, Black, Live
  <2>2. QED
      BY <1>7, <2>1 DEF collectYoung, Black
<1>12. dirty' = {} /\ dirty_list' = {}
    BY DEF collectYoung, IInv, DirtyBitIsMembership
<1>13. PhasesExclusive' /\ DirtyBitIsMembership' /\ StickyMarks'
    BY <1>1, <1>2, <1>7, <1>11, <1>12
    DEF collectYoung, IInv, PhasesExclusive, DirtyBitIsMembership, StickyMarks
<1>14. Bookkeeping'
  <2>1. running # Null => kind'[running] = kind[running]
      BY <1>7, <1>8 DEF RootCells, FrameValues, Live
  <2>2. QED
      BY <1>1, <1>2, <1>7, <1>12, <2>1 DEF IInv, Bookkeeping
<1>15. IntactClosed'
  <2>1. Intact' = kept
      BY <1>2, <1>7 DEF Intact
  <2>2. QED
      BY <1>7, <1>8, <1>9, <2>1 DEF IntactClosed, TraceClosed, Live
<1>16. RememberedSetComplete' /\ NoHiddenWhite'
    BY <1>1, <1>10 DEF RememberedSetComplete, NoHiddenWhite
<1>17. Reachable \subseteq kept
  <2>1. kept \in SUBSET Cells
      BY DEF Live
  <2> HIDE DEF kept
  <2>2. QED
      BY <1>8, <1>9, <2>1, ReachableWithin
<1>18. Live \ Live' = freed
    BY <1>6, <1>7
<1> HIDE DEF freed
<1>19. QED
    BY <1>1, <1>6, <1>13, <1>14, <1>15, <1>16, <1>17, <1>18 DEF IInv

-----------------------------------------------------------------------------
(* The theorems.                                                           *)

LEMMA NextKeeps == IInv /\ BarrieredKinds /\ [Next]_vars => IInv'
<1> SUFFICES ASSUME IInv, BarrieredKinds, [Next]_vars PROVE IInv'
    OBVIOUS
<1>1. CASE Mutator
    BY <1>1, MutatorKeeps
<1>2. CASE SafePoint
  <2>1. FinishSlice => Marking /\ finishIncrementalMajor(TRUE)
      BY DEF FinishSlice
  <2>2. QED
      BY <1>2, <2>1, SweepKeeps, MarkSliceKeeps, FinishKeeps, StartKeeps, YoungKeeps
      DEF SafePoint
<1>3. CASE collectGarbage
    BY <1>3, FinishKeeps, CollectKeeps DEF collectGarbage, FinishMarkInFlight
<1>4. CASE UNCHANGED vars
  <2>1. TypeOK' /\ RootCells' = RootCells
      BY <1>4 DEF vars, heapVars, gcVars, IInv, TypeOK, RootCells, RegValues,
                  HandleValues, FrameValues, Succ
  <2>2. QED
      BY <1>4, <2>1, RootMoveKeeps, HeldIsIntact DEF vars, heapVars, IInv, Bookkeeping
<1>5. QED
    BY <1>1, <1>2, <1>3, <1>4 DEF Next

\* The tri-colour, sticky-mark, remembered-set and dirty-bit invariants hold
\* together in every state: none of them is inductive on its own.
THEOREM Invariance == ASSUME BarrieredKinds PROVE Spec => []IInv
<1>1. IInv /\ [Next]_vars => IInv'
    BY NextKeeps
<1>2. QED
    BY <1>1, InitIInv, PTL DEF Spec

\* The collector never frees a cell the program can reach: sweepList,
\* sweepObjectsMatureBudget and promoteYoungList leave no dangling pointer.
THEOREM MemorySafety == ASSUME BarrieredKinds PROVE Spec => []NoDangling
<1>1. IInv => NoDangling
  <2> SUFFICES ASSUME IInv PROVE Reachable \subseteq Live
      BY DEF NoDangling
  <2>1. Reachable \subseteq Intact
      BY ReachableWithin, HeldIsIntact DEF Intact, Live
  <2>2. QED
      BY <2>1, HeldIsIntact
<1>2. QED
    BY <1>1, Invariance, PTL

\* Mark and worklist never lose a cell to the mutator (writeBarrier,
\* rememberTypedSlotWrite, allocateConsString).
THEOREM TriColour == ASSUME BarrieredKinds PROVE Spec => []NoHiddenWhite
<1>1. IInv => NoHiddenWhite
    BY DEF IInv
<1>2. QED
    BY <1>1, Invariance, PTL

\* What verifyRememberedSet asserts in debug builds holds in every state,
\* with a dirty bit set exactly on the members of the list.
THEOREM RememberedSet ==
    ASSUME BarrieredKinds
    PROVE  Spec => [](RememberedSetComplete /\ DirtyBitIsMembership)
<1>1. IInv => RememberedSetComplete /\ DirtyBitIsMembership
    BY DEF IInv
<1>2. QED
    BY <1>1, Invariance, PTL

\* An explicit collection from idle leaves exactly the reachable cells,
\* whatever sweep was pending (Realm.collectGarbage).
THEOREM PreciseCollect == ASSUME BarrieredKinds PROVE Spec => ExplicitCollectIsPrecise
<1>1. IInv => [CollectFromIdle => Live' = Reachable]_vars
    BY CollectKeeps
<1>2. QED
    BY <1>1, Invariance, PTL DEF ExplicitCollectIsPrecise

LEMMA StepRefines == IInv /\ [Next]_vars => [HeapNext]_heapVars
<1> SUFFICES ASSUME IInv, Next PROVE HeapNext \/ UNCHANGED heapVars
    BY DEF vars
<1>1. CASE Mutator
  <2>1. ASSUME NEW c \in Cells, NEW s \in Slots, NEW v \in Values,
               WriteSlot(c, s, v)
        PROVE  HeapNext
      BY <2>1 DEF HeapNext
  <2>2. ASSUME NEW s \in Slots, NEW v \in Values, WriteFrameRegister(s, v)
        PROVE  HeapNext
      BY <2>1, <2>2 DEF WriteFrameRegister, IInv, TypeOK, Values
  <2>3. ASSUME NEW c \in Cells, NEW k \in Kinds, NEW r \in Registers,
               NEW init \in [Slots -> Values], AllocateCell(c, k, r, init)
        PROVE  HeapNext
      BY <2>3 DEF HeapNext, AllocateCell
  <2>4. ASSUME NEW r \in Registers, NEW c \in Cells, NEW s \in Slots,
               LoadSlot(r, c, s)
        PROVE  HeapNext
      BY <2>4 DEF HeapNext, LoadSlot
  <2>5. ASSUME NEW r \in Registers, DropRegister(r)
        PROVE  HeapNext
      BY <2>5 DEF HeapNext, DropRegister
  <2>6. ASSUME NEW h \in Handles, NEW r \in Registers,
               OpenHandle(h, r) \/ CloseHandle(h, r)
        PROVE  HeapNext
      BY <2>6 DEF HeapNext, OpenHandle, CloseHandle
  <2>7. ASSUME NEW g \in Cells, ResumeGenerator(g)
        PROVE  HeapNext
      BY <2>7 DEF HeapNext, ResumeGenerator
  <2>8. YieldGenerator => HeapNext
      BY DEF HeapNext, YieldGenerator
  <2>9. QED
      BY <1>1, <2>1, <2>2, <2>3, <2>4, <2>5, <2>6, <2>7, <2>8
      DEF Mutator, StoreSlot, StoreTypedSlot
<1>2. ASSUME Free(Live \ Live'), Live \ Live' \subseteq Live \ Reachable
      PROVE  HeapNext
  <2>1. ReclaimGarbage
      BY <1>2 DEF ReclaimGarbage
  <2>2. QED
      BY <2>1 DEF HeapNext
<1>3. CASE SafePoint
  <2>1. FinishSlice => Marking /\ finishIncrementalMajor(TRUE)
      BY DEF FinishSlice
  <2>2. MarkSlice \/ StartMajor => UNCHANGED heapVars
      BY DEF MarkSlice, StartMajor, beginIncrementalMajor
  <2>3. QED
      BY <1>2, <1>3, <2>1, <2>2, SweepKeeps, FinishKeeps, YoungKeeps DEF SafePoint
<1>4. CASE collectGarbage
    BY <1>2, <1>4, FinishKeeps, CollectKeeps DEF collectGarbage, FinishMarkInFlight
<1>5. QED
    BY <1>1, <1>3, <1>4 DEF Next

\* Metla implements JsHeap: the program sees its own steps and the
\* reclamation of cells it cannot reach, and nothing else.
THEOREM Refinement == ASSUME BarrieredKinds PROVE Spec => KeepsHeapPromise
<1>1. Init => HeapInit
    BY DEF Init
<1>2. IInv /\ [Next]_vars => [HeapNext]_heapVars
    BY StepRefines
<1>3. QED
    BY <1>1, <1>2, Invariance, PTL DEF Spec, KeepsHeapPromise, HeapSpec
=============================================================================
