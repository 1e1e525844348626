-------------------------- MODULE WeakReferencesProofs -------------------------
(***************************************************************************)
(* Proofs about WeakReferences for every set of cells, every menu, and any *)
(* number of cycles: what a weak slot still points at, when one is         *)
(* emptied, and that a whole cycle leaves nothing behind.                  *)
(***************************************************************************)
EXTENDS WeakReferences, TLAPS

Pointers == Cells \cup {Null}

\* What each kind of cell has in its two slots.
Fits(k, e) ==
    /\ k \in {"free", "symbol", "string"} => e = Blank
    /\ k = "object" => e.ref = Null
    /\ k = "ref" => e.value = Null
    /\ k = "map" /\ e.ref = Null => e.value = Null

\* A cell held weakly is no string; if it is freed, no string is born at its
\* address while a slot still points there.
Shaped ==
    \A c \in Cells :
        /\ Fits(brand[c], entry[c])
        /\ entry[c].ref # Null => brand[entry[c].ref] # "string"

WeakTypeOK ==
    /\ brand \in [Cells -> AllBrands \cup {"free"}]
    /\ entry \in [Cells -> [ref : Pointers, value : Pointers]]
    /\ held \subseteq Live /\ kept_alive \subseteq Live
    /\ jobs \subseteq Cells
    /\ young \subseteq Cells /\ dirty_list \subseteq Cells
    /\ marking \in BOOLEAN
    /\ black \subseteq Cells /\ worklist \subseteq Cells
    /\ seen \subseteq Cells /\ unbarriered \subseteq Cells

\* Only a WeakRef's target and a registry's cells are stored raw.
RawHolders == \A c \in unbarriered : brand[c] \in {"ref", "registry"}

\* The slots every store of which has a barrier point at live cells.
BarrieredSlotsLive ==
    \A c \in Cells :
        /\ brand[c] = "object" => entry[c].value \in Live \cup {Null}
        /\ brand[c] = "map" => entry[c].ref \in Live \cup {Null}

\* An old cell that points at a young one is in the remembered set.
OldIsRemembered ==
    \A c \in Live \ (young \cup unbarriered) :
        AllPointers[c] \cap young # {} => c \in dirty_list

\* What the mark in flight has passed it has followed: the strong slots of a
\* marked cell, and every slot of a marked holder that is not on the lists.
PassedIsFollowed ==
    marking =>
        \A c \in black \ unbarriered :
            /\ Strong[c] \subseteq black \cup worklist
            /\ c \in Holders \ seen => AllPointers[c] \subseteq black \cup worklist

WeakInv ==
    /\ WeakTypeOK
    /\ Shaped
    /\ RawHolders
    /\ BarrieredSlotsLive
    /\ OldIsRemembered
    /\ PassedIsFollowed

-----------------------------------------------------------------------------
(* What the traces of a cycle mark.                                        *)

\* A trace marks what it is given (drainMarkWorklist).
LEMMA ReachHolds ==
    ASSUME NEW E, NEW M \in SUBSET Cells, NEW S \in SUBSET Cells
    PROVE  M \cup S \subseteq Reach(E, M, S) /\ Reach(E, M, S) \subseteq Cells
BY DEF Reach, Traced

\* It marks the children of every cell it marks (markValue).
LEMMA ReachFollows ==
    ASSUME NEW E, NEW M, NEW S, NEW c \in Reach(E, M, S) \ M,
           NEW d \in E[c], d \in Cells
    PROVE  d \in Reach(E, M, S)
<1>1. ASSUME NEW T \in SUBSET Cells, Traced(E, M, S, T)
      PROVE  d \in T
  <2>1. c \in T \ M
      BY <1>1 DEF Reach
  <2>2. QED
      BY <1>1, <2>1 DEF Traced, From
<1>2. QED
    BY <1>1 DEF Reach

\* It marks nothing outside a closed set that holds what it is given.
LEMMA ReachLeast ==
    ASSUME NEW E, NEW M, NEW S, NEW T \in SUBSET Cells, Traced(E, M, S, T)
    PROVE  Reach(E, M, S) \subseteq T
BY DEF Reach

\* The fixpoint unmarks nothing (weakMapEphemeronFixpoint).
LEMMA FixpointHolds ==
    ASSUME NEW M \in SUBSET Cells, NEW L
    PROVE  /\ M \subseteq weakMapEphemeronFixpoint(M, L)
           /\ weakMapEphemeronFixpoint(M, L) \subseteq Cells
BY DEF weakMapEphemeronFixpoint, Settled

\* It ends only when each listed map with a marked key has its value marked.
LEMMA FixpointFollows ==
    ASSUME NEW M, NEW L,
           NEW m \in L \cup (weakMapEphemeronFixpoint(M, L) \ M),
           brand[m] = "map", entry[m].ref \in weakMapEphemeronFixpoint(M, L),
           entry[m].value \in Live \ Strings
    PROVE  entry[m].value \in weakMapEphemeronFixpoint(M, L)
<1>1. ASSUME NEW T \in SUBSET Cells, Settled(M, L, T)
      PROVE  entry[m].value \in T
  <2>1. m \in L \cup (T \ M) /\ entry[m].ref \in T
      BY <1>1 DEF weakMapEphemeronFixpoint
  <2>2. entry[m].value \in Values(L \cup (T \ M), T)
      BY <2>1 DEF Values
  <2>3. QED
      BY <1>1, <2>2 DEF Settled
<1>2. entry[m].value \in Cells
    BY DEF Live
<1>3. QED
    BY <1>1, <1>2 DEF weakMapEphemeronFixpoint

\* It marks nothing outside a settled set that holds what it is given.
LEMMA FixpointLeast ==
    ASSUME NEW M, NEW L, NEW T \in SUBSET Cells, Settled(M, L, T)
    PROVE  weakMapEphemeronFixpoint(M, L) \subseteq T
BY DEF weakMapEphemeronFixpoint

-----------------------------------------------------------------------------
(* The end of a major cycle.                                               *)

\* What a mark that has passed P and queued Q still owes: as in PassedIsFollowed.
Followed(P, Q, L) ==
    \A c \in P \ unbarriered :
        /\ Strong[c] \subseteq P \cup Q
        /\ c \in Holders \ L => AllPointers[c] \subseteq P \cup Q

\* What the finished one owes: the strong slots of a marked cell, every slot of
\* a marked holder it has not listed, and the value of a map whose map and key
\* were marked before the last drain.
Ended(end) ==
    /\ Roots \subseteq end.marked /\ end.marked \subseteq Cells
    /\ \A c \in end.marked \ unbarriered :
         /\ Strong[c] \subseteq end.marked
         /\ c \in Holders \ end.listed => AllPointers[c] \subseteq end.marked
         /\ /\ brand[c] = "map" /\ entry[c].ref \in end.marked
            /\ {c, entry[c].ref} \cap end.late = {}
            /\ entry[c].value \in Live \ Strings
            => entry[c].value \in end.marked

\* Drain, fixpoint and drain leave nothing unpaid (collectFullTail).
LEMMA TerminationEnds ==
    ASSUME WeakTypeOK, NEW P \in SUBSET Cells, NEW Q \in SUBSET Cells,
           NEW L \in SUBSET Cells, Followed(P, Q, L)
    PROVE  Ended(Termination(P, Q, L))
<1> DEFINE drained == Reach(Strong, P, Q \cup Roots)
           visited == L \cup (Holders \cap (drained \ P))
           valued == weakMapEphemeronFixpoint(drained, visited)
           queue == From(Strong, valued \ drained)
           marked == Reach(Strong, valued, queue)
           end == Termination(P, Q, L)
<1>1. /\ end.marked = marked
      /\ end.listed = visited \cup (Holders \cap (marked \ drained))
      /\ end.late = marked \ valued
    BY DEF Termination
<1>2. \A c \in Cells : Strong[c] \subseteq Cells /\ Strong[c] \subseteq AllPointers[c]
    BY DEF Strong, Live, AllPointers
<1>3. Roots \subseteq Cells
    BY DEF Roots, WeakTypeOK, Live
<1>4. P \cup Q \cup Roots \subseteq drained /\ drained \subseteq Cells
    BY <1>3, ReachHolds
<1>5. \A c \in drained \ P : Strong[c] \subseteq drained
    BY <1>2, <1>4, ReachFollows
<1> HIDE DEF drained
<1>6. drained \subseteq valued /\ valued \subseteq Cells
    BY <1>4, FixpointHolds
<1>7. \A m \in visited \cup (valued \ drained) :
         /\ brand[m] = "map" /\ entry[m].ref \in valued
         /\ entry[m].value \in Live \ Strings
         => entry[m].value \in valued
    BY FixpointFollows
<1> HIDE DEF valued
<1>8. /\ queue \subseteq Cells
      /\ \A c \in valued \ drained : Strong[c] \subseteq queue
    BY <1>2, <1>6 DEF From
<1> HIDE DEF queue
<1>9. valued \subseteq marked /\ queue \subseteq marked /\ marked \subseteq Cells
    BY <1>6, <1>8, ReachHolds
<1>10. \A c \in marked \ valued : Strong[c] \subseteq marked
    BY <1>2, <1>9, ReachFollows
<1> HIDE DEF marked, end
<1>11. ASSUME NEW c \in marked \ unbarriered
       PROVE  Strong[c] \subseteq marked
  <2>1. CASE c \in P
      BY <1>4, <1>6, <1>9, <1>11, <2>1 DEF Followed
  <2>2. CASE c \in drained \ P
      BY <1>5, <1>6, <1>9, <2>2
  <2>3. CASE c \in valued \ drained
      BY <1>8, <1>9, <2>3
  <2>4. CASE c \in marked \ valued
      BY <1>10, <2>4
  <2>5. QED
      BY <1>6, <1>11, <2>1, <2>2, <2>3, <2>4
<1>12. ASSUME NEW c \in marked \ unbarriered, c \in Holders \ visited, c \in drained
       PROVE  AllPointers[c] \subseteq drained
    BY <1>4, <1>12 DEF Followed
<1>13. ASSUME NEW c \in marked \ unbarriered,
              brand[c] = "map", entry[c].ref \in marked,
              {c, entry[c].ref} \cap (marked \ valued) = {},
              entry[c].value \in Live \ Strings
       PROVE  entry[c].value \in marked
  <2>1. c \in valued /\ entry[c].ref \in valued /\ c \in Cells
      BY <1>9, <1>13
  <2>2. c \in Holders
      BY <1>13, <2>1 DEF Holders, Live
  <2>3. CASE c \in visited \cup (valued \ drained)
      BY <1>7, <1>9, <1>13, <2>1, <2>3
  <2>4. CASE c \in drained \ visited
    <3>1. entry[c].value \in AllPointers[c]
        BY <1>13, <2>1 DEF AllPointers
    <3>2. QED
        BY <1>6, <1>9, <1>12, <2>2, <2>4, <3>1
  <2>5. QED
      BY <2>1, <2>3, <2>4
<1>14. QED
  <2>1. Roots \subseteq marked
      BY <1>4, <1>6, <1>9
  <2>2. ASSUME NEW c \in marked \ unbarriered, c \in Holders \ end.listed
        PROVE  AllPointers[c] \subseteq marked
      BY <1>1, <1>6, <1>9, <1>12, <2>2
  <2>3. QED
      BY <1>1, <1>9, <1>11, <1>13, <2>1, <2>2 DEF Ended, end

LEMMA EndingEnds ==
    ASSUME WeakTypeOK, PassedIsFollowed
    PROVE  Ended(Ending)
<1>1. CASE marking
  <2>1. Followed(black, worklist, seen)
      BY <1>1 DEF PassedIsFollowed, Followed
  <2>2. QED
      BY <1>1, <2>1, TerminationEnds DEF Ending, WeakTypeOK
<1>2. CASE ~marking
  <2>1. Followed({}, {}, {})
      BY DEF Followed
  <2>2. QED
      BY <1>2, <2>1, TerminationEnds DEF Ending
<1>3. QED
    BY <1>1, <1>2
-----------------------------------------------------------------------------
(* The invariant and the program's steps.                                  *)

LEMMA WeakInvInit == WeakInit => WeakInv
<1> SUFFICES ASSUME WeakInit
             PROVE  WeakInv
    OBVIOUS
<1>1. Live = {} /\ Blank \in [ref : Pointers, value : Pointers] /\ Blank.ref = Null
    BY DEF WeakInit, Live, Blank, Entry, Pointers
<1>2. WeakTypeOK
    BY <1>1 DEF WeakInit, WeakTypeOK
<1>3. Shaped
    BY <1>1 DEF WeakInit, Shaped, Fits
<1>4. RawHolders /\ BarrieredSlotsLive /\ OldIsRemembered /\ PassedIsFollowed
    BY <1>1 DEF WeakInit, RawHolders, BarrieredSlotsLive, OldIsRemembered,
                PassedIsFollowed
<1>5. QED
    BY <1>2, <1>3, <1>4 DEF WeakInv

\* What the program can name moves no slot (weakRefDeref, weakMapGet,
\* drainMicrotasks).
LEMMA NamesStep ==
    ASSUME WeakInv, held' \subseteq Live, kept_alive' \subseteq Live,
           jobs' \subseteq Cells,
           UNCHANGED <<brand, entry, young, dirty_list, cycleVars, unbarriered>>
    PROVE  WeakInv'
<1>1. Live' = Live /\ Holders' = Holders
    BY DEF Live, Holders
<1>2. AllPointers' = AllPointers /\ Strong' = Strong
    BY <1>1 DEF AllPointers, Strong
<1>3. WeakTypeOK' /\ Shaped' /\ RawHolders'
    BY <1>1 DEF WeakInv, WeakTypeOK, Shaped, RawHolders, cycleVars
<1>4. BarrieredSlotsLive' /\ OldIsRemembered' /\ PassedIsFollowed'
    BY <1>1, <1>2
    DEF WeakInv, BarrieredSlotsLive, OldIsRemembered, PassedIsFollowed, cycleVars
<1>5. QED
    BY <1>3, <1>4 DEF WeakInv

\* A new cell is young, marked when a mark is in flight, and pointed at by
\* nothing: no slot still holds its address (allocateObject).
LEMMA BornStep ==
    ASSUME WeakInv, NEW c \in Cells, NEW k \in AllBrands, Born(c, k),
           NEW e \in [ref : Pointers, value : Pointers], Fits(k, e),
           entry' = [entry EXCEPT ![c] = e],
           e.ref # Null => e.ref \in Live /\ brand[e.ref] # "string",
           e = Blank \/ k = "ref", k = "map" => e = Blank,
           kept_alive' \subseteq Live,
           unbarriered' = unbarriered
             \/ (k = "ref" /\ unbarriered' = unbarriered \cup {c}),
           e # Blank /\ marking => c \in unbarriered'
    PROVE  WeakInv'
<1> USE NullIsNoCell
<1>1. /\ brand' = [brand EXCEPT ![c] = k] /\ brand[c] = "free"
      /\ k # "free" /\ c \notin Stale
    BY DEF Born, AllBrands
<1>2. Live' = Live \cup {c} /\ c \notin Live
    BY <1>1 DEF Live, WeakInv, WeakTypeOK
<1>3. ASSUME NEW d \in Live
      PROVE  entry[d].ref # c /\ entry[d].value # c
  <2>1. Fits(brand[d], entry[d]) /\ d \in Cells /\ brand[d] \in AllBrands
      BY <1>3 DEF WeakInv, WeakTypeOK, Shaped, Live
  <2>2. CASE d \in Holders
      BY <1>1, <1>2, <2>2 DEF Stale
  <2>3. CASE brand[d] = "object"
      BY <1>2, <2>1, <2>3 DEF Fits, WeakInv, BarrieredSlotsLive
  <2>4. CASE brand[d] \in {"symbol", "string"}
      BY <2>1, <2>4 DEF Fits, Blank, Entry
  <2>5. QED
      BY <1>3, <2>1, <2>2, <2>3, <2>4 DEF Holders, AllBrands
<1>4. /\ \A d \in Cells \ {c} : entry'[d] = entry[d] /\ brand'[d] = brand[d]
      /\ entry'[c] = e /\ brand'[c] = k
    BY <1>1 DEF WeakInv, WeakTypeOK
<1>5. /\ Live \subseteq Cells
      /\ \A d \in Live : entry'[d] = entry[d] /\ brand'[d] = brand[d]
    BY <1>2, <1>4 DEF Live
<1>6. ASSUME NEW d \in Live
      PROVE  AllPointers'[d] = AllPointers[d] /\ c \notin AllPointers[d]
  <2>1. {entry'[d].ref, entry'[d].value} \cap Live'
          = {entry[d].ref, entry[d].value} \cap Live
      BY <1>2, <1>3, <1>5
  <2>2. QED
      BY <1>3, <1>5, <2>1 DEF AllPointers
<1>7. ASSUME NEW d \in Live
      PROVE  Strong'[d] = Strong[d]
  <2>1. {entry'[d].value} \cap Live' = {entry[d].value} \cap Live
      BY <1>2, <1>3, <1>5
  <2>2. QED
      BY <1>5, <2>1 DEF Strong
<1>8. /\ e = Blank => AllPointers'[c] = {} /\ Strong'[c] = {}
      /\ k = "ref" => Strong'[c] = {}
  <2>1. Null \notin Live'
      BY <1>2, <1>5
  <2>2. QED
      BY <1>4, <2>1 DEF AllPointers, Strong, Blank, Entry
<1>9. WeakTypeOK'
    BY <1>1, <1>2 DEF WeakInv, WeakTypeOK, Born
<1>10. Shaped'
  <2>1. ASSUME NEW d \in Cells
        PROVE  /\ Fits(brand'[d], entry'[d])
               /\ entry'[d].ref # Null => brand'[entry'[d].ref] # "string"
    <3>1. CASE d = c
      <4>1. e.ref # Null => e.ref \in Cells \ {c}
          BY <1>2, <1>5
      <4>2. QED
          BY <1>4, <3>1, <4>1
    <3>2. CASE d # c
      <4>1. /\ Fits(brand[d], entry[d])
            /\ entry[d].ref # Null => brand[entry[d].ref] # "string"
            /\ entry[d].ref \in Pointers
          BY DEF WeakInv, WeakTypeOK, Shaped
      <4>2. entry[d].ref # c
        <5>1. CASE d \in Live
            BY <1>3, <5>1
        <5>2. CASE d \notin Live
            BY <4>1, <5>2 DEF Live, Fits, Blank, Entry
        <5>3. QED
            BY <5>1, <5>2
      <4>3. QED
          BY <1>4, <3>2, <4>1, <4>2 DEF Pointers
    <3>3. QED
        BY <3>1, <3>2
  <2>2. QED
      BY <2>1 DEF Shaped
<1>11. RawHolders'
    BY <1>1, <1>4 DEF WeakInv, WeakTypeOK, RawHolders
<1>12. BarrieredSlotsLive'
    BY <1>1, <1>2, <1>4 DEF WeakInv, BarrieredSlotsLive, Blank, Entry
<1>13. OldIsRemembered'
    BY <1>2, <1>6 DEF WeakInv, OldIsRemembered, Born
<1>14. PassedIsFollowed'
  <2> SUFFICES ASSUME marking, NEW d \in black' \ unbarriered'
               PROVE  /\ Strong'[d] \subseteq black \cup worklist
                      /\ d \in Holders' \ seen
                           => AllPointers'[d] \subseteq black \cup worklist
      BY DEF PassedIsFollowed, Born
  <2>1. CASE d = c
      BY <1>8, <2>1
  <2>2. CASE d \in Live
    <3>1. d \in black \ unbarriered /\ (d \in Holders' => d \in Holders)
        BY <1>2, <1>5, <2>2 DEF Born, Holders
    <3>2. QED
        BY <1>6, <1>7, <2>2, <3>1 DEF WeakInv, PassedIsFollowed
  <2>3. CASE d \notin Live \cup {c}
    <3>1. d \in Cells /\ brand'[d] = "free"
        BY <1>4, <2>3 DEF Born, WeakInv, WeakTypeOK, Live
    <3>2. QED
        BY <3>1 DEF Strong, Holders
  <2>4. QED
      BY <2>1, <2>2, <2>3
<1>15. QED
    BY <1>9, <1>10, <1>11, <1>12, <1>13, <1>14 DEF WeakInv
\* A store of live cells into a holder, with the barrier or, raw, into a
\* registry (writeBarrier, noteInternalSlotWrite, frRegister).
LEMMA StoreStep ==
    ASSUME WeakInv, NEW h \in Live,
           NEW e \in [ref : Live \cup {Null}, value : Live \cup {Null}],
           Fits(brand[h], e), e.ref # Null => brand[e.ref] # "string",
           entry' = [entry EXCEPT ![h] = e],
           UNCHANGED <<brand, held, kept_alive, jobs, young, marking, black, seen>>,
           \/ noteInternalSlotWrite(h) /\ UNCHANGED unbarriered
           \/ /\ UNCHANGED <<dirty_list, worklist>>
              /\ \/ e = Blank /\ UNCHANGED unbarriered
                 \/ /\ brand[h] = "registry"
                    /\ unbarriered' = IF h \in black \/ h \notin young
                                        THEN unbarriered \cup {h}
                                        ELSE unbarriered
    PROVE  WeakInv'
<1> USE NullIsNoCell
<1>1. Live' = Live /\ Live \subseteq Cells /\ Holders' = Holders
    BY DEF Live, Holders
<1>2. /\ \A d \in Cells \ {h} : entry'[d] = entry[d]
      /\ entry'[h] = e
      /\ e \in [ref : Pointers, value : Pointers]
    BY <1>1 DEF WeakInv, WeakTypeOK, Pointers
<1>3. \A d \in Cells \ {h} : AllPointers'[d] = AllPointers[d] /\ Strong'[d] = Strong[d]
    BY <1>1, <1>2 DEF AllPointers, Strong
<1>4. /\ Strong'[h] \subseteq AllPointers'[h] /\ AllPointers'[h] \subseteq Cells
      /\ e = Blank => AllPointers'[h] = {}
    BY <1>1, <1>2 DEF AllPointers, Strong, Blank, Entry
<1>5. unbarriered \subseteq unbarriered' /\ unbarriered' \subseteq unbarriered \cup {h}
    BY DEF noteInternalSlotWrite
<1>6. WeakTypeOK'
  <2>1. worklist' \subseteq Cells /\ dirty_list' \subseteq Cells
      BY <1>1, <1>4 DEF noteInternalSlotWrite, WeakInv, WeakTypeOK
  <2>2. entry' \in [Cells -> [ref : Pointers, value : Pointers]]
      BY <1>2 DEF WeakInv, WeakTypeOK
  <2>3. QED
      BY <1>1, <1>5, <2>1, <2>2 DEF WeakInv, WeakTypeOK
<1>7. Shaped'
    BY <1>2 DEF WeakInv, Shaped
<1>8. RawHolders'
    BY DEF WeakInv, RawHolders, noteInternalSlotWrite
<1>9. BarrieredSlotsLive'
    BY <1>1, <1>2 DEF WeakInv, BarrieredSlotsLive
<1>10. OldIsRemembered'
  <2> SUFFICES ASSUME NEW d \in Live \ (young \cup unbarriered'),
                      AllPointers'[d] \cap young # {}
               PROVE  d \in dirty_list'
      BY <1>1 DEF OldIsRemembered
  <2>1. dirty_list \subseteq dirty_list'
      BY DEF noteInternalSlotWrite
  <2>2. CASE d # h
      BY <1>1, <1>3, <1>5, <2>1, <2>2 DEF WeakInv, OldIsRemembered
  <2>3. CASE d = h
      BY <1>4, <2>3 DEF noteInternalSlotWrite
  <2>4. QED
      BY <2>2, <2>3
<1>11. PassedIsFollowed'
  <2> SUFFICES ASSUME marking, NEW d \in black \ unbarriered'
               PROVE  /\ Strong'[d] \subseteq black \cup worklist'
                      /\ d \in Holders \ seen
                           => AllPointers'[d] \subseteq black \cup worklist'
      BY <1>1 DEF PassedIsFollowed
  <2>1. worklist \subseteq worklist'
      BY DEF noteInternalSlotWrite
  <2>2. CASE d # h
    <3>1. d \in Cells \ {h}
        BY <2>2 DEF WeakInv, WeakTypeOK
    <3>2. QED
        BY <1>3, <1>5, <2>1, <3>1 DEF WeakInv, PassedIsFollowed
  <2>3. CASE d = h
    <3>1. AllPointers'[h] \subseteq black \cup worklist'
        BY <1>4, <2>3 DEF noteInternalSlotWrite
    <3>2. QED
        BY <1>4, <2>3, <3>1
  <2>4. QED
      BY <2>2, <2>3
<1>12. QED
    BY <1>6, <1>7, <1>8, <1>9, <1>10, <1>11 DEF WeakInv
-----------------------------------------------------------------------------
(* The invariant and the collector's steps.                                *)

LEMMA RootsAreCells == WeakTypeOK => Roots \subseteq Cells
BY DEF Roots, WeakTypeOK, Live

LEMMA StrongArePointers ==
    \A c \in Cells : Strong[c] \subseteq AllPointers[c] /\ AllPointers[c] \subseteq Live
BY DEF Strong, AllPointers

\* A mark starts with the roots followed (beginIncrementalMajor).
LEMMA BeginStep ==
    ASSUME WeakInv, beginIncrementalMajor
    PROVE  WeakInv'
<1>1. Live' = Live /\ Holders' = Holders /\ Live \subseteq Cells /\ Roots \subseteq Cells
    BY RootsAreCells DEF beginIncrementalMajor, programVars, Live, Holders, WeakInv
<1>2. AllPointers' = AllPointers /\ Strong' = Strong
    BY <1>1 DEF beginIncrementalMajor, programVars, AllPointers, Strong
<1>3. WeakTypeOK'
    BY <1>1, StrongArePointers
    DEF WeakInv, WeakTypeOK, beginIncrementalMajor, programVars, From
<1>4. Shaped' /\ RawHolders' /\ BarrieredSlotsLive' /\ OldIsRemembered'
    BY <1>1, <1>2 DEF WeakInv, Shaped, RawHolders, BarrieredSlotsLive,
                      OldIsRemembered, beginIncrementalMajor, programVars
<1>5. PassedIsFollowed'
    BY <1>1, <1>2 DEF PassedIsFollowed, beginIncrementalMajor, From
<1>6. QED
    BY <1>3, <1>4, <1>5 DEF WeakInv

\* A slice follows the cell it marks (drainMarkWorklistBudget).
LEMMA SliceStep ==
    ASSUME WeakInv, MarkSlice
    PROVE  WeakInv'
<1> PICK c \in worklist : /\ black' = black \cup {c}
                          /\ worklist' = (worklist \cup Strong[c]) \ black'
                          /\ seen' = seen \cup ({c} \cap Holders)
    BY DEF MarkSlice
<1>1. Live' = Live /\ Holders' = Holders /\ Live \subseteq Cells /\ c \in Cells
    BY DEF MarkSlice, programVars, Live, Holders, WeakInv, WeakTypeOK
<1>2. AllPointers' = AllPointers /\ Strong' = Strong
    BY <1>1 DEF MarkSlice, programVars, AllPointers, Strong
<1>3. WeakTypeOK'
    BY <1>1, StrongArePointers DEF WeakInv, WeakTypeOK, MarkSlice, programVars
<1>4. Shaped' /\ RawHolders' /\ BarrieredSlotsLive' /\ OldIsRemembered'
    BY <1>1, <1>2 DEF WeakInv, Shaped, RawHolders, BarrieredSlotsLive,
                      OldIsRemembered, MarkSlice, programVars
<1>5. PassedIsFollowed'
    BY <1>1, <1>2 DEF WeakInv, PassedIsFollowed, MarkSlice
<1>6. QED
    BY <1>3, <1>4, <1>5 DEF WeakInv

\* A sweep frees what no barriered slot of a survivor points at, and what is
\* left is old (collectFullTail, collectYoung).
LEMMA SweepStep ==
    ASSUME WeakInv, NEW F \in SUBSET Cells, NEW C, Sweep(F, C),
           F \cap (held \cup kept_alive) = {}, jobs' \subseteq Cells,
           \/ UNCHANGED cycleVars
           \/ marking' = FALSE /\ black' = {} /\ worklist' = {} /\ seen' = {},
           ~marking',
           \A c \in Live \ (F \cup C) :
               /\ brand[c] = "object" => entry[c].value \notin F
               /\ brand[c] = "map" => entry[c].ref \notin F
    PROVE  WeakInv'
<1> USE NullIsNoCell
<1>1. \A c \in Cells : /\ brand'[c] = IF c \in F THEN "free" ELSE brand[c]
                       /\ entry'[c] = IF c \in F \cup C THEN Blank ELSE entry[c]
    BY DEF Sweep
<1>2. Live' = Live \ F
    BY <1>1 DEF Live
<1>3. /\ Blank \in [ref : Pointers, value : Pointers]
      /\ Blank.ref = Null /\ Blank.value = Null
    BY DEF Blank, Entry, Pointers
<1>4. /\ brand' \in [Cells -> AllBrands \cup {"free"}]
      /\ entry' \in [Cells -> [ref : Pointers, value : Pointers]]
    BY <1>3 DEF Sweep, WeakInv, WeakTypeOK
<1>5. WeakTypeOK'
    BY <1>2, <1>4 DEF Sweep, WeakInv, WeakTypeOK, cycleVars
<1>6. Shaped'
  <2>1. ASSUME NEW c \in Cells
        PROVE  /\ Fits(brand'[c], entry'[c])
               /\ entry'[c].ref # Null => brand'[entry'[c].ref] # "string"
    <3>1. CASE c \in F \cup C
        BY <1>1, <1>3, <3>1 DEF Fits
    <3>2. CASE c \notin F \cup C
      <4>1. /\ Fits(brand[c], entry[c])
            /\ entry[c].ref # Null => brand[entry[c].ref] # "string"
            /\ entry[c].ref \in Pointers
          BY DEF WeakInv, WeakTypeOK, Shaped
      <4>2. QED
          BY <1>1, <3>2, <4>1 DEF Pointers
    <3>3. QED
        BY <3>1, <3>2
  <2>2. QED
      BY <2>1 DEF Shaped
<1>7. RawHolders' /\ OldIsRemembered' /\ PassedIsFollowed'
    BY DEF Sweep, RawHolders, OldIsRemembered, PassedIsFollowed
<1>8. BarrieredSlotsLive'
  <2>1. ASSUME NEW c \in Cells
        PROVE  /\ brand'[c] = "object" => entry'[c].value \in Live' \cup {Null}
               /\ brand'[c] = "map" => entry'[c].ref \in Live' \cup {Null}
    <3>1. CASE c \in F \cup C
        BY <1>1, <1>3, <3>1
    <3>2. CASE c \notin F \cup C
        BY <1>1, <1>2, <3>2 DEF WeakInv, BarrieredSlotsLive, Live
    <3>3. QED
        BY <3>1, <3>2
  <2>2. QED
      BY <2>1 DEF BarrieredSlotsLive
<1>9. QED
    BY <1>5, <1>6, <1>7, <1>8 DEF WeakInv

\* What a minor cycle frees no surviving cell points at, but for raw holders.
LEMMA YoungKeeps ==
    ASSUME WeakInv,
           NEW F, F = young \ Reach(AllPointers, Live \ young,
                                    Roots \cup From(AllPointers, dirty_list))
    PROVE  /\ F \in SUBSET Cells /\ F \cap Roots = {}
           /\ \A c \in Live \ (F \cup unbarriered) : AllPointers[c] \cap F = {}
<1> DEFINE queue == From(AllPointers, dirty_list)
           marked == Reach(AllPointers, Live \ young, Roots \cup queue)
<1>1. Live \subseteq Cells /\ Roots \subseteq Cells
    BY RootsAreCells DEF WeakInv, Live
<1>2. /\ queue \subseteq Cells
      /\ \A c \in dirty_list : AllPointers[c] \subseteq queue
    BY <1>1, StrongArePointers DEF From, WeakInv, WeakTypeOK
<1> HIDE DEF queue
<1>3. Roots \cup queue \subseteq marked /\ Live \ young \subseteq marked
    BY <1>1, <1>2, ReachHolds
<1>4. \A c \in (marked \cap Live) \ (Live \ young) : AllPointers[c] \subseteq marked
    BY <1>1, StrongArePointers, ReachFollows
<1>5. F = young \ marked
    BY DEF queue
<1> HIDE DEF marked
<1>6. ASSUME NEW c \in Live \ (F \cup unbarriered)
      PROVE  AllPointers[c] \cap F = {}
  <2>1. CASE c \in young
      BY <1>4, <1>5, <1>6, <2>1
  <2>2. CASE c \notin young
      BY <1>2, <1>3, <1>5, <1>6, <2>2 DEF WeakInv, OldIsRemembered
  <2>3. QED
      BY <2>1, <2>2
<1>7. QED
    BY <1>3, <1>5, <1>6 DEF WeakInv, WeakTypeOK
\* What a major cycle frees no surviving slot points at, but for those stored
\* raw, those of a holder it empties, and a map's value.
LEMMA FullKeeps ==
    ASSUME WeakInv, NEW ghosts \in SUBSET Stale,
           NEW c \in (Live \cap Ending.marked) \ unbarriered,
           c \notin Dead(Ending.listed, Ending.marked \cup ghosts)
    PROVE  /\ Strong[c] \subseteq Ending.marked
           /\ c \in Holders /\ entry[c].ref \in Live => entry[c].ref \in Ending.marked
<1>1. Ended(Ending)
    BY EndingEnds DEF WeakInv
<1>2. Strong[c] \subseteq Ending.marked
    BY <1>1 DEF Ended
<1>3. ASSUME c \in Holders, entry[c].ref \in Live
      PROVE  entry[c].ref \in Ending.marked
  <2>1. CASE c \in Ending.listed
    <3>1. entry[c].ref \in Ending.marked \cup ghosts \cup {Null}
        BY <2>1 DEF Dead
    <3>2. entry[c].ref \notin ghosts /\ entry[c].ref # Null
        BY <1>3, NullIsNoCell DEF Stale, Live
    <3>3. QED
        BY <3>1, <3>2
  <2>2. CASE c \notin Ending.listed
    <3>1. AllPointers[c] \subseteq Ending.marked
        BY <1>1, <1>3, <2>2 DEF Ended
    <3>2. entry[c].ref \in AllPointers[c]
        BY <1>3 DEF AllPointers, Live
    <3>3. QED
        BY <3>1, <3>2
  <2>3. QED
      BY <2>1, <2>2
<1>4. QED
    BY <1>2, <1>3

LEMMA FullStep ==
    ASSUME WeakInv, collectFullTail
    PROVE  WeakInv'
<1> PICK ghosts \in SUBSET Stale :
      LET cleared == Dead(Ending.listed, Ending.marked \cup ghosts)
          values == {entry[h].value : h \in
                       {d \in cleared : brand[d] = "registry"}} \cap Live
      IN  /\ \E queued \in SUBSET values : jobs' = jobs \cup queued
          /\ Sweep(Live \ Ending.marked, cleared)
          /\ marking' = FALSE
          /\ black' = {} /\ worklist' = {} /\ seen' = {}
    BY DEF collectFullTail
<1> DEFINE cleared == Dead(Ending.listed, Ending.marked \cup ghosts)
           F == Live \ Ending.marked
<1>1. Sweep(F, cleared) /\ F \in SUBSET Cells
    BY DEF Live
<1>2. jobs' \subseteq Cells
    BY DEF WeakInv, WeakTypeOK, Live
<1>3. F \cap (held \cup kept_alive) = {}
    BY EndingEnds DEF WeakInv, Ended, Roots
<1>4. ASSUME NEW c \in Live \ (F \cup cleared)
      PROVE  /\ brand[c] = "object" => entry[c].value \notin F
             /\ brand[c] = "map" => entry[c].ref \notin F
  <2>1. CASE brand[c] \in {"object", "map"}
    <3>1. c \in (Live \cap Ending.marked) \ unbarriered
        BY <1>4, <2>1 DEF WeakInv, RawHolders
    <3>2. /\ Strong[c] \subseteq Ending.marked
          /\ c \in Holders /\ entry[c].ref \in Live => entry[c].ref \in Ending.marked
        BY <1>4, <3>1, FullKeeps
    <3>3. brand[c] = "object" /\ entry[c].value \in Live => entry[c].value \in Strong[c]
        BY <3>1 DEF Strong, Live
    <3>4. brand[c] = "map" => c \in Holders
        BY <3>1 DEF Holders
    <3>5. QED
        BY <3>2, <3>3, <3>4
  <2>2. QED
      BY <2>1
<1> HIDE DEF cleared, F
<1>5. QED
    BY <1>1, <1>2, <1>3, <1>4, SweepStep

LEMMA YoungStep ==
    ASSUME WeakInv, collectYoung
    PROVE  WeakInv'
<1> DEFINE F == young \ Reach(AllPointers, Live \ young,
                              Roots \cup From(AllPointers, dirty_list))
<1>1. Sweep(F, {}) /\ ~marking /\ UNCHANGED <<jobs, cycleVars>>
    BY DEF collectYoung
<1>2. /\ F \in SUBSET Cells /\ F \cap Roots = {}
      /\ \A c \in Live \ (F \cup unbarriered) : AllPointers[c] \cap F = {}
    BY YoungKeeps
<1> HIDE DEF F
<1>3. F \cap (held \cup kept_alive) = {}
    BY <1>2 DEF Roots
<1>4. ASSUME NEW c \in Live \ (F \cup {})
      PROVE  /\ brand[c] = "object" => entry[c].value \notin F
             /\ brand[c] = "map" => entry[c].ref \notin F
  <2>1. CASE brand[c] \in {"object", "map"}
    <3>1. AllPointers[c] \cap F = {}
        BY <1>2, <1>4, <2>1 DEF WeakInv, RawHolders
    <3>2. /\ brand[c] = "object" => entry[c].value \in Live \cup {Null}
          /\ brand[c] = "map" => entry[c].ref \in Live \cup {Null}
        BY <1>4 DEF WeakInv, BarrieredSlotsLive, Live
    <3>3. QED
        BY <1>2, <3>1, <3>2, NullIsNoCell DEF AllPointers, Live
  <2>2. QED
      BY <2>1
<1>5. ~marking' /\ UNCHANGED cycleVars /\ jobs' \subseteq Cells
    BY <1>1 DEF cycleVars, WeakInv, WeakTypeOK
<1>6. QED
    BY <1>1, <1>2, <1>3, <1>4, <1>5, SweepStep

-----------------------------------------------------------------------------
LEMMA WeakStep == WeakInv /\ [WeakNext]_weakVars => WeakInv'
<1> SUFFICES ASSUME WeakInv, [WeakNext]_weakVars
             PROVE  WeakInv'
    OBVIOUS
<1> USE NullIsNoCell
<1>1. Live \subseteq Cells /\ held \subseteq Live /\ kept_alive \subseteq Live
    BY DEF WeakInv, WeakTypeOK, Live
<1>2. ASSUME NEW c \in Cells, NEW k \in AllBrands, NewCell(c, k)
      PROVE  WeakInv'
  <2>1. /\ Blank \in [ref : Pointers, value : Pointers] /\ Fits(k, Blank)
        /\ Blank.ref = Null
      BY DEF Blank, Entry, Pointers, Fits
  <2>2. /\ Born(c, k) /\ entry' = [entry EXCEPT ![c] = Blank]
        /\ kept_alive' \subseteq Live /\ unbarriered' = unbarriered
      BY <1>1, <1>2 DEF NewCell
  <2>3. QED
      BY <2>1, <2>2, BornStep
<1>3. ASSUME NEW c \in Cells, NEW t \in Cells, weakRefConstructor(c, t)
      PROVE  WeakInv'
  <2> DEFINE e == Entry(t, Null)
  <2>1. /\ e \in [ref : Pointers, value : Pointers] /\ Fits("ref", e)
        /\ t \in Live /\ brand[t] # "string" /\ e.ref = t
      BY <1>1, <1>3 DEF weakRefConstructor, CanBeHeldWeakly, Entry, Pointers, Fits
  <2>2. /\ Born(c, "ref") /\ entry' = [entry EXCEPT ![c] = e]
        /\ kept_alive' \subseteq Live
        /\ unbarriered' = unbarriered \/ unbarriered' = unbarriered \cup {c}
        /\ marking => c \in unbarriered'
      BY <1>1, <1>3, <2>1 DEF weakRefConstructor
  <2> HIDE DEF e
  <2>3. QED
      BY <2>1, <2>2, BornStep DEF AllBrands
<1>4. ASSUME NEW c \in Cells, weakRefDeref(c) \/ ReadValue(c) \/ Forget(c)
      PROVE  WeakInv'
  <2>1. /\ held' \subseteq Live /\ kept_alive' \subseteq Live /\ jobs' \subseteq Cells
        /\ UNCHANGED <<brand, entry, young, dirty_list, cycleVars, unbarriered>>
      BY <1>1, <1>4
      DEF weakRefDeref, ReadValue, Forget, Obtain, WeakInv, WeakTypeOK
  <2>2. QED
      BY <2>1, NamesStep
<1>5. CASE clearKeptObjects
  <2>1. /\ held' \subseteq Live /\ kept_alive' \subseteq Live /\ jobs' \subseteq Cells
        /\ UNCHANGED <<brand, entry, young, dirty_list, cycleVars, unbarriered>>
      BY <1>1, <1>5 DEF clearKeptObjects, WeakInv, WeakTypeOK
  <2>2. QED
      BY <2>1, NamesStep
<1>6. ASSUME NEW c \in Cells, NEW v \in Cells, StoreField(c, v)
      PROVE  WeakInv'
  <2> DEFINE e == Entry(Null, v)
  <2>1. /\ e \in [ref : Live \cup {Null}, value : Live \cup {Null}]
        /\ e.ref = Null /\ Fits(brand[c], e)
      BY <1>1, <1>6 DEF StoreField, Entry, Fits
  <2>2. /\ c \in Live /\ entry' = [entry EXCEPT ![c] = e]
        /\ UNCHANGED <<brand, held, kept_alive, jobs, young, marking, black, seen>>
        /\ noteInternalSlotWrite(c) /\ UNCHANGED unbarriered
      BY <1>1, <1>6 DEF StoreField
  <2> HIDE DEF e
  <2>3. QED
      BY <2>1, <2>2, StoreStep
<1>7. ASSUME NEW m \in Cells, NEW k \in Cells, NEW v \in Cells, weakMapSet(m, k, v)
      PROVE  WeakInv'
  <2> DEFINE e == Entry(k, v)
  <2>1. /\ e \in [ref : Live \cup {Null}, value : Live \cup {Null}]
        /\ e.ref = k /\ brand[k] # "string" /\ Fits(brand[m], e)
      BY <1>1, <1>7 DEF weakMapSet, CanBeHeldWeakly, Entry, Fits
  <2>2. /\ m \in Live /\ entry' = [entry EXCEPT ![m] = e]
        /\ UNCHANGED <<brand, held, kept_alive, jobs, young, marking, black, seen>>
        /\ noteInternalSlotWrite(m) /\ UNCHANGED unbarriered
      BY <1>1, <1>7 DEF weakMapSet
  <2> HIDE DEF e
  <2>3. QED
      BY <2>1, <2>2, StoreStep
<1>8. ASSUME NEW f \in Cells, NEW t \in Cells, NEW v \in Cells, frRegister(f, t, v)
      PROVE  WeakInv'
  <2> DEFINE e == Entry(t, v)
  <2>1. /\ e \in [ref : Live \cup {Null}, value : Live \cup {Null}]
        /\ e.ref = t /\ brand[t] # "string" /\ Fits(brand[f], e)
      BY <1>1, <1>8 DEF frRegister, CanBeHeldWeakly, Entry, Fits
  <2>2. /\ f \in Live /\ entry' = [entry EXCEPT ![f] = e] /\ brand[f] = "registry"
        /\ UNCHANGED <<brand, held, kept_alive, jobs, young, marking, black, seen>>
        /\ UNCHANGED <<dirty_list, worklist>>
        /\ unbarriered' = IF f \in black \/ f \notin young
                            THEN unbarriered \cup {f}
                            ELSE unbarriered
      BY <1>1, <1>8 DEF frRegister, cycleVars
  <2> HIDE DEF e
  <2>3. QED
      BY <2>1, <2>2, StoreStep
<1>9. ASSUME NEW h \in Cells, NEW k \in Cells, RemoveEntry(h, k)
      PROVE  WeakInv'
  <2>1. /\ Blank \in [ref : Live \cup {Null}, value : Live \cup {Null}]
        /\ Blank.ref = Null /\ Fits(brand[h], Blank)
      BY DEF Blank, Entry, Fits
  <2>2. /\ h \in Live /\ entry' = [entry EXCEPT ![h] = Blank]
        /\ UNCHANGED <<brand, held, kept_alive, jobs, young, marking, black, seen>>
        /\ UNCHANGED <<dirty_list, worklist>> /\ UNCHANGED unbarriered
      BY <1>1, <1>9 DEF RemoveEntry, cycleVars
  <2>3. QED
      BY <2>1, <2>2, StoreStep
<1>10. CASE Program
    BY <1>2, <1>3, <1>4, <1>5, <1>6, <1>7, <1>8, <1>9, <1>10 DEF Program
<1>11. CASE Collector
    BY <1>11, BeginStep, SliceStep, FullStep, YoungStep DEF Collector
<1>12. CASE UNCHANGED weakVars
    BY <1>1, <1>12, NamesStep DEF weakVars, programVars, WeakInv, WeakTypeOK
<1>13. QED
    BY <1>10, <1>11, <1>12 DEF WeakNext

\* The slots every store of which has a barrier never dangle, the remembered
\* set is complete, and the mark in flight leaves nothing behind it.
THEOREM WeakInvariance == WeakSpec => []WeakInv
<1>1. QED
    BY WeakInvInit, WeakStep, PTL DEF WeakSpec
-----------------------------------------------------------------------------
(* What a cycle frees.                                                     *)

LEMMA SweepFrees ==
    ASSUME NEW F, NEW C, Sweep(F, C)
    PROVE  /\ Live' = Live \ F
           /\ \A c \in Live \ F :
                entry'[c] = IF c \in C THEN Blank ELSE entry[c]
BY DEF Sweep, Live

\* Only a cycle frees a cell.
LEMMA OnlyCyclesFree ==
    ASSUME WeakInv, WeakNext, ~collectYoung, ~collectFullTail
    PROVE  Live \subseteq Live'
<1>1. ASSUME NEW c \in Cells, NEW k \in AllBrands, Born(c, k)
      PROVE  Live \subseteq Live'
    BY <1>1 DEF Born, Live, WeakInv, WeakTypeOK, AllBrands
<1>2. CASE UNCHANGED brand
    BY <1>2 DEF Live
<1>3. CASE Program
    BY <1>1, <1>2, <1>3
    DEF Program, NewCell, weakRefConstructor, weakRefDeref, ReadValue, Forget,
        Obtain, StoreField, weakMapSet, frRegister, RemoveEntry,
        clearKeptObjects, AllBrands
<1>4. CASE Collector
    BY <1>2, <1>4
    DEF Collector, beginIncrementalMajor, MarkSlice, programVars
<1>5. QED
    BY <1>3, <1>4 DEF WeakNext

\* A minor cycle frees under a raw holder only.
LEMMA YoungLoses ==
    ASSUME WeakInv, collectYoung, NEW v \in Live \ Live', NEW h \in Live \cap Live',
           v \in AllPointers[h]
    PROVE  h \in unbarriered
<1> DEFINE F == young \ Reach(AllPointers, Live \ young,
                              Roots \cup From(AllPointers, dirty_list))
<1>1. Sweep(F, {})
    BY DEF collectYoung
<1>2. \A c \in Live \ (F \cup unbarriered) : AllPointers[c] \cap F = {}
    BY YoungKeeps
<1> HIDE DEF F
<1>3. Live' = Live \ F
    BY <1>1, SweepFrees
<1>4. QED
    BY <1>2, <1>3

\* A major one frees under a raw holder, a string that a map has for its value,
\* or a value whose map or key the last drain marked.
LEMMA FullLoses ==
    ASSUME WeakInv, collectFullTail, NEW v \in Live \ Live',
           NEW h \in Live \cap Live', Loses(h, v), h \notin unbarriered
    PROVE  /\ brand[h] = "map" /\ v = entry[h].value
           /\ v \in Strings \/ {h, entry[h].ref} \cap Ending.late # {}
<1> USE NullIsNoCell
<1> PICK ghosts \in SUBSET Stale :
      Sweep(Live \ Ending.marked, Dead(Ending.listed, Ending.marked \cup ghosts))
    BY DEF collectFullTail
<1> DEFINE cleared == Dead(Ending.listed, Ending.marked \cup ghosts)
           F == Live \ Ending.marked
<1>1. /\ v \notin Ending.marked /\ h \in Live \cap Ending.marked
      /\ h \in Cells /\ v \in Cells /\ v # Null
      /\ entry'[h] = IF h \in cleared THEN Blank ELSE entry[h]
  <2>1. Sweep(F, cleared)
      OBVIOUS
  <2>2. /\ Live' = Live \ F
        /\ \A c \in Live \ F : entry'[c] = IF c \in cleared THEN Blank ELSE entry[c]
      BY <2>1, SweepFrees
  <2>3. QED
      BY <2>2 DEF Live
<1>2. Fits(brand[h], entry[h]) /\ brand[h] \in AllBrands
    BY <1>1 DEF WeakInv, WeakTypeOK, Shaped, Live
<1>3. v \in {entry[h].ref, entry[h].value} /\ v \in Live
    BY <1>1 DEF Loses, AllPointers
<1>4. v \notin Strong[h]
  <2>1. Strong[h] \subseteq Ending.marked
      BY <1>1, EndingEnds DEF WeakInv, Ended
  <2>2. QED
      BY <1>1, <2>1
<1>5. ~(brand[h] \in {"object", "registry"} /\ v = entry[h].value)
    BY <1>1, <1>3, <1>4 DEF Strong
<1>6. h \notin cleared
    BY <1>1, <1>3, <1>5 DEF Loses, Blank, Entry
<1>7. /\ h \in Holders
      /\ v = entry[h].ref \/ (brand[h] = "map" /\ v = entry[h].value)
    BY <1>1, <1>2, <1>3, <1>5 DEF Fits, Blank, Entry, AllBrands, Holders
<1>8. entry[h].ref \in Live => entry[h].ref \in Ending.marked
    BY <1>1, <1>6, <1>7, FullKeeps
<1>9. brand[h] = "map" /\ v = entry[h].value
    BY <1>1, <1>3, <1>7, <1>8
<1>10. entry[h].ref \in Ending.marked
  <2>1. entry[h].ref \in Live \cup {Null}
      BY <1>1, <1>9 DEF WeakInv, BarrieredSlotsLive
  <2>2. entry[h].ref # Null
      BY <1>1, <1>2, <1>9 DEF Fits
  <2>3. QED
      BY <1>8, <2>1, <2>2
<1>11. QED
    BY <1>1, <1>3, <1>9, <1>10, EndingEnds DEF WeakInv, Ended

\* What a surviving holder points at is not freed, but for the slots Excused
\* names, at every step of every behaviour.
THEOREM SlotsStayValid == WeakSpec => WeakSlotsStayValid
<1>1. ASSUME WeakInv, WeakNext, NEW v \in Live \ Live', NEW h \in Live \cap Live',
             Loses(h, v)
      PROVE  Excused(h, v)
  <2>1. CASE collectYoung
      BY <1>1, <2>1, YoungLoses DEF Loses, Excused
  <2>2. CASE collectFullTail /\ ~collectYoung
      BY <1>1, <2>2, FullLoses DEF Excused
  <2>3. QED
      BY <1>1, <2>1, <2>2, OnlyCyclesFree
<1>2. WeakInv /\ [WeakNext]_weakVars
        => [\A v \in Live \ Live', h \in Live \cap Live' :
              Loses(h, v) => Excused(h, v)]_weakVars
    BY <1>1
<1>3. QED
    BY <1>2, WeakInvariance, PTL DEF WeakSpec, WeakSlotsStayValid
-----------------------------------------------------------------------------
(* What a cycle clears, and what it leaves.                                *)

\* What a major cycle has marked, with the strings, which count as marked, is
\* closed under what the language can reach: but for the raw holders and what
\* the last drain marked.
LEMMA MarkedIsClosed ==
    ASSUME WeakInv,
           NEW T, T = (Ending.marked \cup Strings) \cap Live,
           NEW U, U = unbarriered \cup Ending.late
    PROVE  (Roots \cup Gives(T \ U)) \cap Live \subseteq T
<1>1. Ended(Ending)
    BY EndingEnds DEF WeakInv
<1>2. Roots \cap Live \subseteq T
    BY <1>1 DEF Ended
<1>3. ASSUME NEW d \in T \ U, entry[d].value \in Live,
             \/ brand[d] \in {"object", "registry"}
             \/ brand[d] = "map" /\ entry[d].ref \in T \ U
      PROVE  entry[d].value \in T
  <2>1. d \in Live /\ d \in Cells /\ d \in Ending.marked \ unbarriered
      BY <1>3 DEF Strings, Live
  <2>2. CASE brand[d] \in {"object", "registry"}
    <3>1. entry[d].value \in Strong[d]
        BY <1>3, <2>1, <2>2 DEF Strong
    <3>2. Strong[d] \subseteq Ending.marked
        BY <1>1, <2>1 DEF Ended
    <3>3. QED
        BY <1>3, <3>1, <3>2
  <2>3. CASE brand[d] = "map" /\ entry[d].ref \in T \ U
    <3>1. entry[d].ref # Null
        BY <2>3, NullIsNoCell DEF Live
    <3>2. brand[entry[d].ref] # "string"
        BY <2>1, <3>1 DEF WeakInv, Shaped
    <3>3. entry[d].ref \in Ending.marked /\ {d, entry[d].ref} \cap Ending.late = {}
        BY <1>3, <2>3, <3>2 DEF Strings
    <3>4. CASE entry[d].value \in Strings
        BY <1>3, <3>4
    <3>5. CASE entry[d].value \notin Strings
        BY <1>1, <1>3, <2>1, <2>3, <3>3, <3>5 DEF Ended
    <3>6. QED
        BY <3>4, <3>5
  <2>4. QED
      BY <1>3, <2>2, <2>3
<1>4. Gives(T \ U) \subseteq T
    BY <1>3 DEF Gives
<1>5. QED
    BY <1>2, <1>4

\* A major cycle empties no slot whose target can still be reached.
LEMMA FullClears ==
    ASSUME WeakInv, collectFullTail, NEW h \in Cells,
           entry[h].ref # Null, entry'[h].ref = Null, h \in Live'
    PROVE  entry[h].ref \notin Reachable(unbarriered \cup Ending.late)
<1> PICK ghosts \in SUBSET Stale :
      Sweep(Live \ Ending.marked, Dead(Ending.listed, Ending.marked \cup ghosts))
    BY DEF collectFullTail
<1> DEFINE cleared == Dead(Ending.listed, Ending.marked \cup ghosts)
           F == Live \ Ending.marked
           T == (Ending.marked \cup Strings) \cap Live
           U == unbarriered \cup Ending.late
<1>1. h \in cleared
  <2>1. Sweep(F, cleared)
      OBVIOUS
  <2>2. /\ Live' = Live \ F
        /\ \A c \in Live \ F : entry'[c] = IF c \in cleared THEN Blank ELSE entry[c]
      BY <2>1, SweepFrees
  <2>3. QED
      BY <2>2
<1>2. entry[h].ref \notin Ending.marked /\ brand[entry[h].ref] # "string"
    BY <1>1 DEF Dead, WeakInv, Shaped
<1>3. entry[h].ref \notin T /\ T \in SUBSET Live
    BY <1>2 DEF Strings
<1>4. (Roots \cup Gives(T \ U)) \cap Live \subseteq T
    BY MarkedIsClosed
<1> HIDE DEF T, U
<1>5. entry[h].ref \notin Reachable(U)
    BY <1>3, <1>4 DEF Reachable, Roots
<1>6. QED
    BY <1>5 DEF U

\* A WeakRef, or an entry of a weak collection, whose target can still be
\* reached is emptied by the program alone.
THEOREM ClearedWhenDead == WeakSpec => ClearedOnlyWhenDead
<1>1. ASSUME WeakInv, WeakNext, NEW h \in Cells,
             entry[h].ref # Null, entry'[h].ref = Null, h \in Live',
             entry[h].ref \in Reachable(unbarriered \cup Ending.late)
      PROVE  RemoveEntry(h, entry[h].ref)
  <2>1. /\ entry \in [Cells -> [ref : Pointers, value : Pointers]]
        /\ Fits(brand[h], entry[h])
      BY <1>1 DEF WeakInv, WeakTypeOK, Shaped
  <2>2. ASSUME NEW c \in Cells, NEW e,
               entry' = [entry EXCEPT ![c] = e], e.ref # Null
        PROVE  FALSE
      BY <1>1, <2>1, <2>2
  <2>3. ASSUME NEW c \in Cells, brand[c] \in {"free", "object"}, NEW e,
               entry' = [entry EXCEPT ![c] = e]
        PROVE  FALSE
    <3>1. entry[c].ref = Null
        BY <1>1, <2>3 DEF WeakInv, Shaped, Fits, Blank, Entry
    <3>2. QED
        BY <1>1, <2>1, <2>3, <3>1
  <2>4. CASE UNCHANGED entry
      BY <1>1, <2>4
  <2>5. ASSUME NEW c \in Cells, NEW k \in AllBrands, NewCell(c, k)
        PROVE  FALSE
      BY <2>3, <2>5 DEF NewCell, Born
  <2>6. ASSUME NEW c \in Cells, NEW t \in Cells, weakRefConstructor(c, t)
        PROVE  FALSE
      BY <2>3, <2>6 DEF weakRefConstructor, Born
  <2>7. ASSUME NEW c \in Cells, NEW v \in Cells, StoreField(c, v)
        PROVE  FALSE
      BY <2>3, <2>7 DEF StoreField
  <2>8. ASSUME NEW m \in Cells, NEW k \in Cells, NEW v \in Cells,
               weakMapSet(m, k, v) \/ frRegister(m, k, v)
        PROVE  FALSE
    <3>1. Entry(k, v).ref # Null
        BY NullIsNoCell DEF Entry
    <3>2. entry' = [entry EXCEPT ![m] = Entry(k, v)]
        BY <2>8 DEF weakMapSet, frRegister
    <3>3. QED
        BY <2>2, <3>1, <3>2
  <2>9. ASSUME NEW c \in Cells, NEW k \in Cells, RemoveEntry(c, k)
        PROVE  RemoveEntry(h, entry[h].ref)
    <3>1. entry[c].ref = k /\ entry' = [entry EXCEPT ![c] = Blank]
        BY <2>9 DEF RemoveEntry
    <3>2. h = c
        BY <1>1, <2>1, <3>1
    <3>3. QED
        BY <2>9, <3>1, <3>2
  <2>10. CASE Program
      BY <2>4, <2>5, <2>6, <2>7, <2>8, <2>9, <2>10
      DEF Program, weakRefDeref, ReadValue, Forget, Obtain, clearKeptObjects
  <2>11. CASE collectFullTail
      BY <1>1, <2>11, FullClears
  <2>12. CASE collectYoung
    <3>1. PICK F : Sweep(F, {})
        BY <2>12 DEF collectYoung
    <3>2. QED
        BY <1>1, <3>1 DEF Sweep, Live
  <2>13. QED
      BY <1>1, <2>4, <2>10, <2>11, <2>12
      DEF WeakNext, Collector, beginIncrementalMajor, MarkSlice, programVars
<1>2. WeakInv /\ [WeakNext]_weakVars
        => [\A h \in Cells :
              /\ entry[h].ref # Null /\ entry'[h].ref = Null /\ h \in Live'
              /\ entry[h].ref \in Reachable(unbarriered \cup Ending.late)
              => RemoveEntry(h, entry[h].ref)]_weakVars
    BY <1>1
<1>3. QED
    BY <1>2, WeakInvariance, PTL DEF WeakSpec, ClearedOnlyWhenDead
\* A whole cycle marks nothing outside a closed set that holds the roots: each
\* of its three passes is the least that will do.
LEMMA EndingIsLeast ==
    ASSUME WeakInv, ~marking,
           NEW T \in SUBSET Live, (Roots \cup Gives(T)) \cap Live \subseteq T
    PROVE  Ending.marked \cap Live \subseteq T
<1> DEFINE W == T \cup (Cells \ Live)
           drained == Reach(Strong, {}, {} \cup Roots)
           visited == {} \cup (Holders \cap (drained \ {}))
           valued == weakMapEphemeronFixpoint(drained, visited)
           queue == From(Strong, valued \ drained)
           marked == Reach(Strong, valued, queue)
<1>1. Ending.marked = marked
    BY DEF Ending, Termination
<1>2. W \in SUBSET Cells /\ W \cap Live = T /\ Roots \subseteq W
    BY RootsAreCells DEF Live, WeakInv
<1>3. ASSUME NEW c \in W
      PROVE  Strong[c] \subseteq W
  <2>1. CASE c \in Live
    <3>1. c \in T /\ c \in Cells
        BY <1>2, <1>3, <2>1
    <3>2. Strong[c] \subseteq Gives(T) \cap Live
        BY <3>1 DEF Strong, Gives
    <3>3. QED
        BY <1>2, <3>2
  <2>2. CASE c \notin Live
    <3>1. c \in Cells /\ brand[c] = "free"
        BY <1>2, <1>3, <2>2 DEF Live
    <3>2. QED
        BY <3>1 DEF Strong
  <2>3. QED
      BY <2>1, <2>2
<1>4. \A S \in SUBSET W : From(Strong, S) \subseteq W
    BY <1>3 DEF From
<1>5. \A S \in SUBSET W : Values(S, W) \subseteq W
  <2> SUFFICES ASSUME NEW n \in W, brand[n] = "map", entry[n].ref \in W,
                      entry[n].value \in Live
               PROVE  entry[n].value \in W
      BY DEF Values
  <2>1. n \in T /\ n \in Cells
      BY <1>2 DEF Live
  <2>2. entry[n].ref \in T
      BY <1>2, <2>1, NullIsNoCell DEF WeakInv, BarrieredSlotsLive
  <2>3. entry[n].value \in Gives(T)
      BY <2>1, <2>2 DEF Gives
  <2>4. QED
      BY <2>3
<1> HIDE DEF W
<1>6. drained \subseteq W
  <2>1. Traced(Strong, {}, {} \cup Roots, W)
      BY <1>2, <1>4 DEF Traced
  <2>2. QED
      BY <1>2, <2>1, ReachLeast
<1> HIDE DEF drained
<1>7. valued \subseteq W
  <2>1. visited \cup (W \ drained) \subseteq W
      BY <1>6
  <2>2. Settled(drained, visited, W)
      BY <1>5, <1>6, <2>1 DEF Settled
  <2>3. QED
      BY <1>2, <2>2, FixpointLeast
<1> HIDE DEF valued
<1>8. queue \subseteq W
    BY <1>4, <1>7
<1> HIDE DEF queue
<1>9. marked \subseteq W
  <2>1. Traced(Strong, valued, queue, W)
      BY <1>4, <1>7, <1>8 DEF Traced
  <2>2. QED
      BY <1>2, <2>1, ReachLeast
<1>10. QED
    BY <1>1, <1>2, <1>9

\* A whole cycle leaves no cell that the language cannot reach.
THEOREM DeadCollected == WeakSpec => DeadAreCollected
<1>1. ASSUME WeakInv, ~marking, collectFullTail, NEW c \in Live'
      PROVE  c \in Reachable({})
  <2>1. c \in Live /\ c \in Ending.marked
    <3>1. PICK C : Sweep(Live \ Ending.marked, C)
        BY <1>1 DEF collectFullTail
    <3>2. QED
        BY <1>1, <3>1, SweepFrees
  <2>2. ASSUME NEW T \in SUBSET Live,
               (held \cup kept_alive \cup jobs \cup Gives(T \ {})) \cap Live \subseteq T
        PROVE  c \in T
    <3>1. (Roots \cup Gives(T)) \cap Live \subseteq T
        BY <2>2 DEF Roots
    <3>2. QED
        BY <1>1, <2>1, <3>1, EndingIsLeast
  <2>3. QED
      BY <2>1, <2>2 DEF Reachable
<1>2. WeakInv => [~marking /\ young' = {} /\ UNCHANGED kept_alive /\ collectFullTail
                    => Live' \subseteq Reachable({})]_weakVars
    BY <1>1
<1>3. QED
    BY <1>2, WeakInvariance, PTL DEF WeakSpec, DeadAreCollected
===============================================================================
