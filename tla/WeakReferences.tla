----------------------------- MODULE WeakReferences -----------------------------
(***************************************************************************)
(* WeakRef, WeakMap, WeakSet and FinalizationRegistry, the kept-alive list *)
(* of the job in progress, and what the collector does with their weak     *)
(* slots: strong in a minor cycle; in a major one put on the lists of the  *)
(* cycle when the mark visits the holder, and settled at the termination.  *)
(*                                                                         *)
(* The collector is that of Metla with what no weak slot can tell apart    *)
(* left out: the colour bit is the set of marked cells, and dead cells go  *)
(* at the termination.  A holder has one entry (a bound), and a weak slot  *)
(* left dangling keeps its address from being used again.  A WeakSet is a  *)
(* map from its members to themselves; a registry's token is its target.        *)
(*                                                                         *)
(* A definition marked "fault" is a plausible bug in the one below it; the *)
(* mutation runs swap it in, and the specification never uses it.          *)
(***************************************************************************)

EXTENDS Integers, FiniteSets

CONSTANTS
    Cells,      \* header addresses
    Null,       \* no pointer; undefined and other primitives
    Menus       \* the values of menu

\* "object": an ordinary object, with one strong field.
\* "symbol": not a registered one; it can be held weakly and holds nothing.
\* "string": a string or BigInt the program computed; a literal is pinned.
AllBrands == {"object", "symbol", "string", "ref", "map", "registry"}

ASSUME MenusAssumption == Menus \subseteq [AllBrands -> Nat]
ASSUME NullIsNoCell == Null \notin Cells

VARIABLES
    menu,           \* a bound, the same throughout: how many cells of each
                    \* kind the program may have at once
    brand,          \* brand[c], or "free"
    entry,          \* entry[c]: the pointers cell c holds
    held,           \* cells the program can name
    kept_alive,     \* cells pinned until the job ends
    jobs,           \* held values of the queued cleanup jobs
    young,          \* the young generation
    dirty_list,     \* the remembered set
    marking,        \* whether a sliced mark is in flight
    black,          \* cells it has marked
    worklist,       \* cells it has still to visit
    seen,           \* weak_refs_seen, weak_collections_seen and
                    \* finalization_registries_seen
    unbarriered     \* history: holders stored into without a barrier since
                    \* the last cycle, the mark of which had passed them or
                    \* a minor cycle of which will

programVars == <<brand, entry, held, kept_alive, jobs>>
cycleVars == <<marking, black, worklist, seen>>
weakVars == <<menu, programVars, young, dirty_list, cycleVars, unbarriered>>

Entry(r, v) == [ref |-> r, value |-> v]
Blank == Entry(Null, Null)

Live == {c \in Cells : brand[c] # "free"}
Holders == {c \in Live : brand[c] \in {"ref", "map", "registry"}}

\* Fault: the kept-alive list is not among the roots.
ForgetsKept == held \cup jobs

Roots == held \cup kept_alive \cup jobs

\* Every pointer of a cell.
AllPointers == [c \in Cells |-> {entry[c].ref, entry[c].value} \cap Live]

\* Fault: a full mark follows weak slots, as a minor one does.
FollowsWeak == AllPointers

\* Those a full mark follows: an object's field and the value a registry keeps
\* for its callback.
Strong ==
    [c \in Cells |-> IF brand[c] \in {"object", "registry"}
                       THEN {entry[c].value} \cap Live
                       ELSE {}]

From(edges, S) == UNION {edges[c] : c \in S}

\* What a trace from seeds has marked when the cells of marked were already:
\* the least set that holds both and the edges of every cell it adds.
Traced(edges, marked, seeds, T) ==
    /\ marked \cup seeds \subseteq T
    /\ From(edges, T \ marked) \subseteq T

Reach(edges, marked, seeds) ==
    {c \in Cells :
        \A T \in SUBSET Cells : Traced(edges, marked, seeds, T) => c \in T}

\* Freed cells that a weak slot still points at: whether their header has the
\* live colour is whatever was left there.
Stale ==
    (jobs \cup UNION {{entry[h].ref, entry[h].value} : h \in Holders})
        \ (Live \cup {Null})

-----------------------------------------------------------------------------
(* The program.                                                            *)

Born(c, k) ==
    /\ brand[c] = "free" /\ c \notin Stale
    /\ brand' = [brand EXCEPT ![c] = k]
    /\ Cardinality({d \in Cells : brand'[d] = k}) <= menu[k]
    /\ held' = held \cup {c}
    /\ young' = young \cup {c}
    /\ black' = IF marking THEN black \cup {c} ELSE black
    /\ UNCHANGED <<jobs, dirty_list, marking, worklist, seen>>

NewCell(c, k) ==
    /\ k # "ref"
    /\ Born(c, k)
    /\ entry' = [entry EXCEPT ![c] = Blank]
    /\ UNCHANGED <<kept_alive, unbarriered>>

CanBeHeldWeakly(c) == c \in held /\ brand[c] # "string"

\* The target is stored raw, in a cell born marked when a mark is in flight.
weakRefConstructor(c, t) ==
    /\ CanBeHeldWeakly(t)
    /\ Born(c, "ref")
    /\ entry' = [entry EXCEPT ![c] = Entry(t, Null)]
    /\ kept_alive' = kept_alive \cup {t}
    /\ unbarriered' = IF marking THEN unbarriered \cup {c} ELSE unbarriered

\* The program comes by a cell that it reads from another.  What a freed one
\* would yield is left out: that is the loss WeakSlotsStayValid speaks of.
Obtain(c) ==
    /\ c \in Live
    /\ held' = held \cup {c}
    /\ UNCHANGED <<brand, entry, jobs, young, dirty_list, cycleVars,
                   unbarriered>>

weakRefDeref(w) ==
    /\ w \in held /\ brand[w] = "ref"
    /\ Obtain(entry[w].ref)
    /\ kept_alive' = kept_alive \cup {entry[w].ref}

\* A property load, and WeakMap.prototype.get.
ReadValue(c) ==
    /\ c \in held
    /\ \/ brand[c] = "object"
       \/ brand[c] = "map" /\ entry[c].ref \in held
    /\ Obtain(entry[c].value)
    /\ UNCHANGED kept_alive

Forget(c) ==
    /\ c \in held
    /\ held' = held \ {c}
    /\ UNCHANGED <<brand, entry, kept_alive, jobs, young, dirty_list, cycleVars,
                   unbarriered>>

\* The slots of a marked holder are marked, weak or not; a mature one is
\* remembered.
noteInternalSlotWrite(c) ==
    /\ worklist' = IF marking /\ c \in black
                     THEN worklist \cup (AllPointers[c]' \ black)
                     ELSE worklist
    /\ dirty_list' = IF c \in young THEN dirty_list ELSE dirty_list \cup {c}

\* writeBarrier shades the value and remembers the container, which with
\* one field comes to the same.
StoreField(c, v) ==
    /\ c \in held /\ brand[c] = "object" /\ v \in held
    /\ entry' = [entry EXCEPT ![c] = Entry(Null, v)]
    /\ UNCHANGED <<brand, held, kept_alive, jobs, young, marking, black, seen,
                   unbarriered>>
    /\ noteInternalSlotWrite(c)

\* mapSetInternal and setAddInternal on a weak collection: a new entry, or
\* a new value for its key.
weakMapSet(m, k, v) ==
    /\ m \in held /\ brand[m] = "map"
    /\ CanBeHeldWeakly(k) /\ v \in held
    /\ entry[m].ref \in {Null, k}
    /\ entry' = [entry EXCEPT ![m] = Entry(k, v)]
    /\ UNCHANGED <<brand, held, kept_alive, jobs, young, marking, black, seen,
                   unbarriered>>
    /\ noteInternalSlotWrite(m)

\* The cell is appended raw, whatever the state of the registry.
frRegister(f, t, v) ==
    /\ f \in held /\ brand[f] = "registry" /\ entry[f].ref = Null
    /\ CanBeHeldWeakly(t) /\ v \in held /\ t # v
    /\ entry' = [entry EXCEPT ![f] = Entry(t, v)]
    /\ unbarriered' = IF f \in black \/ f \notin young
                        THEN unbarriered \cup {f}
                        ELSE unbarriered
    /\ UNCHANGED <<brand, held, kept_alive, jobs, young, dirty_list, cycleVars>>

\* weakMapDelete by key, frUnregister by token.
RemoveEntry(h, k) ==
    /\ h \in held /\ k \in held
    /\ brand[h] \in {"map", "registry"} /\ entry[h].ref = k
    /\ entry' = [entry EXCEPT ![h] = Blank]
    /\ UNCHANGED <<brand, held, kept_alive, jobs, young, dirty_list, cycleVars,
                   unbarriered>>

\* drainMicrotasks: a job is over, and the next may be a cleanup.
clearKeptObjects ==
    /\ kept_alive' = {}
    /\ \/ UNCHANGED <<held, jobs>>
       \/ \E v \in jobs : jobs' = jobs \ {v} /\ held' = held \cup ({v} \cap Live)
    /\ UNCHANGED <<brand, entry, young, dirty_list, cycleVars, unbarriered>>

-----------------------------------------------------------------------------
(* The collector.                                                          *)

beginIncrementalMajor ==
    /\ ~marking
    /\ marking' = TRUE
    /\ black' = Roots
    /\ worklist' = From(Strong, Roots) \ Roots
    /\ seen' = Roots \cap Holders
    /\ UNCHANGED <<programVars, young, dirty_list, unbarriered>>

MarkSlice ==
    /\ marking
    /\ \E c \in worklist :
         /\ black' = black \cup {c}
         /\ worklist' = (worklist \cup Strong[c]) \ black'
         /\ seen' = seen \cup ({c} \cap Holders)
    /\ UNCHANGED <<programVars, young, dirty_list, marking, unbarriered>>

\* What the maps of S give whose key is in T.
Values(S, T) ==
    {entry[m].value : m \in
        {n \in S : brand[n] = "map" /\ entry[n].ref \in T}} \cap Live

Strings == {c \in Live : brand[c] = "string"}

\* Fault: the list is walked once, and a key marked on the way is missed.
OnePass(marked, listed) == marked \cup (Values(listed, marked) \ Strings)

\* A value joins once its map is listed and its key is marked.  Marking lists
\* a holder at once and only queues its children, and isWeakReferentLive
\* takes every string for marked.
Settled(marked, listed, T) ==
    /\ marked \subseteq T
    /\ Values(listed \cup (T \ marked), T) \ Strings \subseteq T

weakMapEphemeronFixpoint(marked, listed) ==
    {c \in Cells :
        \A T \in SUBSET Cells : Settled(marked, listed, T) => c \in T}

\* Drain, fixpoint, drain: what is marked in the end, which holders the cycle
\* has listed, and the cells that only the second drain reached.
Termination(passed, queue, listed) ==
    LET drained == Reach(Strong, passed, queue \cup Roots)
        visited == listed \cup (Holders \cap (drained \ passed))
        valued == weakMapEphemeronFixpoint(drained, visited)
        marked == Reach(Strong, valued, From(Strong, valued \ drained))
    IN  [marked |-> marked,
         listed |-> visited \cup (Holders \cap (marked \ drained)),
         late |-> marked \ valued]

\* A mark in flight is finished; otherwise a whole cycle runs.
Ending == IF marking THEN Termination(black, worklist, seen)
                     ELSE Termination({}, {}, {})

\* The listed holders whose target was not marked.
Dead(listed, marked) ==
    {h \in listed : entry[h].ref \notin marked \cup {Null}}

Sweep(freed, cleared) ==
    /\ brand' = [c \in Cells |-> IF c \in freed THEN "free" ELSE brand[c]]
    /\ entry' = [c \in Cells |-> IF c \in freed \cup cleared THEN Blank
                                                             ELSE entry[c]]
    /\ young' = {}
    /\ dirty_list' = {}
    /\ unbarriered' = {}
    /\ UNCHANGED <<held, kept_alive>>

\* processWeakReferences, then the sweep.  Queueing a cleanup may run out of
\* memory, which drops it.
collectFullTail ==
    LET end == Ending
    IN  \E ghosts \in SUBSET Stale :
          LET cleared == Dead(end.listed, end.marked \cup ghosts)
              values == {entry[h].value : h \in
                           {d \in cleared : brand[d] = "registry"}} \cap Live
          IN  /\ \E queued \in SUBSET values : jobs' = jobs \cup queued
              /\ Sweep(Live \ end.marked, cleared)
              /\ marking' = FALSE
              /\ black' = {} /\ worklist' = {} /\ seen' = {}

\* A minor cycle marks every slot, stops at mature cells, and looks into
\* those the barrier remembered.
collectYoung ==
    /\ ~marking
    /\ LET marked == Reach(AllPointers, Live \ young,
                           Roots \cup From(AllPointers, dirty_list))
       IN  Sweep(young \ marked, {})
    /\ UNCHANGED <<jobs, cycleVars>>

-----------------------------------------------------------------------------
WeakInit ==
    /\ menu \in Menus
    /\ brand = [c \in Cells |-> "free"]
    /\ entry = [c \in Cells |-> Blank]
    /\ held = {} /\ kept_alive = {} /\ jobs = {}
    /\ young = {} /\ dirty_list = {}
    /\ marking = FALSE
    /\ black = {} /\ worklist = {} /\ seen = {}
    /\ unbarriered = {}

Program ==
    \/ \E c \in Cells : (\E k \in AllBrands : NewCell(c, k)) \/ Forget(c)
    \/ \E c \in Cells, t \in Cells : weakRefConstructor(c, t)
    \/ \E c \in Cells : weakRefDeref(c) \/ ReadValue(c)
    \/ \E c \in Cells, v \in Cells : StoreField(c, v) \/ RemoveEntry(c, v)
    \/ \E m \in Cells, k \in Cells, v \in Cells : weakMapSet(m, k, v)
    \/ \E f \in Cells, t \in Cells, v \in Cells : frRegister(f, t, v)
    \/ clearKeptObjects

Collector ==
    \/ beginIncrementalMajor \/ MarkSlice \/ collectFullTail
    \/ collectYoung

WeakNext == (Program \/ Collector) /\ UNCHANGED menu
WeakSpec == WeakInit /\ [][WeakNext]_weakVars
-----------------------------------------------------------------------------
(* Correctness.                                                            *)

\* What the language can still reach when the cells of U yield nothing: an
\* object its field, a registry its held value, a weak map its value to
\* whoever has map and key.
Gives(T) ==
    {entry[c].value : c \in
        {d \in T : \/ brand[d] \in {"object", "registry"}
                   \/ brand[d] = "map" /\ entry[d].ref \in T}} \cap Live
Reachable(U) ==
    {c \in Live : \A T \in SUBSET Live :
        (held \cup kept_alive \cup jobs \cup Gives(T \ U)) \cap Live \subseteq T => c \in T}

\* A cycle frees a cell that a surviving holder points at, or that a registry
\* hands to a cleanup job.
Loses(h, v) ==
    /\ v \in AllPointers[h]
    /\ \/ entry'[h] = entry[h]
       \/ brand[h] = "registry" /\ v = entry[h].value /\ v \in jobs'

\* The slots the code is known to lose: those of a holder stored into raw
\* behind the collector's back; in a major cycle also a string, and a value
\* whose map or key only the second drain has marked.
Excused(h, v) ==
    \/ h \in unbarriered
    \/ /\ ~collectYoung
       /\ brand[h] = "map" /\ v = entry[h].value
       /\ v \in Strings \/ {h, entry[h].ref} \cap Ending.late # {}

\* A cell that a live holder still points at is not freed, nor one whose
\* registry hands it to a cleanup job: deref, get and a cleanup callback give
\* live cells or undefined, in whatever order stores, slices, minor cycles and
\* jobs come (markValue, the weak arms; processWeakReferences).
WeakSlotsStayValid ==
    [][\A v \in Live \ Live', h \in Live \cap Live' :
           Loses(h, v) => Excused(h, v)]_weakVars

\* Only the program empties a WeakRef or drops an entry whose target can still
\* be reached, or was read from a WeakRef in this job.
ClearedOnlyWhenDead ==
    [][\A h \in Cells :
           /\ entry[h].ref # Null /\ entry'[h].ref = Null /\ h \in Live'
           /\ entry[h].ref \in Reachable(unbarriered \cup Ending.late)
           => RemoveEntry(h, entry[h].ref)]_weakVars

\* A whole cycle frees all that cannot be reached, a value that refers to its
\* own key among it.
DeadAreCollected ==
    [][~marking /\ young' = {} /\ UNCHANGED kept_alive /\ collectFullTail
         => Live' \subseteq Reachable({})]_weakVars
=============================================================================
