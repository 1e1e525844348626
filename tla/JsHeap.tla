------------------------------- MODULE JsHeap -------------------------------
(***************************************************************************)
(* The heap as a running program sees it: cells of several kinds whose     *)
(* slots hold pointers to other cells, the frame registers and handle      *)
(* scopes that root them, and at most one generator frame on the native    *)
(* stack.  The actions of this module are the mutator's half of every      *)
(* heap operation; Metla conjoins the collector's bookkeeping to each.     *)
(*                                                                         *)
(* HeapSpec is the promise the collector must keep: a step is a mutator    *)
(* operation or the reclamation of cells the program can no longer reach.  *)
(***************************************************************************)
EXTENDS Naturals, FiniteSets

CONSTANTS
    Cells,      \* header addresses the slab pools hand out
    Null,       \* the null pointer; primitives count as Null
    Registers,  \* realm roots: frame registers, accumulators, globals
    Handles,    \* entries of open handle scopes
    Slots,      \* pointer-bearing fields of one cell
    Kinds       \* the kinds of cell the program allocates

\* "object":    ordinary object, filled through barriered stores.
\* "rope":      cons string; two immutable children, set at birth.
\* "array":     fused dense literal; its elements are set at birth.
\* "function":  closure and its captured environment, set at birth.
\* "generator": suspended frame; its register file is written in place.
AllKinds == {"object", "rope", "array", "function", "generator"}

ASSUME KindsAssumption == Kinds \subseteq AllKinds
ASSUME NullAssumption == Null \notin Cells

VARIABLES
    kind,    \* kind[c], or "free" for an address in the pool's free list
    slot,    \* slot[c][s]: the pointer in field s of cell c
    reg,     \* reg[r]: a realm root
    handle,  \* handle[h]: a value pinned by an open handle scope
    running  \* the generator whose frame is on the stack, or Null

heapVars == <<kind, slot, reg, handle, running>>

Values == Cells \cup {Null}
Live == {c \in Cells : kind[c] # "free"}
EmptySlots == [s \in Slots |-> Null]

\* The outgoing pointers of one cell, and of a set of cells.
Succ(c) == {d \in Cells : \E s \in Slots : slot[c][s] = d}
SuccOf(S) == {d \in Cells : \E c \in S : d \in Succ(c)}

\* What the running code holds directly.  A generator's register file is
\* its frame's register file while it runs.
RegValues == {v \in Cells : \E r \in Registers : reg[r] = v}
HandleValues == {v \in Cells : \E h \in Handles : handle[h] = v}
FrameValues == IF running = Null THEN {} ELSE {running} \cup Succ(running)
RootCells == RegValues \cup HandleValues \cup FrameValues

\* Everything a trace from seeds colours when the cells of black are
\* coloured already: the least set that holds seeds and follows every
\* pointer, except through black.
TraceClosed(T, black, seeds) ==
    /\ seeds \subseteq T \cup black
    /\ \A c \in T : Succ(c) \subseteq T \cup black

Trace(black, seeds) ==
    black \cup {c \in Cells : \A T \in SUBSET Cells :
                                TraceClosed(T, black, seeds) => c \in T}

Reachable == Trace({}, RootCells)

-----------------------------------------------------------------------------
(* The mutator.                                                            *)

\* The values an opcode can have in a register or the accumulator, or a
\* native function in a local it has pinned.
Operands == RegValues \cup HandleValues \cup FrameValues

\* A cell is born from a free header.  An ordinary object is born empty;
\* the other kinds are born holding operands.
Allocate(c, k, r, init) ==
    /\ kind[c] = "free"
    /\ k = "object" => init = EmptySlots
    /\ \A s \in Slots : init[s] \in Operands \cup {Null}
    /\ kind' = [kind EXCEPT ![c] = k]
    /\ slot' = [slot EXCEPT ![c] = init]
    /\ reg' = [reg EXCEPT ![r] = c]
    /\ UNCHANGED <<handle, running>>

Load(r, c, s) ==
    /\ c \in Operands
    /\ reg' = [reg EXCEPT ![r] = slot[c][s]]
    /\ UNCHANGED <<kind, slot, handle, running>>

ClearRegister(r) ==
    /\ reg' = [reg EXCEPT ![r] = Null]
    /\ UNCHANGED <<kind, slot, handle, running>>

WriteSlot(c, s, v) ==
    /\ c \in Operands
    /\ v \in Operands \cup {Null}
    /\ slot' = [slot EXCEPT ![c][s] = v]
    /\ UNCHANGED <<kind, reg, handle, running>>

PushHandle(h, r) ==
    /\ handle[h] = Null
    /\ handle' = [handle EXCEPT ![h] = reg[r]]
    /\ UNCHANGED <<kind, slot, reg, running>>

\* The native function returns the value it pinned and closes its scope.
CloseScope(h, r) ==
    /\ handle[h] # Null
    /\ reg' = [reg EXCEPT ![r] = handle[h]]
    /\ handle' = [handle EXCEPT ![h] = Null]
    /\ UNCHANGED <<kind, slot, running>>

Resume(g) ==
    /\ running = Null
    /\ g \in RegValues
    /\ kind[g] = "generator"
    /\ running' = g
    /\ UNCHANGED <<kind, slot, reg, handle>>

Yield ==
    /\ running # Null
    /\ running' = Null
    /\ UNCHANGED <<kind, slot, reg, handle>>

Free(S) ==
    /\ kind' = [c \in Cells |-> IF c \in S THEN "free" ELSE kind[c]]
    /\ slot' = [c \in Cells |-> IF c \in S THEN EmptySlots ELSE slot[c]]
    /\ UNCHANGED <<reg, handle, running>>

-----------------------------------------------------------------------------
HeapInit ==
    /\ kind = [c \in Cells |-> "free"]
    /\ slot = [c \in Cells |-> EmptySlots]
    /\ reg = [r \in Registers |-> Null]
    /\ handle = [h \in Handles |-> Null]
    /\ running = Null

\* The only reclamation a program may observe is none at all.
ReclaimGarbage ==
    \E S \in SUBSET (Live \ Reachable) : Free(S)

HeapNext ==
    \/ \E c \in Cells, k \in Kinds, r \in Registers, init \in [Slots -> Values] :
           Allocate(c, k, r, init)
    \/ \E r \in Registers, c \in Cells, s \in Slots : Load(r, c, s)
    \/ \E r \in Registers : ClearRegister(r)
    \/ \E c \in Cells, s \in Slots, v \in Values : WriteSlot(c, s, v)
    \/ \E h \in Handles, r \in Registers : PushHandle(h, r) \/ CloseScope(h, r)
    \/ \E g \in Cells : Resume(g)
    \/ Yield
    \/ ReclaimGarbage

HeapSpec == HeapInit /\ [][HeapNext]_heapVars
=============================================================================
