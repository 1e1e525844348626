------------------------------ MODULE WaiterList ------------------------------
(***************************************************************************)
(* What Atomics.wait, waitAsync and notify promise an agent: one queue of  *)
(* waiters per block, in order of arrival; a blocking wait joins it in the *)
(* step that compares the value; a notify takes the oldest waiters of its  *)
(* index, no more than it was asked for, and reports how many it took; a   *)
(* waiter a notify took answers "ok", and only such a waiter does.         *)
(***************************************************************************)
EXTENDS Integers, FiniteSets

CONSTANTS
    Waiters,        \* a wait, identified by the node that stands for it
    Positions,      \* byte indices of the block
    Bits,           \* element values
    Counts,         \* counts a notify may ask for
    Comparers       \* waiters whose compare and arrival are one step

VARIABLES
    mem,        \* the element at each index
    waiting,    \* the waiters in the queue
    before,     \* their order of arrival: pairs of an earlier and a later one
    at,         \* the index each waiter waits on
    taken,      \* waiters a notify took, still to answer
    answer      \* what the last step answered

vars == <<mem, waiting, before, at, taken, answer>>

Silent == answer' = <<>>
Nowhere == "nowhere"
Involved == waiting \cup taken

Init ==
    /\ mem \in [Positions -> Bits]
    /\ waiting = {} /\ before = {}
    /\ at = [w \in Waiters |-> Nowhere]
    /\ taken = {}
    /\ answer = <<>>

Store(p, b) ==
    /\ mem' = [mem EXCEPT ![p] = b]
    /\ Silent
    /\ UNCHANGED <<waiting, before, at, taken>>

\* The compare fails, or a zero timeout needs no queue.
Refuse(p, b, r) ==
    /\ r = "not-equal" => mem[p] # b
    /\ answer' = <<r>>
    /\ UNCHANGED <<mem, waiting, before, at, taken>>

Join(w, p, b) ==
    /\ w \notin Involved
    /\ w \in Comparers => mem[p] = b
    /\ waiting' = waiting \cup {w}
    /\ before' = before \cup (waiting \X {w})
    /\ at' = [at EXCEPT ![w] = p]
    /\ Silent
    /\ UNCHANGED <<mem, taken>>

\* The waiters of W leave the queue; the others keep their order.
Dequeue(W) ==
    /\ waiting' = waiting \ W
    /\ before' = {e \in before : e[1] \notin W /\ e[2] \notin W}

\* As many of the waiters of p as were asked for, or all of them, and each
\* earlier than any it leaves.
Notify(p, n) ==
    LET here == {w \in waiting : at[w] = p}
        all == Cardinality(here)
    IN  \E oldest \in SUBSET here :
          /\ Cardinality(oldest) = IF n < all THEN n ELSE all
          /\ oldest \X (here \ oldest) \subseteq before
          /\ Dequeue(oldest)
          /\ taken' = taken \cup oldest
          /\ answer' = <<"woken", Cardinality(oldest)>>
          /\ UNCHANGED <<mem, at>>

Leave(w) ==
    /\ Dequeue({w})
    /\ taken' = taken \ {w}
    /\ at' = [at EXCEPT ![w] = Nowhere]
    /\ UNCHANGED mem

Return(w) == w \in taken /\ Leave(w) /\ answer' = <<w, "ok">>
Timeout(w) == w \in waiting /\ Leave(w) /\ answer' = <<w, "timed-out">>

\* The agent goes away, or runs out of memory before it could answer.
Abandon(w) == w \in Involved /\ Leave(w) /\ Silent

\* A step of an agent the others cannot see.
Internal == Silent /\ UNCHANGED <<mem, waiting, before, at, taken>>

Next ==
    \/ Internal
    \/ \E p \in Positions, b \in Bits :
         \/ Store(p, b)
         \/ \E r \in {"not-equal", "timed-out"} : Refuse(p, b, r)
         \/ \E w \in Waiters : Join(w, p, b)
    \/ \E p \in Positions, n \in Counts : Notify(p, n)
    \/ \E w \in Waiters : Return(w) \/ Timeout(w) \/ Abandon(w)

Spec == Init /\ [][Next]_vars
=============================================================================
