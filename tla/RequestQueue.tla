------------------------------ MODULE RequestQueue -----------------------------
(***************************************************************************)
(* What an async generator promises its callers: each request is answered  *)
(* once, in the order the requests were made, and once the generator has   *)
(* said it is done, or rejected, it yields nothing more.                   *)
(***************************************************************************)
EXTENDS Sequences

CONSTANTS Gens, Requests

VARIABLES
    asked,      \* requests not yet answered
    closed      \* generators that yield no more

Init ==
    /\ asked = [g \in Gens |-> <<>>]
    /\ closed = {}

Ask(g, r) ==
    /\ asked' = [asked EXCEPT ![g] = Append(@, r)]
    /\ UNCHANGED closed

Answer(g) ==
    /\ asked[g] # <<>>
    /\ asked' = [asked EXCEPT ![g] = Tail(@)]

Yield(g) == g \notin closed /\ Answer(g) /\ UNCHANGED closed
Close(g) == Answer(g) /\ closed' = closed \cup {g}

Next == \E g \in Gens :
    \/ \E r \in Requests : Ask(g, r)
    \/ Yield(g)
    \/ Close(g)

Spec == Init /\ [][Next]_<<asked, closed>>
=============================================================================
