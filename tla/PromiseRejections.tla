--------------------------- MODULE PromiseRejections ---------------------------
(***************************************************************************)
(* HostPromiseRejectionTracker and the bounded store a host may hang on    *)
(* it: a root list of the promises rejected and not yet handled, and a map *)
(* from a promise's address to its place in that list, which a swap        *)
(* removal keeps in step.                                                  *)
(*                                                                         *)
(* A promise is named by its address: Recycle frees an object the store    *)
(* does not root and gives its address to a fresh promise.  Places count   *)
(* from 1, and 0 is "not in the map".                                      *)
(*                                                                         *)
(* A definition marked "fault" is a plausible bug in the one below it; the *)
(* mutation runs swap it in, and the specification never uses it.          *)
(***************************************************************************)
EXTENDS Integers, Sequences, FiniteSets

CONSTANTS
    Promises,
    Limit           \* the host's bound on pending rejections

ASSUME LimitAssumption == Limit \in Nat

VARIABLES
    promise_state,  \* "pending", "fulfilled" or "rejected"
    handled,        \* promises whose promise_is_handled is set
    installed,      \* whether the store is the heap's tracker
    handles,        \* roots.handles
    indices,        \* the address map
    failure,        \* "none", "out_of_memory" or "capacity_exceeded"
    unseen          \* history: promises rejected while no store was installed

promiseVars == <<promise_state, handled>>
storeVars == <<handles, indices, failure>>
vars == <<promiseVars, installed, storeVars, unseen>>

Keys == {p \in Promises : indices[p] # 0}
Rooted == {handles[i] : i \in 1 .. Len(handles)}
Unhandled == {p \in Promises : promise_state[p] = "rejected"} \ handled

-----------------------------------------------------------------------------
(* The tracker's callback.                                                 *)

Fail(f) ==
    /\ failure' = f
    /\ UNCHANGED <<handles, indices>>

Full == Cardinality(Keys) >= Limit

\* Root and index the promise, unless the store has failed; running out of
\* memory at either allocation leaves nothing behind but the failure.
NotifyReject(p) ==
    IF failure # "none" \/ p \in Keys THEN UNCHANGED storeVars
    ELSE IF Full THEN Fail("capacity_exceeded")
    ELSE \/ Fail("out_of_memory")
         \/ /\ handles' = Append(handles, p)
            /\ indices' = [indices EXCEPT ![p] = Len(handles) + 1]
            /\ UNCHANGED failure

\* Fault: the last element goes, whichever place is to be freed.
RemoveLast(i) == [k \in 1 .. Len(handles) - 1 |-> handles[k]]

\* handles.swapRemove: the last element moves into place i.
SwapRemove(i) ==
    [k \in 1 .. Len(handles) - 1 |->
        IF k = i THEN handles[Len(handles)] ELSE handles[k]]

\* Fault: the moved promise keeps its old place in the map.
DropIndex(p) == [indices EXCEPT ![p] = 0]

\* The map once p is removed: the promise that moved is told its new place.
Reindex(p) ==
    [q \in Promises |->
        IF q = p THEN 0
        ELSE IF q = handles[Len(handles)] THEN indices[p]
        ELSE indices[q]]

\* Fault: a failed store releases nothing.
ReleaseUnlessFailed(p) == p \in Keys /\ failure = "none"

Releases(p) == p \in Keys

NotifyHandle(p) ==
    IF Releases(p)
      THEN /\ handles' = SwapRemove(indices[p])
           /\ indices' = Reindex(p)
           /\ UNCHANGED failure
      ELSE UNCHANGED storeVars

-----------------------------------------------------------------------------
(* The heap's two transitions, the host's, and the collector's.            *)

Notifies(p, s) == s = "rejected" /\ p \notin handled

settlePromise(p, s) ==
    /\ promise_state[p] = "pending"
    /\ promise_state' = [promise_state EXCEPT ![p] = s]
    /\ IF Notifies(p, s) /\ installed THEN NotifyReject(p)
                                      ELSE UNCHANGED storeVars
    /\ unseen' = IF s = "rejected" /\ ~installed THEN unseen \cup {p} ELSE unseen
    /\ UNCHANGED <<handled, installed>>

markPromiseHandled(p) ==
    /\ p \notin handled
    /\ handled' = handled \cup {p}
    /\ IF promise_state[p] = "rejected" /\ installed THEN NotifyHandle(p)
                                                     ELSE UNCHANGED storeVars
    /\ UNCHANGED <<promise_state, installed, unseen>>

\* install attaches a fresh store, whose constructor opened its roots.
Install ==
    /\ ~installed
    /\ installed' = TRUE
    /\ UNCHANGED <<promiseVars, storeVars, unseen>>

\* deinit detaches the store and closes its roots; the next one is fresh and
\* is not told of earlier rejections.
Deinit ==
    /\ installed
    /\ installed' = FALSE
    /\ handles' = <<>>
    /\ indices' = [p \in Promises |-> 0]
    /\ failure' = "none"
    /\ unseen' = unseen \cup Unhandled
    /\ UNCHANGED promiseVars

Recycle(p) ==
    /\ p \notin Rooted
    /\ promise_state' = [promise_state EXCEPT ![p] = "pending"]
    /\ handled' = handled \ {p}
    /\ unseen' = unseen \ {p}
    /\ UNCHANGED <<installed, storeVars>>

Init ==
    /\ promise_state = [p \in Promises |-> "pending"]
    /\ handled = {}
    /\ installed = FALSE
    /\ handles = <<>>
    /\ indices = [p \in Promises |-> 0]
    /\ failure = "none"
    /\ unseen = {}

Next ==
    \/ \E p \in Promises :
         \/ \E s \in {"fulfilled", "rejected"} : settlePromise(p, s)
         \/ markPromiseHandled(p)
         \/ Recycle(p)
    \/ Install
    \/ Deinit

Spec == Init /\ [][Next]_vars
-----------------------------------------------------------------------------
(* Correctness.                                                            *)

TypeOK ==
    /\ promise_state \in [Promises -> {"pending", "fulfilled", "rejected"}]
    /\ handled \subseteq Promises
    /\ installed \in BOOLEAN
    /\ handles \in Seq(Promises)
    /\ indices \in [Promises -> Nat]
    /\ failure \in {"none", "out_of_memory", "capacity_exceeded"}
    /\ unseen \subseteq Promises

\* Map and list are inverse to each other, whatever order promises are
\* handled in: notify's .handle arm indexes the list with what the map says
\* and asserts that the moved promise is a key.
IndexInverse ==
    /\ \A p \in Keys : indices[p] <= Len(handles) /\ handles[indices[p]] = p
    /\ \A i \in 1 .. Len(handles) : indices[handles[i]] = i

\* The host is told of every rejection nobody has handled, as long as its
\* store has not failed: none is lost when another is released, or when a
\* promise is born at the address of one that was.
NoMissedRejection ==
    installed /\ failure = "none" => Unhandled \ unseen \subseteq Rooted

\* The store pins nothing else: a handled or unrejected promise stays
\* collectable, even after a failure.
RootsAreUnhandled == Rooted \subseteq Unhandled

\* The store never outgrows the host's limit.
WithinLimit == Len(handles) <= Limit

\* A store that is not attached is empty, and every rejection that happens
\* meanwhile counts as unseen.
DetachedIsFresh ==
    ~installed => /\ handles = <<>>
                  /\ failure = "none"
                  /\ Unhandled \subseteq unseen

\* The inductive invariant.
IInv ==
    /\ TypeOK
    /\ IndexInverse
    /\ NoMissedRejection
    /\ RootsAreUnhandled
    /\ WithinLimit
    /\ DetachedIsFresh

\* A promise leaves the root list only by being handled, or with the store.
ReleasedOnlyWhenHandled ==
    [][Rooted \ Rooted' \subseteq handled' \/ ~installed']_vars
=============================================================================
