------------------------ MODULE PromiseRejectionsProofs ------------------------
(***************************************************************************)
(* Proofs about PromiseRejections for every set of promises and limit.     *)
(***************************************************************************)
EXTENDS PromiseRejections, FiniteSetTheorems, FunctionTheorems, TLAPS

\* The map holds exactly the promises on the root list (notify).
LEMMA KeysAreRooted ==
    ASSUME TypeOK, IndexInverse
    PROVE  Keys = Rooted
BY DEF TypeOK, IndexInverse, Keys, Rooted

\* indices.count() is the length of the root list (notify).
LEMMA KeysCount ==
    ASSUME TypeOK, IndexInverse
    PROVE  Cardinality(Keys) = Len(handles)
<1>1. Len(handles) \in Nat
    BY DEF TypeOK
<1>2. /\ IsFiniteSet(1 .. Len(handles))
      /\ Cardinality(1 .. Len(handles)) = Len(handles)
  <2>1. 1 \in Int /\ Len(handles) \in Int
      BY <1>1
  <2>2. /\ IsFiniteSet(1 .. Len(handles))
        /\ Cardinality(1 .. Len(handles)) =
               IF 1 > Len(handles) THEN 0 ELSE Len(handles) - 1 + 1
      BY <2>1, FS_Interval, Zenon
  <2>3. QED
      BY <1>1, <2>2
<1> DEFINE place == [i \in 1 .. Len(handles) |-> handles[i]]
<1>3. place \in Bijection(1 .. Len(handles), Rooted)
  <2>1. place \in [1 .. Len(handles) -> Rooted]
      BY DEF Rooted
  <2>2. ASSUME NEW i \in 1 .. Len(handles), NEW j \in 1 .. Len(handles),
               place[i] = place[j]
        PROVE  i = j
      BY <2>2 DEF IndexInverse
  <2>3. \A p \in Rooted : \E i \in 1 .. Len(handles) : place[i] = p
      BY DEF Rooted
  <2>4. QED
      BY <2>1, <2>2, <2>3 DEF Bijection, Injection, Surjection, IsInjective
<1>4. ExistsBijection(1 .. Len(handles), Rooted)
    BY <1>3 DEF ExistsBijection
<1>5. QED
    BY <1>2, <1>4, FS_Bijection, KeysAreRooted

-----------------------------------------------------------------------------
(* What one notification does to a good store.                             *)

\* The part of the invariant about the store alone.
StoreInv ==
    /\ handles \in Seq(Promises)
    /\ indices \in [Promises -> Nat]
    /\ failure \in {"none", "out_of_memory", "capacity_exceeded"}
    /\ IndexInverse
    /\ WithinLimit

\* A rejection is rooted, or the store fails; nothing is unrooted
\* (notify, .reject).
LEMMA RejectStep ==
    ASSUME TypeOK, IndexInverse, WithinLimit,
           NEW p \in Promises, NotifyReject(p)
    PROVE  /\ StoreInv'
           /\ Rooted \subseteq Rooted'
           /\ Rooted' \subseteq Rooted \cup {p}
           /\ failure' = "none" => failure = "none" /\ p \in Rooted'
<1>1. CASE UNCHANGED storeVars /\ (failure # "none" \/ p \in Keys)
    BY <1>1, KeysAreRooted
    DEF TypeOK, StoreInv, storeVars, IndexInverse, WithinLimit, Keys, Rooted
<1>2. CASE UNCHANGED <<handles, indices>>
           /\ failure' \in {"capacity_exceeded", "out_of_memory"}
    BY <1>2
    DEF TypeOK, StoreInv, IndexInverse, WithinLimit, Keys, Rooted
<1>3. CASE /\ p \notin Keys /\ ~Full /\ failure = "none"
           /\ handles' = Append(handles, p)
           /\ indices' = [indices EXCEPT ![p] = Len(handles) + 1]
           /\ UNCHANGED failure
  <2>1. /\ handles' \in Seq(Promises)
        /\ Len(handles') = Len(handles) + 1
        /\ Len(handles) \in Nat
        /\ \A i \in 1 .. Len(handles) : handles'[i] = handles[i]
        /\ handles'[Len(handles) + 1] = p
      BY <1>3 DEF TypeOK
  <2>2. indices' \in [Promises -> Nat]
      BY <1>3, <2>1 DEF TypeOK
  <2>3. IndexInverse'
    <3>1. ASSUME NEW q \in Keys'
          PROVE  indices'[q] <= Len(handles') /\ handles'[indices'[q]] = q
      <4>1. CASE q = p
          BY <1>3, <2>1, <4>1 DEF TypeOK, Keys
      <4>2. CASE q # p
        <5>1. q \in Keys /\ indices'[q] = indices[q]
            BY <1>3, <4>2 DEF TypeOK, Keys
        <5>2. indices[q] \in 1 .. Len(handles) /\ handles[indices[q]] = q
            BY <5>1 DEF TypeOK, IndexInverse, Keys
        <5>3. QED
            BY <5>1, <5>2, <2>1
      <4>3. QED
          BY <4>1, <4>2
    <3>2. ASSUME NEW i \in 1 .. Len(handles')
          PROVE  indices'[handles'[i]] = i
      <4>1. CASE i = Len(handles) + 1
          BY <1>3, <2>1, <4>1 DEF TypeOK
      <4>2. CASE i # Len(handles) + 1
        <5>1. i \in 1 .. Len(handles)
            BY <2>1, <4>2
        <5>2. handles[i] \in Keys /\ handles[i] \in Promises
            BY <5>1, KeysAreRooted DEF Rooted, TypeOK
        <5>3. indices'[handles[i]] = indices[handles[i]]
            BY <1>3, <5>2 DEF TypeOK
        <5>4. QED
            BY <5>1, <5>3, <2>1 DEF IndexInverse
      <4>3. QED
          BY <4>1, <4>2
    <3>3. QED
        BY <3>1, <3>2 DEF IndexInverse
  <2>4. WithinLimit'
      BY <1>3, <2>1, KeysCount, LimitAssumption DEF WithinLimit, Full
  <2>5. Rooted' = Rooted \cup {p}
      BY <2>1 DEF Rooted
  <2>6. QED
      BY <1>3, <2>1, <2>2, <2>3, <2>4, <2>5 DEF StoreInv, TypeOK
<1>4. QED
    BY <1>1, <1>2, <1>3 DEF NotifyReject, Fail

\* Handling a rooted promise unroots it and nothing else, wherever in the
\* list it was (notify, .handle).
LEMMA HandleStep ==
    ASSUME TypeOK, IndexInverse, WithinLimit,
           NEW p \in Promises, NotifyHandle(p)
    PROVE  /\ StoreInv'
           /\ Rooted' = Rooted \ {p}
           /\ UNCHANGED failure
<1>1. CASE p \notin Keys
    BY <1>1, KeysAreRooted
    DEF NotifyHandle, Releases, TypeOK, StoreInv, storeVars, IndexInverse,
        WithinLimit, Keys, Rooted
<1>2. CASE p \in Keys
  <2> DEFINE n == Len(handles)
             i == indices[p]
             last == handles[n]
  <2>1. /\ n \in Nat /\ i \in 1 .. n /\ handles[i] = p
        /\ last \in Promises /\ indices[last] = n
      BY <1>2 DEF TypeOK, IndexInverse, Keys
  <2>2. /\ handles' = [k \in 1 .. n - 1 |-> IF k = i THEN last ELSE handles[k]]
        /\ indices' = [q \in Promises |-> IF q = p THEN 0
                                          ELSE IF q = last THEN i
                                          ELSE indices[q]]
        /\ UNCHANGED failure
      BY <1>2 DEF NotifyHandle, Releases, SwapRemove, Reindex
  <2>3. /\ handles' \in Seq(Promises)
        /\ Len(handles') = n - 1
    <3>1. \A k \in 1 .. n - 1 : handles[k] \in Promises
        BY <2>1 DEF TypeOK
    <3>2. n - 1 \in Nat /\ handles' \in [1 .. n - 1 -> Promises]
        BY <2>1, <2>2, <3>1
    <3>3. QED
        BY <3>2
  <2>4. indices' \in [Promises -> Nat]
      BY <2>1, <2>2 DEF TypeOK
  <2>5. IndexInverse'
    <3>1. ASSUME NEW q \in Keys'
          PROVE  indices'[q] <= Len(handles') /\ handles'[indices'[q]] = q
      <4>1. q \in Promises /\ q # p
          BY <2>2 DEF Keys
      <4>2. CASE q = last
        <5>1. i # n /\ indices'[q] = i
            BY <2>1, <2>2, <4>1, <4>2
        <5>2. QED
            BY <2>1, <2>2, <2>3, <4>2, <5>1
      <4>3. CASE q # last
        <5>1. indices'[q] = indices[q] /\ q \in Keys
            BY <2>2, <4>1, <4>3 DEF Keys
        <5>2. indices[q] \in 1 .. n /\ handles[indices[q]] = q
            BY <5>1 DEF TypeOK, IndexInverse, Keys
        <5>3. indices[q] # n /\ indices[q] # i
            BY <5>2, <4>1, <4>3, <2>1
        <5>4. QED
            BY <2>1, <2>2, <2>3, <5>1, <5>2, <5>3
      <4>4. QED
          BY <4>2, <4>3
    <3>2. ASSUME NEW k \in 1 .. Len(handles')
          PROVE  indices'[handles'[k]] = k
      <4>1. k \in 1 .. n - 1 /\ k \in 1 .. n
          BY <2>1, <2>3
      <4>2. CASE k = i
          BY <2>1, <2>2, <4>1, <4>2
      <4>3. CASE k # i
        <5>1. handles'[k] = handles[k] /\ indices[handles[k]] = k
            BY <2>2, <4>1, <4>3 DEF IndexInverse
        <5>2. handles[k] \in Promises /\ handles[k] # p /\ handles[k] # last
            BY <4>1, <4>3, <5>1, <2>1 DEF TypeOK
        <5>3. QED
            BY <2>2, <5>1, <5>2
      <4>4. QED
          BY <4>2, <4>3
    <3>3. QED
        BY <3>1, <3>2 DEF IndexInverse
  <2>6. WithinLimit'
      BY <2>1, <2>3, LimitAssumption DEF WithinLimit
  <2>7. Rooted' = Rooted \ {p}
    <3>1. Keys' = Keys \ {p}
        BY <1>2, <2>1, <2>2 DEF Keys
    <3>2. Rooted' = Keys'
      <4>1. Keys' \subseteq Rooted'
          BY <2>4, <2>5 DEF IndexInverse, Keys, Rooted
      <4>2. Rooted' \subseteq Keys'
          BY <2>3, <2>5 DEF IndexInverse, Keys, Rooted
      <4>3. QED
          BY <4>1, <4>2
    <3>3. QED
        BY <3>1, <3>2, KeysAreRooted
  <2>8. QED
      BY <2>2, <2>3, <2>4, <2>5, <2>6, <2>7 DEF StoreInv, TypeOK
<1>3. QED
    BY <1>1, <1>2

-----------------------------------------------------------------------------
(* The invariant.                                                          *)

\* An empty store is a good one (init, deinit).
LEMMA EmptyStore ==
    ASSUME handles = <<>>, indices = [p \in Promises |-> 0]
    PROVE  /\ handles \in Seq(Promises) /\ indices \in [Promises -> Nat]
           /\ Rooted = {} /\ IndexInverse /\ WithinLimit
<1>1. Len(handles) = 0 /\ 1 .. Len(handles) = {}
    OBVIOUS
<1>2. Keys = {} /\ Rooted = {}
    BY <1>1 DEF Keys, Rooted
<1>3. QED
    BY <1>1, <1>2, LimitAssumption DEF IndexInverse, WithinLimit

\* A new heap and no store (init).
LEMMA InvInit == Init => IInv
<1> SUFFICES ASSUME Init PROVE IInv
    OBVIOUS
<1>1. /\ handles \in Seq(Promises) /\ indices \in [Promises -> Nat]
      /\ Rooted = {} /\ IndexInverse /\ WithinLimit
    BY EmptyStore DEF Init
<1>2. Unhandled = {}
    BY DEF Init, Unhandled
<1>3. QED
    BY <1>1, <1>2
    DEF Init, IInv, TypeOK, NoMissedRejection, RootsAreUnhandled,
        DetachedIsFresh

\* A promise settles, rejected or not.
LEMMA SettleStep ==
    ASSUME IInv, NEW p \in Promises, NEW s \in {"fulfilled", "rejected"},
           settlePromise(p, s)
    PROVE  IInv'
<1>1. p \notin Rooted /\ p \notin Unhandled
    BY DEF IInv, settlePromise, RootsAreUnhandled, Unhandled
<1>2. /\ promise_state' = [promise_state EXCEPT ![p] = s]
      /\ UNCHANGED <<handled, installed>>
      /\ promise_state' \in [Promises -> {"pending", "fulfilled", "rejected"}]
    BY DEF IInv, TypeOK, settlePromise
<1>3. Unhandled' = IF Notifies(p, s) THEN Unhandled \cup {p} ELSE Unhandled
    BY <1>1, <1>2 DEF IInv, TypeOK, Unhandled, Notifies, settlePromise
<1>4. /\ unseen' \subseteq Promises
      /\ unseen \subseteq unseen'
      /\ Notifies(p, s) /\ ~installed => p \in unseen'
    BY DEF IInv, TypeOK, settlePromise, Notifies
<1>5. CASE Notifies(p, s) /\ installed
  <2>1. NotifyReject(p)
      BY <1>5 DEF settlePromise
  <2>2. /\ StoreInv'
        /\ Rooted \subseteq Rooted'
        /\ Rooted' \subseteq Rooted \cup {p}
        /\ failure' = "none" => failure = "none" /\ p \in Rooted'
      BY <2>1, RejectStep DEF IInv
  <2>3. QED
      BY <1>2, <1>3, <1>4, <1>5, <2>2
      DEF IInv, StoreInv, TypeOK, NoMissedRejection, RootsAreUnhandled,
          DetachedIsFresh
<1>6. CASE ~(Notifies(p, s) /\ installed)
  <2>1. UNCHANGED storeVars
      BY <1>6 DEF settlePromise
  <2>2. Rooted' = Rooted /\ IndexInverse' /\ WithinLimit'
      BY <2>1 DEF IInv, storeVars, Rooted, IndexInverse, WithinLimit, Keys
  <2>3. QED
      BY <1>2, <1>3, <1>4, <1>6, <2>1, <2>2
      DEF IInv, TypeOK, storeVars, NoMissedRejection, RootsAreUnhandled,
          DetachedIsFresh
<1>7. QED
    BY <1>5, <1>6

\* A promise gets its first handler.
LEMMA HandledStep ==
    ASSUME IInv, NEW p \in Promises, markPromiseHandled(p)
    PROVE  IInv'
<1>1. Unhandled' = Unhandled \ {p}
    BY DEF markPromiseHandled, Unhandled
<1>2. CASE promise_state[p] = "rejected" /\ installed
  <2>1. NotifyHandle(p)
      BY <1>2 DEF markPromiseHandled
  <2>2. StoreInv' /\ Rooted' = Rooted \ {p} /\ UNCHANGED failure
      BY <2>1, HandleStep DEF IInv
  <2>3. QED
      BY <1>1, <1>2, <2>2
      DEF IInv, StoreInv, TypeOK, NoMissedRejection, RootsAreUnhandled,
          DetachedIsFresh, markPromiseHandled
<1>3. CASE ~(promise_state[p] = "rejected" /\ installed)
  <2>1. UNCHANGED storeVars
      BY <1>3 DEF markPromiseHandled
  <2>2. Rooted' = Rooted /\ IndexInverse' /\ WithinLimit'
      BY <2>1 DEF IInv, storeVars, Rooted, IndexInverse, WithinLimit, Keys
  <2>3. p \notin Rooted
    <3>1. CASE promise_state[p] # "rejected"
        BY <3>1 DEF IInv, RootsAreUnhandled, Unhandled
    <3>2. CASE ~installed
        BY <3>2 DEF IInv, DetachedIsFresh, Rooted
    <3>3. QED
        BY <1>3, <3>1, <3>2
  <2>4. QED
      BY <1>1, <2>1, <2>2, <2>3
      DEF IInv, TypeOK, storeVars, NoMissedRejection, RootsAreUnhandled,
          DetachedIsFresh, markPromiseHandled
<1>4. QED
    BY <1>2, <1>3

\* The host attaches or detaches its store.
LEMMA HostStep ==
    ASSUME IInv, Install \/ Deinit
    PROVE  IInv'
<1>1. CASE Install
  <2>1. /\ UNCHANGED <<promiseVars, storeVars, unseen>>
        /\ installed' = TRUE /\ handles = <<>>
      BY <1>1 DEF IInv, Install, DetachedIsFresh
  <2>2. Rooted' = {} /\ Unhandled' = Unhandled /\ Rooted = {}
      BY <2>1 DEF promiseVars, storeVars, Rooted, Unhandled
  <2>3. TypeOK' /\ IndexInverse' /\ WithinLimit'
      BY <2>1
      DEF IInv, promiseVars, storeVars, TypeOK, IndexInverse, WithinLimit, Keys
  <2>4. Unhandled \subseteq unseen
      BY <1>1 DEF IInv, Install, DetachedIsFresh
  <2>5. QED
      BY <2>1, <2>2, <2>3, <2>4
      DEF IInv, NoMissedRejection, RootsAreUnhandled, DetachedIsFresh
<1>2. CASE Deinit
  <2>1. /\ UNCHANGED <<promise_state, handled>>
        /\ installed' = FALSE /\ failure' = "none"
        /\ handles' = <<>> /\ indices' = [p \in Promises |-> 0]
        /\ unseen' = unseen \cup Unhandled
      BY <1>2 DEF Deinit, promiseVars
  <2>2. /\ handles' \in Seq(Promises) /\ indices' \in [Promises -> Nat]
        /\ Rooted' = {} /\ IndexInverse' /\ WithinLimit'
    <3>1. Len(handles') = 0 /\ 1 .. Len(handles') = {}
        BY <2>1
    <3>2. Keys' = {} /\ Rooted' = {}
        BY <2>1, <3>1 DEF Keys, Rooted
    <3>3. QED
        BY <2>1, <3>1, <3>2, LimitAssumption DEF IndexInverse, WithinLimit
  <2>3. Unhandled' = Unhandled
      BY <2>1 DEF Unhandled
  <2>4. QED
      BY <2>1, <2>2, <2>3
      DEF IInv, TypeOK, NoMissedRejection, RootsAreUnhandled,
          DetachedIsFresh, Unhandled
<1>3. QED
    BY <1>1, <1>2

\* The collector frees what the store does not root, and the address is used
\* again.
LEMMA RecycleStep ==
    ASSUME IInv, NEW p \in Promises, Recycle(p)
    PROVE  IInv'
<1>1. UNCHANGED <<handles, indices, failure, installed>>
    BY DEF Recycle, storeVars
<1>2. Rooted' = Rooted /\ IndexInverse' /\ WithinLimit' /\ p \notin Rooted
    BY <1>1 DEF IInv, Recycle, Rooted, IndexInverse, WithinLimit, Keys
<1>3. /\ Unhandled' = Unhandled \ {p}
      /\ unseen' = unseen \ {p} /\ handled' = handled \ {p}
      /\ promise_state' \in [Promises -> {"pending", "fulfilled", "rejected"}]
    BY DEF IInv, TypeOK, Recycle, Unhandled
<1>4. QED
    BY <1>1, <1>2, <1>3
    DEF IInv, TypeOK, NoMissedRejection, RootsAreUnhandled, DetachedIsFresh

LEMMA StutterStep ==
    ASSUME IInv, UNCHANGED vars
    PROVE  IInv'
BY DEF IInv, vars, promiseVars, storeVars, TypeOK, IndexInverse,
       NoMissedRejection, RootsAreUnhandled, WithinLimit, DetachedIsFresh,
       Keys, Rooted, Unhandled

LEMMA InvNext == IInv /\ [Next]_vars => IInv'
<1> SUFFICES ASSUME IInv, [Next]_vars PROVE IInv'
    OBVIOUS
<1>1. ASSUME NEW p \in Promises, NEW s \in {"fulfilled", "rejected"},
             settlePromise(p, s)
      PROVE  IInv'
    BY <1>1, SettleStep
<1>2. ASSUME NEW p \in Promises, markPromiseHandled(p)
      PROVE  IInv'
    BY <1>2, HandledStep
<1>3. ASSUME NEW p \in Promises, Recycle(p)
      PROVE  IInv'
    BY <1>3, RecycleStep
<1>4. CASE Install \/ Deinit
    BY <1>4, HostStep
<1>5. CASE UNCHANGED vars
    BY <1>5, StutterStep
<1>6. QED
    BY <1>1, <1>2, <1>3, <1>4, <1>5 DEF Next

\* The store's invariant: types, the map and the list in step, nothing
\* missed, nothing pinned beyond need, the limit kept.
THEOREM Invariance == Spec => []IInv
<1>1. Init => IInv
    BY InvInit
<1>2. IInv /\ [Next]_vars => IInv'
    BY InvNext
<1>3. QED
    BY <1>1, <1>2, PTL DEF Spec

\* Every unhandled rejection a working store was told of is on its list
\* (PendingPromiseRejections.values).
THEOREM NothingMissed == Spec => []NoMissedRejection
<1>1. IInv => NoMissedRejection
    BY DEF IInv
<1>2. QED
    BY <1>1, Invariance, PTL

\* The map's places are right after any run of swap removals (notify).
THEOREM MapMatchesList == Spec => []IndexInverse
<1>1. IInv => IndexInverse
    BY DEF IInv
<1>2. QED
    BY <1>1, Invariance, PTL

\* No step drops a promise from the root list while it is unhandled and the
\* store attached, a failed store's included.
THEOREM NothingDropped == Spec => ReleasedOnlyWhenHandled
<1>1. ASSUME IInv, Next
      PROVE  Rooted \ Rooted' \subseteq handled' \/ ~installed'
  <2>1. ASSUME NEW p \in Promises, NEW s \in {"fulfilled", "rejected"},
               settlePromise(p, s)
        PROVE  Rooted \subseteq Rooted'
    <3>1. CASE UNCHANGED storeVars
        BY <3>1 DEF storeVars, Rooted
    <3>2. CASE NotifyReject(p)
        BY <1>1, <3>2, RejectStep DEF IInv
    <3>3. QED
        BY <2>1, <3>1, <3>2 DEF settlePromise
  <2>2. ASSUME NEW p \in Promises, markPromiseHandled(p)
        PROVE  Rooted \ Rooted' \subseteq handled'
    <3>1. p \in handled'
        BY <2>2 DEF markPromiseHandled
    <3>2. CASE UNCHANGED storeVars
        BY <3>2 DEF storeVars, Rooted
    <3>3. CASE NotifyHandle(p)
        BY <1>1, <3>1, <3>3, HandleStep DEF IInv
    <3>4. QED
        BY <2>2, <3>2, <3>3 DEF markPromiseHandled
  <2>3. ASSUME NEW p \in Promises, Recycle(p)
        PROVE  Rooted \subseteq Rooted'
      BY <2>3 DEF Recycle, storeVars, Rooted
  <2>4. CASE Install
      BY <2>4 DEF Install, storeVars, Rooted
  <2>5. CASE Deinit
      BY <2>5 DEF Deinit
  <2>6. QED
      BY <1>1, <2>1, <2>2, <2>3, <2>4, <2>5 DEF Next
<1>2. IInv /\ [Next]_vars
          => [Rooted \ Rooted' \subseteq handled' \/ ~installed']_vars
    BY <1>1
<1>3. QED
    BY <1>2, Invariance, PTL DEF Spec, ReleasedOnlyWhenHandled
=============================================================================
