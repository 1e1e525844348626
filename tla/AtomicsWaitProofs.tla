--------------------------- MODULE AtomicsWaitProofs ---------------------------
(***************************************************************************)
(* Proofs of the invariants of AtomicsWait: any finite set of agents, any  *)
(* nodes, indices, values and counts, any number of objects per agent, and *)
(* collectors that sweep or do not.                                        *)
(*                                                                         *)
(* That a change is never missed rests on the lock: an agent between its   *)
(* compare and its link holds it, so no notify runs there, and a store     *)
(* that does marks its index.  That the list holds live nodes only rests   *)
(* on the agents' pending lists: a waitAsync node is let go by the agent   *)
(* that linked it, once, and then it is on no pending list.  That the      *)
(* block outlives the waits rests on counting: the reference count is the  *)
(* number of objects over all agents.                                      *)
(*                                                                         *)
(* That it implements WaiterList rests on how the order of the list        *)
(* changes, and on counting the first places a notify takes.               *)
(***************************************************************************)
EXTENDS AtomicsWait, FiniteSetTheorems, SequenceTheorems, TLAPS

-----------------------------------------------------------------------------
(* Sequences without repetitions.                                          *)

\* What is left of a sequence when place k goes (pending_async_waits.orderedRemove).
LEMMA RemoveAtProps ==
    ASSUME NEW S, NEW s \in Seq(S), NEW k \in 1 .. Len(s)
    PROVE  /\ RemoveAt(s, k) \in Seq(S)
           /\ Len(RemoveAt(s, k)) = Len(s) - 1
           /\ \A i \in 1 .. Len(s) - 1 :
                RemoveAt(s, k)[i] = IF i < k THEN s[i] ELSE s[i + 1]
<1> DEFINE u == SubSeq(s, 1, k - 1)
           v == SubSeq(s, k + 1, Len(s))
<1>1. Len(s) \in Nat /\ \A i \in 1 .. Len(s) : s[i] \in S
  BY LenProperties, ElementOfSeq
<1>2. /\ u \in Seq(S) /\ Len(u) = k - 1
      /\ \A i \in 1 .. k - 1 : u[i] = s[i]
  BY <1>1, SubSeqProperties, SMT
<1>3. /\ v \in Seq(S) /\ Len(v) = Len(s) - k
      /\ \A i \in 1 .. Len(s) - k : v[i] = s[k + i]
  BY <1>1, SubSeqProperties, SMT
<1>4. RemoveAt(s, k) = u \o v
  BY DEF RemoveAt
<1> HIDE DEF u, v
<1>5. /\ u \o v \in Seq(S)
      /\ Len(u \o v) = Len(u) + Len(v)
      /\ \A i \in 1 .. Len(u) + Len(v) :
           (u \o v)[i] = IF i <= Len(u) THEN u[i] ELSE v[i - Len(u)]
  BY <1>2, <1>3, ConcatProperties
<1>6. \A i \in 1 .. Len(s) - 1 :
         (u \o v)[i] = IF i < k THEN s[i] ELSE s[i + 1]
  <2>1. ASSUME NEW i \in 1 .. Len(s) - 1, i < k
        PROVE  (u \o v)[i] = s[i]
    BY <1>1, <1>2, <1>3, <1>5, <2>1
  <2>2. ASSUME NEW i \in 1 .. Len(s) - 1, ~(i < k)
        PROVE  (u \o v)[i] = s[i + 1]
    <3>1. (u \o v)[i] = v[i - (k - 1)]
      BY <1>1, <1>2, <1>3, <1>5, <2>2
    <3>2. /\ i - (k - 1) \in 1 .. Len(s) - k
          /\ k + (i - (k - 1)) = i + 1
      BY <1>1, <2>2
    <3>3. v[i - (k - 1)] = s[k + (i - (k - 1))]
      BY <1>3, <3>2
    <3> QED
      BY <3>1, <3>2, <3>3
  <2> QED
    BY <2>1, <2>2
<1> QED
  BY <1>1, <1>2, <1>3, <1>4, <1>5, <1>6

\* Without repetitions, exactly the element at place k goes.
LEMMA RemoveAtInjective ==
    ASSUME NEW S, NEW s \in Seq(S), NEW k \in 1 .. Len(s), IsInjective(s)
    PROVE  /\ IsInjective(RemoveAt(s, k))
           /\ ToSet(RemoveAt(s, k)) = ToSet(s) \ {s[k]}
<1> DEFINE r == RemoveAt(s, k)
<1>1. /\ r \in Seq(S)
      /\ Len(r) = Len(s) - 1
      /\ \A i \in 1 .. Len(s) - 1 : r[i] = IF i < k THEN s[i] ELSE s[i + 1]
  BY RemoveAtProps
<1>2. Len(s) \in Nat /\ DOMAIN s = 1 .. Len(s)
  BY LenProperties
<1>3. DOMAIN r = 1 .. Len(s) - 1
  BY <1>1, LenProperties
<1> HIDE DEF r
<1>4. \A i, j \in 1 .. Len(s) : s[i] = s[j] => i = j
  BY <1>2 DEF IsInjective
<1>5. \A i \in 1 .. Len(s) - 1 : \E j \in (1 .. Len(s)) \ {k} :
         r[i] = s[j] /\ j = IF i < k THEN i ELSE i + 1
  BY <1>1, <1>2
<1>6. \A j \in (1 .. Len(s)) \ {k} : \E i \in 1 .. Len(s) - 1 : r[i] = s[j]
  <2>1. ASSUME NEW j \in (1 .. Len(s)) \ {k}
        PROVE  \E i \in 1 .. Len(s) - 1 : r[i] = s[j]
    <3>1. CASE j < k
      BY <1>1, <1>2, <3>1
    <3>2. CASE j > k
      <4>1. j - 1 \in 1 .. Len(s) - 1 /\ ~(j - 1 < k) /\ (j - 1) + 1 = j
        BY <1>2, <3>2
      <4> QED
        BY <1>1, <4>1
    <3> QED
      BY <1>2, <3>1, <3>2
  <2> QED
    BY <2>1
<1>7. IsInjective(r)
  <2>1. ASSUME NEW i \in 1 .. Len(s) - 1, NEW j \in 1 .. Len(s) - 1, r[i] = r[j]
        PROVE  i = j
    BY <1>2, <1>4, <1>5, <2>1
  <2> QED
    BY <1>3, <2>1 DEF IsInjective
<1>8. ToSet(r) = ToSet(s) \ {s[k]}
  <2>1. ASSUME NEW x \in ToSet(r) PROVE x \in ToSet(s) \ {s[k]}
    BY <1>2, <1>3, <1>4, <1>5 DEF ToSet
  <2>2. ASSUME NEW x \in ToSet(s) \ {s[k]} PROVE x \in ToSet(r)
    BY <1>2, <1>3, <1>6 DEF ToSet
  <2> QED
    BY <2>1, <2>2
<1> QED
  BY <1>7, <1>8 DEF r

\* A node on the list once is unlinked at its place (removeWaiter).
LEMMA RemoveFirstAt ==
    ASSUME NEW S, NEW s \in Seq(S), NEW n, IsInjective(s),
           NEW k \in 1 .. Len(s), s[k] = n
    PROVE  RemoveFirst(s, n) = RemoveAt(s, k)
<1> DEFINE I == {i \in 1 .. Len(s) : s[i] = n}
<1>1. Len(s) \in Nat /\ DOMAIN s = 1 .. Len(s)
  BY LenProperties
<1>2. I = {k}
  BY <1>1 DEF IsInjective
<1>3. Min(I) = k
  <2>1. \A x : x \in {k} /\ (\A y \in {k} : x <= y) <=> x = k
    BY <1>1
  <2>2. (CHOOSE x \in {k} : \A y \in {k} : x <= y) = k
    BY <2>1
  <2> QED
    BY <1>2, <2>2 DEF Min
<1>4. \E i \in 1 .. Len(s) : s[i] = n
  OBVIOUS
<1>5. SelectInSeq(s, LAMBDA v : v = n) = Min(I)
  BY <1>2 DEF SelectInSeq
<1> QED
  BY <1>3, <1>4, <1>5 DEF RemoveFirst

\* Unlinking a node that is on the list once takes it off; one that is not on
\* it leaves the list alone (removeWaiter).
LEMMA RemoveFirstProps ==
    ASSUME NEW S, NEW s \in Seq(S), NEW n, IsInjective(s)
    PROVE  /\ RemoveFirst(s, n) \in Seq(S)
           /\ IsInjective(RemoveFirst(s, n))
           /\ ToSet(RemoveFirst(s, n)) = ToSet(s) \ {n}
<1>1. Len(s) \in Nat /\ DOMAIN s = 1 .. Len(s)
  BY LenProperties
<1>2. ASSUME NEW k \in 1 .. Len(s), s[k] = n
      PROVE  /\ RemoveFirst(s, n) \in Seq(S)
             /\ IsInjective(RemoveFirst(s, n))
             /\ ToSet(RemoveFirst(s, n)) = ToSet(s) \ {n}
  BY <1>2, RemoveFirstAt, RemoveAtProps, RemoveAtInjective
<1>3. CASE ~ \E k \in 1 .. Len(s) : s[k] = n
  <2>1. RemoveFirst(s, n) = s
    BY <1>3 DEF RemoveFirst
  <2>2. ToSet(s) = ToSet(s) \ {n}
    BY <1>1, <1>3 DEF ToSet
  <2> QED
    BY <2>1, <2>2
<1> QED
  BY <1>2, <1>3

\* Linking a node that is not on the list keeps the list free of repetitions.
LEMMA AppendInjectiveSeq ==
    ASSUME NEW S, NEW s \in Seq(S), NEW n \in S, IsInjective(s), n \notin ToSet(s)
    PROVE  /\ Append(s, n) \in Seq(S)
           /\ IsInjective(Append(s, n))
           /\ ToSet(Append(s, n)) = ToSet(s) \cup {n}
<1> DEFINE r == Append(s, n)
<1>1. Len(s) \in Nat /\ DOMAIN s = 1 .. Len(s)
  BY LenProperties
<1>2. /\ r \in Seq(S) /\ Len(r) = Len(s) + 1
      /\ \A i \in 1 .. Len(s) : r[i] = s[i]
      /\ r[Len(s) + 1] = n
  BY AppendProperties
<1>3. DOMAIN r = 1 .. Len(s) + 1
  BY <1>2, LenProperties
<1> HIDE DEF r
<1>4. \A i \in 1 .. Len(s) : s[i] # n
  BY <1>1 DEF ToSet
<1>5. \A i, j \in 1 .. Len(s) : s[i] = s[j] => i = j
  BY <1>1 DEF IsInjective
<1>6. IsInjective(r)
  <2>1. ASSUME NEW i \in 1 .. Len(s) + 1, NEW j \in 1 .. Len(s) + 1, r[i] = r[j]
        PROVE  i = j
    BY <1>1, <1>2, <1>4, <1>5, <2>1
  <2> QED
    BY <1>3, <2>1 DEF IsInjective
<1>7. ToSet(r) = ToSet(s) \cup {n}
  <2>1. ASSUME NEW x \in ToSet(r) PROVE x \in ToSet(s) \cup {n}
    <3> PICK i \in 1 .. Len(s) + 1 : x = r[i]
      BY <1>3 DEF ToSet
    <3> QED
      BY <1>1, <1>2 DEF ToSet
  <2>2. ASSUME NEW x \in ToSet(s) \cup {n} PROVE x \in ToSet(r)
    BY <1>1, <1>2, <1>3 DEF ToSet
  <2> QED
    BY <2>1, <2>2
<1> QED
  BY <1>2, <1>6, <1>7 DEF r
-----------------------------------------------------------------------------
(* The invariant.                                                          *)

\* The objects over the block, numbered in each agent.
HoldersOf(o) == {h \in Agents \X (1 .. MaxObjects) : h[2] <= o[h[1]]}

\* Agents whose node carries the wait they are making.
Waiting(a) == pc[a] \in {"linking", "parked", "arming"}

\* The lock is held by the one agent between its compare and its link.
LockInv ==
    \A a \in Agents : pc[a] = "linking" =>
        /\ wait_lock
        /\ \A b \in Agents : pc[b] = "linking" => b = a

\* Each of these nodes is its agent's own.
WaitInv ==
    \A a \in Agents : Waiting(a) => wait[a] # NoWait /\ wait[a].agent = a

\* A pending list holds nodes in use that its agent linked, each once.
PendingInv ==
    \A a \in Agents :
        /\ pc[a] = "firing" => cursor[a] > 0
        /\ IsInjective(pending[a])
        /\ \A n \in ToSet(pending[a]) : wait[n] # NoWait /\ wait[n].agent = a

\* The comparison may be trusted at the link as it is on the list.
ChangeInv ==
    /\ NoLostWakeup
    /\ \A a \in Agents : pc[a] = "linking" => Unheard(a)

\* The count is exact, and an agent inside an operation has an object.
BlockInv ==
    /\ refcount = Cardinality(HoldersOf(objects))
    /\ \A a \in Agents : Waiting(a) \/ pc[a] = "enrolling" => objects[a] > 0

\* The inductive invariant.
WaitListInv ==
    /\ TypeOK /\ LockInv /\ WaitInv /\ NoDeadNode
    /\ PendingInv /\ ChangeInv /\ BlockInv

-----------------------------------------------------------------------------
(* The reference count.                                                    *)

\* The objects are finitely many.
LEMMA HoldersFinite ==
    ASSUME NEW o
    PROVE  IsFiniteSet(HoldersOf(o)) /\ Cardinality(HoldersOf(o)) \in Nat
<1>1. IsFiniteSet(1 .. MaxObjects)
  BY FS_Interval, MaxObjectsAssumption
<1>2. IsFiniteSet(Agents \X (1 .. MaxObjects))
  BY <1>1, AgentsAssumption, FS_Product
<1>3. HoldersOf(o) \in SUBSET (Agents \X (1 .. MaxObjects))
  BY DEF HoldersOf
<1>4. IsFiniteSet(HoldersOf(o))
  BY <1>2, <1>3, FS_Subset
<1> QED
  BY <1>4, FS_CardinalityType

\* One more object is one more holder (retain).
LEMMA HoldersGrow ==
    ASSUME NEW o \in [Agents -> 0 .. MaxObjects], NEW b \in Agents,
           o[b] < MaxObjects
    PROVE  Cardinality(HoldersOf([o EXCEPT ![b] = @ + 1]))
             = Cardinality(HoldersOf(o)) + 1
<1> DEFINE x == <<b, o[b] + 1>>
           p == [o EXCEPT ![b] = @ + 1]
<1>1. o[b] + 1 \in 1 .. MaxObjects /\ o[b] \in Nat
  BY MaxObjectsAssumption
<1>2. x \notin HoldersOf(o)
  BY <1>1 DEF HoldersOf
<1>3. \A h \in Agents \X (1 .. MaxObjects) :
         h[2] <= p[h[1]] <=> h[2] <= o[h[1]] \/ h = x
  <2>1. ASSUME NEW c \in Agents, NEW i \in 1 .. MaxObjects
        PROVE  i <= p[c] <=> i <= o[c] \/ (c = b /\ i = o[b] + 1)
    BY <1>1, MaxObjectsAssumption
  <2> QED
    BY <2>1
<1>4. HoldersOf(p) = HoldersOf(o) \cup {x}
  <2>1. x \in Agents \X (1 .. MaxObjects)
    BY <1>1
  <2> QED
    BY <1>3, <2>1 DEF HoldersOf
<1> HIDE DEF x, p
<1>5. Cardinality(HoldersOf(p)) = Cardinality(HoldersOf(o)) + 1
  BY <1>2, <1>4, HoldersFinite, FS_AddElement
<1> QED
  BY <1>5 DEF p

\* One object less is one holder less (release).
LEMMA HoldersShrink ==
    ASSUME NEW o \in [Agents -> 0 .. MaxObjects], NEW b \in Agents, o[b] > 0
    PROVE  /\ Cardinality(HoldersOf([o EXCEPT ![b] = @ - 1]))
                = Cardinality(HoldersOf(o)) - 1
<1> DEFINE p == [o EXCEPT ![b] = @ - 1]
<1>1. p \in [Agents -> 0 .. MaxObjects] /\ p[b] = o[b] - 1
  BY MaxObjectsAssumption
<1>2. p[b] < MaxObjects
  BY <1>1, MaxObjectsAssumption
<1>3. [p EXCEPT ![b] = @ + 1] = o
  <2> DEFINE q == [p EXCEPT ![b] = @ + 1]
  <2>1. DOMAIN q = Agents /\ q = [c \in Agents |-> q[c]]
    BY <1>1
  <2>2. \A c \in Agents : q[c] = o[c]
    <3>1. (o[b] - 1) + 1 = o[b]
      BY MaxObjectsAssumption
    <3>2. \A c \in Agents \ {b} : p[c] = o[c]
      OBVIOUS
    <3> QED
      BY <1>1, <3>1, <3>2
  <2>3. o = [c \in Agents |-> o[c]]
    OBVIOUS
  <2> HIDE DEF q
  <2>4. [c \in Agents |-> q[c]] = [c \in Agents |-> o[c]]
    BY <2>2
  <2>5. q = o
    BY <2>1, <2>3, <2>4
  <2> QED
    BY <2>5 DEF q
<1> HIDE DEF p
<1>4. Cardinality(HoldersOf(o)) = Cardinality(HoldersOf(p)) + 1
  BY <1>1, <1>2, <1>3, HoldersGrow
<1>5. Cardinality(HoldersOf(p)) \in Nat
  BY HoldersFinite
<1>6. Cardinality(HoldersOf(p)) = Cardinality(HoldersOf(o)) - 1
  BY <1>4, <1>5
<1> QED
  BY <1>6 DEF p

\* All of an agent's objects go with its heap.
LEMMA HoldersClear ==
    ASSUME NEW o \in [Agents -> 0 .. MaxObjects], NEW b \in Agents
    PROVE  Cardinality(HoldersOf([o EXCEPT ![b] = 0]))
             = Cardinality(HoldersOf(o)) - o[b]
<1> DEFINE p == [o EXCEPT ![b] = 0]
           own == {b} \X (1 .. o[b])
<1>1. o[b] \in Nat /\ o[b] <= MaxObjects
  BY MaxObjectsAssumption
<1>2. HoldersOf(p) = HoldersOf(o) \ own
  <2>1. ASSUME NEW c \in Agents, NEW i \in 1 .. MaxObjects
        PROVE  i <= p[c] <=> i <= o[c] /\ ~(c = b /\ i \in 1 .. o[b])
    BY <1>1, MaxObjectsAssumption
  <2> QED
    BY <2>1 DEF HoldersOf
<1>3. HoldersOf(o) \cap own = own
  BY <1>1, MaxObjectsAssumption DEF HoldersOf
<1>4. Cardinality(own) = o[b]
  <2>1. IsFiniteSet(1 .. o[b]) /\ Cardinality(1 .. o[b]) = o[b]
    BY <1>1, FS_Interval
  <2>2. IsFiniteSet({b}) /\ Cardinality({b}) = 1
    BY FS_Singleton
  <2>3. Cardinality(own) = Cardinality({b}) * Cardinality(1 .. o[b])
    BY <2>1, <2>2, FS_Product
  <2> QED
    BY <2>1, <2>2, <2>3, <1>1
<1> HIDE DEF p, own
<1>5. Cardinality(HoldersOf(o) \ own)
        = Cardinality(HoldersOf(o)) - Cardinality(HoldersOf(o) \cap own)
  BY HoldersFinite, FS_Difference
<1>6. Cardinality(HoldersOf(p)) = Cardinality(HoldersOf(o)) - o[b]
  BY <1>2, <1>3, <1>4, <1>5
<1> QED
  BY <1>6 DEF p

\* An agent with an object is counted.
LEMMA HolderCounts ==
    ASSUME NEW o \in [Agents -> 0 .. MaxObjects], NEW b \in Agents, o[b] > 0
    PROVE  Cardinality(HoldersOf(o)) > 0
<1>1. <<b, 1>> \in HoldersOf(o)
  BY MaxObjectsAssumption DEF HoldersOf
<1>2. HoldersOf(o) # {}
  BY <1>1
<1> QED
  BY <1>2, HoldersFinite, FS_EmptySet

-----------------------------------------------------------------------------
(* The actions.                                                            *)

\* The invariant holds of a new block in one agent.
LEMMA InitHolds == Init => WaitListInv
<1> SUFFICES ASSUME Init PROVE WaitListInv
  OBVIOUS
<1>1. PICK a0 \in Agents : objects = [b \in Agents |-> IF b = a0 THEN 1 ELSE 0]
  BY DEF Init
<1>2. TypeOK
  <2>1. objects \in [Agents -> 0 .. MaxObjects] /\ refcount \in Nat
    BY <1>1, MaxObjectsAssumption DEF Init
  <2>2. <<>> \in Seq(Nodes) /\ <<>> \in Seq(AsyncNodes)
    BY EmptySeq
  <2>3. wait_list \in Seq(Nodes) /\ pending \in [Agents -> Seq(AsyncNodes)]
    BY <2>2 DEF Init
  <2>4. pc \in [Agents -> States] /\ cursor \in [Agents -> Nat]
    BY DEF Init, States
  <2>5. /\ mem \in [Positions -> Bits] /\ wait_lock \in BOOLEAN
        /\ wait \in [Nodes -> Requests \cup {NoWait}]
        /\ woken \subseteq Nodes /\ unannounced \subseteq Positions
        /\ queued \subseteq Agents
    BY BitsAssumption DEF Init
  <2> QED
    BY <2>1, <2>3, <2>4, <2>5 DEF TypeOK
<1>3. ToSet(<<>>) = {} /\ IsInjective(<<>>)
  BY DEF ToSet, IsInjective
<1>4. LockInv /\ WaitInv /\ NoDeadNode /\ PendingInv /\ ChangeInv
  <2>1. wait = [n \in Nodes |-> NoWait] /\ AsyncNodes \subseteq Nodes
    BY DEF Init, Nodes
  <2> QED
    BY <1>3, <2>1
       DEF Init, LockInv, WaitInv, NoDeadNode, PendingInv, ChangeInv, Waiting,
           NoLostWakeup
<1>5. BlockInv
  <2>1. HoldersOf(objects) = {<<a0, 1>>}
    <3>1. \A h \in Agents \X (1 .. MaxObjects) :
             h[2] <= objects[h[1]] <=> h = <<a0, 1>>
      <4>1. ASSUME NEW c \in Agents, NEW i \in 1 .. MaxObjects
            PROVE  i <= objects[c] <=> c = a0 /\ i = 1
        BY <1>1, MaxObjectsAssumption
      <4> QED
        BY <4>1
    <3> QED
      BY <3>1, MaxObjectsAssumption DEF HoldersOf
  <2>2. Cardinality(HoldersOf(objects)) = 1
    BY <2>1, FS_Singleton
  <2> QED
    BY <2>2 DEF BlockInv, Init, Waiting
<1> QED
  BY <1>2, <1>4, <1>5 DEF WaitListInv

\* What removeWaiter does to the list, the flags and the nodes.
LEMMA Unlink ==
    ASSUME WaitListInv, NEW n \in Nodes, removeWaiter(n)
    PROVE  /\ wait_list' \in Seq(Nodes)
           /\ IsInjective(wait_list')
           /\ ToSet(wait_list') = ToSet(wait_list) \ {n}
           /\ woken' \subseteq ToSet(wait_list') /\ woken' \subseteq Nodes
           /\ woken' = woken \ {n}
           /\ wait' \in [Nodes -> Requests \cup {NoWait}]
           /\ wait'[n] = NoWait
           /\ \A m \in Nodes \ {n} : wait'[m] = wait[m]
<1>1. /\ wait_list \in Seq(Nodes) /\ IsInjective(wait_list)
      /\ woken \subseteq ToSet(wait_list) /\ woken \subseteq Nodes
      /\ wait \in [Nodes -> Requests \cup {NoWait}]
  BY DEF WaitListInv, TypeOK, NoDeadNode
<1>2. /\ wait_list' = RemoveFirst(wait_list, n)
      /\ woken' = woken \ {n}
      /\ wait' = [wait EXCEPT ![n] = NoWait]
  BY DEF removeWaiter
<1>3. /\ wait_list' \in Seq(Nodes)
      /\ IsInjective(wait_list')
      /\ ToSet(wait_list') = ToSet(wait_list) \ {n}
  BY <1>1, <1>2, RemoveFirstProps
<1> QED
  BY <1>1, <1>2, <1>3

\* A store that changes an element marks its index.
LEMMA StoreStep ==
    ASSUME WaitListInv, NEW a \in Agents, NEW p \in Positions, NEW b \in Bits,
           Store(a, p, b)
    PROVE  WaitListInv'
<1> USE DEF WaitListInv, Store, Silent, listVars, agentVars, blockVars
<1>1. TypeOK'
  BY DEF TypeOK
<1>2. LockInv' /\ WaitInv' /\ PendingInv' /\ NoDeadNode' /\ BlockInv'
  BY DEF LockInv, WaitInv, PendingInv, NoDeadNode, BlockInv, Waiting, HoldersOf
<1>3. ASSUME NEW n, Unheard(n) PROVE Unheard(n)'
  BY <1>3 DEF Unheard, TypeOK
<1>4. ChangeInv'
  BY <1>3 DEF ChangeInv, NoLostWakeup
<1> QED
  BY <1>1, <1>2, <1>4

\* A notify that reaches every sleeper of its index unmarks it, and no agent is
\* between its compare and its link while it runs.
LEMMA NotifyStep ==
    ASSUME WaitListInv, NEW a \in Agents, NEW p \in Positions, NEW n \in Counts,
           Notify(a, p, n)
    PROVE  WaitListInv'
<1> USE DEF WaitListInv
<1>1. /\ ~wait_lock
      /\ woken' = woken \cup {wait_list[i] : i \in Oldest(p, n)}
      /\ unannounced' = IF Oldest(p, n) = Sleepers(p) THEN unannounced \ {p}
                                                       ELSE unannounced
      /\ UNCHANGED <<mem, wait_lock, wait_list, wait, pc, pending, cursor, queued,
                     objects, refcount>>
  BY DEF Notify, wakeWaiters, agentVars, blockVars
<1>2. Oldest(p, n) \subseteq DOMAIN wait_list
  BY DEF Oldest, Sleepers
<1>3. ToSet(wait_list) \subseteq Nodes
  BY LenProperties, ElementOfSeq DEF TypeOK, ToSet
<1>4. woken' \subseteq ToSet(wait_list)
  BY <1>1, <1>2 DEF NoDeadNode, ToSet
<1>5. TypeOK'
  BY <1>1, <1>3, <1>4 DEF TypeOK
<1>6. LockInv' /\ WaitInv' /\ PendingInv' /\ BlockInv'
  BY <1>1 DEF LockInv, WaitInv, PendingInv, BlockInv, Waiting, HoldersOf
<1>7. NoDeadNode'
  BY <1>1, <1>4 DEF NoDeadNode
<1>8. NoLostWakeup'
  <2> SUFFICES ASSUME NEW m \in (ToSet(wait_list) \cap Agents) \ woken'
               PROVE  Unheard(m)'
    BY <1>1 DEF NoLostWakeup
  <2>1. m \notin woken /\ Unheard(m)
    BY <1>1 DEF ChangeInv, NoLostWakeup
  <2>2. CASE Oldest(p, n) = Sleepers(p)
    <3>1. PICK i \in DOMAIN wait_list : wait_list[i] = m
      BY DEF ToSet
    <3>2. i \notin Oldest(p, n)
      BY <1>1, <3>1
    <3>3. wait[m].pos # p
      BY <2>1, <2>2, <3>1, <3>2 DEF Sleepers
    <3> QED
      BY <1>1, <2>1, <3>3 DEF Unheard
  <2>3. CASE Oldest(p, n) # Sleepers(p)
    BY <1>1, <2>1, <2>3 DEF Unheard
  <2> QED
    BY <2>2, <2>3
<1>9. ChangeInv'
  BY <1>1, <1>8 DEF ChangeInv, LockInv
<1> QED
  BY <1>5, <1>6, <1>7, <1>9

\* A refused call changes nothing.
LEMMA RefuseStep ==
    ASSUME WaitListInv, NEW r, Refuse(r)
    PROVE  WaitListInv'
  BY DEF WaitListInv, Refuse, listVars, agentVars, blockVars, TypeOK, LockInv, WaitInv,
         NoDeadNode, PendingInv, ChangeInv, NoLostWakeup, Unheard, BlockInv,
         Waiting, HoldersOf

\* The node of an agent that has not linked it is on no list.
LEMMA OwnNode ==
    ASSUME WaitListInv, NEW a \in Agents, pc[a] \in {"idle", "arming"}
    PROVE  /\ a \in Nodes /\ a \notin AsyncNodes
           /\ a \notin ToSet(wait_list)
           /\ \A b \in Agents : ToSet(pending[b]) \subseteq AsyncNodes
           /\ ToSet(wait_list) \subseteq Nodes
<1>1. a \in Nodes /\ a \notin AsyncNodes
  BY AgentsAreNotNodes DEF Nodes
<1>2. a \notin ToSet(wait_list)
  BY <1>1 DEF WaitListInv, NoDeadNode
<1>3. ASSUME NEW b \in Agents PROVE ToSet(pending[b]) \subseteq AsyncNodes
  <2>1. pending[b] \in Seq(AsyncNodes)
    BY DEF WaitListInv, TypeOK
  <2> QED
    BY <2>1, LenProperties, ElementOfSeq DEF ToSet
<1>4. ToSet(wait_list) \subseteq Nodes
  BY LenProperties, ElementOfSeq DEF WaitListInv, TypeOK, ToSet
<1> QED
  BY <1>1, <1>2, <1>3, <1>4

\* wait compares inside the lock.
LEMMA WaitCompareStep ==
    ASSUME WaitListInv, NEW a \in Agents, NEW p \in Positions, NEW b \in Bits,
           NEW t \in BOOLEAN, WaitCompare(a, p, b, t)
    PROVE  WaitListInv'
<1> DEFINE r == [pos |-> p, expected |-> b, timed |-> t, agent |-> a]
<1>1. /\ pc[a] = "idle" /\ objects[a] > 0 /\ ~wait_lock /\ mem[p] = b
      /\ wait_lock' = TRUE
      /\ wait' = [wait EXCEPT ![a] = r]
      /\ pc' = [pc EXCEPT ![a] = "linking"]
      /\ UNCHANGED <<mem, wait_list, woken, pending, cursor, queued, objects, refcount,
                     unannounced>>
  BY DEF WaitCompare, Ready, Idle, Goto, blockVars
<1>2. r \in Requests /\ r # NoWait /\ r.agent = a /\ r.pos = p /\ r.expected = b
  BY NoWaitAssumption DEF Requests
<1> HIDE DEF r
<1>3. /\ a \in Nodes /\ a \notin AsyncNodes /\ a \notin ToSet(wait_list)
      /\ \A c \in Agents : ToSet(pending[c]) \subseteq AsyncNodes
      /\ ToSet(wait_list) \subseteq Nodes
  BY <1>1, OwnNode
<1>4. /\ wait'[a] = r /\ \A m \in Nodes \ {a} : wait'[m] = wait[m]
      /\ pc'[a] = "linking" /\ \A c \in Agents \ {a} : pc'[c] = pc[c]
      /\ AsyncNodes \subseteq Nodes /\ Agents \subseteq Nodes
  BY <1>1, <1>3 DEF WaitListInv, TypeOK, Nodes
<1>5. TypeOK'
  BY <1>1, <1>2 DEF WaitListInv, TypeOK, States
<1>6. LockInv'
  BY <1>1, <1>4 DEF WaitListInv, LockInv
<1>7. WaitInv'
  BY <1>2, <1>4 DEF WaitListInv, WaitInv, Waiting
<1>8. PendingInv'
  BY <1>1, <1>3, <1>4 DEF WaitListInv, PendingInv
<1>9. NoDeadNode'
  BY <1>1, <1>3, <1>4 DEF WaitListInv, NoDeadNode
<1>10. ChangeInv'
  BY <1>1, <1>2, <1>3, <1>4 DEF WaitListInv, ChangeInv, NoLostWakeup, Unheard, LockInv
<1>11. BlockInv'
  BY <1>1, <1>4 DEF WaitListInv, BlockInv, Waiting, HoldersOf
<1> QED
  BY <1>5, <1>6, <1>7, <1>8, <1>9, <1>10, <1>11 DEF WaitListInv

\* waitAsync compares outside it.
LEMMA WaitAsyncCompareStep ==
    ASSUME WaitListInv, NEW a \in Agents, NEW p \in Positions, NEW b \in Bits,
           NEW t \in BOOLEAN, WaitAsyncCompare(a, p, b, t)
    PROVE  WaitListInv'
<1> DEFINE r == [pos |-> p, expected |-> b, timed |-> t, agent |-> a]
<1>1. /\ pc[a] = "idle" /\ objects[a] > 0
      /\ wait' = [wait EXCEPT ![a] = r]
      /\ pc' = [pc EXCEPT ![a] = "arming"]
      /\ UNCHANGED <<mem, wait_lock, wait_list, woken, pending, cursor, queued, objects,
                     refcount, unannounced>>
  BY DEF WaitAsyncCompare, Ready, Idle, Goto, blockVars
<1>2. r \in Requests /\ r # NoWait /\ r.agent = a
  BY NoWaitAssumption DEF Requests
<1> HIDE DEF r
<1>3. /\ a \in Nodes /\ a \notin AsyncNodes /\ a \notin ToSet(wait_list)
      /\ \A c \in Agents : ToSet(pending[c]) \subseteq AsyncNodes
      /\ ToSet(wait_list) \subseteq Nodes
  BY <1>1, OwnNode
<1>4. /\ wait'[a] = r /\ \A m \in Nodes \ {a} : wait'[m] = wait[m]
      /\ pc'[a] = "arming" /\ \A c \in Agents \ {a} : pc'[c] = pc[c]
      /\ AsyncNodes \subseteq Nodes /\ Agents \subseteq Nodes
  BY <1>1, <1>3 DEF WaitListInv, TypeOK, Nodes
<1>5. TypeOK'
  BY <1>1, <1>2 DEF WaitListInv, TypeOK, States
<1>6. LockInv' /\ WaitInv' /\ PendingInv' /\ NoDeadNode'
  BY <1>1, <1>2, <1>3, <1>4
     DEF WaitListInv, LockInv, WaitInv, PendingInv, NoDeadNode, Waiting
<1>7. ChangeInv'
  BY <1>1, <1>3, <1>4 DEF WaitListInv, ChangeInv, NoLostWakeup, Unheard
<1>8. BlockInv'
  BY <1>1, <1>4 DEF WaitListInv, BlockInv, Waiting, HoldersOf
<1> QED
  BY <1>5, <1>6, <1>7, <1>8 DEF WaitListInv

\* What the compare saw still holds, or the index is marked, at the link.
LEMMA WaitLinkStep ==
    ASSUME WaitListInv, NEW a \in Agents, WaitLink(a)
    PROVE  WaitListInv'
<1>1. /\ pc[a] = "linking"
      /\ wait_list' = Append(wait_list, a)
      /\ wait_lock' = FALSE
      /\ pc' = [pc EXCEPT ![a] = "parked"]
      /\ UNCHANGED <<mem, woken, wait, pending, cursor, queued, objects, refcount,
                     unannounced>>
  BY DEF WaitLink, addWaiter, Goto, blockVars
<1>2. a \in Nodes /\ a \notin AsyncNodes
  BY AgentsAreNotNodes DEF Nodes
<1>3. a \notin ToSet(wait_list)
  BY <1>1, <1>2 DEF WaitListInv, NoDeadNode
<1>4. /\ wait_list' \in Seq(Nodes) /\ IsInjective(wait_list')
      /\ ToSet(wait_list') = ToSet(wait_list) \cup {a}
  BY <1>1, <1>2, <1>3, AppendInjectiveSeq DEF WaitListInv, TypeOK, NoDeadNode
<1>5. pc'[a] = "parked" /\ \A c \in Agents \ {a} : pc'[c] = pc[c] /\ pc[c] # "linking"
  BY <1>1 DEF WaitListInv, TypeOK, LockInv
<1>6. TypeOK'
  BY <1>1, <1>4 DEF WaitListInv, TypeOK, States
<1>7. LockInv' /\ WaitInv' /\ PendingInv'
  BY <1>1, <1>5 DEF WaitListInv, LockInv, WaitInv, PendingInv, Waiting
<1>8. NoDeadNode'
  BY <1>1, <1>4, <1>5 DEF WaitListInv, NoDeadNode
<1>9. ChangeInv'
  BY <1>1, <1>4, <1>5 DEF WaitListInv, ChangeInv, NoLostWakeup, Unheard
<1>10. BlockInv'
  BY <1>1, <1>5 DEF WaitListInv, BlockInv, Waiting, HoldersOf
<1> QED
  BY <1>6, <1>7, <1>8, <1>9, <1>10 DEF WaitListInv

\* A wait that returns takes its node along.
LEMMA WaitReturnStep ==
    ASSUME WaitListInv, NEW a \in Agents, WaitReturn(a)
    PROVE  WaitListInv'
<1>1. /\ pc[a] = "parked" /\ removeWaiter(a)
      /\ pc' = [pc EXCEPT ![a] = "idle"]
      /\ UNCHANGED <<mem, wait_lock, pending, cursor, queued, objects, refcount,
                     unannounced>>
  BY DEF WaitReturn, Goto, blockVars
<1>2. /\ a \in Nodes /\ a \notin AsyncNodes
      /\ AsyncNodes \subseteq Nodes /\ Agents \subseteq Nodes
  BY AgentsAreNotNodes DEF Nodes
<1>3. /\ wait_list' \in Seq(Nodes) /\ IsInjective(wait_list')
      /\ ToSet(wait_list') = ToSet(wait_list) \ {a}
      /\ woken' \subseteq ToSet(wait_list') /\ woken' \subseteq Nodes
      /\ woken' = woken \ {a}
      /\ wait' \in [Nodes -> Requests \cup {NoWait}]
      /\ wait'[a] = NoWait
      /\ \A m \in Nodes \ {a} : wait'[m] = wait[m]
  BY <1>1, <1>2, Unlink
<1>4. pc'[a] = "idle" /\ \A c \in Agents \ {a} : pc'[c] = pc[c]
  BY <1>1 DEF WaitListInv, TypeOK
<1>5. TypeOK'
  BY <1>1, <1>3 DEF WaitListInv, TypeOK, States
<1>6. LockInv' /\ WaitInv'
  BY <1>1, <1>2, <1>3, <1>4 DEF WaitListInv, LockInv, WaitInv, Waiting
<1>7. \A c \in Agents : ToSet(pending[c]) \subseteq AsyncNodes
  BY LenProperties, ElementOfSeq DEF WaitListInv, TypeOK, ToSet
<1>8. PendingInv'
  BY <1>1, <1>2, <1>3, <1>4, <1>7 DEF WaitListInv, PendingInv
<1>9. NoDeadNode'
  BY <1>1, <1>2, <1>3, <1>4 DEF WaitListInv, NoDeadNode
<1>10. ChangeInv'
  BY <1>1, <1>2, <1>3, <1>4 DEF WaitListInv, ChangeInv, NoLostWakeup, Unheard
<1>11. BlockInv'
  BY <1>1, <1>4 DEF WaitListInv, BlockInv, Waiting, HoldersOf
<1> QED
  BY <1>5, <1>6, <1>8, <1>9, <1>10, <1>11 DEF WaitListInv

\* What an agent's pending list holds.
LEMMA PendingNodes ==
    ASSUME WaitListInv, NEW a \in Agents
    PROVE  /\ pending[a] \in Seq(AsyncNodes) /\ IsInjective(pending[a])
           /\ ToSet(pending[a]) \subseteq AsyncNodes
           /\ \A n \in ToSet(pending[a]) : wait[n] # NoWait /\ wait[n].agent = a
<1>1. pending[a] \in Seq(AsyncNodes)
  BY DEF WaitListInv, TypeOK
<1>2. ToSet(pending[a]) \subseteq AsyncNodes
  BY <1>1, LenProperties, ElementOfSeq DEF ToSet
<1> QED
  BY <1>1, <1>2 DEF WaitListInv, PendingInv

\* A fresh node is on no pending list.
LEMMA WaitAsyncLinkStep ==
    ASSUME WaitListInv, NEW a \in Agents, NEW n \in AsyncNodes, WaitAsyncLink(a, n)
    PROVE  WaitListInv'
<1>1. /\ pc[a] = "arming" /\ wait[n] = NoWait
      /\ wait_list' = Append(wait_list, n)
      /\ wait' = [wait EXCEPT ![n] = wait[a], ![a] = NoWait]
      /\ pc' = [pc EXCEPT ![a] = "enrolling"]
      /\ UNCHANGED <<mem, wait_lock, woken, pending, cursor, queued, objects, refcount,
                     unannounced>>
  BY DEF WaitAsyncLink, addWaiter, Goto, blockVars
<1>2. /\ a \in Nodes /\ a \notin AsyncNodes /\ a \notin ToSet(wait_list)
      /\ n \in Nodes /\ n \notin Agents /\ n # a
      /\ AsyncNodes \subseteq Nodes /\ Agents \subseteq Nodes
  BY <1>1, OwnNode, AgentsAreNotNodes DEF Nodes
<1>3. /\ n \notin ToSet(wait_list)
      /\ \A c \in Agents : n \notin ToSet(pending[c])
  BY <1>1, <1>2, PendingNodes DEF WaitListInv, NoDeadNode
<1>4. /\ wait_list' \in Seq(Nodes) /\ IsInjective(wait_list')
      /\ ToSet(wait_list') = ToSet(wait_list) \cup {n}
  BY <1>1, <1>2, <1>3, AppendInjectiveSeq DEF WaitListInv, TypeOK, NoDeadNode
<1>5. /\ wait' \in [Nodes -> Requests \cup {NoWait}]
      /\ wait'[n] = wait[a] /\ wait'[a] = NoWait
      /\ \A m \in Nodes \ {n, a} : wait'[m] = wait[m]
  BY <1>1, <1>2 DEF WaitListInv, TypeOK
<1>6. wait[a] # NoWait /\ wait[a].agent = a
  BY <1>1 DEF WaitListInv, WaitInv, Waiting
<1>7. pc'[a] = "enrolling" /\ \A c \in Agents \ {a} : pc'[c] = pc[c]
  BY <1>1 DEF WaitListInv, TypeOK
<1>8. TypeOK'
  BY <1>1, <1>4, <1>5 DEF WaitListInv, TypeOK, States
<1>9. LockInv' /\ WaitInv'
  BY <1>1, <1>2, <1>5, <1>7 DEF WaitListInv, LockInv, WaitInv, Waiting
<1>10. PendingInv'
  <2>1. ASSUME NEW c \in Agents, NEW m \in ToSet(pending[c])
        PROVE  wait'[m] # NoWait /\ wait'[m].agent = c
    BY <1>2, <1>3, <1>5, PendingNodes
  <2> QED
    BY <1>1, <1>7, <2>1 DEF WaitListInv, PendingInv
<1>11. NoDeadNode'
  BY <1>1, <1>2, <1>4, <1>5, <1>6, <1>7 DEF WaitListInv, NoDeadNode
<1>12. ChangeInv'
  BY <1>1, <1>2, <1>4, <1>5, <1>7 DEF WaitListInv, ChangeInv, NoLostWakeup, Unheard
<1>13. BlockInv'
  BY <1>1, <1>7 DEF WaitListInv, BlockInv, Waiting, HoldersOf
<1> QED
  BY <1>8, <1>9, <1>10, <1>11, <1>12, <1>13 DEF WaitListInv

\* The node in hand joins the pending list of the agent that linked it.
LEMMA WaitAsyncEnrolStep ==
    ASSUME WaitListInv, NEW a \in Agents, NEW n \in AsyncNodes, WaitAsyncEnrol(a, n)
    PROVE  WaitListInv'
<1>1. /\ pc[a] = "enrolling" /\ wait[n] # NoWait /\ wait[n].agent = a
      /\ ~Contains(pending[a], n)
      /\ pending' = [pending EXCEPT ![a] = Append(@, n)]
      /\ pc' = [pc EXCEPT ![a] = "idle"]
      /\ UNCHANGED <<mem, wait_lock, wait_list, woken, wait, cursor, queued, objects,
                     refcount, unannounced>>
  BY DEF WaitAsyncEnrol, InHand, Goto, listVars, blockVars
<1>2. n \notin ToSet(pending[a])
  <2>1. pending[a] \in Seq(AsyncNodes)
    BY PendingNodes
  <2> QED
    BY <1>1, <2>1, LenProperties DEF Contains, ToSet
<1>3. /\ Append(pending[a], n) \in Seq(AsyncNodes)
      /\ IsInjective(Append(pending[a], n))
      /\ ToSet(Append(pending[a], n)) = ToSet(pending[a]) \cup {n}
  BY <1>2, PendingNodes, AppendInjectiveSeq
<1>4. /\ pending'[a] = Append(pending[a], n)
      /\ \A c \in Agents \ {a} : pending'[c] = pending[c]
      /\ pc'[a] = "idle" /\ \A c \in Agents \ {a} : pc'[c] = pc[c]
  BY <1>1 DEF WaitListInv, TypeOK
<1>5. TypeOK'
  BY <1>1, <1>3 DEF WaitListInv, TypeOK, States
<1>6. LockInv' /\ WaitInv'
  BY <1>1, <1>4 DEF WaitListInv, LockInv, WaitInv, Waiting
<1>7. PendingInv'
  <2>1. ASSUME NEW c \in Agents
        PROVE  /\ IsInjective(pending'[c])
               /\ \A m \in ToSet(pending'[c]) : wait[m] # NoWait /\ wait[m].agent = c
    BY <1>1, <1>3, <1>4, PendingNodes
  <2> QED
    BY <1>1, <1>4, <2>1 DEF WaitListInv, PendingInv
<1>8. NoDeadNode'
  BY <1>1, <1>4 DEF WaitListInv, NoDeadNode
<1>9. ChangeInv'
  BY <1>1, <1>4 DEF WaitListInv, ChangeInv, NoLostWakeup, Unheard
<1>10. BlockInv'
  BY <1>1, <1>4 DEF WaitListInv, BlockInv, Waiting, HoldersOf
<1> QED
  BY <1>5, <1>6, <1>7, <1>8, <1>9, <1>10 DEF WaitListInv

\* A waitAsync node is unlinked by its own agent, which has it off its list.
LEMMA UnlinkAsync ==
    ASSUME WaitListInv, NEW a \in Agents, NEW n \in AsyncNodes,
           wait[n] # NoWait, wait[n].agent = a, removeWaiter(n),
           pending' \in [Agents -> Seq(AsyncNodes)],
           \A c \in Agents \ {a} : pending'[c] = pending[c],
           IsInjective(pending'[a]),
           ToSet(pending'[a]) \subseteq ToSet(pending[a]) \ {n},
           pc' \in [Agents -> States],
           \A c \in Agents : pc'[c] = pc[c] \/ (c = a /\ pc'[c] = "idle"
                                                  /\ pc[c] = "enrolling"),
           UNCHANGED <<mem, wait_lock, cursor, queued, objects, refcount, unannounced>>
    PROVE  WaitListInv'
<1>1. /\ n \in Nodes /\ n \notin Agents
      /\ AsyncNodes \subseteq Nodes /\ Agents \subseteq Nodes
  BY AgentsAreNotNodes DEF Nodes
<1>2. /\ wait_list' \in Seq(Nodes) /\ IsInjective(wait_list')
      /\ ToSet(wait_list') = ToSet(wait_list) \ {n}
      /\ woken' \subseteq ToSet(wait_list') /\ woken' \subseteq Nodes
      /\ woken' = woken \ {n}
      /\ wait' \in [Nodes -> Requests \cup {NoWait}]
      /\ wait'[n] = NoWait
      /\ \A m \in Nodes \ {n} : wait'[m] = wait[m]
  BY <1>1, Unlink
<1>3. TypeOK'
  BY <1>2 DEF WaitListInv, TypeOK
<1>4. LockInv' /\ WaitInv'
  <2>1. \A c \in Agents : /\ pc'[c] = "linking" => pc[c] = "linking"
                         /\ Waiting(c)' => Waiting(c)
    BY DEF Waiting
  <2>2. LockInv'
    <3>1. LockInv /\ wait_lock' = wait_lock
      BY DEF WaitListInv
    <3>2. ASSUME NEW c \in Agents, pc'[c] = "linking"
          PROVE  wait_lock' /\ \A b \in Agents : pc'[b] = "linking" => b = c
      <4>1. wait_lock /\ \A b \in Agents : pc[b] = "linking" => b = c
        BY <2>1, <3>1, <3>2 DEF LockInv
      <4> QED
        BY <2>1, <3>1, <4>1
    <3> QED
      BY <3>2 DEF LockInv
  <2>3. \A c \in Agents : wait'[c] = wait[c]
    BY <1>1, <1>2
  <2>4. WaitInv'
    BY <2>1, <2>3 DEF WaitListInv, WaitInv
  <2> QED
    BY <2>2, <2>4
<1>5. PendingInv'
  <2>1. ASSUME NEW c \in Agents
        PROVE  /\ IsInjective(pending'[c])
               /\ \A m \in ToSet(pending'[c]) : wait'[m] # NoWait /\ wait'[m].agent = c
    <3>1. /\ IsInjective(pending'[c])
          /\ ToSet(pending'[c]) \subseteq ToSet(pending[c]) \ {n}
      BY PendingNodes
    <3> QED
      BY <1>1, <1>2, <3>1, PendingNodes
  <2> QED
    BY <2>1 DEF WaitListInv, PendingInv
<1>6. NoDeadNode'
  <2>1. ToSet(wait_list) = {c \in Agents : pc[c] = "parked"}
                             \cup {m \in AsyncNodes : wait[m] # NoWait}
    BY DEF WaitListInv, NoDeadNode
  <2>2. {c \in Agents : pc'[c] = "parked"} = {c \in Agents : pc[c] = "parked"}
    OBVIOUS
  <2>3. {m \in AsyncNodes : wait'[m] # NoWait}
          = {m \in AsyncNodes : wait[m] # NoWait} \ {n}
    BY <1>1, <1>2
  <2> QED
    BY <1>1, <1>2, <2>1, <2>2, <2>3 DEF NoDeadNode
<1>7. ChangeInv'
  <2>1. \A m \in Nodes \ {n} : Unheard(m) => Unheard(m)'
    BY <1>2 DEF Unheard
  <2>2. ChangeInv /\ woken' = woken \ {n}
    BY <1>2 DEF WaitListInv
  <2>3. NoLostWakeup'
    BY <1>1, <1>2, <2>1, <2>2 DEF ChangeInv, NoLostWakeup
  <2>4. \A c \in Agents : pc'[c] = "linking" => Unheard(c)'
    BY <1>1, <2>1, <2>2 DEF ChangeInv
  <2> QED
    BY <2>3, <2>4 DEF ChangeInv
<1>8. BlockInv'
  BY DEF WaitListInv, BlockInv, Waiting, HoldersOf
<1> QED
  BY <1>3, <1>4, <1>5, <1>6, <1>7, <1>8 DEF WaitListInv

\* Memory runs out before the link or before the enrolment.
LEMMA WaitAsyncThrowStep ==
    ASSUME WaitListInv, NEW a \in Agents, WaitAsyncThrow(a)
    PROVE  WaitListInv'
<1>1. /\ pc' = [pc EXCEPT ![a] = "idle"]
      /\ UNCHANGED <<mem, wait_lock, pending, cursor, queued, objects, refcount,
                     unannounced>>
  BY DEF WaitAsyncThrow, Goto, blockVars
<1>2. pc' \in [Agents -> States]
      /\ pc'[a] = "idle" /\ \A c \in Agents \ {a} : pc'[c] = pc[c]
  BY <1>1 DEF WaitListInv, TypeOK, States
<1>3. CASE /\ pc[a] = "arming"
           /\ wait' = [wait EXCEPT ![a] = NoWait]
           /\ UNCHANGED <<wait_list, woken>>
  <2>1. /\ a \in Nodes /\ a \notin AsyncNodes /\ a \notin ToSet(wait_list)
        /\ \A c \in Agents : ToSet(pending[c]) \subseteq AsyncNodes
        /\ ToSet(wait_list) \subseteq Nodes
        /\ AsyncNodes \subseteq Nodes /\ Agents \subseteq Nodes
    BY <1>3, OwnNode DEF Nodes
  <2>2. /\ wait' \in [Nodes -> Requests \cup {NoWait}]
        /\ \A m \in Nodes \ {a} : wait'[m] = wait[m]
    BY <1>3 DEF WaitListInv, TypeOK
  <2>3. TypeOK'
    BY <1>1, <1>2, <1>3, <2>2 DEF WaitListInv, TypeOK
  <2>4. LockInv' /\ WaitInv' /\ PendingInv' /\ NoDeadNode'
    BY <1>1, <1>2, <1>3, <2>1, <2>2
       DEF WaitListInv, LockInv, WaitInv, PendingInv, NoDeadNode, Waiting
  <2>5. ChangeInv'
    BY <1>1, <1>2, <1>3, <2>1, <2>2 DEF WaitListInv, ChangeInv, NoLostWakeup, Unheard
  <2>6. BlockInv'
    BY <1>1, <1>2 DEF WaitListInv, BlockInv, Waiting, HoldersOf
  <2> QED
    BY <2>3, <2>4, <2>5, <2>6 DEF WaitListInv
<1>4. ASSUME NEW n \in AsyncNodes, InHand(a, n), removeWaiter(n)
      PROVE  WaitListInv'
  <2>1. pc[a] = "enrolling" /\ wait[n] # NoWait /\ wait[n].agent = a
        /\ ~Contains(pending[a], n)
    BY <1>4 DEF InHand
  <2>2. pending[a] \in Seq(AsyncNodes) /\ IsInjective(pending[a])
    BY PendingNodes
  <2>3. n \notin ToSet(pending[a])
    BY <2>1, <2>2, LenProperties DEF Contains, ToSet
  <2>4. pending' = pending /\ pending \in [Agents -> Seq(AsyncNodes)]
    BY <1>1 DEF WaitListInv, TypeOK
  <2> QED
    BY <1>1, <1>2, <1>4, <2>1, <2>2, <2>3, <2>4, UnlinkAsync
<1> QED
  BY <1>3, <1>4 DEF WaitAsyncThrow

\* The settled entry leaves the pending list with its node.
LEMMA FireSettleStep ==
    ASSUME WaitListInv, NEW a \in Agents, FireSettle(a)
    PROVE  WaitListInv'
<1> DEFINE k == cursor[a]
           n == pending[a][k]
<1>1. /\ pc[a] = "firing" /\ k <= Len(pending[a])
      /\ removeWaiter(n)
      /\ pending' = [pending EXCEPT ![a] = RemoveAt(@, k)]
      /\ UNCHANGED <<mem, wait_lock, pc, cursor, queued, objects, refcount, unannounced>>
  BY DEF FireSettle, blockVars
<1>2. pending[a] \in Seq(AsyncNodes) /\ IsInjective(pending[a])
  BY PendingNodes
<1>3. k \in 1 .. Len(pending[a])
  BY <1>1, <1>2, LenProperties DEF WaitListInv, TypeOK, PendingInv
<1>4. n \in ToSet(pending[a])
  BY <1>2, <1>3, LenProperties DEF ToSet
<1>5. n \in AsyncNodes /\ wait[n] # NoWait /\ wait[n].agent = a
  BY <1>4, PendingNodes
<1>6. /\ RemoveAt(pending[a], k) \in Seq(AsyncNodes)
      /\ IsInjective(RemoveAt(pending[a], k))
      /\ ToSet(RemoveAt(pending[a], k)) = ToSet(pending[a]) \ {n}
  BY <1>2, <1>3, RemoveAtProps, RemoveAtInjective
<1> HIDE DEF k, n
<1>7. /\ pending' \in [Agents -> Seq(AsyncNodes)]
      /\ pending'[a] = RemoveAt(pending[a], k)
      /\ \A c \in Agents \ {a} : pending'[c] = pending[c]
      /\ pc' = pc /\ pc \in [Agents -> States]
  BY <1>1, <1>6 DEF WaitListInv, TypeOK
<1> QED
  BY <1>1, <1>5, <1>6, <1>7, UnlinkAsync

\* The realm that is torn down frees the first of its entries.
LEMMA ClearPendingStep ==
    ASSUME WaitListInv, NEW a \in Agents, ClearPending(a)
    PROVE  WaitListInv'
<1> DEFINE n == Head(pending[a])
<1>1. /\ pending[a] # <<>> /\ removeWaiter(n)
      /\ pending' = [pending EXCEPT ![a] = Tail(@)]
      /\ UNCHANGED <<mem, wait_lock, pc, cursor, queued, objects, refcount, unannounced>>
  BY DEF ClearPending, blockVars
<1>2. /\ pending[a] \in Seq(AsyncNodes) /\ IsInjective(pending[a])
      /\ Len(pending[a]) \in Nat \ {0} /\ DOMAIN pending[a] = 1 .. Len(pending[a])
  BY <1>1, PendingNodes, LenProperties, EmptySeq
<1>3. n = pending[a][1]
  BY <1>1, <1>2
<1>4. n \in ToSet(pending[a])
  BY <1>2, <1>3 DEF ToSet
<1>5. n \in AsyncNodes /\ wait[n] # NoWait /\ wait[n].agent = a
  BY <1>4, PendingNodes
<1>6. /\ Tail(pending[a]) \in Seq(AsyncNodes)
      /\ IsInjective(Tail(pending[a]))
      /\ ToSet(Tail(pending[a])) \subseteq ToSet(pending[a]) \ {n}
  <2> DEFINE s == pending[a]
             t == Tail(s)
  <2>1. /\ t \in Seq(AsyncNodes) /\ Len(t) = Len(s) - 1
        /\ \A i \in 1 .. Len(t) : t[i] = s[i + 1]
    BY <1>1, <1>2, HeadTailProperties
  <2>2. DOMAIN t = 1 .. Len(s) - 1
    BY <2>1, LenProperties
  <2> HIDE DEF s, t
  <2>3. \A i, j \in 1 .. Len(s) : s[i] = s[j] => i = j
    BY <1>2 DEF IsInjective, s
  <2>4. Len(s) \in Nat \ {0} /\ DOMAIN s = 1 .. Len(s) /\ n = s[1]
    BY <1>2, <1>3 DEF s
  <2>5. IsInjective(t)
    <3>1. ASSUME NEW i \in 1 .. Len(s) - 1, NEW j \in 1 .. Len(s) - 1, t[i] = t[j]
          PROVE  i = j
      <4>1. i + 1 \in 1 .. Len(s) /\ j + 1 \in 1 .. Len(s) /\ s[i + 1] = s[j + 1]
        BY <2>1, <2>4, <3>1
      <4>2. i + 1 = j + 1
        BY <2>3, <4>1
      <4> QED
        BY <4>2
    <3> QED
      BY <2>2, <3>1 DEF IsInjective
  <2>6. ToSet(t) \subseteq ToSet(s) \ {n}
    <3>1. ASSUME NEW i \in 1 .. Len(s) - 1
          PROVE  t[i] \in ToSet(s) /\ t[i] # n
      <4>1. i + 1 \in 1 .. Len(s) /\ 1 \in 1 .. Len(s) /\ i + 1 # 1 /\ t[i] = s[i + 1]
        BY <2>1, <2>4
      <4> QED
        BY <2>3, <2>4, <4>1 DEF ToSet
    <3> QED
      BY <2>2, <3>1 DEF ToSet
  <2> QED
    BY <2>1, <2>5, <2>6 DEF s, t
<1> HIDE DEF n
<1>7. /\ pending' \in [Agents -> Seq(AsyncNodes)]
      /\ pending'[a] = Tail(pending[a])
      /\ \A c \in Agents \ {a} : pending'[c] = pending[c]
      /\ pc' = pc /\ pc \in [Agents -> States]
  BY <1>1, <1>6 DEF WaitListInv, TypeOK
<1> QED
  BY <1>1, <1>5, <1>6, <1>7, UnlinkAsync

\* Steps that only move an agent's place or its tasks, and keep it out of waits.
LEMMA MoveStep ==
    ASSUME WaitListInv, NEW a \in Agents,
           pc' \in [Agents -> States], cursor' \in [Agents -> Nat],
           queued' \subseteq Agents,
           \A c \in Agents \ {a} : pc'[c] = pc[c] /\ cursor'[c] = cursor[c],
           pc[a] \in {"idle", "firing"},
           pc'[a] \in {"idle", "firing", "dying"},
           pc'[a] = "firing" => cursor'[a] > 0,
           UNCHANGED <<mem, wait_lock, wait_list, woken, wait, pending, objects,
                       refcount, unannounced>>
    PROVE  WaitListInv'
<1>1. TypeOK'
  BY DEF WaitListInv, TypeOK
<1>2. LockInv' /\ WaitInv' /\ PendingInv' /\ NoDeadNode'
  BY DEF WaitListInv, LockInv, WaitInv, PendingInv, NoDeadNode, Waiting
<1>3. ChangeInv'
  BY DEF WaitListInv, ChangeInv, NoLostWakeup, Unheard
<1>4. BlockInv'
  BY DEF WaitListInv, BlockInv, Waiting, HoldersOf
<1> QED
  BY <1>1, <1>2, <1>3, <1>4 DEF WaitListInv

\* A task is queued, the pass over the pending waits starts, goes on and ends,
\* and a realm begins to be torn down.
LEMMA FireMoveStep ==
    ASSUME WaitListInv, NEW a \in Agents,
           \/ QueueTask(a) \/ FireStart(a) \/ FireSkip(a) \/ FireEnd(a)
           \/ Teardown(a)
    PROVE  WaitListInv'
<1> USE DEF Goto, Idle, listVars, blockVars, agentVars, States
<1>1. CASE FireStart(a)
  <2>1. /\ pc[a] = "idle" /\ pc' = [pc EXCEPT ![a] = "firing"]
        /\ cursor' = [cursor EXCEPT ![a] = 1]
        /\ UNCHANGED <<mem, wait_lock, wait_list, woken, wait, pending,
                       queued, objects, refcount, unannounced>>
    BY <1>1 DEF FireStart
  <2>2. cursor \in [Agents -> Nat] /\ pc \in [Agents -> States] /\ queued \subseteq Agents
    BY DEF WaitListInv, TypeOK
  <2>3. /\ cursor' \in [Agents -> Nat] /\ cursor'[a] > 0
        /\ pc' \in [Agents -> States] /\ pc'[a] = "firing"
        /\ \A c \in Agents \ {a} : pc'[c] = pc[c] /\ cursor'[c] = cursor[c]
    BY <2>1, <2>2
  <2> HIDE DEF States
  <2> QED
    BY <2>1, <2>2, <2>3, MoveStep
<1>2. CASE FireSkip(a)
  <2>1. /\ pc[a] = "firing" /\ cursor' = [cursor EXCEPT ![a] = @ + 1]
        /\ UNCHANGED <<mem, wait_lock, wait_list, woken, wait, pc, pending,
                       queued, objects, refcount, unannounced>>
    BY <1>2 DEF FireSkip
  <2>2. cursor \in [Agents -> Nat] /\ pc \in [Agents -> States] /\ queued \subseteq Agents
    BY DEF WaitListInv, TypeOK
  <2>3. /\ cursor' \in [Agents -> Nat] /\ cursor'[a] > 0
        /\ \A c \in Agents \ {a} : cursor'[c] = cursor[c]
    BY <2>1, <2>2
  <2> HIDE DEF States
  <2> QED
    BY <2>1, <2>2, <2>3, MoveStep
<1>3. CASE FireEnd(a)
  BY <1>3, MoveStep DEF FireEnd, WaitListInv, TypeOK
<1>4. CASE Teardown(a)
  BY <1>4, MoveStep DEF Teardown, WaitListInv, TypeOK
<1>5. CASE QueueTask(a)
  BY <1>5, MoveStep DEF QueueTask, WaitListInv, TypeOK
<1> QED
  BY <1>1, <1>2, <1>3, <1>4, <1>5

\* Objects come and go, and the count with them.
LEMMA ObjectsStep ==
    ASSUME WaitListInv, NEW a \in Agents,
           \/ \E b \in Agents : wrapSharedBlock(a, b)
           \/ SweepObject(a) \/ ReleaseObjects(a)
    PROVE  WaitListInv'
<1>1. /\ objects \in [Agents -> 0 .. MaxObjects]
      /\ refcount = Cardinality(HoldersOf(objects))
      /\ pc \in [Agents -> States]
  BY DEF WaitListInv, TypeOK, BlockInv
<1>2. ASSUME objects' \in [Agents -> 0 .. MaxObjects],
             refcount' = Cardinality(HoldersOf(objects')),
             pc' \in [Agents -> States],
             \A c \in Agents : pc'[c] = pc[c] \/ (pc[c] = "dying" /\ pc'[c] = "dead"),
             \A c \in Agents : Waiting(c) \/ pc[c] = "enrolling" => objects'[c] > 0,
             UNCHANGED <<mem, wait_lock, wait_list, woken, wait, pending, cursor, queued,
                         unannounced>>
      PROVE  WaitListInv'
  <2>1. refcount' \in Nat
    BY <1>2, HoldersFinite
  <2>2. TypeOK'
    BY <1>2, <2>1 DEF WaitListInv, TypeOK
  <2>3. LockInv' /\ WaitInv' /\ PendingInv' /\ NoDeadNode'
    BY <1>2 DEF WaitListInv, LockInv, WaitInv, PendingInv, NoDeadNode, Waiting
  <2>4. ChangeInv'
    BY <1>2 DEF WaitListInv, ChangeInv, NoLostWakeup, Unheard
  <2>5. BlockInv'
    BY <1>2 DEF BlockInv, Waiting, HoldersOf
  <2> QED
    BY <2>2, <2>3, <2>4, <2>5 DEF WaitListInv
<1>3. ASSUME NEW b \in Agents, wrapSharedBlock(a, b) PROVE WaitListInv'
  <2>1. /\ objects[b] < MaxObjects
        /\ objects' = [objects EXCEPT ![b] = @ + 1] /\ refcount' = refcount + 1
        /\ UNCHANGED <<mem, wait_lock, wait_list, woken, wait, pc, pending, cursor, queued,
                       unannounced>>
    BY <1>3 DEF wrapSharedBlock, retain, listVars, agentVars
  <2>2. refcount' = Cardinality(HoldersOf(objects'))
    BY <1>1, <2>1, HoldersGrow
  <2>3. objects' \in [Agents -> 0 .. MaxObjects]
    BY <1>1, <2>1, MaxObjectsAssumption
  <2>4. \A c \in Agents : Waiting(c) \/ pc[c] = "enrolling" => objects'[c] > 0
    BY <1>1, <2>1 DEF WaitListInv, BlockInv
  <2> QED
    BY <1>1, <1>2, <2>1, <2>2, <2>3, <2>4
<1>4. CASE SweepObject(a)
  <2>1. /\ pc[a] \in {"idle", "arming", "firing"}
        /\ objects[a] > (IF pc[a] = "arming" THEN 1 ELSE 0)
        /\ objects' = [objects EXCEPT ![a] = @ - 1] /\ refcount' = refcount - 1
        /\ UNCHANGED <<mem, wait_lock, wait_list, woken, wait, pc, pending, cursor, queued,
                       unannounced>>
    BY <1>4 DEF SweepObject, listVars, agentVars
  <2>2. objects[a] > 0
    BY <1>1, <2>1, MaxObjectsAssumption
  <2>3. refcount' = Cardinality(HoldersOf(objects'))
    BY <1>1, <2>1, <2>2, HoldersShrink
  <2>4. objects' \in [Agents -> 0 .. MaxObjects]
    BY <1>1, <2>1, <2>2, MaxObjectsAssumption
  <2>5. \A c \in Agents : Waiting(c) \/ pc[c] = "enrolling" => objects'[c] > 0
    BY <1>1, <2>1, MaxObjectsAssumption DEF WaitListInv, BlockInv, Waiting
  <2> QED
    BY <1>1, <1>2, <2>1, <2>3, <2>4, <2>5
<1>5. CASE ReleaseObjects(a)
  <2>1. /\ pc[a] = "dying"
        /\ objects' = [objects EXCEPT ![a] = 0] /\ refcount' = refcount - objects[a]
        /\ pc' = [pc EXCEPT ![a] = "dead"]
        /\ UNCHANGED <<mem, wait_lock, wait_list, woken, wait, pending, cursor, queued,
                       unannounced>>
    BY <1>5 DEF ReleaseObjects, Goto, listVars
  <2>2. refcount' = Cardinality(HoldersOf(objects'))
    BY <1>1, <2>1, HoldersClear
  <2>3. objects' \in [Agents -> 0 .. MaxObjects] /\ pc' \in [Agents -> States]
    BY <1>1, <2>1, MaxObjectsAssumption DEF States
  <2>4. \A c \in Agents : Waiting(c) \/ pc[c] = "enrolling" => objects'[c] > 0
    BY <1>1, <2>1 DEF WaitListInv, BlockInv, Waiting
  <2>5. \A c \in Agents : pc'[c] = pc[c] \/ (pc[c] = "dying" /\ pc'[c] = "dead")
    BY <1>1, <2>1
  <2> QED
    BY <1>2, <2>1, <2>2, <2>3, <2>4, <2>5
<1> QED
  BY <1>3, <1>4, <1>5

\* Every step keeps the invariant.
LEMMA NextHolds == WaitListInv /\ [Next]_vars => WaitListInv'
<1> SUFFICES ASSUME WaitListInv, [Next]_vars PROVE WaitListInv'
  OBVIOUS
<1>1. CASE UNCHANGED vars
  BY <1>1
     DEF vars, listVars, agentVars, blockVars, WaitListInv, TypeOK, LockInv, WaitInv,
         NoDeadNode, PendingInv, ChangeInv, NoLostWakeup, Unheard, BlockInv,
         Waiting, HoldersOf
<1>2. ASSUME NEW a \in Agents, NEW p \in Positions, NEW b \in Bits, Store(a, p, b)
      PROVE  WaitListInv'
  BY <1>2, StoreStep
<1>3. ASSUME NEW a \in Agents, NEW p \in Positions, NEW n \in Counts, Notify(a, p, n)
      PROVE  WaitListInv'
  BY <1>3, NotifyStep
<1>4. ASSUME NEW a \in Agents, WaitSteps(a) PROVE WaitListInv'
  <2>1. ASSUME NEW p \in Positions, NEW b \in Bits, NEW t \in BOOLEAN,
               WaitCompare(a, p, b, t)
        PROVE  WaitListInv'
    BY <2>1, WaitCompareStep
  <2>2. ASSUME NEW p \in Positions, NEW b \in Bits, WaitRefused(a, p, b)
        PROVE  WaitListInv'
    BY <2>2, RefuseStep DEF WaitRefused
  <2> QED
    BY <1>4, <2>1, <2>2, WaitLinkStep, WaitReturnStep DEF WaitSteps
<1>5. ASSUME NEW a \in Agents, WaitAsyncSteps(a) PROVE WaitListInv'
  <2>1. ASSUME NEW p \in Positions, NEW b \in Bits, NEW t \in BOOLEAN,
               WaitAsyncCompare(a, p, b, t)
        PROVE  WaitListInv'
    BY <2>1, WaitAsyncCompareStep
  <2>2. ASSUME NEW p \in Positions, NEW b \in Bits, WaitAsyncRefused(a, p, b)
        PROVE  WaitListInv'
    BY <2>2, RefuseStep DEF WaitAsyncRefused
  <2>3. ASSUME NEW n \in AsyncNodes, WaitAsyncLink(a, n) \/ WaitAsyncEnrol(a, n)
        PROVE  WaitListInv'
    BY <2>3, WaitAsyncLinkStep, WaitAsyncEnrolStep
  <2> QED
    BY <1>5, <2>1, <2>2, <2>3, WaitAsyncThrowStep, FireMoveStep, FireSettleStep
       DEF WaitAsyncSteps
<1>6. ASSUME NEW a \in Agents, BlockSteps(a) PROVE WaitListInv'
  BY <1>6, ObjectsStep, FireMoveStep, ClearPendingStep DEF BlockSteps
<1> QED
  BY <1>1, <1>2, <1>3, <1>4, <1>5, <1>6 DEF Next

-----------------------------------------------------------------------------
(* The invariants of the runs, for every value of the constants.           *)

\* The inductive invariant holds in every reachable state.
THEOREM Invariance == Spec => []WaitListInv
<1> QED
  BY InitHolds, NextHolds, PTL DEF Spec

\* Type correctness for every instance: the reference count never goes below
\* zero, and the lists hold nodes.
THEOREM TypeInvariance == Spec => []TypeOK
<1>1. WaitListInv => TypeOK
  BY DEF WaitListInv
<1> QED
  BY <1>1, Invariance, PTL

\* A notify never walks into a dead stack frame or a freed node: the list holds
\* the waits in progress, each once (the comment on Waiter).
THEOREM NoNodeDies == Spec => []NoDeadNode
<1>1. WaitListInv => NoDeadNode
  BY DEF WaitListInv
<1> QED
  BY <1>1, Invariance, PTL

\* No blocking wait sleeps on an announced change: compare and link are one
\* critical section (the comment on lockWaiters).
THEOREM NoWakeupLost == Spec => []NoLostWakeup
<1>1. WaitListInv => NoLostWakeup
  BY DEF WaitListInv, ChangeInv
<1> QED
  BY <1>1, Invariance, PTL

\* The block is not freed under an agent that is parked on it, is about to be,
\* or has a node to enrol (retain and release).
THEOREM BlockHeld == Spec => []BlockOutlivesWaits
<1>1. WaitListInv => BlockOutlivesWaits
  <2> SUFFICES ASSUME WaitListInv PROVE BlockOutlivesWaits
    OBVIOUS
  <2>1. \A a \in Agents : objects[a] > 0 => refcount > 0
    BY HolderCounts DEF WaitListInv, TypeOK, BlockInv
  <2>2. \A a \in Agents : pc[a] \in {"linking", "parked", "enrolling"} => objects[a] > 0
    BY DEF WaitListInv, BlockInv, Waiting
  <2> QED
    BY <2>1, <2>2 DEF BlockOutlivesWaits
<1> QED
  BY <1>1, Invariance, PTL
-----------------------------------------------------------------------------
(* Order and number.                                                       *)

\* Linking at the tail comes after all there is (addWaiter).
LEMMA AppendOrder ==
    ASSUME NEW S, NEW s \in Seq(S), NEW n \in S, n \notin ToSet(s), NEW v, NEW w
    PROVE  Precedes(Append(s, n), v, w)
             <=> Precedes(s, v, w) \/ (v \in ToSet(s) /\ w = n)
<1> DEFINE r == Append(s, n)
           m == Len(s)
<1>1. /\ m \in Nat /\ DOMAIN s = 1 .. m
      /\ r \in Seq(S) /\ Len(r) = m + 1
      /\ \A i \in 1 .. m : r[i] = s[i]
      /\ r[m + 1] = n
  BY LenProperties, AppendProperties
<1>2. DOMAIN r = 1 .. m + 1
  BY <1>1, LenProperties
<1> HIDE DEF r, m
<1>3. \A i \in 1 .. m : s[i] # n
  BY <1>1 DEF ToSet
<1>4. ASSUME Precedes(r, v, w)
      PROVE  Precedes(s, v, w) \/ (v \in ToSet(s) /\ w = n)
  <2>1. PICK i \in 1 .. m + 1, j \in 1 .. m + 1 : i < j /\ r[i] = v /\ r[j] = w
    BY <1>2, <1>4 DEF Precedes
  <2>2. i \in 1 .. m /\ s[i] = v
    BY <1>1, <2>1
  <2>3. CASE j = m + 1
    BY <1>1, <2>1, <2>2, <2>3 DEF ToSet
  <2>4. CASE j # m + 1
    BY <1>1, <2>1, <2>2, <2>4 DEF Precedes
  <2> QED
    BY <2>3, <2>4
<1>5. ASSUME Precedes(s, v, w)
      PROVE  Precedes(r, v, w)
  BY <1>1, <1>2, <1>5 DEF Precedes
<1>6. ASSUME v \in ToSet(s), w = n
      PROVE  Precedes(r, v, w)
  <2>1. PICK i \in 1 .. m : s[i] = v
    BY <1>1, <1>6 DEF ToSet
  <2>2. i \in 1 .. m + 1 /\ m + 1 \in 1 .. m + 1 /\ i < m + 1
    BY <1>1
  <2> QED
    BY <1>1, <1>2, <1>6, <2>1, <2>2 DEF Precedes
<1> QED
  BY <1>4, <1>5, <1>6 DEF r

\* Unlinking one node leaves the others in order (removeWaiter).
LEMMA RemoveAtOrder ==
    ASSUME NEW S, NEW s \in Seq(S), NEW k \in 1 .. Len(s), IsInjective(s),
           NEW v, NEW w
    PROVE  Precedes(RemoveAt(s, k), v, w)
             <=> Precedes(s, v, w) /\ v # s[k] /\ w # s[k]
<1> DEFINE r == RemoveAt(s, k)
           m == Len(s)
<1>1. /\ r \in Seq(S) /\ Len(r) = m - 1
      /\ \A i \in 1 .. m - 1 : r[i] = IF i < k THEN s[i] ELSE s[i + 1]
  BY RemoveAtProps
<1>2. m \in Nat /\ DOMAIN s = 1 .. m /\ k \in 1 .. m
  BY LenProperties
<1>3. DOMAIN r = 1 .. m - 1
  BY <1>1, LenProperties
<1> HIDE DEF r, m
<1>4. \A i, j \in 1 .. m : s[i] = s[j] => i = j
  BY <1>2 DEF IsInjective
<1>5. ASSUME Precedes(r, v, w)
      PROVE  Precedes(s, v, w) /\ v # s[k] /\ w # s[k]
  <2>1. PICK i \in 1 .. m - 1, j \in 1 .. m - 1 : i < j /\ r[i] = v /\ r[j] = w
    BY <1>3, <1>5 DEF Precedes
  <2>2. PICK ii \in (1 .. m) \ {k} : s[ii] = v /\ ii = IF i < k THEN i ELSE i + 1
    BY <1>1, <1>2, <2>1
  <2>3. PICK jj \in (1 .. m) \ {k} : s[jj] = w /\ jj = IF j < k THEN j ELSE j + 1
    BY <1>1, <1>2, <2>1
  <2>4. ii < jj
    BY <1>2, <2>1, <2>2, <2>3
  <2> QED
    BY <1>2, <1>4, <2>2, <2>3, <2>4 DEF Precedes
<1>6. ASSUME Precedes(s, v, w), v # s[k], w # s[k]
      PROVE  Precedes(r, v, w)
  <2>1. PICK i \in 1 .. m, j \in 1 .. m : i < j /\ s[i] = v /\ s[j] = w
    BY <1>2, <1>6 DEF Precedes
  <2>2. i # k /\ j # k
    BY <1>6, <2>1
  <2>3. PICK ii \in 1 .. m - 1 : r[ii] = v /\ ii = IF i < k THEN i ELSE i - 1
    <3>1. CASE i < k
      BY <1>1, <1>2, <2>1, <3>1
    <3>2. CASE i > k
      <4>1. i - 1 \in 1 .. m - 1 /\ ~(i - 1 < k) /\ (i - 1) + 1 = i
        BY <1>2, <3>2
      <4> QED
        BY <1>1, <2>1, <3>2, <4>1
    <3> QED
      BY <1>2, <2>2, <3>1, <3>2
  <2>4. PICK jj \in 1 .. m - 1 : r[jj] = w /\ jj = IF j < k THEN j ELSE j - 1
    <3>1. CASE j < k
      BY <1>1, <1>2, <2>1, <3>1
    <3>2. CASE j > k
      <4>1. j - 1 \in 1 .. m - 1 /\ ~(j - 1 < k) /\ (j - 1) + 1 = j
        BY <1>2, <3>2
      <4> QED
        BY <1>1, <2>1, <3>2, <4>1
    <3> QED
      BY <1>2, <2>2, <3>1, <3>2
  <2>5. ii < jj
    BY <1>2, <2>1, <2>2, <2>3, <2>4
  <2> QED
    BY <1>3, <2>3, <2>4, <2>5 DEF Precedes
<1> QED
  BY <1>5, <1>6 DEF r

LEMMA RemoveFirstOrder ==
    ASSUME NEW S, NEW s \in Seq(S), NEW n, IsInjective(s), NEW v, NEW w
    PROVE  Precedes(RemoveFirst(s, n), v, w)
             <=> Precedes(s, v, w) /\ v # n /\ w # n
<1>1. Len(s) \in Nat /\ DOMAIN s = 1 .. Len(s)
  BY LenProperties
<1>2. ASSUME NEW k \in 1 .. Len(s), s[k] = n
      PROVE  RemoveFirst(s, n) = RemoveAt(s, k)
  BY <1>2, RemoveFirstAt
<1>3. CASE \E k \in 1 .. Len(s) : s[k] = n
  BY <1>2, <1>3, RemoveAtOrder
<1>4. CASE ~ \E k \in 1 .. Len(s) : s[k] = n
  <2>1. RemoveFirst(s, n) = s
    BY <1>4 DEF RemoveFirst
  <2>2. Precedes(s, v, w) => v # n /\ w # n
    BY <1>1, <1>4 DEF Precedes
  <2> QED
    BY <2>1, <2>2
<1> QED
  BY <1>3, <1>4

\* The places of S that have at most n of them up to themselves.
FirstOf(S, n) == {i \in S : Cardinality({j \in S : j <= i}) <= n}

\* The first n of S, or all when it has no more.
AreFirst(O, S, n) ==
    /\ IsFiniteSet(O) /\ IsFiniteSet(S)
    /\ Cardinality(O) = IF n < Cardinality(S) THEN n ELSE Cardinality(S)
    /\ \A i \in O, j \in S \ O : i < j

\* The rank of a place in S is a bijection from S to 1 .. |S|.
LEMMA FirstOnes ==
    ASSUME NEW m \in Nat, NEW S \in SUBSET (1 .. m), NEW n \in Nat
    PROVE  AreFirst(FirstOf(S, n), S, n)
<1> DEFINE O == FirstOf(S, n)
           upto(i) == {j \in S : j <= i}
           c == Cardinality(S)
           r == [i \in S |-> Cardinality(upto(i))]
           k == IF n < c THEN n ELSE c
<1>1. IsFiniteSet(S) /\ c \in Nat
  <2>1. IsFiniteSet(1 .. m)
    BY FS_Interval
  <2> QED
    BY <2>1, FS_Subset, FS_CardinalityType
<1>2. ASSUME NEW i \in S
      PROVE  /\ IsFiniteSet(upto(i)) /\ r[i] \in 1 .. c
             /\ r[i] = Cardinality(upto(i))
  <2>1. /\ IsFiniteSet(upto(i)) /\ Cardinality(upto(i)) <= c
        /\ Cardinality(upto(i)) \in Nat
    BY <1>1, FS_Subset, FS_CardinalityType
  <2>2. i \in upto(i)
    OBVIOUS
  <2>3. Cardinality(upto(i)) # 0
    BY <2>1, <2>2, FS_EmptySet
  <2> QED
    BY <1>1, <2>1, <2>3
<1>3. ASSUME NEW i \in S, NEW j \in S, i < j
      PROVE  r[i] < r[j]
  <2>1. upto(i) \in SUBSET upto(j) /\ j \in upto(j) \ upto(i)
    <3>1. \A x \in S : x \in Int
      OBVIOUS
    <3>2. \A x \in S : x <= i => x <= j
      BY <1>3, <3>1
    <3>3. j <= j /\ ~(j <= i)
      BY <1>3, <3>1
    <3> QED
      BY <3>2, <3>3
  <2>2. /\ Cardinality(upto(i)) <= Cardinality(upto(j))
        /\ Cardinality(upto(i)) # Cardinality(upto(j))
    <3>1. IsFiniteSet(upto(j))
      BY <1>2
    <3>2. upto(i) # upto(j)
      BY <2>1
    <3> HIDE DEF upto
    <3> QED
      BY <2>1, <3>1, <3>2, FS_Subset
  <2> QED
    BY <1>2, <2>2
<1> HIDE DEF c
<1>4. r \in Injection(S, 1 .. c)
  <2>1. r \in [S -> 1 .. c]
    BY <1>2
  <2>2. \A i, j \in S : r[i] = r[j] => i = j
    <3>1. \A i \in S : r[i] \in Nat
      BY <1>1, <1>2
    <3> QED
      BY <1>3, <3>1
  <2> HIDE DEF r
  <2> QED
    BY <2>1, <2>2 DEF Injection, IsInjective
<1>5. IsFiniteSet(1 .. c) /\ Cardinality(1 .. c) = c
  BY <1>1, FS_Interval
<1>6. r \in Surjection(S, 1 .. c)
  BY <1>4, <1>5, FS_Injection DEF c
<1>7. O = {i \in S : r[i] <= n} /\ O \subseteq S
  BY DEF FirstOf
<1> DEFINE q == [i \in O |-> r[i]]
<1> HIDE DEF r, O
<1>8. k \in Nat /\ k <= c /\ k <= n /\ (k = n \/ k = c)
  BY <1>1
<1> HIDE DEF k
<1>9. q \in Bijection(O, 1 .. k)
  <2>1. \A i \in S : r[i] \in 1 .. c
    BY <1>2
  <2>2. \A i \in O : r[i] \in 1 .. k
    BY <1>1, <1>7, <1>8, <2>1
  <2>3. q \in [O -> 1 .. k]
    BY <2>2
  <2>4. \A i, j \in O : q[i] = q[j] => i = j
    BY <1>4, <1>7 DEF Injection, IsInjective
  <2>5. \A t \in 1 .. k : \E i \in O : q[i] = t
    <3> SUFFICES ASSUME NEW t \in 1 .. k
                 PROVE  \E i \in O : q[i] = t
      OBVIOUS
    <3>1. t \in 1 .. c /\ t <= n
      BY <1>1, <1>8
    <3>2. PICK i \in S : r[i] = t
      BY <1>6, <3>1 DEF Surjection
    <3> QED
      BY <1>7, <3>1, <3>2
  <2> HIDE DEF q
  <2> QED
    BY <2>3, <2>4, <2>5 DEF Bijection, Injection, Surjection, IsInjective
<1>10. IsFiniteSet(O) /\ Cardinality(O) = k
  <2>1. IsFiniteSet(O)
    BY <1>1, <1>7, FS_Subset
  <2>2. ExistsBijection(O, 1 .. k)
    BY <1>9 DEF ExistsBijection
  <2>3. Cardinality(1 .. k) = k
    BY <1>8, FS_Interval
  <2> QED
    BY <2>1, <2>2, <2>3, FS_Bijection
<1>11. ASSUME NEW i \in O, NEW j \in S \ O
       PROVE  i < j
  <2>1. r[i] <= n /\ ~(r[j] <= n) /\ i \in S
    BY <1>7
  <2>2. r[i] \in Nat /\ r[j] \in Nat
    <3>1. \A x \in S : r[x] \in 1 .. c
      BY <1>2
    <3>2. r[i] \in 1 .. c /\ r[j] \in 1 .. c
      BY <2>1, <3>1
    <3> QED
      BY <1>1, <3>2
  <2>3. ~(j < i) /\ i # j
    BY <1>3, <2>1, <2>2
  <2>4. i \in Nat /\ j \in Nat
    BY <2>1
  <2> QED
    BY <2>3, <2>4
<1> QED
  BY <1>1, <1>10, <1>11 DEF k, c, O, AreFirst

\* As many nodes stand at a set of places of the list as it has places.
LEMMA AsManyNodes ==
    ASSUME NEW T, NEW s \in Seq(T), IsInjective(s),
           NEW O \in SUBSET (DOMAIN s), IsFiniteSet(O)
    PROVE  Cardinality({s[i] : i \in O}) = Cardinality(O)
<1> DEFINE R == {s[i] : i \in O}
           q == [i \in O |-> s[i]]
<1>1. \A i, j \in O : s[i] = s[j] => i = j
  BY DEF IsInjective
<1>2. q \in [O -> R] /\ (\A i, j \in O : q[i] = q[j] => i = j)
      /\ \A t \in R : \E i \in O : q[i] = t
  BY <1>1
<1> HIDE DEF q, R
<1>3. q \in Bijection(O, R)
  BY <1>2 DEF Bijection, Injection, Surjection, IsInjective
<1>4. ExistsBijection(O, R)
  BY <1>3 DEF ExistsBijection
<1>5. Cardinality(R) = Cardinality(O)
  BY <1>4, FS_Bijection
<1> QED
  BY <1>5 DEF R
-----------------------------------------------------------------------------
(* The contract.                                                           *)

LEMMA SameNumber ==
    ASSUME NEW S
    PROVE  Contract!Cardinality(S) = Cardinality(S)
  BY DEF Cardinality, Contract!Cardinality

\* The queue and the agents on their way to it.
LEMMA QueueFacts ==
    ASSUME WaitListInv
    PROVE  /\ wait_list \in Seq(Nodes) /\ IsInjective(wait_list)
           /\ woken \subseteq ToSet(wait_list) /\ ToSet(wait_list) \subseteq Nodes
           /\ Arriving \subseteq Agents /\ Arriving \cap ToSet(wait_list) = {}
           /\ ~wait_lock => Arriving = {}
           /\ \A a \in Agents : pc[a] = "linking" => Arriving = {a}
           /\ AsyncNodes \subseteq Nodes /\ Agents \subseteq Nodes
<1>1. /\ wait_list \in Seq(Nodes) /\ IsInjective(wait_list)
      /\ woken \subseteq ToSet(wait_list)
  BY DEF WaitListInv, TypeOK, NoDeadNode
<1>2. ToSet(wait_list) \subseteq Nodes
  BY <1>1, LenProperties, ElementOfSeq DEF ToSet
<1>3. Arriving \cap ToSet(wait_list) = {}
  BY AgentsAreNotNodes DEF WaitListInv, NoDeadNode, Arriving
<1>4. /\ ~wait_lock => Arriving = {}
      /\ \A a \in Agents : pc[a] = "linking" => Arriving = {a}
  BY DEF WaitListInv, LockInv, Arriving
<1> QED
  BY <1>1, <1>2, <1>3, <1>4 DEF Arriving, Nodes

\* A step that neither the queue nor the answer shows.
LEMMA InternalStep ==
    ASSUME WaitListInv, wait_list' = wait_list, woken' = woken,
           Arriving' = Arriving,
           \A n \in ToSet(wait_list) \cup Arriving : wait'[n] = wait[n]
    PROVE  UNCHANGED <<Unwoken, Earlier, Place>>
<1>1. Unwoken' = Unwoken
  BY DEF Unwoken
<1>2. Earlier' = Earlier
  BY <1>1 DEF Earlier
<1>3. Place' = Place
  BY DEF Place
<1> QED
  BY <1>1, <1>2, <1>3

\* A node leaves the queue, or the nodes that are to answer (removeWaiter).
LEMMA LeaveStep ==
    ASSUME WaitListInv, NEW n \in ToSet(wait_list), removeWaiter(n),
           Arriving' = Arriving, mem' = mem
    PROVE  Contract!Leave(n)
<1>1. /\ n \in Nodes /\ n \notin Arriving
      /\ wait_list \in Seq(Nodes) /\ IsInjective(wait_list)
  BY QueueFacts
<1>2. /\ wait_list' = RemoveFirst(wait_list, n)
      /\ ToSet(wait_list') = ToSet(wait_list) \ {n}
      /\ woken' = woken \ {n}
      /\ \A m \in Nodes \ {n} : wait'[m] = wait[m]
  BY <1>1, Unlink DEF removeWaiter
<1>3. Unwoken' = Unwoken \ {n}
  BY <1>1, <1>2 DEF Unwoken
<1>4. Earlier' = {e \in Earlier : e[1] \notin {n} /\ e[2] \notin {n}}
  <2>1. \A v, w : Precedes(wait_list', v, w)
                    <=> Precedes(wait_list, v, w) /\ v # n /\ w # n
    BY <1>1, <1>2, RemoveFirstOrder
  <2>2. ASSUME NEW v \in Unwoken', NEW w \in Unwoken'
        PROVE  <<v, w>> \in Earlier' <=> <<v, w>> \in Earlier
    BY <1>2, <1>3, <2>1 DEF Earlier
  <2>3. Earlier' \subseteq Unwoken' \X Unwoken' /\ Earlier \subseteq Unwoken \X Unwoken
    BY DEF Earlier
  <2> QED
    BY <1>3, <2>2, <2>3
<1>5. Place' = [Place EXCEPT ![n] = "nowhere"]
  <2>1. \A m \in Nodes \ {n} : Place'[m] = Place[m]
    BY <1>2 DEF Place
  <2>2. Place'[n] = "nowhere"
    BY <1>1, <1>2 DEF Place
  <2>3. Place = [m \in Nodes |-> Place[m]] /\ Place' = [m \in Nodes |-> Place'[m]]
    BY DEF Place
  <2> QED
    BY <2>1, <2>2, <2>3
<1> QED
  BY <1>2, <1>3, <1>4, <1>5 DEF Contract!Leave, Contract!Dequeue, Contract!Nowhere

\* A node that answers was taken by a notify, or timed out in the queue.
LEMMA AnswerStep ==
    ASSUME WaitListInv, NEW n \in ToSet(wait_list), removeWaiter(n),
           Arriving' = Arriving, mem' = mem, answer' = <<n, Outcome(n)>>
    PROVE  Contract!Return(n) \/ Contract!Timeout(n)
<1>1. Contract!Leave(n)
  BY LeaveStep
<1>2. CASE n \in woken
  BY <1>1, <1>2 DEF Contract!Return, Outcome
<1>3. CASE n \notin woken
  BY <1>1, <1>3 DEF Contract!Timeout, Outcome, Unwoken
<1> QED
  BY <1>2, <1>3

\* A notify takes the first of the sleepers of its index.
LEMMA NotifyRefines ==
    ASSUME WaitListInv, NEW a \in Agents, NEW p \in Positions, NEW n \in Counts,
           Notify(a, p, n)
    PROVE  Contract!Notify(p, n)
<1> DEFINE O == Oldest(p, n)
           S == Sleepers(p)
           oldest == {wait_list[i] : i \in O}
           here == {w \in Unwoken : Place[w] = p}
<1>1. /\ ~wait_lock /\ wakeWaiters(p, n)
      /\ UNCHANGED <<mem, wait_lock, wait_list, wait, pc>>
  BY DEF Notify, agentVars
<1>2. /\ wait_list \in Seq(Nodes) /\ IsInjective(wait_list)
      /\ woken \subseteq ToSet(wait_list) /\ ToSet(wait_list) \subseteq Nodes
      /\ Arriving = {} /\ Arriving' = Arriving
  BY <1>1, QueueFacts DEF Arriving
<1>3. Len(wait_list) \in Nat /\ DOMAIN wait_list = 1 .. Len(wait_list) /\ n \in Nat
  BY <1>2, LenProperties, CountsAssumption
<1>4. S \subseteq DOMAIN wait_list /\ O \subseteq S
  BY DEF Sleepers, Oldest
<1>5. /\ IsFiniteSet(O) /\ IsFiniteSet(S)
      /\ Cardinality(O) = IF n < Cardinality(S) THEN n ELSE Cardinality(S)
      /\ \A i \in O, j \in S \ O : i < j
  <2>1. O = FirstOf(S, n)
    BY DEF Oldest, FirstOf
  <2>2. S \in SUBSET (1 .. Len(wait_list))
    BY <1>3, <1>4
  <2>3. \A m \in Nat : \A T \in SUBSET (1 .. m) : \A k \in Nat :
          AreFirst(FirstOf(T, k), T, k)
    BY FirstOnes
  <2> DEFINE m == Len(wait_list)
  <2>4. m \in Nat /\ S \in SUBSET (1 .. m) /\ n \in Nat
    BY <1>3, <2>2
  <2> HIDE DEF O, S, m
  <2> QED
    BY <2>1, <2>3, <2>4, Zenon DEF AreFirst
<1>6. here = {wait_list[i] : i \in S}
  <2>1. \A w \in ToSet(wait_list) : w \in Nodes /\ Place[w] = wait[w].pos
    BY <1>2 DEF Place
  <2>2. Unwoken = ToSet(wait_list) \ woken
    BY <1>2 DEF Unwoken
  <2> QED
    BY <2>1, <2>2 DEF Sleepers, ToSet
<1> HIDE DEF O, S
<1>7. oldest \in SUBSET here
  BY <1>4, <1>6
<1>8. Cardinality(oldest) = Cardinality(O) /\ Cardinality(here) = Cardinality(S)
  <2>1. O \in SUBSET (DOMAIN wait_list) /\ S \in SUBSET (DOMAIN wait_list)
    BY <1>4
  <2> QED
    BY <1>2, <1>5, <1>6, <2>1, AsManyNodes
<1>9. oldest \X (here \ oldest) \subseteq Earlier
  <2> SUFFICES ASSUME NEW v \in oldest, NEW w \in here \ oldest
               PROVE  <<v, w>> \in Earlier
    OBVIOUS
  <2>1. PICK i \in O : wait_list[i] = v
    OBVIOUS
  <2>2. PICK j \in S : wait_list[j] = w
    BY <1>6
  <2>3. j \notin O
    BY <2>2
  <2>4. i < j
    BY <1>5, <2>1, <2>2, <2>3
  <2>5. Precedes(wait_list, v, w)
    BY <1>4, <2>1, <2>2, <2>4 DEF Precedes
  <2>6. v \in Unwoken /\ w \in Unwoken
    BY <1>7
  <2> QED
    BY <2>5, <2>6 DEF Earlier
<1>10. woken' = woken \cup oldest /\ answer' = <<"woken", Cardinality(oldest)>>
  BY <1>1, <1>8 DEF wakeWaiters, O
<1> HIDE DEF oldest
<1>11. Unwoken' = Unwoken \ oldest
  BY <1>1, <1>2, <1>10 DEF Unwoken
<1>12. Earlier' = {e \in Earlier : e[1] \notin oldest /\ e[2] \notin oldest}
  <2>1. ASSUME NEW v \in Unwoken', NEW w \in Unwoken'
        PROVE  <<v, w>> \in Earlier' <=> <<v, w>> \in Earlier
    BY <1>1, <1>2, <1>11 DEF Earlier
  <2>2. Earlier' \subseteq Unwoken' \X Unwoken' /\ Earlier \subseteq Unwoken \X Unwoken
    BY DEF Earlier
  <2> QED
    BY <1>11, <2>1, <2>2
<1>13. Place' = Place
  BY <1>1, <1>2 DEF Place
<1>14. Cardinality(oldest) = IF n < Cardinality(here) THEN n ELSE Cardinality(here)
  BY <1>5, <1>8
<1> HIDE DEF here
<1>15. \E old \in SUBSET here :
         /\ Cardinality(old) = IF n < Cardinality(here) THEN n ELSE Cardinality(here)
         /\ old \X (here \ old) \subseteq Earlier
         /\ Contract!Dequeue(old)
         /\ woken' = woken \cup old
         /\ answer' = <<"woken", Cardinality(old)>>
         /\ UNCHANGED <<mem, Place>>
  BY <1>1, <1>7, <1>9, <1>10, <1>11, <1>12, <1>13, <1>14 DEF Contract!Dequeue
<1>16. \A X : Contract!Cardinality(X) = Cardinality(X)
  BY SameNumber
<1> QED
  <2>1. Contract!Notify(p, n) <=>
          \E old \in SUBSET here :
            /\ Contract!Cardinality(old) =
                 IF n < Contract!Cardinality(here) THEN n
                                                  ELSE Contract!Cardinality(here)
            /\ old \X (here \ old) \subseteq Earlier
            /\ Contract!Dequeue(old)
            /\ woken' = woken \cup old
            /\ answer' = <<"woken", Contract!Cardinality(old)>>
            /\ UNCHANGED <<mem, Place>>
    BY Zenon DEF Contract!Notify, here
  <2> QED
    BY <1>15, <1>16, <2>1, Zenon
\* An agent that neither comes to its compare nor leaves it.
LEMMA ArrivingSame ==
    ASSUME WaitListInv, NEW a \in Agents, NEW s, Goto(a, s),
           pc[a] # "linking", s # "linking"
    PROVE  Arriving' = Arriving
<1>1. pc \in [Agents -> States] /\ pc' = [pc EXCEPT ![a] = s]
  BY DEF WaitListInv, TypeOK, Goto
<1> QED
  BY <1>1 DEF Arriving

\* The agents' own bookkeeping, and the life of the block.
LEMMA UnseenStep ==
    ASSUME WaitListInv, Silent, Arriving' = Arriving,
           UNCHANGED <<mem, wait_list, woken>>,
           \A n \in ToSet(wait_list) \cup Arriving : wait'[n] = wait[n]
    PROVE  Contract!Next
<1>1. UNCHANGED <<Unwoken, Earlier, Place>>
  BY InternalStep
<1>2. Contract!Internal
  BY <1>1 DEF Contract!Internal, Contract!Silent, Silent
<1> QED
  BY <1>2 DEF Contract!Next

\* A node between uses, or of an agent that is not waiting, is not in the queue.
LEMMA NotQueued ==
    ASSUME WaitListInv
    PROVE  /\ \A a \in Agents : pc[a] # "parked" => a \notin ToSet(wait_list)
           /\ \A n \in AsyncNodes : wait[n] = NoWait => n \notin ToSet(wait_list)
           /\ \A a \in Agents : pc[a] = "parked" => a \in ToSet(wait_list)
           /\ \A n \in AsyncNodes : wait[n] # NoWait => n \in ToSet(wait_list)
  BY AgentsAreNotNodes DEF WaitListInv, NoDeadNode

\* A waiter that was not in the queue comes last.
LEMMA JoinStep ==
    ASSUME WaitListInv, NEW n \in Nodes, NEW p \in Positions, NEW b \in Bits,
           n \notin ToSet(wait_list), n \notin Arriving,
           n \in Agents => mem[p] = b, Silent, UNCHANGED <<mem, woken>>,
           Unwoken' = Unwoken \cup {n},
           Earlier' = Earlier \cup (Unwoken \X {n}),
           wait'[n].pos = p,
           ToSet(wait_list') \cup Arriving' = ToSet(wait_list) \cup Arriving \cup {n},
           \A m \in ToSet(wait_list) \cup Arriving : wait'[m] = wait[m]
    PROVE  Contract!Next
<1>1. woken \subseteq ToSet(wait_list)
  BY QueueFacts
<1>2. n \notin Unwoken \cup woken
  BY <1>1 DEF Unwoken
<1>3. Place' = [Place EXCEPT ![n] = p]
  <2>1. \A m \in Nodes \ {n} : Place'[m] = Place[m]
    BY DEF Place
  <2>2. Place'[n] = p
    BY DEF Place
  <2>3. Place = [m \in Nodes |-> Place[m]] /\ Place' = [m \in Nodes |-> Place'[m]]
    BY DEF Place
  <2> QED
    BY <2>1, <2>2, <2>3
<1>4. Contract!Join(n, p, b)
  BY <1>2, <1>3 DEF Contract!Join, Contract!Involved, Contract!Silent, Silent
<1> QED
  BY <1>4 DEF Contract!Next

\* A blocking wait arrives when it compares, under the lock.
LEMMA WaitCompareJoins ==
    ASSUME WaitListInv, NEW a \in Agents, NEW p \in Positions, NEW b \in Bits,
           NEW t \in BOOLEAN, WaitCompare(a, p, b, t)
    PROVE  Contract!Next
<1>1. /\ pc[a] = "idle" /\ ~wait_lock /\ mem[p] = b /\ Silent
      /\ wait' = [wait EXCEPT ![a] = [pos |-> p, expected |-> b,
                                      timed |-> t, agent |-> a]]
      /\ pc' = [pc EXCEPT ![a] = "linking"]
      /\ UNCHANGED <<mem, wait_list, woken>>
  BY DEF WaitCompare, Ready, Idle, Goto
<1>2. /\ pc \in [Agents -> States] /\ wait \in [Nodes -> Requests \cup {NoWait}]
      /\ a \in Nodes
  BY DEF WaitListInv, TypeOK, Nodes
<1>3. Arriving = {} /\ Arriving' = {a}
  <2>1. Arriving = {}
    BY <1>1, QueueFacts
  <2>2. pc'[a] = "linking" /\ \A c \in Agents \ {a} : pc'[c] = pc[c]
    BY <1>1, <1>2
  <2> QED
    BY <2>1, <2>2 DEF Arriving
<1>4. a \notin ToSet(wait_list) /\ woken \subseteq ToSet(wait_list)
  BY <1>1, NotQueued, QueueFacts
<1>5. /\ wait'[a].pos = p
      /\ \A m \in ToSet(wait_list) \cup Arriving : wait'[m] = wait[m]
  BY <1>1, <1>2, <1>3, <1>4, QueueFacts
<1>6. Unwoken' = Unwoken \cup {a} /\ Unwoken = ToSet(wait_list) \ woken
  BY <1>1, <1>3, <1>4 DEF Unwoken
<1>7. \A v, w : Precedes(wait_list, v, w) => v \in ToSet(wait_list) /\ w \in ToSet(wait_list)
  BY DEF Precedes, ToSet
<1>8. Earlier' = Earlier \cup (Unwoken \X {a})
  <2>1. Earlier = {e \in Unwoken \X Unwoken : Precedes(wait_list, e[1], e[2])}
    BY <1>3 DEF Earlier
  <2>2. Earlier' = {e \in (Unwoken \cup {a}) \X (Unwoken \cup {a}) :
                      \/ Precedes(wait_list, e[1], e[2])
                      \/ e[1] \in ToSet(wait_list) /\ e[2] = a}
    BY <1>1, <1>3, <1>6 DEF Earlier
  <2>3. \A v, w : <<v, w>> \in Earlier' <=> <<v, w>> \in Earlier \cup (Unwoken \X {a})
    BY <1>4, <1>6, <1>7, <2>1, <2>2
  <2>4. /\ Earlier' \subseteq (Unwoken \cup {a}) \X (Unwoken \cup {a})
        /\ Earlier \subseteq Unwoken \X Unwoken
    BY <2>1, <2>2
  <2> QED
    BY <2>3, <2>4
<1>9. /\ ToSet(wait_list') \cup Arriving' = ToSet(wait_list) \cup Arriving \cup {a}
      /\ a \notin Arriving
  BY <1>1, <1>3
<1> QED
  BY <1>1, <1>2, <1>4, <1>5, <1>6, <1>8, <1>9, JoinStep

\* waitAsync arrives when it links.
LEMMA WaitAsyncLinkJoins ==
    ASSUME WaitListInv, NEW a \in Agents, NEW n \in AsyncNodes, WaitAsyncLink(a, n)
    PROVE  Contract!Next
<1>1. /\ pc[a] = "arming" /\ ~wait_lock /\ wait[n] = NoWait /\ Silent
      /\ wait_list' = Append(wait_list, n)
      /\ wait' = [wait EXCEPT ![n] = wait[a], ![a] = NoWait]
      /\ Goto(a, "enrolling")
      /\ UNCHANGED <<mem, woken>>
  BY DEF WaitAsyncLink, addWaiter
<1>2. /\ wait \in [Nodes -> Requests \cup {NoWait}]
      /\ a \in Nodes /\ n \in Nodes /\ n \notin Agents
      /\ wait_list \in Seq(Nodes) /\ IsInjective(wait_list)
      /\ woken \subseteq ToSet(wait_list)
  BY AgentsAreNotNodes, QueueFacts DEF WaitListInv, TypeOK, Nodes
<1>3. Arriving = {} /\ Arriving' = {}
  <2>1. Arriving = {}
    BY <1>1, QueueFacts
  <2> QED
    BY <1>1, <2>1, ArrivingSame
<1>4. n \notin ToSet(wait_list) /\ a \notin ToSet(wait_list)
  BY <1>1, NotQueued
<1> DEFINE p == wait[a].pos
           b == wait[a].expected
<1>5. p \in Positions /\ b \in Bits
  BY <1>1, <1>2 DEF WaitListInv, WaitInv, Waiting, Requests
<1>6. /\ wait'[n].pos = p
      /\ \A m \in ToSet(wait_list) \cup Arriving : wait'[m] = wait[m]
  BY <1>1, <1>2, <1>3, <1>4, QueueFacts
<1> HIDE DEF p, b
<1>7. ToSet(wait_list') = ToSet(wait_list) \cup {n}
  BY <1>1, <1>2, <1>4, AppendInjectiveSeq
<1>8. Unwoken' = Unwoken \cup {n} /\ Unwoken = ToSet(wait_list) \ woken
  BY <1>1, <1>2, <1>3, <1>4, <1>7 DEF Unwoken
<1>9. /\ \A v, w : Precedes(wait_list', v, w)
             <=> Precedes(wait_list, v, w) \/ (v \in ToSet(wait_list) /\ w = n)
      /\ \A v, w : Precedes(wait_list, v, w) => v \in ToSet(wait_list) /\ w \in ToSet(wait_list)
  <2>1. \A v, w : Precedes(wait_list', v, w)
             <=> Precedes(wait_list, v, w) \/ (v \in ToSet(wait_list) /\ w = n)
    BY <1>1, <1>2, <1>4, AppendOrder
  <2> QED
    BY <2>1 DEF Precedes, ToSet
<1>10. Earlier' = Earlier \cup (Unwoken \X {n})
  <2>1. Earlier = {e \in Unwoken \X Unwoken : Precedes(wait_list, e[1], e[2])}
    BY <1>3 DEF Earlier
  <2>2. Earlier' = {e \in (Unwoken \cup {n}) \X (Unwoken \cup {n}) :
                      Precedes(wait_list', e[1], e[2])}
    BY <1>3, <1>8 DEF Earlier
  <2>3. \A v, w : <<v, w>> \in Earlier' <=> <<v, w>> \in Earlier \cup (Unwoken \X {n})
    BY <1>4, <1>8, <1>9, <2>1, <2>2
  <2>4. /\ Earlier' \subseteq (Unwoken \cup {n}) \X (Unwoken \cup {n})
        /\ Earlier \subseteq Unwoken \X Unwoken
    BY <2>1, <2>2
  <2> QED
    BY <2>3, <2>4
<1>11. /\ ToSet(wait_list') \cup Arriving' = ToSet(wait_list) \cup Arriving \cup {n}
       /\ n \notin Arriving
  BY <1>3, <1>7
<1> QED
  BY <1>1, <1>2, <1>4, <1>5, <1>6, <1>8, <1>10, <1>11, JoinStep

\* The arrival of a blocking wait is complete when it links.
LEMMA WaitLinkUnseen ==
    ASSUME WaitListInv, NEW a \in Agents, WaitLink(a)
    PROVE  Contract!Next
<1>1. /\ pc[a] = "linking" /\ Silent
      /\ wait_list' = Append(wait_list, a)
      /\ pc' = [pc EXCEPT ![a] = "parked"]
      /\ UNCHANGED <<mem, woken, wait>>
  BY DEF WaitLink, addWaiter, Goto
<1>2. /\ pc \in [Agents -> States] /\ a \in Nodes
      /\ wait_list \in Seq(Nodes) /\ IsInjective(wait_list)
      /\ woken \subseteq ToSet(wait_list)
  BY QueueFacts DEF WaitListInv, TypeOK
<1>3. Arriving = {a} /\ Arriving' = {}
  <2>1. Arriving = {a}
    BY <1>1, QueueFacts
  <2>2. pc'[a] = "parked" /\ \A c \in Agents \ {a} : pc'[c] = pc[c]
    BY <1>1, <1>2
  <2> QED
    BY <2>1, <2>2 DEF Arriving
<1>4. a \notin ToSet(wait_list)
  BY <1>1, NotQueued
<1>5. ToSet(wait_list') = ToSet(wait_list) \cup {a}
  BY <1>1, <1>2, <1>4, AppendInjectiveSeq
<1>6. Unwoken' = Unwoken
  BY <1>1, <1>2, <1>3, <1>4, <1>5 DEF Unwoken
<1>7. Earlier' = Earlier
  <2>1. \A v, w : Precedes(wait_list', v, w)
             <=> Precedes(wait_list, v, w) \/ (v \in ToSet(wait_list) /\ w = a)
    BY <1>1, <1>2, <1>4, AppendOrder
  <2>2. Earlier' = {e \in Unwoken \X Unwoken : Precedes(wait_list', e[1], e[2])}
    BY <1>3, <1>6 DEF Earlier
  <2>3. Earlier = {e \in Unwoken \X Unwoken :
                     \/ Precedes(wait_list, e[1], e[2])
                     \/ e[1] \in ToSet(wait_list) /\ e[2] = a}
    BY <1>3 DEF Earlier
  <2> QED
    BY <2>1, <2>2, <2>3
<1>8. Place' = Place
  BY <1>1, <1>3, <1>5 DEF Place
<1>9. Contract!Internal
  BY <1>1, <1>6, <1>7, <1>8 DEF Contract!Internal, Contract!Silent, Silent
<1> QED
  BY <1>9 DEF Contract!Next
\* A blocking wait answers.
LEMMA WaitReturnAnswers ==
    ASSUME WaitListInv, NEW a \in Agents, WaitReturn(a)
    PROVE  Contract!Next
<1>1. /\ pc[a] = "parked" /\ removeWaiter(a) /\ Goto(a, "idle")
      /\ answer' = <<a, Outcome(a)>> /\ mem' = mem
  BY DEF WaitReturn
<1>2. a \in ToSet(wait_list) /\ a \in Nodes
  BY <1>1, NotQueued, QueueFacts
<1>3. Arriving' = Arriving
  BY <1>1, ArrivingSame
<1>4. Contract!Return(a) \/ Contract!Timeout(a)
  BY <1>1, <1>2, <1>3, AnswerStep
<1> QED
  BY <1>2, <1>4 DEF Contract!Next

\* A pass over the pending waits settles one.
LEMMA FireSettleAnswers ==
    ASSUME WaitListInv, NEW a \in Agents, FireSettle(a)
    PROVE  Contract!Next
<1> DEFINE k == cursor[a]
           n == pending[a][k]
<1>1. /\ pc[a] = "firing" /\ k <= Len(pending[a])
      /\ removeWaiter(n) /\ answer' = <<n, Outcome(n)>>
      /\ UNCHANGED <<mem, pc>>
  BY DEF FireSettle
<1>2. pending[a] \in Seq(AsyncNodes)
  BY PendingNodes
<1>3. k \in 1 .. Len(pending[a])
  BY <1>1, <1>2, LenProperties DEF WaitListInv, TypeOK, PendingInv
<1>4. n \in ToSet(pending[a])
  BY <1>2, <1>3, LenProperties DEF ToSet
<1>5. n \in AsyncNodes /\ wait[n] # NoWait
  BY <1>4, PendingNodes
<1> HIDE DEF k, n
<1>6. n \in ToSet(wait_list) /\ n \in Nodes
  BY <1>5, NotQueued, QueueFacts
<1>7. Arriving' = Arriving
  BY <1>1 DEF Arriving
<1>8. Contract!Return(n) \/ Contract!Timeout(n)
  BY <1>1, <1>6, <1>7, AnswerStep
<1> QED
  BY <1>6, <1>8 DEF Contract!Next

\* A node is let go of without an answer.
LEMMA AbandonStep ==
    ASSUME WaitListInv, NEW n \in AsyncNodes, wait[n] # NoWait, removeWaiter(n),
           Arriving' = Arriving, mem' = mem, Silent
    PROVE  Contract!Next
<1>1. n \in ToSet(wait_list) /\ n \in Nodes
  BY NotQueued, QueueFacts
<1>2. Contract!Leave(n)
  BY <1>1, LeaveStep
<1>3. n \in Contract!Involved
  BY <1>1 DEF Contract!Involved, Unwoken
<1>4. Contract!Abandon(n)
  BY <1>2, <1>3 DEF Contract!Abandon, Contract!Silent, Silent
<1> QED
  BY <1>1, <1>4 DEF Contract!Next

LEMMA WaitAsyncThrowAbandons ==
    ASSUME WaitListInv, NEW a \in Agents, WaitAsyncThrow(a)
    PROVE  Contract!Next
<1>1. /\ Goto(a, "idle") /\ Silent /\ mem' = mem
      /\ \/ /\ pc[a] = "arming" /\ wait' = [wait EXCEPT ![a] = NoWait]
            /\ UNCHANGED <<wait_list, woken>>
         \/ \E n \in AsyncNodes : InHand(a, n) /\ removeWaiter(n)
  BY DEF WaitAsyncThrow
<1>2. pc[a] \in {"arming", "enrolling"}
  BY <1>1 DEF InHand
<1>3. Arriving' = Arriving
  BY <1>1, <1>2, ArrivingSame
<1>4. CASE /\ pc[a] = "arming" /\ wait' = [wait EXCEPT ![a] = NoWait]
           /\ UNCHANGED <<wait_list, woken>>
  <2>1. wait \in [Nodes -> Requests \cup {NoWait}]
    BY DEF WaitListInv, TypeOK
  <2>2. a \notin ToSet(wait_list) \cup Arriving
    BY <1>4, NotQueued DEF Arriving
  <2>3. \A n \in ToSet(wait_list) \cup Arriving : wait'[n] = wait[n]
    BY <1>4, <2>1, <2>2, QueueFacts
  <2> QED
    BY <1>1, <1>3, <1>4, <2>3, UnseenStep
<1>5. ASSUME NEW n \in AsyncNodes, InHand(a, n), removeWaiter(n)
      PROVE  Contract!Next
  BY <1>1, <1>3, <1>5, AbandonStep DEF InHand
<1> QED
  BY <1>1, <1>4, <1>5

\* A realm that is torn down frees a pending node.
LEMMA ClearPendingAbandons ==
    ASSUME WaitListInv, NEW a \in Agents, ClearPending(a)
    PROVE  Contract!Next
<1> DEFINE n == Head(pending[a])
<1>1. /\ pending[a] # <<>> /\ removeWaiter(n) /\ Silent
      /\ UNCHANGED <<mem, pc>>
  BY DEF ClearPending
<1>2. n \in ToSet(pending[a])
  <2>1. pending[a] \in Seq(AsyncNodes)
    BY PendingNodes
  <2>2. 1 \in DOMAIN pending[a]
    BY <1>1, <2>1, LenProperties, EmptySeq
  <2> QED
    BY <2>1, <2>2 DEF ToSet
<1>3. n \in AsyncNodes /\ wait[n] # NoWait
  BY <1>2, PendingNodes
<1> HIDE DEF n
<1>4. Arriving' = Arriving
  BY <1>1 DEF Arriving
<1> QED
  BY <1>1, <1>3, <1>4, AbandonStep

\* Stores and refusals.
LEMMA PlainSteps ==
    ASSUME WaitListInv, NEW a \in Agents, NEW p \in Positions, NEW b \in Bits,
           Store(a, p, b) \/ WaitRefused(a, p, b) \/ WaitAsyncRefused(a, p, b)
    PROVE  Contract!Next
<1>1. UNCHANGED <<woken, wait_list, wait, pc>>
  BY DEF Store, WaitRefused, WaitAsyncRefused, Refuse, listVars, agentVars
<1>2. Arriving' = Arriving
  BY <1>1 DEF Arriving
<1>3. UNCHANGED <<Unwoken, Earlier, Place>>
  BY <1>1, <1>2, InternalStep
<1>4. CASE Store(a, p, b)
  <2>1. Contract!Store(p, b)
    BY <1>1, <1>3, <1>4 DEF Store, Silent, Contract!Store, Contract!Silent
  <2> QED
    BY <2>1 DEF Contract!Next
<1>5. CASE WaitRefused(a, p, b) \/ WaitAsyncRefused(a, p, b)
  <2>1. PICK r \in {"not-equal", "timed-out"} :
          Refuse(r) /\ (r = "not-equal" => mem[p] # b)
    BY <1>5 DEF WaitRefused, WaitAsyncRefused
  <2>2. Contract!Refuse(p, b, r)
    BY <1>1, <1>3, <2>1 DEF Refuse, Contract!Refuse
  <2> QED
    BY <2>2 DEF Contract!Next
<1> QED
  BY <1>4, <1>5

\* Steps that leave the list alone.
LEMMA UnseenSteps ==
    ASSUME WaitListInv, NEW a \in Agents,
           \/ \E p \in Positions, b \in Bits, t \in BOOLEAN : WaitAsyncCompare(a, p, b, t)
           \/ \E n \in AsyncNodes : WaitAsyncEnrol(a, n)
           \/ QueueTask(a) \/ FireStart(a) \/ FireSkip(a) \/ FireEnd(a)
           \/ \E b \in Agents : wrapSharedBlock(a, b)
           \/ SweepObject(a) \/ Teardown(a) \/ ReleaseObjects(a)
    PROVE  Contract!Next
<1> DEFINE Private ==
             /\ Silent /\ UNCHANGED <<mem, wait_list, woken>>
             /\ \/ wait' = wait
                \/ /\ pc[a] = "idle"
                   /\ \E r : wait' = [wait EXCEPT ![a] = r]
             /\ \/ pc' = pc
                \/ pc[a] # "linking" /\ \E s : s # "linking" /\ Goto(a, s)
<1>1. Private
  <2>1. ASSUME NEW p \in Positions, NEW b \in Bits, NEW t \in BOOLEAN,
               WaitAsyncCompare(a, p, b, t)
        PROVE  Private
    BY <2>1 DEF WaitAsyncCompare, Ready, Idle
  <2>2. ASSUME NEW n \in AsyncNodes, WaitAsyncEnrol(a, n)
        PROVE  Private
    BY <2>2 DEF WaitAsyncEnrol, InHand, listVars
  <2>3. CASE QueueTask(a) \/ FireStart(a) \/ FireSkip(a) \/ FireEnd(a)
    BY <2>3 DEF QueueTask, FireStart, FireSkip, FireEnd, Idle, listVars
  <2>4. ASSUME NEW b \in Agents, wrapSharedBlock(a, b)
        PROVE  Private
    BY <2>4 DEF wrapSharedBlock, listVars, agentVars
  <2>5. CASE SweepObject(a)
    BY <2>5 DEF SweepObject, listVars, agentVars
  <2>6. CASE Teardown(a) \/ ReleaseObjects(a)
    BY <2>6 DEF Teardown, ReleaseObjects, Idle, listVars
  <2> QED
    BY <2>1, <2>2, <2>3, <2>4, <2>5, <2>6
<1>2. Arriving' = Arriving
  <2>1. CASE pc' = pc
    BY <2>1 DEF Arriving
  <2> QED
    BY <1>1, <2>1, ArrivingSame
<1>3. \A n \in ToSet(wait_list) \cup Arriving : wait'[n] = wait[n]
  <2>1. CASE pc[a] = "idle" /\ \E r : wait' = [wait EXCEPT ![a] = r]
    <3>1. a \notin ToSet(wait_list) \cup Arriving
      BY <2>1, NotQueued DEF Arriving
    <3>2. wait \in [Nodes -> Requests \cup {NoWait}]
      BY DEF WaitListInv, TypeOK
    <3> QED
      BY <2>1, <3>1, <3>2, QueueFacts
  <2> QED
    BY <1>1, <2>1
<1> QED
  BY <1>1, <1>2, <1>3, UnseenStep

LEMMA StepsKeepContract ==
    ASSUME WaitListInv, Next
    PROVE  Contract!Next
<1>1. ASSUME NEW a \in Agents, WaitSteps(a) PROVE Contract!Next
  BY <1>1, PlainSteps, WaitCompareJoins, WaitLinkUnseen, WaitReturnAnswers DEF WaitSteps
<1>2. ASSUME NEW a \in Agents, WaitAsyncSteps(a) PROVE Contract!Next
  <2>1. ASSUME NEW p \in Positions, NEW b \in Bits,
               (\E t \in BOOLEAN : WaitAsyncCompare(a, p, b, t)) \/ WaitAsyncRefused(a, p, b)
        PROVE  Contract!Next
    BY <2>1, PlainSteps, UnseenSteps
  <2>2. ASSUME NEW n \in AsyncNodes, WaitAsyncLink(a, n) \/ WaitAsyncEnrol(a, n)
        PROVE  Contract!Next
    BY <2>2, WaitAsyncLinkJoins, UnseenSteps
  <2> QED
    BY <1>2, <2>1, <2>2, WaitAsyncThrowAbandons, FireSettleAnswers, UnseenSteps
       DEF WaitAsyncSteps
<1>3. ASSUME NEW a \in Agents, BlockSteps(a) PROVE Contract!Next
  BY <1>3, UnseenSteps, ClearPendingAbandons DEF BlockSteps
<1>4. ASSUME NEW a \in Agents, NEW p \in Positions, NEW n \in Counts, Notify(a, p, n)
      PROVE  Contract!Next
  <2>1. Contract!Notify(p, n)
    BY <1>4, NotifyRefines
  <2> QED
    BY <2>1 DEF Contract!Next
<1> QED
  BY <1>1, <1>2, <1>3, <1>4, PlainSteps DEF Next

\* The lock, the flags and the list implement the queue of waiters: waits are
\* woken in order of arrival, a notify reports the number it woke, and each wait
\* answers as the notify that took it, or did not, says.
THEOREM ContractKept == Spec => KeepsContract
<1>1. Init => Contract!Init
  <2> SUFFICES ASSUME Init PROVE Contract!Init
    OBVIOUS
  <2>1. wait_list = <<>> /\ woken = {} /\ answer = <<>>
        /\ mem \in [Positions -> Bits]
    BY BitsAssumption DEF Init
  <2>2. ToSet(wait_list) = {}
    BY <2>1, EmptySeq, LenProperties DEF ToSet
  <2>3. Arriving = {}
    BY DEF Init, Arriving
  <2>4. Unwoken = {}
    BY <2>2, <2>3 DEF Unwoken
  <2>5. Earlier = {} /\ Place = [n \in Nodes |-> "nowhere"]
    BY <2>2, <2>3, <2>4 DEF Earlier, Place
  <2> QED
    BY <2>1, <2>4, <2>5 DEF Contract!Init, Contract!Nowhere
<1>2. ASSUME WaitListInv, UNCHANGED vars
      PROVE  UNCHANGED <<mem, Unwoken, Earlier, Place, woken, answer>>
  <2>1. UNCHANGED <<mem, wait_list, woken, wait, pc, answer>>
    BY <1>2 DEF vars, listVars, agentVars
  <2>2. Arriving' = Arriving
    BY <2>1 DEF Arriving
  <2> QED
    BY <1>2, <2>1, <2>2, InternalStep
<1>3. WaitListInv /\ [Next]_vars => [Contract!Next]_(Contract!vars)
  BY <1>2, StepsKeepContract DEF Contract!vars
<1> QED
  BY <1>1, <1>3, Invariance, PTL DEF Spec, KeepsContract, Contract!Spec
===============================================================================
