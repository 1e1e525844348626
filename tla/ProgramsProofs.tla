----------------------------- MODULE ProgramsProofs ----------------------------
(***************************************************************************)
(* Proofs about two of the programs: the scheduler of Richards, for every  *)
(* pair of arguments of its idle task and runs of any length, and the      *)
(* driver of Playground, for any number of loads and of calls.             *)
(***************************************************************************)
EXTENDS Richards, Playground, SequenceTheorems, FiniteSetTheorems, TLAPS

Blocks == [queue : Seq(Packets), state : SUBSET {"runnable", "suspended", "held"}]

\* The blocks and the scheduler's place in their list.
BlocksOK ==
    /\ tcb \in [Ids -> Blocks]
    /\ currentTcb \in -1 .. 5
    /\ RunnableIffQueued
    /\ HighestPriorityRuns

\* What the tasks keep.
PacketsOK ==
    /\ packets \in [Packets -> [id : Ids, a1 : Int]]
    /\ DOMAIN mine = Ids
    /\ \A t \in Handlers : mine[t] \in [work : Seq(Packets), device : Seq(Packets)]
    /\ \A t \in Devices : mine[t] \in [v1 : Seq(Packets)]

\* The inductive invariant: a service is sound only on blocks whose flags tell
\* the truth, for run takes a packet on the word of a flag.
RichardsInv == BlocksOK /\ PacketsOK

-----------------------------------------------------------------------------
(* The scheduler's services.                                               *)

\* Taking a packet leaves the flags true and the other blocks alone (run).
LEMMA TakeStep ==
    ASSUME BlocksOK, NEW t \in Ids
    PROVE  /\ AfterTake(t) \in [Ids -> Blocks]
           /\ \A x \in Ids : "runnable" \in AfterTake(t)[x].state
                                <=> AfterTake(t)[x].queue # <<>>
           /\ \A x \in Ids \ {t} : AfterTake(t)[x] = tcb[x]
           /\ Takes(t) => Packet(t) \in Packets
<1>1. CASE ~Takes(t)
    BY <1>1 DEF AfterTake, BlocksOK, RunnableIffQueued
<1>2. CASE Takes(t)
  <2>1. tcb[t].queue \in Seq(Packets) /\ tcb[t].queue # <<>>
      BY <1>2 DEF Takes, BlocksOK, RunnableIffQueued, Blocks
  <2>2. Head(tcb[t].queue) \in Packets /\ Tail(tcb[t].queue) \in Seq(Packets)
      BY <2>1, HeadTailProperties
  <2> DEFINE taken == [queue |-> Tail(tcb[t].queue),
                       state |-> IF Tail(tcb[t].queue) = <<>> THEN {} ELSE {"runnable"}]
  <2>3. AfterTake(t) = [tcb EXCEPT ![t] = taken]
      BY <1>2 DEF AfterTake
  <2>4. taken \in Blocks /\ ("runnable" \in taken.state <=> taken.queue # <<>>)
      BY <2>2 DEF Blocks
  <2> HIDE DEF taken
  <2>5. QED
      BY <1>2, <2>2, <2>3, <2>4 DEF BlocksOK, RunnableIffQueued, Packet
<1>3. QED
    BY <1>1, <1>2

\* The block that holds itself is behind the loop when it goes on.
LEMMA HoldStep ==
    ASSUME BlocksOK, NEW t \in Ids, currentTcb = t, HoldCurrent(t)
    PROVE  BlocksOK'
<1> DEFINE a == AfterTake(t)
<1>1. /\ a \in [Ids -> Blocks]
      /\ \A x \in Ids : "runnable" \in a[x].state <=> a[x].queue # <<>>
      /\ \A x \in Ids \ {t} : a[x] = tcb[x]
    BY TakeStep
<1>2. tcb' = [a EXCEPT ![t].state = @ \cup {"held"}] /\ currentTcb' = t - 1
    BY DEF HoldCurrent, Link
<1> HIDE DEF a
<1>3. tcb' \in [Ids -> Blocks] /\ currentTcb' \in -1 .. 5
    BY <1>1, <1>2 DEF Blocks, Ids
<1>4. RunnableIffQueued'
    BY <1>1, <1>2 DEF RunnableIffQueued, Blocks
<1>5. ASSUME NEW x \in Ids, x > currentTcb' PROVE HeldOrSuspended(x)'
  <2>1. CASE x = t
      BY <1>1, <1>2, <2>1 DEF HeldOrSuspended, Blocks
  <2>2. CASE x # t
      BY <1>1, <1>2, <1>5, <2>2 DEF HeldOrSuspended, BlocksOK, HighestPriorityRuns, Ids
  <2>3. QED
      BY <2>1, <2>2
<1>6. QED
    BY <1>3, <1>4, <1>5 DEF BlocksOK, HighestPriorityRuns

LEMMA SuspendStep ==
    ASSUME BlocksOK, NEW t \in Ids, currentTcb = t, SuspendCurrent(t)
    PROVE  BlocksOK'
<1> DEFINE a == AfterTake(t)
<1>1. /\ a \in [Ids -> Blocks]
      /\ \A x \in Ids : "runnable" \in a[x].state <=> a[x].queue # <<>>
      /\ \A x \in Ids \ {t} : a[x] = tcb[x]
    BY TakeStep
<1>2. tcb' = [a EXCEPT ![t].state = @ \cup {"suspended"}] /\ currentTcb' = currentTcb
    BY DEF SuspendCurrent
<1> HIDE DEF a
<1>3. tcb' \in [Ids -> Blocks] /\ currentTcb' \in -1 .. 5
    BY <1>1, <1>2 DEF Blocks, BlocksOK
<1>4. RunnableIffQueued'
    BY <1>1, <1>2 DEF RunnableIffQueued, Blocks
<1>5. HighestPriorityRuns'
    BY <1>1, <1>2 DEF HighestPriorityRuns, HeldOrSuspended, BlocksOK, Ids
<1>6. QED
    BY <1>3, <1>4, <1>5 DEF BlocksOK

\* A released block of higher priority is where the loop goes on.
LEMMA ReleaseStep ==
    ASSUME BlocksOK, NEW t \in Ids, NEW d \in Ids, currentTcb = t, Release(t, d)
    PROVE  BlocksOK'
<1> DEFINE a == AfterTake(t)
<1>1. /\ a \in [Ids -> Blocks]
      /\ \A x \in Ids : "runnable" \in a[x].state <=> a[x].queue # <<>>
      /\ \A x \in Ids \ {t} : a[x] = tcb[x]
    BY TakeStep
<1>2. tcb' = [a EXCEPT ![d].state = @ \ {"held"}]
    BY DEF Release
<1>3. currentTcb' \in {d, t} /\ currentTcb' >= d /\ currentTcb' >= t
    BY DEF Release, Preempts, Ids
<1> HIDE DEF a
<1>4. tcb' \in [Ids -> Blocks] /\ currentTcb' \in -1 .. 5
    BY <1>1, <1>2, <1>3 DEF Blocks, Ids
<1>5. RunnableIffQueued'
    BY <1>1, <1>2 DEF RunnableIffQueued, Blocks
<1>6. HighestPriorityRuns'
    BY <1>1, <1>2, <1>3 DEF HighestPriorityRuns, HeldOrSuspended, BlocksOK, Ids
<1>7. QED
    BY <1>4, <1>5, <1>6 DEF BlocksOK

\* A packet given to a block that had none makes it runnable, and the loop goes
\* on with it if it comes first; one that had some was passed over already.
LEMMA QueueStep ==
    ASSUME BlocksOK, NEW t \in Ids, currentTcb = t,
           NEW p \in Packets, NEW info \in [Packets -> [id : Ids, a1 : Int]],
           Queue(t, p, info)
    PROVE  BlocksOK' /\ packets' \in [Packets -> [id : Ids, a1 : Int]]
<1> DEFINE a == AfterTake(t)
           d == info[p].id
           empty == a[d].queue = <<>>
           b == [queue |-> Append(a[d].queue, p),
                 state |-> IF empty THEN a[d].state \cup {"runnable"} ELSE a[d].state]
<1>1. /\ a \in [Ids -> Blocks]
      /\ \A x \in Ids : "runnable" \in a[x].state <=> a[x].queue # <<>>
      /\ \A x \in Ids \ {t} : a[x] = tcb[x]
    BY TakeStep
<1>2. d \in Ids
    OBVIOUS
<1>3. /\ tcb' = [a EXCEPT ![d] = b]
      /\ packets' = [info EXCEPT ![p].id = t]
    BY DEF Queue, CheckPriorityAdd
<1>4. IF empty THEN currentTcb' \in {d, t} /\ currentTcb' >= d /\ currentTcb' >= t
               ELSE currentTcb' = t
    BY <1>2 DEF Queue, Preempts, Ids
<1> HIDE DEF a, d
<1>5. a[d].queue \in Seq(Packets) /\ a[d].state \in SUBSET {"runnable", "suspended", "held"}
    BY <1>1, <1>2 DEF Blocks
<1>6. Append(a[d].queue, p) \in Seq(Packets) /\ Append(a[d].queue, p) # <<>>
    BY <1>5, AppendProperties
<1>7. b \in Blocks /\ ("runnable" \in b.state) /\ b.queue # <<>>
    BY <1>1, <1>2, <1>5, <1>6 DEF Blocks
<1>8. ~empty => b.state = a[d].state
    OBVIOUS
<1> HIDE DEF b, empty
<1>9. tcb' \in [Ids -> Blocks] /\ currentTcb' \in -1 .. 5
    BY <1>1, <1>2, <1>3, <1>4, <1>7 DEF Ids
<1>10. RunnableIffQueued'
    BY <1>1, <1>2, <1>3, <1>7 DEF RunnableIffQueued
<1>11. ASSUME NEW x \in Ids, x > currentTcb' PROVE HeldOrSuspended(x)'
  <2>1. x > t /\ (x = d => ~empty)
      BY <1>2, <1>4, <1>11 DEF Ids
  <2>2. tcb'[x].state = tcb[x].state
      BY <1>1, <1>2, <1>3, <1>8, <2>1 DEF Ids
  <2>3. QED
      BY <2>1, <2>2 DEF HeldOrSuspended, BlocksOK, HighestPriorityRuns
<1>12. packets' \in [Packets -> [id : Ids, a1 : Int]]
    BY <1>3
<1>13. QED
    BY <1>9, <1>10, <1>11, <1>12 DEF BlocksOK, HighestPriorityRuns

-----------------------------------------------------------------------------
(* The steps of the loop.                                                  *)

LEMMA InitOK ==
    ASSUME RichardsInit
    PROVE  RichardsInv
<1>1. \A t \in Ids : FirstQueue(t) \in Seq(Packets)
  <2>1. /\ <<>> \in Seq(Packets) /\ <<2, 1>> \in Seq(Packets)
        /\ <<5, 4, 3>> \in Seq(Packets) /\ <<8, 7, 6>> \in Seq(Packets)
      BY DEF Packets
  <2>2. QED
      BY <2>1 DEF FirstQueue
<1>2. tcb \in [Ids -> Blocks] /\ currentTcb \in -1 .. 5
    BY <1>1 DEF RichardsInit, Blocks, DeviceB
<1>3. RunnableIffQueued
  <2>1. FirstQueue(Idle) = <<>>
      BY DEF FirstQueue, Idle, Worker, HandlerA, HandlerB
  <2>2. ASSUME NEW t \in Ids
        PROVE  /\ tcb[t].queue = FirstQueue(t)
               /\ tcb[t].state = IF t = Idle THEN {}
                                 ELSE IF FirstQueue(t) = <<>> THEN {"suspended"}
                                 ELSE {"suspended", "runnable"}
      BY DEF RichardsInit
  <2>3. QED
      BY <2>1, <2>2 DEF RunnableIffQueued
<1>4. HighestPriorityRuns
    BY DEF RichardsInit, HighestPriorityRuns, DeviceB, Ids
<1>5. PacketsOK
    BY DEF RichardsInit, PacketsOK, Handlers, Devices, Idle, Worker, HandlerA, HandlerB, DeviceA,
           DeviceB, Ids, Packets
<1>6. QED
    BY <1>2, <1>3, <1>4, <1>5 DEF RichardsInv, BlocksOK

\* A block that cannot run is passed over (schedule).
LEMMA SkipStep ==
    ASSUME RichardsInv, NEW t \in Ids, Skip(t)
    PROVE  RichardsInv'
<1>1. BlocksOK'
    BY DEF Skip, At, Link, RichardsInv, BlocksOK, RunnableIffQueued, HighestPriorityRuns,
           HeldOrSuspended, Ids
<1>2. PacketsOK'
    BY DEF Skip, RichardsInv, PacketsOK
<1>3. QED
    BY <1>1, <1>2 DEF RichardsInv

LEMMA IdleStep ==
    ASSUME RichardsInv, RunIdle
    PROVE  RichardsInv'
<1>1. Idle \in Ids /\ currentTcb = Idle /\ BlocksOK
    BY DEF RunIdle, Runs, At, RichardsInv, Idle, Ids
<1>2. ASSUME HoldCurrent(Idle) PROVE BlocksOK'
    BY <1>1, <1>2, HoldStep
<1>3. ASSUME \E d \in {DeviceA, DeviceB} : Release(Idle, d) PROVE BlocksOK'
  <2>1. {DeviceA, DeviceB} \subseteq Ids
      BY DEF DeviceA, DeviceB, Ids
  <2>2. QED
      BY <1>1, <1>3, <2>1, ReleaseStep
<1>4. BlocksOK'
    BY <1>2, <1>3 DEF RunIdle
<1>5. PacketsOK'
    BY DEF RunIdle, RichardsInv, PacketsOK
<1>6. QED
    BY <1>4, <1>5 DEF RichardsInv
\* A device keeps a packet it is given, and passes it on (DeviceTask.run).
LEMMA DeviceStep ==
    ASSUME RichardsInv, NEW t \in Devices, RunDevice(t)
    PROVE  RichardsInv'
<1>1. t \in Ids /\ currentTcb = t /\ BlocksOK /\ t \notin Handlers
    BY DEF RunDevice, Runs, At, RichardsInv, Devices, Handlers, DeviceA, DeviceB,
           HandlerA, HandlerB, Ids
<1>2. DOMAIN mine = Ids /\ mine[t] \in [v1 : Seq(Packets)]
    BY DEF RichardsInv, PacketsOK
<1>3. CASE /\ Takes(t)
           /\ mine' = [mine EXCEPT ![t].v1 = <<Packet(t)>>]
           /\ HoldCurrent(t)
           /\ UNCHANGED packets
  <2>1. Packet(t) \in Packets
      BY <1>1, <1>3, TakeStep
  <2>2. <<Packet(t)>> \in Seq(Packets)
      BY <2>1
  <2>3. mine'[t] \in [v1 : Seq(Packets)]
      BY <1>1, <1>2, <1>3, <2>2
  <2>4. PacketsOK'
      BY <1>1, <1>3, <2>3 DEF RichardsInv, PacketsOK
  <2>5. BlocksOK'
      BY <1>1, <1>3, HoldStep
  <2>6. QED
      BY <2>4, <2>5 DEF RichardsInv
<1>4. CASE SuspendCurrent(t) /\ UNCHANGED <<packets, mine>>
  <2>1. BlocksOK'
      BY <1>1, <1>4, SuspendStep
  <2>2. QED
      BY <1>4, <2>1 DEF RichardsInv, PacketsOK
<1>5. CASE /\ mine[t].v1 # <<>>
           /\ Queue(t, Head(mine[t].v1), packets)
           /\ mine' = [mine EXCEPT ![t].v1 = <<>>]
  <2>1. Head(mine[t].v1) \in Packets
      BY <1>2, <1>5, HeadTailProperties
  <2>2. packets \in [Packets -> [id : Ids, a1 : Int]]
      BY DEF RichardsInv, PacketsOK
  <2>3. BlocksOK' /\ packets' \in [Packets -> [id : Ids, a1 : Int]]
      BY <1>1, <1>5, <2>1, <2>2, QueueStep
  <2>4. mine'[t] \in [v1 : Seq(Packets)]
    <3>1. <<>> \in Seq(Packets)
        BY EmptySeq
    <3>2. QED
        BY <1>1, <1>2, <1>5, <3>1
  <2>5. PacketsOK'
      BY <1>1, <1>5, <2>3, <2>4 DEF RichardsInv, PacketsOK
  <2>6. QED
      BY <2>3, <2>5 DEF RichardsInv
<1>6. QED
    BY <1>3, <1>4, <1>5 DEF RunDevice

\* The worker sends its packet to the handlers in turn (WorkerTask.run).
LEMMA WorkerStep ==
    ASSUME RichardsInv, RunWorker
    PROVE  RichardsInv'
<1>1. /\ Worker \in Ids /\ currentTcb = Worker /\ BlocksOK
      /\ Worker \notin Handlers \cup Devices
      /\ {HandlerA, HandlerB} \subseteq Ids
    BY DEF RunWorker, Runs, At, RichardsInv, Devices, Handlers, DeviceA, DeviceB,
           HandlerA, HandlerB, Worker, Ids
<1>2. CASE SuspendCurrent(Worker) /\ UNCHANGED <<packets, mine>>
  <2>1. BlocksOK'
      BY <1>1, <1>2, SuspendStep
  <2>2. QED
      BY <1>2, <2>1 DEF RichardsInv, PacketsOK
<1>3. ASSUME NEW to \in {HandlerA, HandlerB},
             Takes(Worker),
             mine' = [mine EXCEPT ![Worker].next = to],
             Queue(Worker, Packet(Worker),
                   [packets EXCEPT ![Packet(Worker)] = [id |-> to, a1 |-> 0]])
      PROVE  RichardsInv'
  <2> DEFINE p == Packet(Worker)
             info == [packets EXCEPT ![p] = [id |-> to, a1 |-> 0]]
  <2>1. p \in Packets
      BY <1>1, <1>3, TakeStep
  <2>2. info \in [Packets -> [id : Ids, a1 : Int]]
    <3>1. [id |-> to, a1 |-> 0] \in [id : Ids, a1 : Int]
        BY <1>1
    <3>2. packets \in [Packets -> [id : Ids, a1 : Int]]
        BY DEF RichardsInv, PacketsOK
    <3>3. QED
        BY <3>1, <3>2, Zenon
  <2>3. BlocksOK' /\ packets' \in [Packets -> [id : Ids, a1 : Int]]
      BY <1>1, <1>3, <2>1, <2>2, QueueStep
  <2>4. PacketsOK'
      BY <1>1, <1>3, <2>3 DEF RichardsInv, PacketsOK
  <2>5. QED
      BY <2>3, <2>4 DEF RichardsInv
<1>4. QED
    BY <1>2, <1>3 DEF RunWorker

\* A handler's lists hold packets, the one it was given among them.
LEMMA StoredTyped ==
    ASSUME RichardsInv, NEW t \in Handlers, currentTcb = t
    PROVE  /\ DOMAIN Stored(t) = Ids
           /\ Stored(t)[t] \in [work : Seq(Packets), device : Seq(Packets)]
           /\ \A x \in Ids \ {t} : Stored(t)[x] = mine[x]
<1>1. /\ t \in Ids /\ BlocksOK
      /\ DOMAIN mine = Ids /\ mine[t] \in [work : Seq(Packets), device : Seq(Packets)]
    BY DEF RichardsInv, PacketsOK, Handlers, HandlerA, HandlerB, Ids
<1>2. CASE ~Takes(t)
    BY <1>1, <1>2 DEF Stored
<1>3. CASE Takes(t)
  <2>1. Packet(t) \in Packets
      BY <1>1, <1>3, TakeStep
  <2>2. Kind(Packet(t)) \in {"work", "device"}
      BY DEF Kind
  <2>3. \A k \in {"work", "device"} : Append(mine[t][k], Packet(t)) \in Seq(Packets)
      BY <1>1, <2>1, AppendProperties
  <2> DEFINE k == Kind(Packet(t))
             list == Append(mine[t][k], Packet(t))
  <2>4. Stored(t) = [mine EXCEPT ![t] = [mine[t] EXCEPT ![k] = list]]
      BY <1>3 DEF Stored
  <2>5. list \in Seq(Packets)
      BY <2>2, <2>3
  <2> HIDE DEF k, list
  <2>6. [mine[t] EXCEPT ![k] = list] \in [work : Seq(Packets), device : Seq(Packets)]
    <3>1. CASE k = "work"
        BY <1>1, <2>5, <3>1
    <3>2. CASE k = "device"
        BY <1>1, <2>5, <3>2
    <3>3. QED
        BY <2>2, <3>1, <3>2 DEF k
  <2>7. QED
      BY <1>1, <2>4, <2>6
<1>4. QED
    BY <1>2, <1>3

\* A handler passes a packet of either list on, or waits (HandlerTask.run).
LEMMA HandlerStep ==
    ASSUME RichardsInv, NEW t \in Handlers, RunHandler(t)
    PROVE  RichardsInv'
<1> DEFINE has == Stored(t)
<1>1. t \in Ids /\ currentTcb = t /\ BlocksOK /\ t \notin Devices
  <2>1. currentTcb = t /\ BlocksOK
      BY DEF RunHandler, Runs, At, RichardsInv
  <2>2. t \in Ids /\ t \notin Devices
      BY DEF Devices, Handlers, DeviceA, DeviceB, HandlerA, HandlerB, Ids
  <2>3. QED
      BY <2>1, <2>2
<1>2. /\ DOMAIN has = Ids
      /\ has[t] \in [work : Seq(Packets), device : Seq(Packets)]
      /\ \A x \in Ids \ {t} : has[x] = mine[x]
    BY <1>1, StoredTyped
<1>3. packets \in [Packets -> [id : Ids, a1 : Int]]
    BY DEF RichardsInv, PacketsOK
<1>4. ASSUME NEW lists, DOMAIN lists = Ids,
             lists[t] \in [work : Seq(Packets), device : Seq(Packets)],
             \A x \in Ids \ {t} : lists[x] = mine[x],
             mine' = lists,
             packets' \in [Packets -> [id : Ids, a1 : Int]]
      PROVE  PacketsOK'
    BY <1>1, <1>4 DEF RichardsInv, PacketsOK, Handlers, Devices, HandlerA, HandlerB,
                      DeviceA, DeviceB, Ids
<1>5. CASE /\ has[t].work # <<>>
           /\ Queue(t, Head(has[t].work), packets)
           /\ mine' = [has EXCEPT ![t].work = Tail(@)]
  <2>1. Head(has[t].work) \in Packets /\ Tail(has[t].work) \in Seq(Packets)
      BY <1>2, <1>5, HeadTailProperties
  <2>2. BlocksOK' /\ packets' \in [Packets -> [id : Ids, a1 : Int]]
      BY <1>1, <1>3, <1>5, <2>1, QueueStep
  <2> HIDE DEF has
  <2>3. PacketsOK'
    <3>1. mine'[t] = [has[t] EXCEPT !.work = Tail(has[t].work)]
        BY <1>1, <1>2, <1>5
    <3>2. mine'[t] \in [work : Seq(Packets), device : Seq(Packets)]
        BY <1>2, <2>1, <3>1
    <3>3. DOMAIN mine' = Ids /\ \A x \in Ids \ {t} : mine'[x] = mine[x]
        BY <1>2, <1>5
    <3>4. QED
        BY <1>4, <2>2, <3>2, <3>3
  <2>4. QED
      BY <2>2, <2>3 DEF RichardsInv
<1>6. CASE /\ has[t].work # <<>> /\ has[t].device # <<>>
           /\ Queue(t, Head(has[t].device), [packets EXCEPT ![Head(has[t].work)].a1 = @ + 1])
           /\ mine' = WithoutDevice(t, has)
  <2>1. /\ Head(has[t].work) \in Packets
        /\ Head(has[t].device) \in Packets /\ Tail(has[t].device) \in Seq(Packets)
      BY <1>2, <1>6, HeadTailProperties
  <2>2. [packets EXCEPT ![Head(has[t].work)].a1 = @ + 1] \in [Packets -> [id : Ids, a1 : Int]]
    <3>1. \A p \in Packets : [packets EXCEPT ![p].a1 = @ + 1] \in [Packets -> [id : Ids, a1 : Int]]
        BY <1>3
    <3>2. QED
        BY <2>1, <3>1
  <2>3. BlocksOK' /\ packets' \in [Packets -> [id : Ids, a1 : Int]]
      BY <1>1, <1>6, <2>1, <2>2, QueueStep
  <2>4. mine' = [has EXCEPT ![t].device = Tail(@)]
      BY <1>6 DEF WithoutDevice
  <2> HIDE DEF has
  <2>5. PacketsOK'
    <3>1. mine'[t] = [has[t] EXCEPT !.device = Tail(has[t].device)]
        BY <1>1, <1>2, <2>4
    <3>2. mine'[t] \in [work : Seq(Packets), device : Seq(Packets)]
        BY <1>2, <2>1, <3>1
    <3>3. DOMAIN mine' = Ids /\ \A x \in Ids \ {t} : mine'[x] = mine[x]
        BY <1>2, <2>4
    <3>4. QED
        BY <1>4, <2>3, <3>2, <3>3
  <2>6. QED
      BY <2>3, <2>5 DEF RichardsInv
<1>7. CASE SuspendCurrent(t) /\ mine' = has /\ UNCHANGED packets
  <2>1. BlocksOK'
      BY <1>1, <1>7, SuspendStep
  <2> HIDE DEF has
  <2>2. PacketsOK'
      BY <1>1, <1>2, <1>3, <1>4, <1>7
  <2>3. QED
      BY <2>1, <2>2 DEF RichardsInv
<1>8. QED
    BY <1>5, <1>6, <1>7 DEF RunHandler

-----------------------------------------------------------------------------
THEOREM Invariance == RichardsSpec => []RichardsInv
<1>1. RichardsInit => RichardsInv
    BY InitOK
<1>2. RichardsInv /\ [RichardsNext]_richardsVars => RichardsInv'
  <2> SUFFICES ASSUME RichardsInv, [RichardsNext]_richardsVars
               PROVE  RichardsInv'
      OBVIOUS
  <2>1. CASE RunRichards
      BY <2>1 DEF RunRichards, RichardsInv, BlocksOK, PacketsOK, RunnableIffQueued,
                  HighestPriorityRuns, HeldOrSuspended
  <2>2. ASSUME NEW t \in Ids, Skip(t) PROVE RichardsInv'
      BY <2>2, SkipStep
  <2>3. CASE RunIdle
      BY <2>3, IdleStep
  <2>4. ASSUME NEW t \in Devices, RunDevice(t) PROVE RichardsInv'
      BY <2>4, DeviceStep
  <2>5. CASE RunWorker
      BY <2>5, WorkerStep
  <2>6. ASSUME NEW t \in Handlers, RunHandler(t) PROVE RichardsInv'
      BY <2>6, HandlerStep
  <2>7. CASE UNCHANGED richardsVars
      BY <2>7 DEF richardsVars, RichardsInv, BlocksOK, PacketsOK, RunnableIffQueued,
                  HighestPriorityRuns, HeldOrSuspended
  <2>8. QED
      BY <2>1, <2>2, <2>3, <2>4, <2>5, <2>6, <2>7 DEF RichardsNext, Schedule
<1>3. QED
    BY <1>1, <1>2, PTL DEF RichardsSpec

\* The flag that run trusts when it takes a packet is set exactly when there is
\* one, whatever is queued to whom and in whatever order.
THEOREM FlagsTellTheTruth == RichardsSpec => []RunnableIffQueued
<1>1. RichardsInv => RunnableIffQueued
    BY DEF RichardsInv, BlocksOK
<1>2. QED
    BY <1>1, Invariance, PTL

\* The scheduler never is at a block while one before it could run, although
\* no service looks at the list again.
THEOREM PriorityKept == RichardsSpec => []HighestPriorityRuns
<1>1. RichardsInv => HighestPriorityRuns
    BY DEF RichardsInv, BlocksOK
<1>2. QED
    BY <1>1, Invariance, PTL

-----------------------------------------------------------------------------
(* The packets.                                                            *)

\* The lists packets are in: a block's queue, a handler's two and a device's.
Slots == Ids \X {"queue", "work", "device", "v1"}

ListIn(T, M, t, k) ==
    IF k = "queue" THEN T[t].queue
    ELSE IF t \in Handlers /\ k \in {"work", "device"} THEN M[t][k]
    ELSE IF t \in Devices /\ k = "v1" THEN M[t].v1
    ELSE <<>>

Lists(T, M) == [s \in Slots |-> ListIn(T, M, s[1], s[2])]

Sits(F, p, s) == \E i \in DOMAIN F[s] : F[s][i] = p

\* Each packet has one place.
Conserved(F) ==
    /\ F \in [Slots -> Seq(Packets)]
    /\ \A p \in Packets : \E s \in Slots : Sits(F, p, s)
    /\ \A r, s \in Slots : \A i \in DOMAIN F[r], j \in DOMAIN F[s] :
         F[r][i] = F[s][j] => r = s /\ i = j

\* Where a packet addressed to d may be: work goes between the worker and the
\* handlers, a device's packet between it and its handler.
Allowed(p, s, d) ==
    IF Kind(p) = "work"
    THEN \/ s = <<Worker, "queue">>
         \/ s \in Handlers \X {"queue", "work"} /\ d = Worker
    ELSE \/ s \in {Home(p)} \X {"queue", "v1"} /\ d = Home(p) - 2
         \/ s \in {Home(p) - 2} \X {"queue", "device"} /\ d = Home(p)

Routed(F, info) ==
    \A s \in Slots : \A i \in DOMAIN F[s] : Allowed(F[s][i], s, info[F[s][i]].id)

\* A device that keeps a packet takes no other: it is not suspended.
DevicesKeepOne(T, M) ==
    \A t \in Devices : M[t].v1 # <<>> => Len(M[t].v1) = 1 /\ "suspended" \notin T[t].state

PlacesInv ==
    /\ RichardsInv
    /\ Conserved(Lists(tcb, mine))
    /\ Routed(Lists(tcb, mine), packets)
    /\ DevicesKeepOne(tcb, mine)

LEMMA TailPlaces ==
    ASSUME NEW S, NEW s \in Seq(S), s # <<>>
    PROVE  /\ Tail(s) \in Seq(S) /\ Head(s) = s[1] /\ Head(s) \in S
           /\ Len(s) \in Nat \ {0} /\ DOMAIN s = 1 .. Len(s)
           /\ Len(Tail(s)) = Len(s) - 1 /\ DOMAIN Tail(s) = 1 .. (Len(s) - 1)
           /\ \A i \in 1 .. (Len(s) - 1) : Tail(s)[i] = s[i + 1]
<1>1. /\ Tail(s) \in Seq(S) /\ Head(s) = s[1] /\ Head(s) \in S
      /\ Len(Tail(s)) = Len(s) - 1
      /\ \A i \in 1 .. Len(Tail(s)) : Tail(s)[i] = s[i + 1]
    BY HeadTailProperties
<1>2. Len(s) \in Nat \ {0} /\ DOMAIN s = 1 .. Len(s)
    BY LenProperties, EmptySeq
<1>3. DOMAIN Tail(s) = 1 .. (Len(s) - 1)
    BY <1>1, LenProperties
<1>4. QED
    BY <1>1, <1>2, <1>3

LEMMA AppendPlaces ==
    ASSUME NEW S, NEW s \in Seq(S), NEW x \in S
    PROVE  /\ Append(s, x) \in Seq(S) /\ Len(s) \in Nat /\ DOMAIN s = 1 .. Len(s)
           /\ DOMAIN Append(s, x) = 1 .. (Len(s) + 1)
           /\ \A i \in 1 .. Len(s) : Append(s, x)[i] = s[i]
           /\ Append(s, x)[Len(s) + 1] = x
<1>1. /\ Append(s, x) \in Seq(S) /\ Len(Append(s, x)) = Len(s) + 1
      /\ \A i \in 1 .. Len(s) : Append(s, x)[i] = s[i]
      /\ Append(s, x)[Len(s) + 1] = x
    BY AppendProperties
<1>2. QED
    BY <1>1, LenProperties

\* A packet goes from the head of list a to the end of list b.
Moves(F, G, a, b) ==
    /\ G = [s \in Slots |-> G[s]]
    /\ G[a] = Tail(F[a]) /\ G[b] = Append(F[b], Head(F[a]))
    /\ \A s \in Slots \ {a, b} : G[s] = F[s]

LEMMA MoveStep ==
    ASSUME NEW F, Conserved(F), NEW a \in Slots, NEW b \in Slots, a # b, F[a] # <<>>,
           NEW G, Moves(F, G, a, b)
    PROVE  /\ Conserved(G)
           /\ Head(F[a]) \in Packets /\ Sits(F, Head(F[a]), a)
           /\ \A s \in Slots : \A i \in DOMAIN G[s] :
                \/ G[s][i] = Head(F[a]) /\ s = b
                \/ G[s][i] # Head(F[a]) /\ Sits(F, G[s][i], s)
<1> DEFINE p == Head(F[a])
           H == [F EXCEPT ![a] = Tail(F[a])]
<1>1. /\ F \in [Slots -> Seq(Packets)]
      /\ \A r, s \in Slots : \A i \in DOMAIN F[r], j \in DOMAIN F[s] :
           F[r][i] = F[s][j] => r = s /\ i = j
      /\ \A x \in Packets : \E s \in Slots : \E i \in DOMAIN F[s] : F[s][i] = x
    BY DEF Conserved, Sits
<1>2. /\ Tail(F[a]) \in Seq(Packets) /\ p = F[a][1] /\ p \in Packets
      /\ Len(F[a]) \in Nat \ {0} /\ DOMAIN F[a] = 1 .. Len(F[a])
      /\ DOMAIN Tail(F[a]) = 1 .. (Len(F[a]) - 1)
      /\ \A i \in 1 .. (Len(F[a]) - 1) : Tail(F[a])[i] = F[a][i + 1]
    BY <1>1, TailPlaces
<1>3. H \in [Slots -> Seq(Packets)] /\ H[a] = Tail(F[a]) /\ \A s \in Slots \ {a} : H[s] = F[s]
    BY <1>1, <1>2
<1>4. /\ G[b] = Append(H[b], p) /\ \A s \in Slots \ {b} : G[s] = H[s]
      /\ G = [s \in Slots |-> G[s]]
    BY <1>3 DEF Moves
<1> HIDE DEF p, H
<1>5. \A s \in Slots : \A j \in DOMAIN H[s] :
        \E i \in DOMAIN F[s] : /\ F[s][i] = H[s][j] /\ i = (IF s = a THEN j + 1 ELSE j)
                               /\ ~(s = a /\ i = 1)
  <2>1. ASSUME NEW s \in Slots, s # a, NEW j \in DOMAIN H[s]
        PROVE  j \in DOMAIN F[s] /\ F[s][j] = H[s][j]
      BY <1>3, <2>1
  <2>2. ASSUME NEW j \in DOMAIN H[a]
        PROVE  j + 1 \in DOMAIN F[a] /\ F[a][j + 1] = H[a][j] /\ j + 1 # 1
    <3>1. DOMAIN H[a] = 1 .. (Len(F[a]) - 1) /\ H[a] = Tail(F[a])
        BY <1>2, <1>3
    <3>2. j + 1 \in 1 .. Len(F[a]) /\ j + 1 # 1
        BY <1>2, <3>1
    <3>3. QED
        BY <1>2, <3>1, <3>2
  <2>3. QED
      BY <2>1, <2>2
<1>6. \A s \in Slots : \A i \in DOMAIN F[s] :
        (s = a /\ i = 1) \/ \E j \in DOMAIN H[s] : H[s][j] = F[s][i]
  <2>1. ASSUME NEW s \in Slots, NEW i \in DOMAIN F[s], ~(s = a /\ i = 1)
        PROVE  \E j \in DOMAIN H[s] : H[s][j] = F[s][i]
    <3>1. CASE s # a
        BY <1>3, <3>1
    <3>2. CASE s = a
      <4>1. i - 1 \in 1 .. (Len(F[a]) - 1) /\ (i - 1) + 1 = i
          BY <1>2, <2>1, <3>2
      <4>2. QED
          BY <1>2, <1>3, <3>2, <4>1
    <3>3. QED
        BY <3>1, <3>2
  <2>2. QED
      BY <2>1
<1>7. 1 \in DOMAIN F[a]
    BY <1>2
<1>8. ASSUME NEW s \in Slots, NEW j \in DOMAIN H[s] PROVE H[s][j] # p
  <2>1. PICK i \in DOMAIN F[s] : F[s][i] = H[s][j] /\ ~(s = a /\ i = 1)
      BY <1>5
  <2>2. F[s][i] = F[a][1] => s = a /\ i = 1
      BY <1>1, <1>7
  <2>3. QED
      BY <1>2, <2>1, <2>2
<1>9. \A r, s \in Slots : \A i \in DOMAIN H[r], j \in DOMAIN H[s] :
        H[r][i] = H[s][j] => r = s /\ i = j
  <2>1. ASSUME NEW r \in Slots, NEW s \in Slots, NEW i \in DOMAIN H[r], NEW j \in DOMAIN H[s],
               H[r][i] = H[s][j]
        PROVE  r = s /\ i = j
    <3>1. PICK k \in DOMAIN F[r] : F[r][k] = H[r][i] /\ k = (IF r = a THEN i + 1 ELSE i)
        BY <1>5
    <3>2. PICK l \in DOMAIN F[s] : F[s][l] = H[s][j] /\ l = (IF s = a THEN j + 1 ELSE j)
        BY <1>5
    <3>3. r = s /\ k = l
      <4>1. F[r][k] = F[s][l] => r = s /\ k = l
          BY <1>1
      <4>2. QED
          BY <2>1, <3>1, <3>2, <4>1
    <3>4. /\ r = a => i \in 1 .. (Len(F[a]) - 1)
          /\ s = a => j \in 1 .. (Len(F[a]) - 1)
        BY <1>2, <1>3
    <3>5. QED
        BY <1>2, <3>1, <3>2, <3>3, <3>4
  <2>2. QED
      BY <2>1
<1>10. /\ Append(H[b], p) \in Seq(Packets) /\ Len(H[b]) \in Nat /\ DOMAIN H[b] = 1 .. Len(H[b])
       /\ DOMAIN Append(H[b], p) = 1 .. (Len(H[b]) + 1)
       /\ \A i \in 1 .. Len(H[b]) : Append(H[b], p)[i] = H[b][i]
       /\ Append(H[b], p)[Len(H[b]) + 1] = p
    BY <1>2, <1>3, AppendPlaces
<1>11. /\ G \in [Slots -> Seq(Packets)] /\ G[b] = Append(H[b], p)
       /\ \A s \in Slots \ {b} : G[s] = H[s]
  <2>1. \A s \in Slots : G[s] \in Seq(Packets)
      BY <1>3, <1>4, <1>10
  <2>2. QED
      BY <1>4, <2>1
<1> DEFINE n == Len(H[b]) + 1
<1>12. \A s \in Slots : \A i \in DOMAIN G[s] :
         \/ i \in DOMAIN H[s] /\ G[s][i] = H[s][i]
         \/ s = b /\ i = n /\ G[s][i] = p
    BY <1>10, <1>11
<1>13. /\ \A s \in Slots : \A i \in DOMAIN H[s] : i \in DOMAIN G[s] /\ G[s][i] = H[s][i]
       /\ n \in DOMAIN G[b] /\ G[b][n] = p
  <2> DEFINE m == Len(H[b])
  <2>1. m \in Nat /\ n = m + 1
      BY <1>10
  <2>2. /\ DOMAIN H[b] = 1 .. m /\ DOMAIN G[b] = 1 .. n /\ G[b][n] = p
        /\ \A i \in 1 .. m : G[b][i] = H[b][i]
      BY <1>10, <1>11
  <2> HIDE DEF m, n
  <2>3. /\ n \in DOMAIN G[b] /\ G[b][n] = p
        /\ \A i \in DOMAIN H[b] : i \in DOMAIN G[b] /\ G[b][i] = H[b][i]
      BY <2>1, <2>2
  <2>4. QED
      BY <1>11, <2>3
<1> HIDE DEF n
<1>14. \A r, s \in Slots : \A i \in DOMAIN G[r], j \in DOMAIN G[s] :
         G[r][i] = G[s][j] => r = s /\ i = j
    BY <1>8, <1>9, <1>12
<1>15. \A x \in Packets : \E s \in Slots : \E i \in DOMAIN G[s] : G[s][i] = x
  <2>1. ASSUME NEW x \in Packets, x # p
        PROVE  \E s \in Slots : \E i \in DOMAIN G[s] : G[s][i] = x
    <3>1. PICK s \in Slots : \E i \in DOMAIN F[s] : F[s][i] = x
        BY <1>1
    <3>2. PICK i \in DOMAIN F[s] : F[s][i] = x
        BY <3>1
    <3>3. \E j \in DOMAIN H[s] : H[s][j] = x
        BY <1>2, <1>6, <2>1, <3>2
    <3>4. QED
        BY <1>13, <3>3
  <2>2. QED
      BY <1>13, <2>1
<1>16. \A s \in Slots : \A i \in DOMAIN G[s] :
         \/ G[s][i] = p /\ s = b
         \/ G[s][i] # p /\ Sits(F, G[s][i], s)
  <2>1. \A s \in Slots : \A i \in DOMAIN H[s] : Sits(F, H[s][i], s)
      BY <1>5 DEF Sits
  <2>2. QED
      BY <1>8, <1>12, <2>1
<1>17. Sits(F, p, a)
    BY <1>2, <1>7 DEF Sits
<1>18. QED
    BY <1>2, <1>11, <1>14, <1>15, <1>16, <1>17 DEF Conserved, Sits, p

LEMMA RoutedMove ==
    ASSUME NEW F, Conserved(F), NEW a \in Slots, NEW b \in Slots, a # b, F[a] # <<>>,
           NEW G, Moves(F, G, a, b),
           NEW info, NEW after, Routed(F, info),
           NEW p, p = Head(F[a]), \A x \in Packets \ {p} : after[x].id = info[x].id,
           Allowed(p, a, info[p].id) => Allowed(p, b, after[p].id)
    PROVE  Conserved(G) /\ Routed(G, after)
<1>1. /\ Conserved(G)
      /\ p \in Packets /\ Sits(F, p, a)
      /\ \A s \in Slots : \A i \in DOMAIN G[s] :
           \/ G[s][i] = p /\ s = b
           \/ G[s][i] # p /\ Sits(F, G[s][i], s)
    BY MoveStep
<1>2. \A s \in Slots : \A x : Sits(F, x, s) => x \in Packets /\ Allowed(x, s, info[x].id)
  <2>1. ASSUME NEW s \in Slots, NEW x, Sits(F, x, s)
        PROVE  x \in Packets /\ Allowed(x, s, info[x].id)
    <3>1. PICK i \in DOMAIN F[s] : F[s][i] = x
        BY <2>1 DEF Sits
    <3>2. F[s] \in Seq(Packets)
        BY DEF Conserved
    <3>3. QED
        BY <3>1, <3>2, ElementOfSeq, LenProperties DEF Routed
  <2>2. QED
      BY <2>1
<1>3. Allowed(p, b, after[p].id)
    BY <1>1, <1>2
<1>4. \A x \in Packets : x # p => after[x].id = info[x].id
    OBVIOUS
<1>5. ASSUME NEW s \in Slots, NEW i \in DOMAIN G[s]
      PROVE  Allowed(G[s][i], s, after[G[s][i]].id)
  <2>1. CASE G[s][i] = p /\ s = b
      BY <1>3, <2>1
  <2>2. CASE G[s][i] # p /\ Sits(F, G[s][i], s)
      BY <1>2, <1>4, <2>2
  <2>3. QED
      BY <1>1, <2>1, <2>2
<1>6. QED
    BY <1>1, <1>5 DEF Routed

\* What the services leave in the queues and in the states.
LEMMA TakeLeaves ==
    ASSUME BlocksOK, NEW t \in Ids
    PROVE  /\ Takes(t) => /\ tcb[t].queue # <<>> /\ Packet(t) = Head(tcb[t].queue)
                          /\ "suspended" \in tcb[t].state
           /\ \A x \in Ids : AfterTake(t)[x].queue =
                               IF Takes(t) /\ x = t THEN Tail(tcb[t].queue) ELSE tcb[x].queue
           /\ \A x \in Ids : "suspended" \in AfterTake(t)[x].state
                               => "suspended" \in tcb[x].state /\ ~(Takes(t) /\ x = t)
<1>1. tcb \in [Ids -> Blocks]
    BY DEF BlocksOK
<1>2. CASE ~Takes(t)
    BY <1>2 DEF AfterTake
<1>3. CASE Takes(t)
  <2>1. tcb[t].queue # <<>> /\ Packet(t) = Head(tcb[t].queue) /\ "suspended" \in tcb[t].state
      BY <1>3 DEF Takes, Packet, BlocksOK, RunnableIffQueued
  <2> DEFINE b == [queue |-> Tail(tcb[t].queue),
                   state |-> IF Tail(tcb[t].queue) = <<>> THEN {} ELSE {"runnable"}]
  <2>2. AfterTake(t) = [tcb EXCEPT ![t] = b]
      BY <1>3 DEF AfterTake
  <2>3. b.queue = Tail(tcb[t].queue) /\ "suspended" \notin b.state
      OBVIOUS
  <2> HIDE DEF b
  <2>4. AfterTake(t)[t] = b /\ \A x \in Ids \ {t} : AfterTake(t)[x] = tcb[x]
      BY <1>1, <2>2
  <2>5. QED
      BY <1>3, <2>1, <2>3, <2>4
<1>4. QED
    BY <1>2, <1>3

LEMMA ServiceLeaves ==
    ASSUME BlocksOK, NEW t \in Ids
    PROVE  /\ HoldCurrent(t) \/ (\E d \in Ids : Release(t, d)) \/ SuspendCurrent(t) =>
                \A x \in Ids : tcb'[x].queue = AfterTake(t)[x].queue
           /\ HoldCurrent(t) \/ (\E d \in Ids : Release(t, d)) =>
                \A x \in Ids : "suspended" \in tcb'[x].state
                                 => "suspended" \in AfterTake(t)[x].state
           /\ SuspendCurrent(t) =>
                \A x \in Ids : "suspended" \in tcb'[x].state
                                 => x = t \/ "suspended" \in AfterTake(t)[x].state
           /\ \A p, info : info[p].id \in Ids /\ Queue(t, p, info) =>
                /\ \A x \in Ids : tcb'[x].queue = IF x = info[p].id
                                                  THEN Append(AfterTake(t)[x].queue, p)
                                                  ELSE AfterTake(t)[x].queue
                /\ \A x \in Ids : "suspended" \in tcb'[x].state
                                    => "suspended" \in AfterTake(t)[x].state
                /\ packets' = [info EXCEPT ![p].id = t]
<1> DEFINE a == AfterTake(t)
<1>1. a \in [Ids -> Blocks]
    BY TakeStep
<1>2. \A d \in Ids : a[d] \in Blocks
    BY <1>1
<1>3. ASSUME HoldCurrent(t)
      PROVE  \A x \in Ids : /\ tcb'[x].queue = a[x].queue
                            /\ "suspended" \in tcb'[x].state => "suspended" \in a[x].state
  <2>1. tcb' = [a EXCEPT ![t].state = @ \cup {"held"}]
      BY <1>3 DEF HoldCurrent
  <2> HIDE DEF a
  <2>2. QED
      BY <1>1, <1>2, <2>1 DEF Blocks
<1>4. ASSUME NEW d \in Ids, Release(t, d)
      PROVE  \A x \in Ids : /\ tcb'[x].queue = a[x].queue
                            /\ "suspended" \in tcb'[x].state => "suspended" \in a[x].state
  <2>1. tcb' = [a EXCEPT ![d].state = @ \ {"held"}]
      BY <1>4 DEF Release
  <2> HIDE DEF a
  <2>2. QED
      BY <1>1, <1>2, <2>1 DEF Blocks
<1>5. ASSUME SuspendCurrent(t)
      PROVE  \A x \in Ids : /\ tcb'[x].queue = a[x].queue
                            /\ "suspended" \in tcb'[x].state => x = t \/ "suspended" \in a[x].state
  <2>1. tcb' = [a EXCEPT ![t].state = @ \cup {"suspended"}]
      BY <1>5 DEF SuspendCurrent
  <2> HIDE DEF a
  <2>2. QED
      BY <1>1, <1>2, <2>1 DEF Blocks
<1>6. ASSUME NEW p, NEW info, info[p].id \in Ids, Queue(t, p, info)
      PROVE  /\ \A x \in Ids : /\ tcb'[x].queue = IF x = info[p].id
                                                  THEN Append(a[x].queue, p) ELSE a[x].queue
                               /\ "suspended" \in tcb'[x].state => "suspended" \in a[x].state
             /\ packets' = [info EXCEPT ![p].id = t]
  <2> DEFINE d == info[p].id
             b == [queue |-> Append(a[d].queue, p),
                   state |-> IF a[d].queue = <<>> THEN a[d].state \cup {"runnable"}
                                                  ELSE a[d].state]
  <2>1. tcb' = [a EXCEPT ![d] = b] /\ packets' = [info EXCEPT ![p].id = t]
      BY <1>6 DEF Queue, CheckPriorityAdd
  <2>2. b.queue = Append(a[d].queue, p) /\ ("suspended" \in b.state => "suspended" \in a[d].state)
      OBVIOUS
  <2> HIDE DEF a, b
  <2>3. tcb'[d] = b /\ \A x \in Ids \ {d} : tcb'[x] = a[x]
      BY <1>1, <1>6, <2>1
  <2>4. ASSUME NEW x \in Ids
        PROVE  /\ tcb'[x].queue = IF x = d THEN Append(a[x].queue, p) ELSE a[x].queue
               /\ "suspended" \in tcb'[x].state => "suspended" \in a[x].state
      BY <2>2, <2>3
  <2>5. QED
      BY <2>1, <2>4
<1>7. QED
    BY <1>3, <1>4, <1>5, <1>6 DEF a

-----------------------------------------------------------------------------
(* What each step does to the places.                                      *)

\* The numbers behind the names.
LEMMA Names ==
    /\ Ids = 0 .. 5 /\ Idle = 0 /\ Worker = 1 /\ Handlers = {2, 3} /\ Devices = {4, 5}
    /\ HandlerA = 2 /\ HandlerB = 3 /\ DeviceA = 4 /\ DeviceB = 5
    /\ \A p \in Packets : Home(p) \in {4, 5} /\ Kind(p) \in {"work", "device"}
BY DEF Ids, Idle, Worker, Handlers, Devices, HandlerA, HandlerB, DeviceA, DeviceB, Home, Kind

LEMMA ListAt ==
    ASSUME NEW T, NEW M
    PROVE  /\ Lists(T, M) = [s \in Slots |-> Lists(T, M)[s]]
           /\ \A t \in Ids : /\ <<t, "queue">> \in Slots
                             /\ Lists(T, M)[<<t, "queue">>] = T[t].queue
           /\ \A t \in Handlers : /\ <<t, "work">> \in Slots
                                  /\ Lists(T, M)[<<t, "work">>] = M[t].work
           /\ \A t \in Handlers : /\ <<t, "device">> \in Slots
                                  /\ Lists(T, M)[<<t, "device">>] = M[t].device
           /\ \A t \in Devices : /\ <<t, "v1">> \in Slots
                                 /\ Lists(T, M)[<<t, "v1">>] = M[t].v1
<1>1. \A s \in Slots : Lists(T, M)[s] = ListIn(T, M, s[1], s[2])
    BY DEF Lists
<1>2. Lists(T, M) = [s \in Slots |-> Lists(T, M)[s]]
    BY DEF Lists
<1>3. ASSUME NEW t \in Ids
      PROVE  <<t, "queue">> \in Slots /\ Lists(T, M)[<<t, "queue">>] = T[t].queue
    BY <1>1 DEF Slots, ListIn
<1>4. ASSUME NEW t \in Handlers
      PROVE  /\ <<t, "work">> \in Slots /\ Lists(T, M)[<<t, "work">>] = M[t].work
             /\ <<t, "device">> \in Slots /\ Lists(T, M)[<<t, "device">>] = M[t].device
  <2>1. <<t, "work">> \in Slots /\ <<t, "device">> \in Slots
      BY Names DEF Slots
  <2>2. QED
      BY <1>1, <2>1 DEF ListIn
<1>5. ASSUME NEW t \in Devices
      PROVE  <<t, "v1">> \in Slots /\ Lists(T, M)[<<t, "v1">>] = M[t].v1
  <2>1. <<t, "v1">> \in Slots
      BY Names DEF Slots
  <2>2. QED
      BY <1>1, <2>1 DEF ListIn
<1>6. QED
    BY <1>2, <1>3, <1>4, <1>5

\* The blocks and what is kept agree on the lists that are not at the places E.
Agree(T, M, U, N, E) ==
    /\ \A t \in Ids : <<t, "queue">> \notin E => U[t].queue = T[t].queue
    /\ \A t \in Handlers : \A k \in {"work", "device"} :
         <<t, k>> \notin E => N[t][k] = M[t][k]
    /\ \A t \in Devices : <<t, "v1">> \notin E => N[t].v1 = M[t].v1

LEMMA OtherLists ==
    ASSUME NEW T, NEW M, NEW U, NEW N, NEW E, Agree(T, M, U, N, E)
    PROVE  \A s \in Slots \ E : Lists(U, N)[s] = Lists(T, M)[s]
<1>1. ASSUME NEW s \in Slots, s \notin E PROVE Lists(U, N)[s] = Lists(T, M)[s]
  <2>1. Lists(U, N)[s] = ListIn(U, N, s[1], s[2]) /\ Lists(T, M)[s] = ListIn(T, M, s[1], s[2])
      BY DEF Lists
  <2>2. s[1] \in Ids /\ s = <<s[1], s[2]>>
      BY DEF Slots
  <2>3. QED
      BY <1>1, <2>1, <2>2 DEF ListIn, Agree
<1>2. QED
    BY <1>1

LEMMA SameLists ==
    ASSUME NEW T, NEW M, NEW U, NEW N,
           \A t \in Ids : U[t].queue = T[t].queue,
           \A t \in Handlers : N[t].work = M[t].work /\ N[t].device = M[t].device,
           \A t \in Devices : N[t].v1 = M[t].v1
    PROVE  Lists(U, N) = Lists(T, M)
<1>1. Agree(T, M, U, N, {})
    BY DEF Agree
<1>2. \A s \in Slots \ {} : Lists(U, N)[s] = Lists(T, M)[s]
    BY <1>1, OtherLists
<1>3. QED
    BY <1>2, ListAt

\* Allowed, place by place.
LEMMA Ways ==
    ASSUME NEW p \in Packets, NEW t, NEW k, NEW d
    PROVE  Allowed(p, <<t, k>>, d) <=>
             IF Kind(p) = "work"
             THEN \/ t = 1 /\ k = "queue"
                  \/ t \in {2, 3} /\ k \in {"queue", "work"} /\ d = 1
             ELSE \/ t = Home(p) /\ k \in {"queue", "v1"} /\ d = Home(p) - 2
                  \/ t = Home(p) - 2 /\ k \in {"queue", "device"} /\ d = Home(p)
<1>1. /\ <<t, k>> = <<Worker, "queue">> <=> t = 1 /\ k = "queue"
      /\ <<t, k>> \in Handlers \X {"queue", "work"} <=> t \in {2, 3} /\ k \in {"queue", "work"}
    BY Names
<1>2. \A h : \A ks : <<t, k>> \in {h} \X ks <=> t = h /\ k \in ks
    OBVIOUS
<1>3. /\ <<t, k>> \in {Home(p)} \X {"queue", "v1"} <=> t = Home(p) /\ k \in {"queue", "v1"}
      /\ <<t, k>> \in {Home(p) - 2} \X {"queue", "device"}
           <=> t = Home(p) - 2 /\ k \in {"queue", "device"}
    BY <1>2
<1>4. Allowed(p, <<t, k>>, d) <=>
        IF Kind(p) = "work"
        THEN \/ <<t, k>> = <<Worker, "queue">>
             \/ <<t, k>> \in Handlers \X {"queue", "work"} /\ d = 1
        ELSE \/ <<t, k>> \in {Home(p)} \X {"queue", "v1"} /\ d = Home(p) - 2
             \/ <<t, k>> \in {Home(p) - 2} \X {"queue", "device"} /\ d = Home(p)
    BY Names, Zenon DEF Allowed
<1>5. QED
    BY <1>1, <1>3, <1>4, Zenon

\* A step that moves no packet.
LEMMA QuietPlaces ==
    ASSUME PlacesInv, RichardsInv', packets' = packets, mine' = mine,
           \A x \in Ids : tcb'[x].queue = tcb[x].queue,
           \A x \in Ids : "suspended" \in tcb'[x].state =>
                "suspended" \in tcb[x].state \/ (x \in Devices => mine[x].v1 = <<>>)
    PROVE  PlacesInv'
<1>1. Lists(tcb', mine') = Lists(tcb, mine)
    BY SameLists
<1>2. DevicesKeepOne(tcb', mine')
    BY Names DEF PlacesInv, DevicesKeepOne
<1>3. QED
    BY <1>1, <1>2 DEF PlacesInv

\* The idle task is given no packet.
LEMMA NoPacketForIdle ==
    ASSUME PlacesInv
    PROVE  ~Takes(Idle) /\ AfterTake(Idle) = tcb
<1>1. ASSUME Takes(Idle) PROVE FALSE
  <2> DEFINE s == <<Idle, "queue">>
             F == Lists(tcb, mine)
  <2>1. tcb[Idle].queue # <<>>
      BY <1>1, Names, TakeLeaves DEF PlacesInv, RichardsInv
  <2>2. s \in Slots /\ F[s] = tcb[Idle].queue
      BY ListAt, Names
  <2>3. F[s] \in Seq(Packets)
      BY <2>2 DEF PlacesInv, Conserved
  <2>4. 1 \in DOMAIN F[s] /\ F[s][1] \in Packets
      BY <2>1, <2>2, <2>3, TailPlaces
  <2>5. Allowed(F[s][1], s, packets[F[s][1]].id)
      BY <2>2, <2>4 DEF PlacesInv, Routed
  <2>6. QED
      BY <2>4, <2>5, Names DEF Allowed
<1>2. QED
    BY <1>1 DEF AfterTake

LEMMA IdlePlaces ==
    ASSUME PlacesInv, RichardsInv', RunIdle
    PROVE  PlacesInv'
<1>1. BlocksOK /\ Idle \in Ids /\ AfterTake(Idle) = tcb /\ {DeviceA, DeviceB} \subseteq Ids
    BY NoPacketForIdle, Names DEF PlacesInv, RichardsInv
<1>2. packets' = packets /\ mine' = mine
    BY DEF RunIdle
<1>3. HoldCurrent(Idle) \/ \E d \in Ids : Release(Idle, d)
    BY <1>1 DEF RunIdle
<1>4. \A x \in Ids : /\ tcb'[x].queue = tcb[x].queue
                     /\ "suspended" \in tcb'[x].state => "suspended" \in tcb[x].state
    BY <1>1, <1>3, ServiceLeaves
<1>5. QED
    BY <1>2, <1>4, QuietPlaces

LEMMA DevicePlaces ==
    ASSUME PlacesInv, RichardsInv', NEW t \in Devices, RunDevice(t)
    PROVE  PlacesInv'
<1> DEFINE F == Lists(tcb, mine)
           G == Lists(tcb', mine')
<1>1. /\ BlocksOK /\ PacketsOK /\ t \in Ids /\ t \notin Handlers /\ t \in {4, 5}
      /\ DOMAIN mine = Ids /\ mine[t] \in [v1 : Seq(Packets)]
      /\ Conserved(F) /\ Routed(F, packets) /\ DevicesKeepOne(tcb, mine)
  <2>1. t \in Ids /\ t \notin Handlers /\ t \in {4, 5}
      BY Names
  <2>2. /\ BlocksOK /\ PacketsOK
        /\ Conserved(F) /\ Routed(F, packets) /\ DevicesKeepOne(tcb, mine)
      BY DEF PlacesInv, RichardsInv
  <2>3. DOMAIN mine = Ids /\ mine[t] \in [v1 : Seq(Packets)]
      BY <2>2 DEF PacketsOK
  <2>4. QED
      BY <2>1, <2>2, <2>3
<1>2. /\ F[<<t, "queue">>] = tcb[t].queue /\ F[<<t, "v1">>] = mine[t].v1
      /\ G[<<t, "queue">>] = tcb'[t].queue /\ G[<<t, "v1">>] = mine'[t].v1
      /\ G = [s \in Slots |-> G[s]]
      /\ <<t, "queue">> \in Slots /\ <<t, "v1">> \in Slots
    BY <1>1, ListAt
<1>3. ASSUME Takes(t), mine' = [mine EXCEPT ![t].v1 = <<Packet(t)>>], HoldCurrent(t),
             UNCHANGED packets
      PROVE  PlacesInv'
  <2> DEFINE a == <<t, "queue">>
             b == <<t, "v1">>
             p == Packet(t)
  <2>1. /\ tcb[t].queue # <<>> /\ p = Head(tcb[t].queue) /\ "suspended" \in tcb[t].state
        /\ \A x \in Ids : tcb'[x].queue = IF x = t THEN Tail(tcb[t].queue) ELSE tcb[x].queue
        /\ \A x \in Ids : "suspended" \in tcb'[x].state => "suspended" \in tcb[x].state /\ x # t
      BY <1>1, <1>3, TakeLeaves, ServiceLeaves
  <2>2. mine[t].v1 = <<>>
      BY <1>1, <2>1 DEF DevicesKeepOne
  <2>3. /\ mine'[t].v1 = <<p>> /\ \A x \in Ids \ {t} : mine'[x] = mine[x]
      BY <1>1, <1>3
  <2>4. <<p>> = Append(<<>>, p) /\ Len(<<p>>) = 1
      OBVIOUS
  <2>5. p \in Packets /\ a # b
      BY <1>1, <1>3, TakeStep
  <2>6. Moves(F, G, a, b)
    <3>1. \A s \in Slots \ {a, b} : G[s] = F[s]
      <4>1. \A x \in Ids : <<x, "queue">> \notin {a, b} => tcb'[x].queue = tcb[x].queue
          BY <2>1
      <4>2. \A x \in Handlers : \A k \in {"work", "device"} : mine'[x][k] = mine[x][k]
          BY <1>1, <2>3, Names
      <4>3. \A x \in Devices : <<x, "v1">> \notin {a, b} => mine'[x].v1 = mine[x].v1
          BY <2>3, Names
      <4>4. Agree(tcb, mine, tcb', mine', {a, b})
          BY <4>1, <4>2, <4>3 DEF Agree
      <4>5. QED
          BY <4>4, OtherLists
    <3>2. G[a] = Tail(F[a]) /\ G[b] = Append(F[b], Head(F[a]))
        BY <1>1, <1>2, <2>1, <2>2, <2>3, <2>4
    <3>3. QED
        BY <1>2, <3>1, <3>2 DEF Moves
  <2>7. Allowed(p, a, packets[p].id) => Allowed(p, b, packets[p].id)
      BY <1>1, <2>5, Ways, Names
  <2>8. Conserved(G) /\ Routed(G, packets)
    <3>1. F[a] # <<>> /\ p = Head(F[a])
        BY <1>2, <2>1
    <3> HIDE DEF F, G, a, b, p
    <3>2. QED
        BY <1>1, <1>2, <2>5, <2>6, <2>7, <3>1, RoutedMove DEF a, b
  <2> HIDE DEF F, G
  <2>9. ASSUME NEW x \in Devices, mine'[x].v1 # <<>>
        PROVE  Len(mine'[x].v1) = 1 /\ "suspended" \notin tcb'[x].state
    <3>1. CASE x = t
        BY <1>1, <2>1, <2>3, <2>4, <3>1
    <3>2. CASE x # t
        BY <1>1, <2>1, <2>3, <2>9, <3>2, Names DEF DevicesKeepOne
    <3>3. QED
        BY <3>1, <3>2
  <2>10. QED
      BY <1>3, <2>8, <2>9 DEF PlacesInv, DevicesKeepOne, F, G
<1>4. ASSUME ~Takes(t), mine[t].v1 = <<>>, SuspendCurrent(t), UNCHANGED <<packets, mine>>
      PROVE  PlacesInv'
  <2>1. AfterTake(t) = tcb
      BY <1>4 DEF AfterTake
  <2>2. \A x \in Ids : /\ tcb'[x].queue = tcb[x].queue
                       /\ "suspended" \in tcb'[x].state => x = t \/ "suspended" \in tcb[x].state
      BY <1>1, <1>4, <2>1, ServiceLeaves
  <2>3. QED
      BY <1>4, <2>2, QuietPlaces
<1>5. ASSUME ~Takes(t), mine[t].v1 # <<>>, Queue(t, Head(mine[t].v1), packets),
             mine' = [mine EXCEPT ![t].v1 = <<>>]
      PROVE  PlacesInv'
  <2> DEFINE p == Head(mine[t].v1)
             d == packets[p].id
             a == <<t, "v1">>
             b == <<d, "queue">>
  <2>1. /\ p \in Packets /\ d \in Ids /\ packets \in [Packets -> [id : Ids, a1 : Int]]
        /\ Tail(mine[t].v1) = <<>>
    <3>1. mine[t].v1 \in Seq(Packets) /\ Len(mine[t].v1) = 1
        BY <1>1, <1>5 DEF DevicesKeepOne
    <3>2. p \in Packets /\ Tail(mine[t].v1) \in Seq(Packets) /\ Len(Tail(mine[t].v1)) = 0
        BY <1>5, <3>1, TailPlaces
    <3>3. QED
        BY <1>1, <3>2, EmptySeq DEF PacketsOK
  <2>2. AfterTake(t) = tcb
      BY <1>5 DEF AfterTake
  <2>3. /\ \A x \in Ids : tcb'[x].queue = IF x = d THEN Append(tcb[x].queue, p) ELSE tcb[x].queue
        /\ \A x \in Ids : "suspended" \in tcb'[x].state => "suspended" \in tcb[x].state
        /\ packets' = [packets EXCEPT ![p].id = t]
      BY <1>1, <1>5, <2>1, <2>2, ServiceLeaves
  <2>4. /\ mine'[t].v1 = <<>> /\ \A x \in Ids \ {t} : mine'[x] = mine[x]
      BY <1>1, <1>5
  <2>5. /\ F[b] = tcb[d].queue /\ G[b] = tcb'[d].queue /\ b \in Slots /\ a # b
      BY <2>1, ListAt
  <2>6. Moves(F, G, a, b)
    <3>1. \A s \in Slots \ {a, b} : G[s] = F[s]
      <4>1. \A x \in Ids : <<x, "queue">> \notin {a, b} => tcb'[x].queue = tcb[x].queue
          BY <2>3
      <4>2. \A x \in Handlers : \A k \in {"work", "device"} : mine'[x][k] = mine[x][k]
          BY <1>1, <2>4, Names
      <4>3. \A x \in Devices : <<x, "v1">> \notin {a, b} => mine'[x].v1 = mine[x].v1
          BY <2>4, Names
      <4>4. Agree(tcb, mine, tcb', mine', {a, b})
          BY <4>1, <4>2, <4>3 DEF Agree
      <4>5. QED
          BY <4>4, OtherLists
    <3>2. G[a] = Tail(F[a]) /\ G[b] = Append(F[b], Head(F[a]))
        BY <1>2, <2>1, <2>3, <2>4, <2>5
    <3>3. QED
        BY <1>2, <3>1, <3>2 DEF Moves
  <2> HIDE DEF p
  <2>7. /\ packets'[p].id = t /\ \A x \in Packets \ {p} : packets'[x] = packets[x]
      BY <2>1, <2>3
  <2>8. Allowed(p, a, d) => Allowed(p, b, packets'[p].id)
      BY <1>1, <2>1, <2>7, Ways, Names
  <2>9. Conserved(G) /\ Routed(G, packets')
    <3>1. F[a] # <<>> /\ p = Head(F[a])
        BY <1>2, <1>5 DEF p
    <3>2. \A x \in Packets \ {p} : packets'[x].id = packets[x].id
        BY <2>7
    <3>3. Allowed(p, a, packets[p].id) => Allowed(p, b, packets'[p].id)
        BY <2>8
    <3>4. a \in Slots /\ b \in Slots /\ a # b
        BY <1>2, <2>5
    <3> HIDE DEF F, G, a, b
    <3>5. QED
        BY <1>1, <2>6, <3>1, <3>2, <3>3, <3>4, RoutedMove
  <2>10. DevicesKeepOne(tcb', mine')
      BY <1>1, <2>3, <2>4, Names DEF DevicesKeepOne
  <2>11. QED
      BY <2>9, <2>10 DEF PlacesInv
<1>6. QED
    BY <1>3, <1>4, <1>5 DEF RunDevice

\* The worker's packet goes to a handler, which will send it back.
LEMMA WorkerPlaces ==
    ASSUME PlacesInv, RichardsInv', RunWorker
    PROVE  PlacesInv'
<1> DEFINE F == Lists(tcb, mine)
           G == Lists(tcb', mine')
<1>1. /\ BlocksOK /\ PacketsOK /\ Worker \in Ids /\ DOMAIN mine = Ids
      /\ packets \in [Packets -> [id : Ids, a1 : Int]]
      /\ Conserved(F) /\ Routed(F, packets) /\ DevicesKeepOne(tcb, mine)
    BY Names DEF PlacesInv, RichardsInv, PacketsOK
<1>2. CASE ~Takes(Worker) /\ SuspendCurrent(Worker) /\ UNCHANGED <<packets, mine>>
  <2>1. AfterTake(Worker) = tcb
      BY <1>2 DEF AfterTake
  <2>2. \A x \in Ids :
          /\ tcb'[x].queue = tcb[x].queue
          /\ "suspended" \in tcb'[x].state => x = Worker \/ "suspended" \in tcb[x].state
      BY <1>1, <1>2, <2>1, ServiceLeaves
  <2>3. QED
      BY <1>2, <2>2, Names, QuietPlaces
<1>3. ASSUME NEW to \in Handlers, Takes(Worker),
             mine' = [mine EXCEPT ![Worker].next = to],
             Queue(Worker, Packet(Worker),
                   [packets EXCEPT ![Packet(Worker)] = [id |-> to, a1 |-> 0]])
      PROVE  PlacesInv'
  <2> DEFINE p == Packet(Worker)
             info == [packets EXCEPT ![p] = [id |-> to, a1 |-> 0]]
             a == <<Worker, "queue">>
             b == <<to, "queue">>
  <2>1. p \in Packets /\ to \in Ids /\ to # Worker /\ to \in {2, 3}
      BY <1>1, <1>3, TakeStep, Names
  <2>2. info[p].id = to /\ \A x \in Packets \ {p} : info[x] = packets[x]
      BY <1>1, <2>1
  <2>3. Queue(Worker, p, info)
      BY <1>3
  <2>4. info \in [Packets -> [id : Ids, a1 : Int]]
    <3>1. [id |-> to, a1 |-> 0] \in [id : Ids, a1 : Int]
        BY <2>1
    <3>2. QED
        BY <1>1, <3>1, Zenon
  <2> HIDE DEF info, p
  <2>5. /\ tcb[Worker].queue # <<>> /\ p = Head(tcb[Worker].queue)
        /\ \A x \in Ids : AfterTake(Worker)[x].queue =
                            IF x = Worker THEN Tail(tcb[Worker].queue) ELSE tcb[x].queue
        /\ \A x \in Ids : "suspended" \in AfterTake(Worker)[x].state
                            => "suspended" \in tcb[x].state
      BY <1>1, <1>3, TakeLeaves DEF p
  <2>6. /\ \A x \in Ids : tcb'[x].queue = IF x = to THEN Append(AfterTake(Worker)[x].queue, p)
                                          ELSE AfterTake(Worker)[x].queue
        /\ \A x \in Ids : "suspended" \in tcb'[x].state
                            => "suspended" \in AfterTake(Worker)[x].state
        /\ packets' = [info EXCEPT ![p].id = Worker]
    <3>1. info[p].id \in Ids
        BY <2>1, <2>2
    <3>2. QED
        BY <1>1, <2>2, <2>3, <3>1, ServiceLeaves
  <2>7. packets'[p].id = Worker /\ \A x \in Packets \ {p} : packets'[x].id = packets[x].id
      BY <2>1, <2>2, <2>4, <2>6
  <2>8. \A x \in Ids \ {Worker} : mine'[x] = mine[x]
      BY <1>1, <1>3
  <2>9. Moves(F, G, a, b)
    <3>1. \A s \in Slots \ {a, b} : G[s] = F[s]
      <4>1. \A x \in Ids : <<x, "queue">> \notin {a, b} => tcb'[x].queue = tcb[x].queue
          BY <2>5, <2>6
      <4>2. /\ \A x \in Handlers : \A k \in {"work", "device"} : mine'[x][k] = mine[x][k]
            /\ \A x \in Devices : mine'[x].v1 = mine[x].v1
          BY <2>8, Names
      <4>3. Agree(tcb, mine, tcb', mine', {a, b})
          BY <4>1, <4>2 DEF Agree
      <4>4. QED
          BY <4>3, OtherLists
    <3>2. /\ F[a] = tcb[Worker].queue /\ G[a] = tcb'[Worker].queue
          /\ F[b] = tcb[to].queue /\ G[b] = tcb'[to].queue
          /\ G = [s \in Slots |-> G[s]]
        BY <1>1, <2>1, ListAt
    <3>3. G[a] = Tail(F[a]) /\ G[b] = Append(F[b], Head(F[a]))
        BY <1>1, <2>1, <2>5, <2>6, <3>2
    <3>4. QED
        BY <3>1, <3>2, <3>3 DEF Moves
  <2>10. Allowed(p, a, packets[p].id) => Allowed(p, b, packets'[p].id)
      BY <2>1, <2>7, Ways, Names
  <2>11. Conserved(G) /\ Routed(G, packets')
    <3>1. a \in Slots /\ b \in Slots /\ a # b /\ F[a] # <<>> /\ p = Head(F[a])
        BY <1>1, <2>1, <2>5, ListAt
    <3> HIDE DEF F, G, a, b
    <3>2. QED
        BY <1>1, <2>7, <2>9, <2>10, <3>1, RoutedMove
  <2>12. DevicesKeepOne(tcb', mine')
      BY <1>1, <2>5, <2>6, <2>8, Names DEF DevicesKeepOne
  <2>13. QED
      BY <2>11, <2>12 DEF PlacesInv
<1>4. QED
    BY <1>2, <1>3 DEF RunWorker, Handlers

\* A handler's lists after it has stored the packet it was given.
LEMMA StoredLists ==
    ASSUME PlacesInv, NEW t \in Handlers, currentTcb = t
    PROVE  /\ Conserved(Lists(AfterTake(t), Stored(t)))
           /\ Routed(Lists(AfterTake(t), Stored(t)), packets)
<1> DEFINE F == Lists(tcb, mine)
           G == Lists(AfterTake(t), Stored(t))
<1>1. /\ RichardsInv /\ BlocksOK /\ t \in Ids /\ t \in {2, 3} /\ t \notin Devices
      /\ Conserved(F) /\ Routed(F, packets)
      /\ DOMAIN mine = Ids /\ mine[t] \in [work : Seq(Packets), device : Seq(Packets)]
    BY Names DEF PlacesInv, RichardsInv, PacketsOK
<1>2. CASE ~Takes(t)
    BY <1>1, <1>2 DEF AfterTake, Stored
<1>3. CASE Takes(t)
  <2> DEFINE p == Packet(t)
             a == <<t, "queue">>
             b == <<t, Kind(p)>>
  <2>1. p \in Packets /\ Kind(p) \in {"work", "device"} /\ a # b
      BY <1>1, <1>3, TakeStep, Names
  <2>2. /\ tcb[t].queue # <<>> /\ p = Head(tcb[t].queue)
        /\ \A x \in Ids : AfterTake(t)[x].queue =
                            IF x = t THEN Tail(tcb[t].queue) ELSE tcb[x].queue
      BY <1>1, <1>3, TakeLeaves
  <2>3. /\ \A x \in Ids \ {t} : Stored(t)[x] = mine[x]
        /\ \A k \in {"work", "device"} :
             Stored(t)[t][k] = IF k = Kind(p) THEN Append(mine[t][k], p) ELSE mine[t][k]
    <3>1. Stored(t) = [mine EXCEPT ![t][Kind(p)] = Append(@, p)]
        BY <1>3 DEF Stored
    <3> HIDE DEF p
    <3>2. CASE Kind(p) = "work"
        BY <1>1, <3>1, <3>2
    <3>3. CASE Kind(p) = "device"
        BY <1>1, <3>1, <3>3
    <3>4. QED
        BY <2>1, <3>2, <3>3
  <2>4. Moves(F, G, a, b)
    <3>1. \A s \in Slots \ {a, b} : G[s] = F[s]
      <4>1. \A x \in Ids : <<x, "queue">> \notin {a, b} => AfterTake(t)[x].queue = tcb[x].queue
          BY <2>2
      <4>2. \A x \in Handlers : \A k \in {"work", "device"} :
              <<x, k>> \notin {a, b} => Stored(t)[x][k] = mine[x][k]
          BY <2>3, Names
      <4>3. \A x \in Devices : Stored(t)[x].v1 = mine[x].v1
          BY <1>1, <2>3, Names
      <4>4. Agree(tcb, mine, AfterTake(t), Stored(t), {a, b})
          BY <4>1, <4>2, <4>3 DEF Agree
      <4>5. QED
          BY <4>4, OtherLists
    <3>2. /\ F[a] = tcb[t].queue /\ G[a] = AfterTake(t)[t].queue
          /\ F[b] = mine[t][Kind(p)] /\ G[b] = Stored(t)[t][Kind(p)]
          /\ G = [s \in Slots |-> G[s]]
      <4>1. F[b] = mine[t][Kind(p)] /\ G[b] = Stored(t)[t][Kind(p)]
        <5>1. CASE Kind(p) = "work"
            BY <5>1, ListAt
        <5>2. CASE Kind(p) = "device"
            BY <5>2, ListAt
        <5>3. QED
            BY <2>1, <5>1, <5>2
      <4>2. F[a] = tcb[t].queue /\ G[a] = AfterTake(t)[t].queue /\ G = [s \in Slots |-> G[s]]
          BY <1>1, ListAt
      <4> HIDE DEF F, G, p
      <4>3. QED
          BY <2>1, <4>1, <4>2
    <3> HIDE DEF F, G, p
    <3>3. G[a] = Tail(F[a]) /\ G[b] = Append(F[b], Head(F[a]))
        BY <1>1, <2>1, <2>2, <2>3, <3>2
    <3>4. QED
        BY <3>1, <3>2, <3>3 DEF Moves
  <2>5. Allowed(p, a, packets[p].id) => Allowed(p, b, packets[p].id)
      BY <1>1, <2>1, Ways, Names
  <2>6. /\ a \in Slots /\ b \in Slots /\ F[a] # <<>> /\ p = Head(F[a])
    <3>1. a \in Slots /\ F[a] = tcb[t].queue
        BY <1>1, ListAt
    <3>2. b \in Slots
        BY <2>1, ListAt
    <3> HIDE DEF F, G, p
    <3>3. QED
        BY <2>1, <2>2, <3>1, <3>2
  <2> HIDE DEF F, G, a, b, p
  <2>7. QED
      BY <1>1, <2>1, <2>4, <2>5, <2>6, RoutedMove DEF G
<1>4. QED
    BY <1>2, <1>3

\* A handler sends the first packet of one of its lists where that is addressed.
LEMMA SendPlaces ==
    ASSUME PlacesInv, RichardsInv', NEW t \in Handlers, currentTcb = t,
           NEW k \in {"work", "device"}, NEW p, NEW info,
           Stored(t)[t][k] # <<>>, p = Head(Stored(t)[t][k]),
           info \in [Packets -> [id : Ids, a1 : Int]],
           \A x \in Packets : info[x].id = packets[x].id,
           Queue(t, p, info),
           mine'[t][k] = Tail(Stored(t)[t][k]),
           \A j \in {"work", "device"} \ {k} : mine'[t][j] = Stored(t)[t][j],
           \A x \in Ids \ {t} : mine'[x] = Stored(t)[x]
    PROVE  PlacesInv'
<1> DEFINE F == Lists(AfterTake(t), Stored(t))
           G == Lists(tcb', mine')
           d == packets[p].id
           a == <<t, k>>
           b == <<d, "queue">>
<1>1. /\ RichardsInv /\ BlocksOK /\ t \in Ids /\ t \in {2, 3} /\ t \notin Devices
      /\ Conserved(F) /\ Routed(F, packets) /\ DevicesKeepOne(tcb, mine)
      /\ packets \in [Packets -> [id : Ids, a1 : Int]]
  <2>1. /\ RichardsInv /\ BlocksOK /\ DevicesKeepOne(tcb, mine)
        /\ packets \in [Packets -> [id : Ids, a1 : Int]]
      BY DEF PlacesInv, RichardsInv, PacketsOK
  <2>2. t \in Ids /\ t \in {2, 3} /\ t \notin Devices
      BY Names
  <2>3. Conserved(F) /\ Routed(F, packets)
      BY StoredLists
  <2>4. QED
      BY <2>1, <2>2, <2>3
<1>2. /\ Stored(t)[t] \in [work : Seq(Packets), device : Seq(Packets)]
      /\ \A x \in Ids \ {t} : Stored(t)[x] = mine[x]
    BY <1>1, StoredTyped
<1>3. p \in Packets /\ d \in Ids /\ info[p].id = d
  <2>1. Stored(t)[t][k] \in Seq(Packets)
      BY <1>2
  <2>2. p \in Packets
      BY <2>1, HeadTailProperties
  <2>3. QED
      BY <1>1, <2>2
<1> HIDE DEF d
<1>4. /\ \A x \in Ids : tcb'[x].queue = IF x = d THEN Append(AfterTake(t)[x].queue, p)
                                        ELSE AfterTake(t)[x].queue
      /\ \A x \in Ids : "suspended" \in tcb'[x].state => "suspended" \in AfterTake(t)[x].state
      /\ packets' = [info EXCEPT ![p].id = t]
    BY <1>1, <1>3, ServiceLeaves
<1>5. packets'[p].id = t /\ \A x \in Packets \ {p} : packets'[x].id = packets[x].id
    BY <1>3, <1>4
<1>6. /\ F[a] = Stored(t)[t][k] /\ G[a] = mine'[t][k]
      /\ F[b] = AfterTake(t)[d].queue /\ G[b] = tcb'[d].queue
      /\ G = [s \in Slots |-> G[s]]
      /\ a \in Slots /\ b \in Slots /\ a # b
  <2>1. F[a] = Stored(t)[t][k] /\ a \in Slots
    <3>1. F[<<t, "work">>] = Stored(t)[t].work /\ <<t, "work">> \in Slots
        BY ListAt
    <3>2. F[<<t, "device">>] = Stored(t)[t].device /\ <<t, "device">> \in Slots
        BY ListAt
    <3> HIDE DEF F
    <3>3. CASE k = "work"
        BY <3>1, <3>3
    <3>4. CASE k = "device"
        BY <3>2, <3>4
    <3>5. QED
        BY <3>3, <3>4
  <2>2. G[a] = mine'[t][k] /\ G = [s \in Slots |-> G[s]]
    <3>1. CASE k = "work"
        BY <3>1, ListAt
    <3>2. CASE k = "device"
        BY <3>2, ListAt
    <3>3. QED
        BY <3>1, <3>2
  <2>3. F[b] = AfterTake(t)[d].queue /\ G[b] = tcb'[d].queue /\ b \in Slots
      BY <1>3, ListAt
  <2>4. a # b
      OBVIOUS
  <2>5. QED
      BY <2>1, <2>2, <2>3, <2>4
<1>7. Moves(F, G, a, b)
  <2>1. \A s \in Slots \ {a, b} : G[s] = F[s]
    <3>1. \A x \in Ids : <<x, "queue">> \notin {a, b} => tcb'[x].queue = AfterTake(t)[x].queue
        BY <1>4
    <3>2. \A x \in Handlers : \A j \in {"work", "device"} :
            <<x, j>> \notin {a, b} => mine'[x][j] = Stored(t)[x][j]
        BY Names
    <3>3. \A x \in Devices : mine'[x].v1 = Stored(t)[x].v1
        BY <1>1, Names
    <3>4. Agree(AfterTake(t), Stored(t), tcb', mine', {a, b})
        BY <3>1, <3>2, <3>3 DEF Agree
    <3>5. QED
        BY <3>4, OtherLists
  <2> HIDE DEF F, G
  <2>2. G[a] = Tail(F[a]) /\ G[b] = Append(F[b], Head(F[a]))
      BY <1>3, <1>4, <1>6
  <2>3. QED
      BY <1>6, <2>1, <2>2 DEF Moves
<1>8. Allowed(p, a, packets[p].id) => Allowed(p, b, packets'[p].id)
  <2>1. Home(p) \in {4, 5}
      BY <1>3, Names
  <2>2. t \in {2, 3}
      BY <1>1
  <2>3. CASE Kind(p) = "work"
    <3>1. Allowed(p, a, d) => d = 1
        BY <1>3, <2>2, <2>3, Ways
    <3>2. d = 1 => Allowed(p, b, t)
        BY <1>3, <2>3, Ways
    <3>3. QED
        BY <1>5, <3>1, <3>2 DEF d
  <2>4. CASE Kind(p) # "work"
    <3>1. Allowed(p, a, d) => t = Home(p) - 2 /\ d = Home(p)
        BY <1>3, <2>1, <2>2, <2>4, Ways
    <3>2. t = Home(p) - 2 /\ d = Home(p) => Allowed(p, b, t)
        BY <1>3, <2>4, Ways
    <3>3. QED
        BY <1>5, <3>1, <3>2 DEF d
  <2>5. QED
      BY <2>3, <2>4
<1>9. Conserved(G) /\ Routed(G, packets')
  <2>1. F[a] # <<>> /\ p = Head(F[a])
      BY <1>6
  <2>2. /\ Conserved(F) /\ Routed(F, packets) /\ a \in Slots /\ b \in Slots /\ a # b
        /\ \A x \in Packets \ {p} : packets'[x].id = packets[x].id
      BY <1>1, <1>5, <1>6
  <2> HIDE DEF F, G, a, b
  <2>3. QED
      BY <1>7, <1>8, <2>1, <2>2, RoutedMove
<1>10. DevicesKeepOne(tcb', mine')
  <2>1. \A x \in Ids : "suspended" \in tcb'[x].state => "suspended" \in tcb[x].state
      BY <1>1, <1>4, TakeLeaves
  <2>2. \A x \in Devices : mine'[x] = mine[x] /\ x \in Ids
      BY <1>1, <1>2, Names
  <2>3. QED
      BY <1>1, <2>1, <2>2 DEF DevicesKeepOne
<1>11. QED
    BY <1>9, <1>10 DEF PlacesInv

LEMMA HandlerPlaces ==
    ASSUME PlacesInv, RichardsInv', NEW t \in Handlers, RunHandler(t)
    PROVE  PlacesInv'
<1> DEFINE has == Stored(t)
<1>1. /\ RichardsInv /\ BlocksOK /\ t \in Ids /\ t \notin Devices /\ currentTcb = t
      /\ packets \in [Packets -> [id : Ids, a1 : Int]] /\ DevicesKeepOne(tcb, mine)
  <2>1. /\ RichardsInv /\ BlocksOK /\ DevicesKeepOne(tcb, mine)
        /\ packets \in [Packets -> [id : Ids, a1 : Int]]
      BY DEF PlacesInv, RichardsInv, PacketsOK
  <2>2. t \in Ids /\ t \notin Devices
      BY Names
  <2>3. currentTcb = t
      BY DEF RunHandler, Runs, At
  <2>4. QED
      BY <2>1, <2>2, <2>3
<1>2. /\ DOMAIN has = Ids
      /\ has[t] \in [work : Seq(Packets), device : Seq(Packets)]
      /\ \A x \in Ids \ {t} : has[x] = mine[x]
    BY <1>1, StoredTyped
<1>3. CASE /\ has[t].work # <<>>
           /\ Queue(t, Head(has[t].work), packets)
           /\ mine' = [has EXCEPT ![t].work = Tail(@)]
  <2> HIDE DEF has
  <2>1. /\ mine'[t].work = Tail(has[t].work) /\ mine'[t].device = has[t].device
        /\ \A x \in Ids \ {t} : mine'[x] = has[x]
      BY <1>1, <1>2, <1>3
  <2>2. QED
      BY <1>1, <1>3, <2>1, SendPlaces DEF has
<1>4. CASE /\ has[t].work # <<>> /\ has[t].device # <<>>
           /\ Queue(t, Head(has[t].device), [packets EXCEPT ![Head(has[t].work)].a1 = @ + 1])
           /\ mine' = WithoutDevice(t, has)
  <2> DEFINE w == Head(has[t].work)
             info == [packets EXCEPT ![w].a1 = @ + 1]
  <2>1. w \in Packets
      BY <1>2, <1>4, HeadTailProperties
  <2>2. Queue(t, Head(has[t].device), info) /\ mine' = [has EXCEPT ![t].device = Tail(@)]
      BY <1>4 DEF WithoutDevice
  <2> HIDE DEF has, w
  <2>3. /\ info \in [Packets -> [id : Ids, a1 : Int]]
        /\ \A x \in Packets : info[x].id = packets[x].id
      BY <1>1, <2>1
  <2>4. /\ mine'[t].device = Tail(has[t].device) /\ mine'[t].work = has[t].work
        /\ \A x \in Ids \ {t} : mine'[x] = has[x]
      BY <1>1, <1>2, <2>2
  <2> HIDE DEF info
  <2>5. QED
      BY <1>1, <1>4, <2>2, <2>3, <2>4, SendPlaces DEF has
<1>5. CASE SuspendCurrent(t) /\ mine' = has /\ UNCHANGED packets
  <2>1. \A x \in Ids : /\ tcb'[x].queue = AfterTake(t)[x].queue
                       /\ "suspended" \in tcb'[x].state
                            => x = t \/ "suspended" \in AfterTake(t)[x].state
      BY <1>1, <1>5, ServiceLeaves
  <2>2. Lists(tcb', mine') = Lists(AfterTake(t), Stored(t))
      BY <1>5, <2>1, SameLists
  <2>3. DevicesKeepOne(tcb', mine')
    <3>1. \A x \in Ids : "suspended" \in AfterTake(t)[x].state => "suspended" \in tcb[x].state
        BY <1>1, TakeLeaves
    <3> HIDE DEF has
    <3>2. \A x \in Devices : mine'[x] = mine[x] /\ x \in Ids /\ x # t
        BY <1>1, <1>2, <1>5, Names
    <3>3. QED
        BY <1>1, <2>1, <3>1, <3>2 DEF DevicesKeepOne
  <2>4. QED
      BY <1>1, <1>5, <2>2, <2>3, StoredLists DEF PlacesInv
<1>6. QED
    BY <1>3, <1>4, <1>5 DEF RunHandler

\* Every packet starts in the queue of the block it was made for, once.
LEMMA InitPlaces ==
    ASSUME RichardsInit, RichardsInv
    PROVE  PlacesInv
<1> DEFINE F == Lists(tcb, mine)
           Block(p) == IF p <= 2 THEN 1 ELSE IF p <= 5 THEN 2 ELSE 3
           Index(p) == IF p <= 2 THEN 3 - p ELSE IF p <= 5 THEN 6 - p ELSE 9 - p
<1>1. ASSUME NEW s \in Slots
      PROVE  F[s] = IF s[2] = "queue" THEN FirstQueue(s[1]) ELSE <<>>
  <2>1. s[1] \in Ids
      BY DEF Slots
  <2>2. F[s] = ListIn(tcb, mine, s[1], s[2])
      BY DEF Lists
  <2>3. \A t \in Ids : tcb[t].queue = FirstQueue(t)
      BY DEF RichardsInit
  <2>4. \A t \in Handlers : mine[t] = [work |-> <<>>, device |-> <<>>]
      BY Names DEF RichardsInit
  <2>5. \A t \in Devices : mine[t] = [v1 |-> <<>>]
      BY Names DEF RichardsInit
  <2>6. QED
      BY <2>1, <2>2, <2>3, <2>4, <2>5 DEF ListIn
<1>2. \A t \in Ids : FirstQueue(t) = IF t = 1 THEN <<2, 1>> ELSE IF t = 2 THEN <<5, 4, 3>>
                                     ELSE IF t = 3 THEN <<8, 7, 6>> ELSE <<>>
    BY Names DEF FirstQueue
<1>3. \A t \in Ids : FirstQueue(t) \in Seq(Packets)
  <2>1. /\ <<>> \in Seq(Packets) /\ <<2, 1>> \in Seq(Packets)
        /\ <<5, 4, 3>> \in Seq(Packets) /\ <<8, 7, 6>> \in Seq(Packets)
      BY DEF Packets
  <2>2. QED
      BY <1>2, <2>1
<1>4. F \in [Slots -> Seq(Packets)]
  <2>1. <<>> \in Seq(Packets)
      BY EmptySeq
  <2>2. \A s \in Slots : F[s] \in Seq(Packets)
      BY <1>1, <1>3, <2>1 DEF Slots
  <2>3. QED
      BY <2>2, ListAt
<1> HIDE DEF F
<1>5. ASSUME NEW s \in Slots, NEW i \in DOMAIN F[s]
      PROVE  /\ F[s][i] \in Packets /\ s = <<Block(F[s][i]), "queue">> /\ i = Index(F[s][i])
  <2>1. s[1] \in Ids /\ s = <<s[1], s[2]>>
      BY DEF Slots
  <2>2. s[2] = "queue" /\ s[1] \in {1, 2, 3}
      BY <1>1, <1>2, <2>1, Names
  <2>3. CASE s[1] = 1
    <3>1. F[s] = <<2, 1>> /\ i \in {1, 2}
        BY <1>1, <1>2, <2>1, <2>2, <2>3
    <3>2. QED
        BY <2>1, <2>2, <2>3, <3>1 DEF Packets
  <2>4. CASE s[1] = 2
    <3>1. F[s] = <<5, 4, 3>> /\ i \in {1, 2, 3}
        BY <1>1, <1>2, <2>1, <2>2, <2>4
    <3>2. QED
        BY <2>1, <2>2, <2>4, <3>1 DEF Packets
  <2>5. CASE s[1] = 3
    <3>1. F[s] = <<8, 7, 6>> /\ i \in {1, 2, 3}
        BY <1>1, <1>2, <2>1, <2>2, <2>5
    <3>2. QED
        BY <2>1, <2>2, <2>5, <3>1 DEF Packets
  <2>6. QED
      BY <2>2, <2>3, <2>4, <2>5
<1>6. ASSUME NEW p \in Packets
      PROVE  /\ <<Block(p), "queue">> \in Slots
             /\ Index(p) \in DOMAIN F[<<Block(p), "queue">>]
             /\ F[<<Block(p), "queue">>][Index(p)] = p
  <2>1. {<<1, "queue">>, <<2, "queue">>, <<3, "queue">>} \subseteq Slots
      BY Names DEF Slots
  <2>2. /\ F[<<1, "queue">>] = <<2, 1>> /\ F[<<2, "queue">>] = <<5, 4, 3>>
        /\ F[<<3, "queue">>] = <<8, 7, 6>>
      BY <1>1, <1>2, <2>1, Names
  <2>3. CASE p \in {1, 2}
      BY <2>1, <2>2, <2>3
  <2>4. CASE p \in {3, 4, 5}
      BY <2>1, <2>2, <2>4
  <2>5. CASE p \in {6, 7, 8}
      BY <2>1, <2>2, <2>5
  <2>6. QED
      BY <2>3, <2>4, <2>5 DEF Packets
<1>7. Conserved(F)
  <2> HIDE DEF Block, Index
  <2>1. \A p \in Packets : \E s \in Slots : \E i \in DOMAIN F[s] : F[s][i] = p
      BY <1>6
  <2>2. \A r, s \in Slots : \A i \in DOMAIN F[r], j \in DOMAIN F[s] :
          F[r][i] = F[s][j] => r = s /\ i = j
      BY <1>5
  <2>3. QED
      BY <1>4, <2>1, <2>2 DEF Conserved, Sits
<1>8. Routed(F, packets)
  <2>1. ASSUME NEW p \in Packets
        PROVE  Allowed(p, <<Block(p), "queue">>, packets[p].id)
    <3>1. packets[p].id = IF p \in 1 .. 2 THEN 1 ELSE IF p \in 3 .. 5 THEN 4 ELSE 5
        BY Names DEF RichardsInit
    <3>2. /\ Kind(p) = IF p \in {1, 2} THEN "work" ELSE "device"
          /\ Home(p) = IF p \in 3 .. 5 THEN 4 ELSE 5
        BY Names DEF Kind, Home
    <3>3. QED
        BY <3>1, <3>2, Ways DEF Packets
  <2>2. QED
      BY <1>5, <2>1 DEF Routed
<1>9. DevicesKeepOne(tcb, mine)
    BY Names DEF RichardsInit, DevicesKeepOne
<1>10. QED
    BY <1>7, <1>8, <1>9 DEF PlacesInv, F

\* Wherever the tasks pass them, the packets keep to their ways, one place each.
THEOREM PlacesInvariance == RichardsSpec => []PlacesInv
<1>1. RichardsInit => PlacesInv
    BY InitOK, InitPlaces
<1>2. PlacesInv /\ RichardsInv' /\ [RichardsNext]_richardsVars => PlacesInv'
  <2> SUFFICES ASSUME PlacesInv, RichardsInv', [RichardsNext]_richardsVars
               PROVE  PlacesInv'
      OBVIOUS
  <2>1. CASE RunRichards
      BY <2>1, QuietPlaces DEF RunRichards
  <2>2. ASSUME NEW t \in Ids, Skip(t) PROVE PlacesInv'
      BY <2>2, QuietPlaces DEF Skip
  <2>3. CASE RunIdle
      BY <2>3, IdlePlaces
  <2>4. ASSUME NEW t \in Devices, RunDevice(t) PROVE PlacesInv'
      BY <2>4, DevicePlaces
  <2>5. CASE RunWorker
      BY <2>5, WorkerPlaces
  <2>6. ASSUME NEW t \in Handlers, RunHandler(t) PROVE PlacesInv'
      BY <2>6, HandlerPlaces
  <2>7. CASE UNCHANGED richardsVars
      BY <2>7, QuietPlaces DEF richardsVars
  <2>8. QED
      BY <2>1, <2>2, <2>3, <2>4, <2>5, <2>6, <2>7 DEF RichardsNext, Schedule
<1>3. QED
    BY <1>1, <1>2, Invariance, PTL DEF RichardsSpec

-----------------------------------------------------------------------------
(* What a task holds, as one list.                                         *)

\* The list c is u and then v.
Joins(c, u, v) ==
    /\ \A n \in DOMAIN c : \/ n \in DOMAIN u /\ c[n] = u[n]
                           \/ \E j \in DOMAIN v : n = Len(u) + j /\ c[n] = v[j]
    /\ \A n \in DOMAIN u : n \in Nat /\ n \in DOMAIN c /\ c[n] = u[n]
    /\ \A j \in DOMAIN v : j \in Nat /\ Len(u) + j \in DOMAIN c /\ c[Len(u) + j] = v[j]

LEMMA ConcatPlaces ==
    ASSUME NEW S, NEW u \in Seq(S), NEW v \in Seq(S)
    PROVE  u \o v \in Seq(S) /\ Len(u) \in Nat /\ Joins(u \o v, u, v)
<1> DEFINE m == Len(u)
           k == Len(v)
           c == u \o v
<1>1. /\ c \in Seq(S) /\ Len(c) = m + k
      /\ \A i \in 1 .. m + k : c[i] = IF i <= m THEN u[i] ELSE v[i - m]
    BY ConcatProperties
<1>2. /\ m \in Nat /\ k \in Nat /\ DOMAIN u = 1 .. m /\ DOMAIN v = 1 .. k /\ DOMAIN c = 1 .. (m + k)
    BY <1>1, LenProperties
<1> HIDE DEF m, k, c
<1>3. ASSUME NEW n \in DOMAIN c
      PROVE  \/ n \in DOMAIN u /\ c[n] = u[n]
             \/ \E j \in DOMAIN v : n = m + j /\ c[n] = v[j]
  <2>1. CASE n <= m
      BY <1>1, <1>2, <2>1
  <2>2. CASE n > m
    <3>1. n - m \in 1 .. k /\ n = m + (n - m) /\ c[n] = v[n - m]
        BY <1>1, <1>2, <2>2
    <3>2. QED
        BY <1>2, <3>1
  <2>3. QED
      BY <1>2, <2>1, <2>2
<1>4. \A n \in DOMAIN u : n \in DOMAIN c /\ c[n] = u[n] /\ n \in Nat
    BY <1>1, <1>2
<1>5. ASSUME NEW j \in DOMAIN v PROVE m + j \in DOMAIN c /\ j \in Nat /\ c[m + j] = v[j]
  <2>1. m + j \in 1 .. (m + k) /\ ~(m + j <= m) /\ (m + j) - m = j /\ j \in Nat
      BY <1>2
  <2>2. QED
      BY <1>1, <1>2, <2>1
<1>6. QED
    BY <1>1, <1>2, <1>3, <1>4, <1>5 DEF Joins, m, c

Kinds == {"queue", "work", "device", "v1"}

\* Where the list of a kind starts in what a task holds.
Start(F, t, k) ==
    IF k = "queue" THEN 0
    ELSE IF k = "device" THEN Len(F[<<t, "queue">>]) + Len(F[<<t, "work">>])
    ELSE Len(F[<<t, "queue">>])

LEMMA HoldsAre ==
    ASSUME PlacesInv, NEW t \in Ids
    PROVE  /\ Holds(t) \in Seq(Packets)
           /\ \A n \in DOMAIN Holds(t) :
                \E k \in Kinds : \E i \in DOMAIN Lists(tcb, mine)[<<t, k>>] :
                /\ Lists(tcb, mine)[<<t, k>>][i] = Holds(t)[n]
                /\ n = Start(Lists(tcb, mine), t, k) + i
           /\ \A k \in Kinds : \A i \in DOMAIN Lists(tcb, mine)[<<t, k>>] :
                /\ Start(Lists(tcb, mine), t, k) + i \in DOMAIN Holds(t)
                /\ Holds(t)[Start(Lists(tcb, mine), t, k) + i] = Lists(tcb, mine)[<<t, k>>][i]
<1> DEFINE F == Lists(tcb, mine)
           H == Holds(t)
           q == F[<<t, "queue">>]
           w == F[<<t, "work">>]
           d == F[<<t, "device">>]
           v == F[<<t, "v1">>]
<1>1. \A k \in Kinds : <<t, k>> \in Slots /\ F[<<t, k>>] = ListIn(tcb, mine, t, k)
    BY DEF Kinds, Slots, Lists
<1>2. /\ q \in Seq(Packets) /\ w \in Seq(Packets) /\ d \in Seq(Packets) /\ v \in Seq(Packets)
      /\ <<>> \in Seq(Packets) /\ DOMAIN <<>> = {}
  <2>1. \A s \in Slots : F[s] \in Seq(Packets)
      BY DEF PlacesInv, Conserved
  <2>2. <<>> \in Seq(Packets)
      BY EmptySeq
  <2> HIDE DEF F
  <2>3. QED
      BY <1>1, <2>1, <2>2 DEF Kinds
<1>3. /\ Start(F, t, "queue") = 0 /\ Start(F, t, "work") = Len(q)
      /\ Start(F, t, "device") = Len(q) + Len(w) /\ Start(F, t, "v1") = Len(q)
    BY DEF Start
<1>4. /\ q = tcb[t].queue
      /\ t \in Handlers => w = mine[t].work /\ d = mine[t].device /\ v = <<>>
      /\ t \in Devices => w = <<>> /\ d = <<>> /\ v = mine[t].v1
      /\ t \notin Handlers \cup Devices => w = <<>> /\ d = <<>> /\ v = <<>>
    BY <1>1, Names DEF ListIn, Kinds
<1>5. /\ t \in Handlers => H = q \o (w \o d)
      /\ t \in Devices => H = q \o v
      /\ t \notin Handlers \cup Devices => H = q \o <<>>
  <2> HIDE DEF q, w, d, v
  <2>1. ~(t \in Handlers /\ t \in Devices)
      BY Names
  <2>2. CASE t \in Handlers
      BY <1>4, <2>1, <2>2 DEF Holds
  <2>3. CASE t \in Devices
      BY <1>4, <2>1, <2>3 DEF Holds
  <2>4. CASE t \notin Handlers \cup Devices
      BY <1>4, <2>4 DEF Holds
  <2>5. QED
      BY <2>2, <2>3, <2>4
<1> HIDE DEF F, H, q, w, d, v
<1>6. SUFFICES /\ H \in Seq(Packets)
               /\ \A n \in DOMAIN H : \/ n \in DOMAIN q /\ H[n] = q[n]
                                      \/ \E i \in DOMAIN w : n = Len(q) + i /\ H[n] = w[i]
                                      \/ \E i \in DOMAIN d : n = Len(q) + Len(w) + i /\ H[n] = d[i]
                                      \/ \E i \in DOMAIN v : n = Len(q) + i /\ H[n] = v[i]
               /\ \A n \in DOMAIN q : n \in DOMAIN H /\ H[n] = q[n]
               /\ \A i \in DOMAIN w : Len(q) + i \in DOMAIN H /\ H[Len(q) + i] = w[i]
               /\ \A i \in DOMAIN d : /\ Len(q) + Len(w) + i \in DOMAIN H
                                      /\ H[Len(q) + Len(w) + i] = d[i]
               /\ \A i \in DOMAIN v : Len(q) + i \in DOMAIN H /\ H[Len(q) + i] = v[i]
  <2>1. DOMAIN q \subseteq Nat
      BY <1>2, LenProperties
  <2>2. ASSUME NEW n \in DOMAIN H
        PROVE  \E k \in Kinds : \E i \in DOMAIN F[<<t, k>>] :
                 F[<<t, k>>][i] = H[n] /\ n = Start(F, t, k) + i
    <3>1. CASE n \in DOMAIN q /\ H[n] = q[n]
      <4>1. n = Start(F, t, "queue") + n
          BY <1>3, <2>1, <3>1
      <4>2. QED
          BY <3>1, <4>1 DEF q, Kinds
    <3>2. CASE \E i \in DOMAIN w : n = Len(q) + i /\ H[n] = w[i]
        BY <1>3, <3>2 DEF w, Kinds
    <3>3. CASE \E i \in DOMAIN d : n = Len(q) + Len(w) + i /\ H[n] = d[i]
        BY <1>3, <3>3 DEF d, Kinds
    <3>4. CASE \E i \in DOMAIN v : n = Len(q) + i /\ H[n] = v[i]
        BY <1>3, <3>4 DEF v, Kinds
    <3>5. QED
        BY <1>6, <3>1, <3>2, <3>3, <3>4
  <2>3. ASSUME NEW k \in Kinds, NEW i \in DOMAIN F[<<t, k>>]
        PROVE  Start(F, t, k) + i \in DOMAIN H /\ H[Start(F, t, k) + i] = F[<<t, k>>][i]
    <3>1. CASE k = "queue"
      <4>1. i \in DOMAIN q
          BY <2>3, <3>1 DEF q
      <4>2. i \in Nat /\ Start(F, t, k) = 0
          BY <1>3, <2>1, <3>1, <4>1
      <4>3. Start(F, t, k) + i = i
          BY <4>2
      <4>4. QED
          BY <1>6, <3>1, <4>1, <4>3 DEF q
    <3>2. CASE k = "work"
        BY <1>3, <1>6, <2>3, <3>2 DEF w
    <3>3. CASE k = "device"
        BY <1>3, <1>6, <2>3, <3>3 DEF d
    <3>4. CASE k = "v1"
        BY <1>3, <1>6, <2>3, <3>4 DEF v
    <3>5. QED
        BY <3>1, <3>2, <3>3, <3>4 DEF Kinds
  <2>4. QED
      BY <1>6, <2>2, <2>3 DEF F, H
<1>7. ASSUME NEW r \in Seq(Packets), H = q \o r
      PROVE  H \in Seq(Packets) /\ Len(q) \in Nat /\ Joins(H, q, r)
    BY <1>2, <1>7, ConcatPlaces
<1>8. CASE t \in Handlers
  <2> DEFINE r == w \o d
  <2>1. r \in Seq(Packets) /\ Len(w) \in Nat /\ Joins(r, w, d)
      BY <1>2, ConcatPlaces
  <2>2. H = q \o r /\ v = <<>>
      BY <1>4, <1>5, <1>8
  <2> HIDE DEF r
  <2>3. H \in Seq(Packets) /\ Len(q) \in Nat /\ Joins(H, q, r)
      BY <1>7, <2>1, <2>2
  <2>4. \A j \in DOMAIN d : Len(q) + (Len(w) + j) = Len(q) + Len(w) + j
      BY <2>1, <2>3 DEF Joins
  <2>5. ASSUME NEW n \in DOMAIN H
        PROVE  \/ n \in DOMAIN q /\ H[n] = q[n]
               \/ \E i \in DOMAIN w : n = Len(q) + i /\ H[n] = w[i]
               \/ \E i \in DOMAIN d : n = Len(q) + Len(w) + i /\ H[n] = d[i]
    <3>1. ASSUME NEW j \in DOMAIN r, n = Len(q) + j, H[n] = r[j]
          PROVE  \/ \E i \in DOMAIN w : n = Len(q) + i /\ H[n] = w[i]
                 \/ \E i \in DOMAIN d : n = Len(q) + Len(w) + i /\ H[n] = d[i]
      <4>1. CASE j \in DOMAIN w /\ r[j] = w[j]
          BY <3>1, <4>1
      <4>2. ASSUME NEW i \in DOMAIN d, j = Len(w) + i, r[j] = d[i]
            PROVE  n = Len(q) + Len(w) + i /\ H[n] = d[i]
          BY <2>4, <3>1, <4>2
      <4>3. QED
          BY <2>1, <4>1, <4>2 DEF Joins
    <3>2. QED
        BY <2>3, <3>1 DEF Joins
  <2>6. ASSUME NEW i \in DOMAIN d
        PROVE  Len(q) + Len(w) + i \in DOMAIN H /\ H[Len(q) + Len(w) + i] = d[i]
    <3>1. Len(w) + i \in DOMAIN r /\ r[Len(w) + i] = d[i]
        BY <2>1 DEF Joins
    <3>2. Len(q) + (Len(w) + i) \in DOMAIN H /\ H[Len(q) + (Len(w) + i)] = d[i]
        BY <2>3, <3>1 DEF Joins
    <3>3. QED
        BY <2>4, <3>2
  <2>7. \A i \in DOMAIN w : Len(q) + i \in DOMAIN H /\ H[Len(q) + i] = w[i]
      BY <2>1, <2>3 DEF Joins
  <2>8. \A n \in DOMAIN q : n \in DOMAIN H /\ H[n] = q[n]
      BY <2>3 DEF Joins
  <2>9. \A i \in DOMAIN v : FALSE
      BY <1>2, <2>2
  <2>10. QED
      BY <2>3, <2>5, <2>6, <2>7, <2>8, <2>9
<1>9. CASE t \in Devices
  <2>1. H = q \o v /\ \A i \in DOMAIN w \cup DOMAIN d : FALSE
      BY <1>2, <1>4, <1>5, <1>9
  <2>2. H \in Seq(Packets) /\ Joins(H, q, v)
      BY <1>2, <1>7, <2>1
  <2>3. QED
      BY <2>1, <2>2 DEF Joins
<1>10. CASE t \notin Handlers \cup Devices
  <2>1. H = q \o <<>> /\ \A i \in DOMAIN w \cup DOMAIN d \cup DOMAIN v : FALSE
      BY <1>2, <1>4, <1>5, <1>10
  <2>2. H \in Seq(Packets) /\ Joins(H, q, <<>>)
      BY <1>2, <1>7, <2>1
  <2>3. QED
      BY <1>2, <2>1, <2>2 DEF Joins
<1>11. QED
    BY <1>8, <1>9, <1>10

\* Nothing that is held is held twice, so no task holds more than there is.
LEMMA HeldOnce ==
    ASSUME PlacesInv
    PROVE  /\ \A r, t \in Ids : \A n \in DOMAIN Holds(r), m \in DOMAIN Holds(t) :
                Holds(r)[n] = Holds(t)[m] => r = t /\ n = m
           /\ \A t \in Ids : DOMAIN Holds(t) \subseteq 1 .. 8
<1> DEFINE F == Lists(tcb, mine)
<1>1. ASSUME NEW r \in Ids, NEW t \in Ids, NEW n \in DOMAIN Holds(r), NEW m \in DOMAIN Holds(t),
             Holds(r)[n] = Holds(t)[m]
      PROVE  r = t /\ n = m
  <2>1. PICK k \in Kinds : \E i \in DOMAIN F[<<r, k>>] :
               F[<<r, k>>][i] = Holds(r)[n] /\ n = Start(F, r, k) + i
      BY HoldsAre
  <2>2. PICK i \in DOMAIN F[<<r, k>>] :
               F[<<r, k>>][i] = Holds(r)[n] /\ n = Start(F, r, k) + i
      BY <2>1
  <2>3. PICK l \in Kinds : \E j \in DOMAIN F[<<t, l>>] :
               F[<<t, l>>][j] = Holds(t)[m] /\ m = Start(F, t, l) + j
      BY HoldsAre
  <2>4. PICK j \in DOMAIN F[<<t, l>>] :
               F[<<t, l>>][j] = Holds(t)[m] /\ m = Start(F, t, l) + j
      BY <2>3
  <2>5. <<r, k>> \in Slots /\ <<t, l>> \in Slots
      BY DEF Slots, Kinds
  <2>6. <<r, k>> = <<t, l>> /\ i = j
      BY <1>1, <2>2, <2>4, <2>5 DEF PlacesInv, Conserved
  <2> HIDE DEF F
  <2>7. QED
      BY <2>2, <2>4, <2>6
<1>2. ASSUME NEW t \in Ids PROVE DOMAIN Holds(t) \subseteq 1 .. 8
  <2> DEFINE H == Holds(t)
             n == Len(H)
  <2>1. H \in Seq(Packets)
      BY HoldsAre
  <2>2. \A i, j \in DOMAIN H : H[i] = H[j] => i = j
      BY <1>1
  <2> HIDE DEF H
  <2>3. n \in Nat /\ DOMAIN H = 1 .. n /\ H \in [1 .. n -> Packets]
      BY <2>1, LenProperties
  <2> HIDE DEF n
  <2>4. n <= 8
    <3>1. SUFFICES ASSUME n > 8 PROVE FALSE
        BY <2>3
    <3>2. /\ IsFiniteSet(1 .. n) /\ Cardinality(1 .. n) = n
          /\ IsFiniteSet(Packets) /\ Cardinality(Packets) = 8
      <4>1. /\ IsFiniteSet(1 .. n) /\ Cardinality(1 .. n) = IF 1 > n THEN 0 ELSE n - 1 + 1
            /\ IsFiniteSet(1 .. 8) /\ Cardinality(1 .. 8) = IF 1 > 8 THEN 0 ELSE 8 - 1 + 1
        <5>1. 1 \in Int /\ n \in Int /\ 8 \in Int
            BY <2>3
        <5>2. QED
            BY <5>1, FS_Interval, Zenon
      <4>2. QED
          BY <2>3, <3>1, <4>1 DEF Packets
    <3>3. \E i, j \in 1 .. n : i # j /\ H[i] = H[j]
        BY <2>3, <3>1, <3>2, FS_PigeonHole
    <3>4. QED
        BY <2>2, <2>3, <3>3
  <2>5. QED
      BY <2>3, <2>4 DEF H
<1>3. QED
    BY <1>1, <1>2

\* No packet is lost or held twice, whatever the tasks pass to each other and
\* whenever they are preempted, and a device's packet knows its way.
THEOREM PacketsKept == RichardsSpec => []PacketsConserved
<1> DEFINE F == Lists(tcb, mine)
<1>1. ASSUME PlacesInv PROVE PacketsConserved
  <2>1. ASSUME NEW p \in Packets
        PROVE  Cardinality({x \in Ids \X (1..8) :
                   x[2] \in DOMAIN Holds(x[1]) /\ Holds(x[1])[x[2]] = p}) = 1
    <3> DEFINE P == {x \in Ids \X (1..8) :
                       x[2] \in DOMAIN Holds(x[1]) /\ Holds(x[1])[x[2]] = p}
    <3>1. PICK s \in Slots : \E i \in DOMAIN F[s] : F[s][i] = p
        BY <1>1 DEF PlacesInv, Conserved, Sits
    <3>2. PICK i \in DOMAIN F[s] : F[s][i] = p
        BY <3>1
    <3>3. PICK t \in Ids, k \in Kinds : s = <<t, k>>
        BY DEF Slots, Kinds
    <3>4. PICK n : n = Start(F, t, k) + i
        OBVIOUS
    <3>5. n \in DOMAIN Holds(t) /\ Holds(t)[n] = p
        BY <1>1, <3>2, <3>3, <3>4, HoldsAre
    <3>6. \A x \in P : x = <<t, n>>
      <4>1. ASSUME NEW x \in P PROVE x = <<t, n>>
        <5>1. x[1] \in Ids /\ x = <<x[1], x[2]>>
            OBVIOUS
        <5>2. x[2] \in DOMAIN Holds(x[1]) /\ Holds(x[1])[x[2]] = p
            OBVIOUS
        <5>3. x[1] = t /\ x[2] = n
            BY <1>1, <3>5, <5>1, <5>2, HeldOnce
        <5>4. QED
            BY <5>1, <5>3
      <4>2. QED
          BY <4>1
    <3>7. <<t, n>> \in P
        BY <1>1, <3>5, HeldOnce
    <3>8. P = {<<t, n>>}
        BY <3>6, <3>7
    <3>9. QED
        BY <3>8, FS_Singleton
  <2>2. ASSUME NEW t \in Handlers \cup Devices, NEW p \in Packets,
               Kind(p) = "device", NEW n \in DOMAIN Holds(t), Holds(t)[n] = p
        PROVE  {t, packets[p].id} = {Home(p), Home(p) - 2}
    <3>1. t \in Ids
        BY Names
    <3>2. PICK k \in Kinds : \E i \in DOMAIN F[<<t, k>>] : F[<<t, k>>][i] = p
        BY <1>1, <2>2, <3>1, HoldsAre
    <3>3. PICK i \in DOMAIN F[<<t, k>>] : F[<<t, k>>][i] = p
        BY <3>2
    <3>4. <<t, k>> \in Slots
        BY <3>1 DEF Slots, Kinds
    <3>5. Allowed(p, <<t, k>>, packets[p].id)
        BY <1>1, <3>3, <3>4 DEF PlacesInv, Routed
    <3>6. QED
        BY <2>2, <3>5, Ways
  <2>3. QED
      BY <2>1, <2>2 DEF PacketsConserved
<1>2. QED
    BY <1>1, PlacesInvariance, PTL

-----------------------------------------------------------------------------
(* The playground's driver.                                                *)

Spans == {NoSpan, [startByte |-> 1, endByte |-> 2]}
Frames == [call : Nat, texts : {0, 2}, span : Spans, stats : {0, 3}, len : Nat]
Engines == [bundle : Bundles, frame : Frames \cup {NoFrame}, buffers : SUBSET Nat]

\* A frame is what the engine's bundle writes.
Whole(e) ==
    \/ e.frame = NoFrame
    \/ e.frame \in Frames /\ e.frame = FrameOf(e.frame.call, e.bundle, e.frame.texts,
                                               e.frame.span, e.frame.stats)

\* What the reader owes the frame of the call it answers.
ReadsAs(a, e, n) ==
    e.frame.len > 0 /\ e.frame.call = n =>
        /\ a.texts = e.frame.texts
        /\ a.errorSpan = (IF e.bundle >= 2 THEN e.frame.span ELSE NoSpan)
        /\ a.stats = (IF e.bundle = 3 THEN e.frame.stats ELSE 0)

\* The inductive invariant: only the instance loaded last is called, and the one
\* guest buffer there is belongs to the call in progress; an instance has no
\* frame until it is loaded, and none of another call is there to be read.
PlayInv ==
    /\ made \in Nat /\ DOMAIN load = Loads
    /\ calling \in {"no", "run", "read", "free"}
    /\ wasm \in Loads \cup {0} /\ (wasm = 0 => calling = "no")
    /\ wasm # 0 => load[wasm] = "loaded"
    /\ engine \in [Loads -> Engines]
    /\ \A l \in Loads :
         /\ Whole(engine[l])
         /\ engine[l].buffers = IF calling # "no" /\ l = wasm THEN {made} ELSE {}
         /\ load[l] # "loaded" => engine[l].frame = NoFrame
    /\ calling = "read" =>
         engine[wasm].frame = NoFrame \/ engine[wasm].frame.call = made
    /\ calling \in {"no", "free"} /\ made > 0 /\ answer.threw = "nothing" =>
         /\ answer.call = made
         /\ "status" \in DOMAIN answer \/ ReadsAs(answer, engine[wasm], made)

\* The reader finds by the lengths alone what the engine's bundle wrote.
LEMMA DecodesAsWritten ==
    ASSUME NEW e \in Engines, Whole(e), e.frame # NoFrame
    PROVE  /\ Decoded(e.frame).threw = "nothing" /\ Decoded(e.frame).call = e.frame.call
           /\ ReadsAs(Decoded(e.frame), e, e.frame.call)
<1> DEFINE f == e.frame
           b == e.bundle
<1>1. /\ b \in {1, 2, 3} /\ f \in Frames
      /\ f.len = 13 + f.texts + (IF b >= 2 THEN 8 ELSE 0) + (IF b = 3 THEN 4 + f.stats ELSE 0)
  <2>1. f = FrameOf(f.call, b, f.texts, f.span, f.stats) /\ f \in Frames
      BY DEF Whole
  <2>2. \A c, t, s, w :
          FrameOf(c, b, t, s, w).len
            = 13 + t + (IF b >= 2 THEN 8 ELSE 0) + (IF b = 3 THEN 4 + w ELSE 0)
      BY DEF FrameOf
  <2>3. QED
      BY <2>1, <2>2 DEF Engines, Bundles
<1> HIDE DEF f, b
<1>2. f.texts \in {0, 2} /\ f.stats \in {0, 3} /\ f.span \in Spans
    BY <1>1 DEF Frames
<1> DEFINE off == 13 + f.texts
           hasSpan == SpanFits(f, off)
           rest == IF hasSpan THEN off + 8 ELSE off
           hasStats == rest + 4 <= f.len /\ rest + 4 + f.stats <= f.len
<1>3. (hasSpan <=> b >= 2) /\ (hasStats <=> b = 3)
    BY <1>1, <1>2 DEF SpanFits
<1>4. IF f.span.endByte > f.span.startByte THEN TRUE ELSE f.span = NoSpan
    BY <1>2 DEF Spans, NoSpan
<1>5. Decoded(f) = [threw |-> "nothing", call |-> f.call, texts |-> f.texts,
                    errorSpan |-> IF hasSpan /\ f.span.endByte > f.span.startByte
                                  THEN f.span ELSE NoSpan,
                    stats |-> IF hasStats THEN f.stats ELSE 0]
    BY DEF Decoded
<1> HIDE DEF hasSpan, hasStats, off, rest
<1>6. /\ Decoded(f).threw = "nothing" /\ Decoded(f).call = f.call /\ Decoded(f).texts = f.texts
      /\ Decoded(f).errorSpan = (IF b >= 2 THEN f.span ELSE NoSpan)
      /\ Decoded(f).stats = (IF b = 3 THEN f.stats ELSE 0)
    BY <1>3, <1>4, <1>5
<1>7. QED
    BY <1>6 DEF ReadsAs, f, b

\* However loads and calls go, and wherever a call ends (cynic-engine.js).
THEOREM PlayInvariance == PlaySpec => []PlayInv
<1>1. PlayInit => PlayInv
  <2> SUFFICES ASSUME PlayInit PROVE PlayInv
      OBVIOUS
  <2>1. [bundle |-> 3, frame |-> NoFrame, buffers |-> {}] \in Engines
      BY DEF Engines, Bundles
  <2>2. engine \in [Loads -> Engines]
      BY <2>1 DEF PlayInit
  <2>3. \A l \in Loads : engine[l].frame = NoFrame /\ engine[l].buffers = {}
      BY DEF PlayInit
  <2>4. /\ made = 0 /\ DOMAIN load = Loads /\ calling = "no" /\ wasm = 0
      BY DEF PlayInit
  <2>5. QED
      BY <2>2, <2>3, <2>4 DEF PlayInv, Whole
<1>2. PlayInv /\ [PlayNext]_playVars => PlayInv'
  <2> SUFFICES ASSUME PlayInv, [PlayNext]_playVars PROVE PlayInv'
      OBVIOUS
  <2>1. ASSUME NEW l \in Loads, LoadEngine(l) \/ StreamingFails(l) \/ LoadFails(l)
        PROVE  PlayInv'
    <3>1. /\ load[l] # "loaded" /\ DOMAIN load' = Loads
          /\ \A k \in Loads : load'[k] = load[k] \/ (k = l /\ load'[k] # "loaded")
          /\ UNCHANGED <<wasm, engine, calling, made, answer>>
        BY <2>1 DEF LoadEngine, StreamingFails, LoadFails, PlayInv
    <3>2. /\ wasm # 0 => load'[wasm] = "loaded"
          /\ \A k \in Loads : load'[k] # "loaded" => engine[k].frame = NoFrame
        BY <3>1 DEF PlayInv
    <3>3. QED
        BY <3>1, <3>2 DEF PlayInv
  <2>2. ASSUME NEW l \in Loads, Instantiated(l) PROVE PlayInv'
    <3>1. PICK b \in Bundles : engine' = [engine EXCEPT ![l].bundle = b]
        BY <2>2 DEF Instantiated
    <3>2. engine[l] \in Engines /\ engine[l].frame = NoFrame /\ engine \in [Loads -> Engines]
        BY <2>2 DEF Instantiated, PlayInv
    <3>3. PICK e : e = [engine[l] EXCEPT !.bundle = b]
        OBVIOUS
    <3>4. e \in Engines /\ e.frame = NoFrame /\ e.buffers = engine[l].buffers
        BY <3>2, <3>3 DEF Engines
    <3>5. engine' = [engine EXCEPT ![l] = e]
        BY <3>1, <3>3
    <3>6. engine' \in [Loads -> Engines] /\ engine'[l] = e
          /\ \A k \in Loads \ {l} : engine'[k] = engine[k]
        BY <3>2, <3>4, <3>5
    <3>7. /\ calling = "no" /\ calling' = "no" /\ made' = made /\ answer' = answer /\ wasm' = l
          /\ load' = [load EXCEPT ![l] = "loaded"]
        BY <2>2 DEF Instantiated
    <3>8. \A k \in Loads : /\ Whole(engine'[k]) /\ engine'[k].buffers = {}
                           /\ load'[k] # "loaded" => engine'[k].frame = NoFrame
        BY <3>4, <3>6, <3>7 DEF PlayInv, Whole
    <3>9. ReadsAs(answer, engine'[l], made)
        BY <3>4, <3>6 DEF ReadsAs, NoFrame
    <3>10. QED
        BY <3>6, <3>7, <3>8, <3>9 DEF PlayInv
  <2>3. CASE CallUnloaded \/ AllocFails
    <3>1. /\ UNCHANGED <<load, wasm, engine, calling>> /\ calling = "no"
          /\ made' = made + 1 /\ answer'.threw # "nothing"
      <4>1. /\ UNCHANGED <<load, wasm, engine, calling>> /\ calling = "no" /\ made' = made + 1
            /\ \/ answer' = Threw("not loaded")
               \/ answer' = Threw("cynic_alloc returned null")
        <5>1. CASE CallUnloaded
            BY <5>1 DEF CallUnloaded, Begins
        <5>2. CASE AllocFails
            BY <5>2 DEF AllocFails, Begins
        <5>3. QED
            BY <2>3, <5>1, <5>2
      <4>2. Threw("not loaded").threw # "nothing"
          BY DEF Threw
      <4>3. Threw("cynic_alloc returned null").threw # "nothing"
          BY DEF Threw
      <4>4. QED
          BY <4>1, <4>2, <4>3
    <3>2. QED
        BY <3>1 DEF PlayInv, Whole
  <2>4. CASE Alloc
    <3>1. /\ wasm \in Loads /\ wasm # 0 /\ calling = "no" /\ calling' = "run" /\ made' = made + 1
          /\ UNCHANGED <<load, wasm>>
          /\ engine' = [engine EXCEPT ![wasm].buffers = @ \cup {made'}]
        BY <2>4 DEF Alloc, Begins, PlayInv
    <3>2. engine[wasm] \in Engines /\ engine[wasm].buffers = {} /\ engine \in [Loads -> Engines]
          /\ made' \in Nat
        BY <3>1 DEF PlayInv
    <3>3. PICK e : e = [engine[wasm] EXCEPT !.buffers = {made'}]
        OBVIOUS
    <3>4. /\ e \in Engines /\ e.frame = engine[wasm].frame /\ e.bundle = engine[wasm].bundle
          /\ e.buffers = {made'}
        BY <3>2, <3>3 DEF Engines
    <3>5. engine' = [engine EXCEPT ![wasm] = e]
        BY <3>1, <3>2, <3>3
    <3>6. engine' \in [Loads -> Engines] /\ engine'[wasm] = e
          /\ \A k \in Loads \ {wasm} : engine'[k] = engine[k]
        BY <3>1, <3>2, <3>4, <3>5
    <3>7. \A k \in Loads : /\ Whole(engine'[k])
                           /\ engine'[k].buffers = IF k = wasm THEN {made'} ELSE {}
                           /\ load[k] # "loaded" => engine'[k].frame = NoFrame
        BY <3>1, <3>4, <3>6 DEF PlayInv, Whole
    <3>8. QED
        BY <3>1, <3>2, <3>6, <3>7 DEF PlayInv
  <2>5. CASE EngineRuns
    <3>1. /\ wasm \in Loads /\ calling = "run" /\ calling' = "read"
          /\ UNCHANGED <<load, wasm, made, answer>>
          /\ load[wasm] = "loaded" /\ made \in Nat
          /\ engine[wasm] \in Engines /\ engine \in [Loads -> Engines]
        BY <2>5 DEF EngineRuns, PlayInv
    <3>2. PICK f : /\ engine' = [engine EXCEPT ![wasm].frame = f]
                   /\ \/ f = NoFrame
                      \/ \E texts \in {0, 2}, span \in Spans, stats \in {0, 3} :
                           f = FrameOf(made, engine[wasm].bundle, texts, span, stats)
        BY <2>5 DEF EngineRuns, FrameOnFailure, Spans
    <3>3. f = NoFrame \/ (/\ f \in Frames /\ f.call = made
                          /\ f = FrameOf(f.call, engine[wasm].bundle, f.texts, f.span, f.stats))
      <4>1. ASSUME NEW texts \in {0, 2}, NEW span \in Spans, NEW stats \in {0, 3},
                   f = FrameOf(made, engine[wasm].bundle, texts, span, stats)
            PROVE  /\ f \in Frames /\ f.call = made
                   /\ f = FrameOf(f.call, engine[wasm].bundle, f.texts, f.span, f.stats)
        <5>1. engine[wasm].bundle \in {1, 2, 3}
            BY <3>1 DEF Engines, Bundles
        <5>2. /\ f = [call |-> made, texts |-> texts, span |-> span, stats |-> stats, len |-> f.len]
              /\ f.len \in Nat
            BY <4>1, <5>1 DEF FrameOf
        <5>3. f \in Frames /\ f.call = made /\ f.texts = texts /\ f.span = span /\ f.stats = stats
            BY <3>1, <5>2 DEF Frames
        <5>4. QED
            BY <4>1, <5>3
      <4>2. QED
          BY <3>2, <4>1
    <3>4. PICK e : e = [engine[wasm] EXCEPT !.frame = f]
        OBVIOUS
    <3>5. /\ e \in Engines /\ e.frame = f /\ e.bundle = engine[wasm].bundle
          /\ e.buffers = engine[wasm].buffers
        BY <3>1, <3>3, <3>4 DEF Engines
    <3>6. engine' = [engine EXCEPT ![wasm] = e]
        BY <3>2, <3>4
    <3>7. engine' \in [Loads -> Engines] /\ engine'[wasm] = e
          /\ \A k \in Loads \ {wasm} : engine'[k] = engine[k]
        BY <3>1, <3>5, <3>6
    <3>8. Whole(e) /\ (e.frame = NoFrame \/ e.frame.call = made)
        BY <3>3, <3>5 DEF Whole
    <3>9. \A k \in Loads : /\ Whole(engine'[k])
                           /\ engine'[k].buffers = IF k = wasm THEN {made} ELSE {}
                           /\ load[k] # "loaded" => engine'[k].frame = NoFrame
        BY <3>1, <3>5, <3>7, <3>8 DEF PlayInv
    <3>10. QED
        BY <3>1, <3>7, <3>8, <3>9 DEF PlayInv
  <2>6. CASE EngineTraps
    <3>1. /\ calling = "run" /\ calling' = "free" /\ answer'.threw # "nothing"
          /\ UNCHANGED <<load, wasm, engine, made>>
        BY <2>6 DEF EngineTraps, Threw
    <3>2. QED
        BY <3>1 DEF PlayInv, Whole
  <2>7. CASE ReadFrame
    <3>1. /\ calling = "read" /\ calling' = "free" /\ UNCHANGED <<load, wasm, engine, made>>
          /\ answer' = IF engine[wasm].frame = NoFrame
                       THEN [threw |-> "nothing", call |-> made, status |-> -1]
                       ELSE Decoded(engine[wasm].frame)
        BY <2>7 DEF ReadFrame
    <3>2. wasm \in Loads /\ engine[wasm] \in Engines /\ Whole(engine[wasm])
        BY <3>1 DEF PlayInv
    <3>3. /\ answer'.call = made
          /\ "status" \in DOMAIN answer' \/ ReadsAs(answer', engine[wasm], made)
      <4>1. CASE engine[wasm].frame = NoFrame
          BY <3>1, <4>1
      <4>2. CASE engine[wasm].frame # NoFrame
        <5>1. engine[wasm].frame.call = made
            BY <3>1, <4>2 DEF PlayInv
        <5>2. QED
            BY <3>1, <3>2, <4>2, <5>1, DecodesAsWritten
      <4>3. QED
          BY <4>1, <4>2
    <3>4. QED
        BY <3>1, <3>3 DEF PlayInv, Whole
  <2>8. CASE Finally
    <3>1. /\ calling = "free" /\ calling' = "no" /\ UNCHANGED <<load, wasm, made, answer>>
          /\ engine' = [engine EXCEPT ![wasm].buffers = @ \ {made}]
        BY <2>8 DEF Finally, Freed
    <3>2. /\ wasm \in Loads /\ engine[wasm] \in Engines /\ engine \in [Loads -> Engines]
          /\ engine[wasm].buffers = {made}
        BY <3>1 DEF PlayInv
    <3>3. PICK e : e = [engine[wasm] EXCEPT !.buffers = {}]
        OBVIOUS
    <3>4. /\ e \in Engines /\ e.frame = engine[wasm].frame /\ e.bundle = engine[wasm].bundle
          /\ e.buffers = {}
        BY <3>2, <3>3 DEF Engines
    <3>5. engine' = [engine EXCEPT ![wasm] = e]
      <4>1. {made} \ {made} = {}
          OBVIOUS
      <4>2. QED
          BY <3>1, <3>2, <3>3, <4>1
    <3>6. engine' \in [Loads -> Engines] /\ engine'[wasm] = e
          /\ \A k \in Loads \ {wasm} : engine'[k] = engine[k]
        BY <3>2, <3>4, <3>5
    <3>7. \A k \in Loads : /\ Whole(engine'[k]) /\ engine'[k].buffers = {}
                           /\ load[k] # "loaded" => engine'[k].frame = NoFrame
        BY <3>1, <3>4, <3>6 DEF PlayInv, Whole
    <3>8. ReadsAs(answer, engine[wasm], made) => ReadsAs(answer, engine'[wasm], made)
        BY <3>4, <3>6 DEF ReadsAs
    <3>9. QED
        BY <3>1, <3>2, <3>6, <3>7, <3>8 DEF PlayInv
  <2>9. CASE UNCHANGED playVars
      BY <2>9 DEF playVars, PlayInv, Whole
  <2>10. QED
      BY <2>1, <2>2, <2>3, <2>4, <2>5, <2>6, <2>7, <2>8, <2>9 DEF PlayNext
<1>3. QED
    BY <1>1, <1>2, PTL DEF PlaySpec

\* A call that returns answers with its own frame, decoded as its engine wrote
\* it, and leaves no buffer in any engine, however often calls fail and engines
\* are loaded again.
THEOREM CallsAnswered == PlaySpec => []AnswersOwnCall
<1>1. PlayInv => AnswersOwnCall
    BY DEF PlayInv, AnswersOwnCall, ReadsAs
<1>2. QED
    BY <1>1, PlayInvariance, PTL
===============================================================================
