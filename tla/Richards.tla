-------------------------------- MODULE Richards --------------------------------
(***************************************************************************)
(* bench/macros/richards.js, the first of the engine's macro workloads: a  *)
(* priority scheduler over six tasks that pass eight packets round.  A     *)
(* step is one pass of schedule's loop.  What a packet carries beside its  *)
(* destination, its kind and its position (a2, the letters) is left out.   *)
(***************************************************************************)
EXTENDS Integers, Sequences, FiniteSets

CONSTANT Tasks     \* pairs of the arguments v1 and count of IdleTask

VARIABLES
    tcb,           \* the control blocks: queue and state (a set of flags)
    packets,       \* each packet's id and a1
    mine,          \* what the tasks hold of packets
    idle,          \* IdleTask's v1 and count, and the arguments it was made with
    currentTcb,    \* a block, or Nobody
    counts         \* queueCount and holdCount

richardsVars == <<tcb, packets, mine, idle, currentTcb, counts>>

Idle == 0
Worker == 1
HandlerA == 2
HandlerB == 3
DeviceA == 4
DeviceB == 5
Ids == 0..5
Nobody == -1
\* Blocks are linked in the order of their ids, the last one first, and the
\* priorities are the ids times 1000.
Link(t) == t - 1
DataSize == 4

Packets == 1..8
Kind(p) == IF p \in {1, 2} THEN "work" ELSE "device"
Handlers == {HandlerA, HandlerB}
Devices == {DeviceA, DeviceB}

\* Where runRichards starts: the packets of a block, last made first.
FirstQueue(t) ==
    CASE t = Worker -> <<2, 1>>
      [] t = HandlerA -> <<5, 4, 3>>
      [] t = HandlerB -> <<8, 7, 6>>
      [] OTHER -> <<>>

RichardsInit ==
    /\ tcb = [t \in Ids |->
                [queue |-> FirstQueue(t),
                 state |-> IF t = Idle THEN {}
                           ELSE IF FirstQueue(t) = <<>> THEN {"suspended"}
                           ELSE {"suspended", "runnable"}]]
    /\ packets = [p \in Packets |->
                    [id |-> IF p \in 1..2 THEN Worker
                            ELSE IF p \in 3..5 THEN DeviceA ELSE DeviceB,
                     a1 |-> 0]]
    /\ mine = [t \in Ids |-> CASE t \in Handlers -> [work |-> <<>>, device |-> <<>>]
                               [] t = Worker -> [next |-> HandlerA]
                               [] OTHER -> [v1 |-> <<>>]]
    /\ idle = [v1 |-> 0, count |-> 0, args |-> <<>>]
    /\ currentTcb = DeviceB
    /\ counts = [queue |-> 0, hold |-> 0]

\* The idle task is made and schedule starts, from the head of the list.
RunRichards ==
    /\ idle.args = <<>>
    /\ \E w \in Tasks : idle' = [v1 |-> w[1], count |-> w[2], args |-> w]
    /\ UNCHANGED <<tcb, packets, mine, currentTcb, counts>>
-----------------------------------------------------------------------------
(* The control blocks and the scheduler's services, for the block t.       *)

HeldOrSuspended(t) == "held" \in tcb[t].state \/ tcb[t].state = {"suspended"}

\* TaskControlBlock.run: a suspended block with packets takes the first one.
Takes(t) == tcb[t].state = {"suspended", "runnable"}
Packet(t) == IF Takes(t) THEN Head(tcb[t].queue) ELSE 0
AfterTake(t) ==
    IF ~Takes(t) THEN tcb
    ELSE [tcb EXCEPT ![t] =
            [queue |-> Tail(@.queue),
             state |-> IF Tail(@.queue) = <<>> THEN {} ELSE {"runnable"}]]

HoldCurrent(t) ==
    /\ tcb' = [AfterTake(t) EXCEPT ![t].state = @ \cup {"held"}]
    /\ counts' = [counts EXCEPT !.hold = @ + 1]
    /\ currentTcb' = Link(t)

SuspendCurrent(t) ==
    /\ tcb' = [AfterTake(t) EXCEPT ![t].state = @ \cup {"suspended"}]
    /\ UNCHANGED <<counts, currentTcb>>

\* Fault: what was running goes on.
KeepsRunning(t, d) == t
Preempts(t, d) == IF d > t THEN d ELSE t

Release(t, d) ==
    /\ tcb' = [AfterTake(t) EXCEPT ![d].state = @ \ {"held"}]
    /\ currentTcb' = Preempts(t, d)
    /\ UNCHANGED counts

\* Fault: the flag is left alone.
ForgetsRunnable(t, d, p) == [AfterTake(t) EXCEPT ![d].queue = Append(@, p)]
\* checkPriorityAdd: only an empty queue wakes its block and may preempt.
CheckPriorityAdd(t, d, p) ==
    [AfterTake(t) EXCEPT ![d] =
        [queue |-> Append(@.queue, p),
         state |-> IF @.queue = <<>> THEN @.state \cup {"runnable"} ELSE @.state]]

Queue(t, p, info) ==
    LET d == info[p].id
    IN  /\ tcb' = CheckPriorityAdd(t, d, p)
        /\ packets' = [info EXCEPT ![p].id = t]
        /\ counts' = [counts EXCEPT !.queue = @ + 1]
        /\ currentTcb' = IF AfterTake(t)[d].queue = <<>> THEN Preempts(t, d) ELSE t
-----------------------------------------------------------------------------
(* The tasks.                                                              *)

At(t) == idle.args # <<>> /\ currentTcb = t

Skip(t) ==
    /\ At(t) /\ HeldOrSuspended(t)
    /\ currentTcb' = Link(t)
    /\ UNCHANGED <<tcb, packets, mine, idle, counts>>

Runs(t) == At(t) /\ ~HeldOrSuspended(t)

\* v1 ^ 0xD008 of a shifted v1: the bits 15, 14, 12 and 3 are flipped.
Flip(v, b) == IF (v \div b) % 2 = 0 THEN v + b ELSE v - b
ShiftSeed(v) ==
    IF v % 2 = 0 THEN v \div 2
    ELSE Flip(Flip(Flip(Flip(v \div 2, 32768), 16384), 4096), 8)

RunIdle ==
    /\ Runs(Idle)
    /\ IF idle.count = 1
       THEN /\ HoldCurrent(Idle)
            /\ idle' = [idle EXCEPT !.count = 0]
       ELSE /\ Release(Idle, IF idle.v1 % 2 = 0 THEN DeviceA ELSE DeviceB)
            /\ idle' = [idle EXCEPT !.count = @ - 1, !.v1 = ShiftSeed(@)]
    /\ UNCHANGED <<packets, mine>>

\* A device keeps the packet it is given and holds; released, it passes it on.
RunDevice(t) ==
    /\ Runs(t) /\ t \in Devices
    /\ \/ /\ Takes(t)
          /\ mine' = [mine EXCEPT ![t].v1 = <<Packet(t)>>]
          /\ HoldCurrent(t)
          /\ UNCHANGED packets
       \/ /\ ~Takes(t) /\ mine[t].v1 = <<>>
          /\ SuspendCurrent(t)
          /\ UNCHANGED <<packets, mine>>
       \/ /\ ~Takes(t) /\ mine[t].v1 # <<>>
          /\ Queue(t, Head(mine[t].v1), packets)
          /\ mine' = [mine EXCEPT ![t].v1 = <<>>]
    /\ UNCHANGED idle

RunWorker ==
    /\ Runs(Worker)
    /\ \/ ~Takes(Worker) /\ SuspendCurrent(Worker) /\ UNCHANGED <<packets, mine>>
       \/ LET p == Packet(Worker)
              to == IF mine[Worker].next = HandlerA THEN HandlerB ELSE HandlerA
          IN  /\ Takes(Worker)
              /\ mine' = [mine EXCEPT ![Worker].next = to]
              /\ Queue(Worker, p, [packets EXCEPT ![p] = [id |-> to, a1 |-> 0]])
    /\ UNCHANGED idle

\* A handler's two lists once it has stored the packet it was given.
Stored(t) ==
    IF ~Takes(t) THEN mine
    ELSE [mine EXCEPT ![t][Kind(Packet(t))] = Append(@, Packet(t))]

\* Fault: the list is dropped with its head.
LosesDevice(t, has) == [has EXCEPT ![t].device = <<>>]
WithoutDevice(t, has) == [has EXCEPT ![t].device = Tail(@)]

\* It passes on a device packet for each letter of its first work packet, and
\* the work packet after the last.
RunHandler(t) ==
    /\ Runs(t) /\ t \in Handlers
    /\ LET has == Stored(t)
           work == has[t].work
           done == work # <<>> /\ packets[Head(work)].a1 >= DataSize
           next == work # <<>> /\ ~done /\ has[t].device # <<>>
       IN  \/ /\ done
              /\ Queue(t, Head(work), packets)
              /\ mine' = [has EXCEPT ![t].work = Tail(@)]
           \/ /\ next
              /\ Queue(t, Head(has[t].device), [packets EXCEPT ![Head(work)].a1 = @ + 1])
              /\ mine' = WithoutDevice(t, has)
           \/ /\ ~done /\ ~next
              /\ SuspendCurrent(t)
              /\ mine' = has
              /\ UNCHANGED packets
    /\ UNCHANGED idle

Schedule ==
    \/ \E t \in Ids : Skip(t)
    \/ RunIdle
    \/ \E t \in Devices : RunDevice(t)
    \/ RunWorker
    \/ \E t \in Handlers : RunHandler(t)

RichardsNext == RunRichards \/ Schedule

RichardsSpec == RichardsInit /\ [][RichardsNext]_richardsVars
-----------------------------------------------------------------------------
(* Correctness.                                                            *)

\* The packets a task holds, in its queue or in its own lists.
Holds(t) ==
    tcb[t].queue \o
        (CASE t \in Handlers -> mine[t].work \o mine[t].device
           [] t \in Devices -> mine[t].v1
           [] OTHER -> <<>>)

Home(p) == IF p \in 3..5 THEN DeviceA ELSE DeviceB

\* No packet is lost or shared as it moves between queues, lists and devices,
\* and a device packet always knows the way: a handler has its device's address
\* on it, a device that handler's.
PacketsConserved ==
    /\ \A p \in Packets :
         Cardinality({x \in Ids \X (1..8) :
             x[2] \in DOMAIN Holds(x[1]) /\ Holds(x[1])[x[2]] = p}) = 1
    /\ \A t \in Handlers \cup Devices, p \in Packets :
         (Kind(p) = "device" /\ \E i \in DOMAIN Holds(t) : Holds(t)[i] = p)
           => {t, packets[p].id} = {Home(p), Home(p) - 2}

\* A block's runnable flag, set when a queue stops being empty and cleared when
\* run takes its last packet, always says whether it has packets.
RunnableIffQueued ==
    \A t \in Ids : "runnable" \in tcb[t].state <=> tcb[t].queue # <<>>

\* Each service returns the block to go on with from what it alone changed: the
\* loop is nevertheless never at a block, nor at the end of the list, while one
\* of higher priority could run.
HighestPriorityRuns == \A t \in Ids : t > currentTcb => HeldOrSuspended(t)

\* runRichards' own check of a whole run with its seed 1 and COUNT 1000.
ExpectedCounts ==
    currentTcb = Nobody /\ idle.args = <<1, 1000>>
        => counts = [queue |-> 2322, hold |-> 928]
=============================================================================
