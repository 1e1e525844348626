------------------------------ MODULE AtomicsWait -----------------------------
(***************************************************************************)
(* One shared data block, the agents (threads) whose SharedArrayBuffer     *)
(* objects reference it, and the wait list their Atomics.wait, waitAsync   *)
(* and notify calls meet on.  A spin lock guards the list; stores to the   *)
(* shared bytes do not take it.                                            *)
(*                                                                         *)
(* A synchronous wait's node is named by the agent whose stack holds it.   *)
(* The lock is held across a step only where another agent can act inside  *)
(* the critical section to effect: between the compare and the link.       *)
(*                                                                         *)
(* A definition marked "fault" is a plausible bug in the one below it; the *)
(* mutation runs swap it in, and the specification never uses it.          *)
(***************************************************************************)
EXTENDS Integers, Sequences, FiniteSets, SequencesExt

CONSTANTS
    Agents,
    AsyncNodes,     \* heap nodes waitAsync may have in use at once (a bound)
    Positions,      \* byte indices agents wait on
    Bits,           \* element values
    Counts,         \* counts a notify may ask for
    MaxObjects,     \* SharedArrayBuffer objects per agent (a bound)
    NoWait,         \* no request
    Polling,        \* agents whose host makes settle passes while it is idle
    Sweeps          \* whether an agent's collector may sweep such an object

ASSUME BitsAssumption == 0 \in Bits
ASSUME AgentsAssumption == IsFiniteSet(Agents)
ASSUME AgentsAreNotNodes == Agents \cap AsyncNodes = {}
ASSUME CountsAssumption == Counts \subseteq Nat
ASSUME MaxObjectsAssumption == MaxObjects \in Nat \ {0}
ASSUME SweepsAssumption == Sweeps \in BOOLEAN
ASSUME PollingAssumption == Polling \subseteq Agents

VARIABLES
    mem,        \* the element at each index
    wait_lock,  \* the spin lock
    wait_list,  \* the nodes from wait_head on
    woken,      \* nodes whose woken flag is raised
    wait,       \* what each node in use waits for
    pc,         \* where each agent is
    pending,    \* its pending_async_waits
    cursor,     \* its index in fireExpiredAsyncWaits
    queued,     \* the agents that have a microtask or a Wasm job to run
    objects,    \* its live SharedArrayBuffer objects over the block
    refcount,   \* the block's reference count
    answer,     \* what the last step answered
    unannounced \* history: indices changed since a notify reached all sleepers

listVars == <<wait_lock, wait_list, woken, wait>>
agentVars == <<pc, pending, cursor, queued>>
blockVars == <<objects, refcount>>
vars == <<mem, listVars, agentVars, blockVars, answer, unannounced>>

Nodes == Agents \cup AsyncNodes
Requests == [pos : Positions, expected : Bits, timed : BOOLEAN, agent : Agents]
ASSUME NoWaitAssumption == NoWait \notin Requests

States == {"idle", "linking", "parked", "arming", "enrolling", "firing",
           "dying", "dead"}

\* An agent between operations, with an object that reaches the block.
Idle(a) == pc[a] = "idle"
Ready(a) == Idle(a) /\ objects[a] > 0
Goto(a, s) == pc' = [pc EXCEPT ![a] = s]

\* A step that answers nobody.
Silent == answer' = <<>>

-----------------------------------------------------------------------------
(* The wait list.                                                          *)

addWaiter(n) == wait_list' = Append(wait_list, n)

\* Fault: a node leaves the list's bookkeeping and stays linked.
ForgetToUnlink(n) ==
    /\ UNCHANGED wait_list
    /\ woken' = woken \ {n}
    /\ wait' = [wait EXCEPT ![n] = NoWait]

\* Unlink a node and let go of it: its frame returns or it is freed.
removeWaiter(n) ==
    /\ wait_list' = RemoveFirst(wait_list, n)
    /\ woken' = woken \ {n}
    /\ wait' = [wait EXCEPT ![n] = NoWait]

\* The places of the not-yet-woken waiters of index p.
Sleepers(p) ==
    {i \in DOMAIN wait_list :
        wait[wait_list[i]].pos = p /\ wait_list[i] \notin woken}

\* The first n of them, which a notify of n wakes, and how many they are.
Oldest(p, n) ==
    {i \in Sleepers(p) : Cardinality({j \in Sleepers(p) : j <= i}) <= n}

wakeWaiters(p, n) ==
    /\ woken' = woken \cup {wait_list[i] : i \in Oldest(p, n)}
    /\ answer' = <<"woken", Cardinality(Oldest(p, n))>>

\* Fault: a wait looks at its deadline only.
DueOnDeadline(n) == wait[n].timed

\* Fault: a wait never looks at its deadline.
DueOnNotify(n) == n \in woken

\* The wait of n may end: its flag is raised, or its deadline passes.
Due(n) == n \in woken \/ wait[n].timed

\* Fault: the outcome is the one the unlocked test saw.
OutcomeBeforeLock(n) == IF wait[n].timed THEN "timed-out" ELSE "ok"

\* The flag is read under the lock.
Outcome(n) == IF n \in woken THEN "ok" ELSE "timed-out"

-----------------------------------------------------------------------------
(* Synchronous operations.                                                 *)

Store(a, p, b) ==
    /\ Ready(a)
    /\ mem' = [mem EXCEPT ![p] = b]
    /\ unannounced' = IF mem[p] # b THEN unannounced \cup {p} ELSE unannounced
    /\ Silent
    /\ UNCHANGED <<listVars, agentVars, blockVars>>

Notify(a, p, n) ==
    /\ Ready(a) /\ ~wait_lock
    /\ wakeWaiters(p, n)
    /\ unannounced' = IF Oldest(p, n) = Sleepers(p) THEN unannounced \ {p}
                                                     ELSE unannounced
    /\ UNCHANGED <<mem, wait_lock, wait_list, wait, agentVars, blockVars>>

Refuse(r) ==
    /\ answer' = <<r>>
    /\ UNCHANGED <<mem, listVars, agentVars, blockVars, unannounced>>

\* Fault: the value is compared before the lock is taken and the lock is
\* not held until the link.
CompareUnlocked(a, p, b, t) ==
    /\ Ready(a) /\ mem[p] = b
    /\ wait' = [wait EXCEPT ![a] =
                    [pos |-> p, expected |-> b, timed |-> t, agent |-> a]]
    /\ Goto(a, "linking")
    /\ Silent
    /\ UNCHANGED <<mem, wait_lock, wait_list, woken, pending, cursor, queued,
                   blockVars, unannounced>>

\* wait enters the critical section and compares the value inside it.
WaitCompare(a, p, b, t) ==
    /\ Ready(a) /\ ~wait_lock /\ mem[p] = b
    /\ wait_lock' = TRUE
    /\ wait' = [wait EXCEPT ![a] =
                    [pos |-> p, expected |-> b, timed |-> t, agent |-> a]]
    /\ Goto(a, "linking")
    /\ Silent
    /\ UNCHANGED <<mem, wait_list, woken, pending, cursor, queued, blockVars,
                   unannounced>>

WaitRefused(a, p, b) ==
    /\ Ready(a) /\ ~wait_lock /\ mem[p] # b
    /\ Refuse("not-equal")

WaitLink(a) ==
    /\ pc[a] = "linking"
    /\ addWaiter(a)
    /\ wait_lock' = FALSE
    /\ Goto(a, "parked")
    /\ Silent
    /\ UNCHANGED <<mem, woken, wait, pending, cursor, queued, blockVars, unannounced>>

\* The poll sees the flag, or the deadline passes and the flag is read again
\* under the lock.
WaitReturn(a) ==
    /\ pc[a] = "parked" /\ Due(a) /\ ~wait_lock
    /\ removeWaiter(a)
    /\ answer' = <<a, Outcome(a)>>
    /\ Goto(a, "idle")
    /\ UNCHANGED <<mem, wait_lock, pending, cursor, queued, blockVars, unannounced>>

-----------------------------------------------------------------------------
(* waitAsync.                                                              *)

\* The value is read with no lock held.
WaitAsyncCompare(a, p, b, t) ==
    /\ Ready(a) /\ mem[p] = b
    /\ AsyncNodes # {}
    /\ wait' = [wait EXCEPT ![a] =
                    [pos |-> p, expected |-> b, timed |-> t, agent |-> a]]
    /\ Goto(a, "arming")
    /\ Silent
    /\ UNCHANGED <<mem, wait_lock, wait_list, woken, pending, cursor, queued,
                   blockVars, unannounced>>

\* The value differs, or the timeout is zero.
WaitAsyncRefused(a, p, b) ==
    /\ Ready(a)
    /\ AsyncNodes # {}
    /\ IF mem[p] # b THEN Refuse("not-equal") ELSE Refuse("timed-out")

\* The capability is ready: allocate a node and link it.
WaitAsyncLink(a, n) ==
    /\ pc[a] = "arming" /\ ~wait_lock
    /\ wait[n] = NoWait
    /\ addWaiter(n)
    /\ wait' = [wait EXCEPT ![n] = wait[a], ![a] = NoWait]
    /\ Goto(a, "enrolling")
    /\ Silent
    /\ UNCHANGED <<mem, wait_lock, woken, pending, cursor, queued, blockVars,
                   unannounced>>

\* The node linked by a and not yet on its pending list.
InHand(a, n) ==
    /\ pc[a] = "enrolling"
    /\ wait[n] # NoWait /\ wait[n].agent = a
    /\ ~Contains(pending[a], n)

WaitAsyncEnrol(a, n) ==
    /\ InHand(a, n)
    /\ pending' = [pending EXCEPT ![a] = Append(@, n)]
    /\ Goto(a, "idle")
    /\ Silent
    /\ UNCHANGED <<mem, listVars, cursor, queued, blockVars, unannounced>>

\* Memory runs out before the node is linked, or before it is enrolled.
WaitAsyncThrow(a) ==
    /\ \/ pc[a] = "arming"
          /\ wait' = [wait EXCEPT ![a] = NoWait]
          /\ UNCHANGED <<wait_list, woken>>
       \/ ~wait_lock /\ \E n \in AsyncNodes : InHand(a, n) /\ removeWaiter(n)
    /\ Goto(a, "idle")
    /\ Silent
    /\ UNCHANGED <<mem, wait_lock, pending, cursor, queued, blockVars, unannounced>>

-----------------------------------------------------------------------------
(* fireExpiredAsyncWaits: the agent's own pass over its pending waits.     *)

\* A script or a task queues a task.  A queue is noted only where it makes a
\* difference to the passes: an agent with waits pending, that does not poll.
QueueTask(a) ==
    /\ Idle(a) /\ pending[a] # <<>> /\ a \notin queued \cup Polling
    /\ queued' = queued \cup {a}
    /\ Silent
    /\ UNCHANGED <<mem, listVars, pc, pending, cursor, blockVars, unannounced>>

\* drainMicrotasks makes a pass before each task, and none when there is no
\* task; the idle loop of a host that polls, as driveAsyncAgent does for the
\* agents of the test pool, makes one in any case.
Passes(a) == a \in queued \cup Polling

FireStart(a) ==
    /\ Idle(a) /\ pending[a] # <<>> /\ Passes(a)
    /\ cursor' = [cursor EXCEPT ![a] = 1]
    /\ Goto(a, "firing")
    /\ Silent
    /\ UNCHANGED <<mem, listVars, pending, queued, blockVars, unannounced>>

\* An entry that is woken or past its deadline leaves the list under the
\* lock, and its promise is resolved.  On a freed block, whose lock and list
\* are gone, the step has no defined outcome and is not taken.
FireSettle(a) ==
    /\ pc[a] = "firing" /\ cursor[a] <= Len(pending[a])
    /\ refcount > 0 /\ ~wait_lock
    /\ LET n == pending[a][cursor[a]]
       IN  /\ Due(n)
           /\ removeWaiter(n)
           /\ answer' = <<n, Outcome(n)>>
    /\ pending' = [pending EXCEPT ![a] = RemoveAt(@, cursor[a])]
    /\ UNCHANGED <<mem, wait_lock, pc, cursor, queued, blockVars, unannounced>>

FireSkip(a) ==
    /\ pc[a] = "firing" /\ cursor[a] <= Len(pending[a])
    /\ pending[a][cursor[a]] \notin woken
    /\ cursor' = [cursor EXCEPT ![a] = @ + 1]
    /\ Silent
    /\ UNCHANGED <<mem, listVars, pc, pending, queued, blockVars, unannounced>>

\* After the pass the drain takes its task, which may be the last one.
FireEnd(a) ==
    /\ pc[a] = "firing" /\ cursor[a] > Len(pending[a])
    /\ cursor' = [cursor EXCEPT ![a] = 0]
    /\ \/ pending[a] # <<>> /\ UNCHANGED queued
       \/ queued' = queued \ {a}
    /\ Goto(a, "idle")
    /\ Silent
    /\ UNCHANGED <<mem, listVars, pending, blockVars, unannounced>>

-----------------------------------------------------------------------------
(* The life of the block.                                                  *)

\* Fault: the new object's reference is not counted.
NoRetain == UNCHANGED refcount

retain == refcount' = refcount + 1

\* Another agent wraps the block in an object of its own.
wrapSharedBlock(a, b) ==
    /\ Ready(a) /\ Idle(b) /\ objects[b] < MaxObjects
    /\ objects' = [objects EXCEPT ![b] = @ + 1]
    /\ retain
    /\ Silent
    /\ UNCHANGED <<mem, listVars, agentVars, unannounced>>

\* Fault: the object an operation is using is swept like any other.
SweepInUse(a) ==
    /\ Sweeps
    /\ objects[a] > 0
    /\ objects' = [objects EXCEPT ![a] = @ - 1]
    /\ refcount' = refcount - 1
    /\ Silent
    /\ UNCHANGED <<mem, listVars, agentVars, unannounced>>

\* An allocation's collection sweeps an object no operation is using.
SweepObject(a) ==
    /\ Sweeps
    /\ pc[a] \in {"idle", "arming", "firing"}
    /\ objects[a] > (IF pc[a] = "arming" THEN 1 ELSE 0)
    /\ objects' = [objects EXCEPT ![a] = @ - 1]
    /\ refcount' = refcount - 1
    /\ Silent
    /\ UNCHANGED <<mem, listVars, agentVars, unannounced>>

Teardown(a) ==
    /\ Idle(a)
    /\ queued' = queued \ {a}
    /\ Goto(a, "dying")
    /\ Silent
    /\ UNCHANGED <<mem, listVars, pending, cursor, blockVars, unannounced>>

\* clearPendingAsyncWaits frees each node and leaves its promise alone.
ClearPending(a) ==
    /\ pc[a] = "dying" /\ pending[a] # <<>>
    /\ refcount > 0 /\ ~wait_lock
    /\ removeWaiter(Head(pending[a]))
    /\ pending' = [pending EXCEPT ![a] = Tail(@)]
    /\ Silent
    /\ UNCHANGED <<mem, wait_lock, pc, cursor, queued, blockVars, unannounced>>

\* The realm's heap goes, and its objects' references with it.
ReleaseObjects(a) ==
    /\ pc[a] = "dying" /\ pending[a] = <<>>
    /\ objects' = [objects EXCEPT ![a] = 0]
    /\ refcount' = refcount - objects[a]
    /\ Goto(a, "dead")
    /\ Silent
    /\ UNCHANGED <<mem, listVars, pending, cursor, queued, unannounced>>

-----------------------------------------------------------------------------
\* SharedDataBlock.create zeroes the bytes, in the agent that makes the first object.
Init ==
    /\ mem = [p \in Positions |-> 0]
    /\ wait_lock = FALSE
    /\ wait_list = <<>>
    /\ woken = {}
    /\ wait = [n \in Nodes |-> NoWait]
    /\ pc = [a \in Agents |-> "idle"]
    /\ pending = [a \in Agents |-> <<>>]
    /\ cursor = [a \in Agents |-> 0]
    /\ queued = {}
    /\ \E a \in Agents : objects = [b \in Agents |-> IF b = a THEN 1 ELSE 0]
    /\ refcount = 1
    /\ answer = <<>>
    /\ unannounced = {}

WaitSteps(a) ==
    \/ \E p \in Positions, b \in Bits :
         \/ \E t \in BOOLEAN : WaitCompare(a, p, b, t)
         \/ WaitRefused(a, p, b)
    \/ WaitLink(a)
    \/ WaitReturn(a)

WaitAsyncSteps(a) ==
    \/ \E p \in Positions, b \in Bits :
         \/ \E t \in BOOLEAN : WaitAsyncCompare(a, p, b, t)
         \/ WaitAsyncRefused(a, p, b)
    \/ \E n \in AsyncNodes : WaitAsyncLink(a, n) \/ WaitAsyncEnrol(a, n)
    \/ WaitAsyncThrow(a)
    \/ FireStart(a) \/ FireSettle(a) \/ FireSkip(a) \/ FireEnd(a)
    \/ QueueTask(a)

BlockSteps(a) ==
    \/ \E b \in Agents : wrapSharedBlock(a, b)
    \/ SweepObject(a)
    \/ Teardown(a) \/ ClearPending(a) \/ ReleaseObjects(a)

Next == \E a \in Agents :
    \/ \E p \in Positions, b \in Bits : Store(a, p, b)
    \/ \E p \in Positions, n \in Counts : Notify(a, p, n)
    \/ WaitSteps(a)
    \/ WaitAsyncSteps(a)
    \/ BlockSteps(a)

Spec == Init /\ [][Next]_vars

\* The rest of an operation, once it has begun.
Proceed(a) ==
    \/ WaitLink(a) \/ WaitReturn(a)
    \/ \E n \in AsyncNodes : WaitAsyncLink(a, n) \/ WaitAsyncEnrol(a, n)
    \/ WaitAsyncThrow(a)
    \/ FireSettle(a) \/ FireSkip(a) \/ FireEnd(a)
    \/ ClearPending(a) \/ ReleaseObjects(a)

\* A pass skips the pending wait n, whose deadline may have passed.
Skips(n) ==
    \E a \in Agents :
        FireSkip(a) /\ pending[a][cursor[a]] = n /\ wait[n].timed

\* A thread keeps running, and in the end finds the lock free that it polls or
\* spins for; scripts and tasks end, and a queue with a task in it is drained;
\* a deadline passes, so a wait that has one is not skipped for ever.  Nothing
\* makes a script queue a task.
FairSpec ==
    /\ Spec
    /\ \A a \in Agents : SF_vars(Proceed(a)) /\ SF_vars(FireStart(a))
    /\ \A n \in AsyncNodes : []<>(wait[n] = NoWait) \/ <>[][~Skips(n)]_vars

-----------------------------------------------------------------------------
(* Correctness.                                                            *)

TypeOK ==
    /\ mem \in [Positions -> Bits]
    /\ wait_lock \in BOOLEAN
    /\ wait_list \in Seq(Nodes)
    /\ woken \subseteq Nodes
    /\ wait \in [Nodes -> Requests \cup {NoWait}]
    /\ pc \in [Agents -> States]
    /\ pending \in [Agents -> Seq(AsyncNodes)]
    /\ cursor \in [Agents -> Nat]
    /\ queued \subseteq Agents
    /\ objects \in [Agents -> 0 .. MaxObjects]
    /\ refcount \in Nat
    /\ unannounced \subseteq Positions

\* The node of each wait in progress, and no other, is on the list, once: a
\* notify never walks into the stack frame of a wait that has returned, nor
\* into a freed node (Waiter, "notify ... can never touch a dead node").
NoDeadNode ==
    LET parked == {a \in Agents : pc[a] = "parked"}
        async == {n \in AsyncNodes : wait[n] # NoWait}
    IN  /\ ToSet(wait_list) = parked \cup async
        /\ IsInjective(wait_list)
        /\ woken \subseteq ToSet(wait_list)

Unheard(n) ==
    mem[wait[n].pos] # wait[n].expected => wait[n].pos \in unannounced

\* No agent sleeps on a change that was announced: if a parked agent's
\* element no longer holds the value it compared, somebody changed it and no
\* notify since has reached everyone asleep there (lockWaiters, "the wait-time
\* value-compare + AddWaiter atomic w.r.t. notify").
NoLostWakeup ==
    \A n \in (ToSet(wait_list) \cap Agents) \ woken : Unheard(n)

\* The same of the nodes waitAsync links: the comment does not tell the two
\* callers of addWaiter apart.
NoLostAsyncWakeup ==
    \A n \in (ToSet(wait_list) \cap AsyncNodes) \ woken : Unheard(n)

\* The block's count is that of the objects that reach it, so the block is
\* not freed under an agent that is parked on it, has linked a node it has
\* still to enrol, or is between its compare and its link (retain, release).
BlockOutlivesWaits ==
    /\ \A a \in Agents : pc[a] \in {"linking", "parked", "enrolling"} => refcount > 0
    /\ \A a \in Agents : objects[a] > 0 => refcount > 0

\* The block outlives every wait that is to be settled on it, pending ones
\* too: a settle takes the block's lock and unlinks from the block's list
\* (settleAndFreeAsyncWaiter).
BlockOutlivesPending ==
    refcount = 0 => \A a \in Agents : pending[a] = <<>>

Precedes(s, v, w) ==
    \E i, j \in DOMAIN s : i < j /\ s[i] = v /\ s[j] = w

\* Arrival order, exact wake counts and the agreement of each answer with
\* the notify that caused it: the contract of WaiterList.  A blocking wait
\* arrives when it compares, waitAsync when it links.
Arriving == {a \in Agents : pc[a] = "linking"}
Unwoken == (ToSet(wait_list) \ woken) \cup Arriving
Earlier ==
    {e \in Unwoken \X Unwoken :
        \/ Precedes(wait_list, e[1], e[2])
        \/ e[1] \in ToSet(wait_list) /\ e[2] \in Arriving}
Place ==
    [n \in Nodes |-> IF n \in ToSet(wait_list) \cup Arriving THEN wait[n].pos
                                                             ELSE "nowhere"]
Contract == INSTANCE WaiterList WITH
    Waiters <- Nodes, Comparers <- Agents,
    waiting <- Unwoken, before <- Earlier, at <- Place, taken <- woken

KeepsContract == Contract!Spec

Answerable(n) == n \in woken \/ wait[n].timed

\* A wait with a timeout, and a wait a notify has woken, returns.
WaitEnds ==
    \A a \in Agents :
        pc[a] = "parked" /\ Answerable(a) ~> pc[a] = "idle"

\* The agent of n is neither blocked nor without a task: a pass can come.
Attended(n) ==
    wait[n] # NoWait =>
        LET a == wait[n].agent IN pc[a] # "parked" /\ Passes(a)

\* A promise whose wait was notified or timed out is settled by its own agent,
\* if a pass can come again and again: fireExpiredAsyncWaits runs before a
\* task and never on an empty queue.  Excepted is thus an agent that blocks
\* for ever, and one that from some time on has no task and whose host does
\* not poll, though docs/sab-atomics.md:136 says that "single-agent the
\* promise resolves `"timed-out"`".
AsyncWaitEnds ==
    \A n \in AsyncNodes :
        []<>Attended(n) => (wait[n] # NoWait /\ Answerable(n) ~> wait[n] = NoWait)
=============================================================================
