# Cynic: models, checks and proofs

TLA+ modules for the parts of the Cynic JavaScript engine where a bug hides in
an ordering rather than in a line: the garbage collector, the wait list that
`Atomics` agents meet on, the tracker of unhandled promise rejections, weak
references with their finalization, and the event loop with its microtasks,
async generators and modules; and for the
JavaScript the repository keeps beside the engine: its macro benchmarks and the
playground's driver. The modules are translated from the Zig and JavaScript
sources; docs and comments are used only as claims to check. Paths below are
relative to the repository root.

    tlc -config MCMetla_sliced.cfg MCMetla.tla      # one run
    tlapm MetlaProofs.tla                           # one proof module

## 1. Inventory

Cynic is a single-process engine. Within an agent (a thread with a realm)
everything is sequential, but three things interleave with the running program:
the collector (in slices at safe points), jobs (microtasks, host tasks,
generator resumption), and other agents through shared data blocks.

| Component | State it keeps | Operations | Talks to | What makes it correct |
|---|---|---|---|---|
| Metla collector (`src/runtime/heap.zig`) | per-kind young and mature lists, `live_color`, mark worklists, dirty list, `marking_phase`, `sweep_phase` and cursor, counters, handle scopes | allocate, typed store helpers with a write barrier, mark and sweep slices, minor, full, and sliced major cycles | called by every allocation and store; driven by the realm at safe points | nothing reachable is freed; garbage is freed; the two phases never overlap; a cycle ends |
| Realm drivers (`src/runtime/realm.zig`) | intrinsics, frame stacks, job queues, pending async waits, fuel and termination latch | `collectGarbage`, `beginIncrementalMajor`, `finishIncrementalMajor`, `markRoots`, poll for interrupts, teardown | heap, interpreter, host | roots are complete; an explicit collection is precise; termination reaches every nested entry |
| Lantern interpreter (`src/runtime/lantern/`) | frames, registers, accumulator | opcodes, calls, safe point, generator resume and yield | everything | each opcode stores through the heap's barriers; the safe point runs one kind of slice at a time |
| Atomics and shared data blocks (`builtins/atomics.zig`, `shared_data_block.zig`) | bytes, reference count, spin lock, intrusive wait list; per-realm pending async waits | load, store, read-modify-write, wait, waitAsync, notify, settle pass, retain, release | threads meet here; the microtask drain calls the settle pass | no wakeup is lost, no dead node is touched, wake counts agree with answers, the block outlives its waiters |
| Promises and microtasks (`builtins/promise.zig`, `lantern/promise.zig`) | promise state, reactions, `is_handled`, microtask FIFO, host tasks | settle, then, drain, host-task pass, dynamic-import holdback | heap root marking, rejection tracker, module loader | each promise is settled once, jobs run in order and once, nothing is stranded |
| Promise rejection tracker (`promise_rejections.zig`) | root list, address map, failure | notify reject, notify handle, install, deinit | heap's two transitions, the host | every unhandled rejection is reported, none is pinned once handled, bounded |
| Generators and async generators (`generator.zig`, `lantern/generator.zig`) | saved registers, state, request queue, pending completion | resume, yield, await, drain of the request queue | interpreter, promises, collector | a suspended frame survives; each request is settled once, in order |
| Modules (`module.zig`, `lantern/module.zig`) | status, DFS data, cycle root, error, async-evaluation order | link, evaluate, resume after top-level await | promises, loader | each module runs once, errors are cached, cycles finish together |
| Weak references, finalization (`builtins/weak_ref.zig`, `finalization_registry.zig`, `collections.zig`) | weak targets, weak entries, cells of registries, kept-alive list, cleanup jobs | deref, set, register, weak pass of each cycle | collector, jobs | no slot is left pointing at a freed cell; a cleared target was dead; a target seen this job stays; a value that refers to its own key is freed |
| Shapes and inline caches (`shape.zig`, `object.zig`, `bytecode/chunk.zig`) | transition tree, cached shape and slot, revisions | lookup, add, delete, invalidate | collector's weak clearing | a hit returns what the slow path would |
| Fuel, interrupts, termination (`realm.zig`) | fuel, interrupt flag, latch | `pollExecution`, nested entry | host thread, safe point | termination is not swallowed by a `catch` |
| Environments (`environment.zig`) | parent chain, slots, TDZ holes | lookup, store | closures, collector | sequential |
| Bistromath, Ohaimark (JITs), code allocator | code pages, side tables, feedback | compile, OSR, deoptimise, parallel moves | interpreter state | agreement with the interpreter |
| Sarcasm, Spasm (WebAssembly) | modules, instances, tables | decode, validate, run | host tasks, heap | a second engine, out of scope |
| Playground driver (`playground/cynic-engine.js`, `playground/wasm.zig`) | the instance loaded last; per instance a result frame and guest buffers | load, call, read the frame, free | the page; an engine built for Wasm | a call answers with its own frame and frees its buffers, whatever traps or is reloaded |
| Macro benchmarks (`bench/macros/*.js`) | a scheduler's blocks and packets; a graph of constraints; a splay tree; arrays of digits | schedule; add, remove and propagate; splay, insert, remove; arithmetic, powers, RSA | run by the engine, and check themselves | the invariants of their data structures, and their own final checks |
| Lexer, parser, bytecode compiler, Perlex, Intl, Temporal, Unicode, snapshot, other built-ins, CLI | — | sequential functions of their input | | covered by test262 |

Hard behaviour, and where it lives: a store or an allocation between two mark
slices; a collection requested in the middle of one; a sweep cursor over a list
the program keeps using; a sticky mark or dirty bit left over from another
cycle; a notify that races a compare, a link or a deadline; a pending async
wait whose buffer, realm or host goes away; a rejection handled in another
order than it happened, after the store failed or at a recycled address; a
request made to an async generator while its queue is drained, or while it
waits for the value of a `.return`; a module met again while it is being
evaluated, waits, or has failed; an `import()` asked for inside an evaluation;
a termination between any two of these.
`PROJECT.json` lists every such hazard at its line, with the properties that
cover it, or the reason none does yet.

## 2. Modules

| Module | Models | Kind |
|---|---|---|
| `JsHeap` | the heap as the program sees it; `HeapSpec` is what a collector must keep | abstract specification |
| `Metla` | the collector, `JsHeap`'s mutator conjoined with its bookkeeping | detailed specification |
| `MetlaProofs` | theorems about `Metla` | proofs |
| `WaiterList` | what wait, waitAsync and notify promise the agents | abstract specification |
| `AtomicsWait` | block, wait list, agents, settle pass, teardown | detailed specification |
| `AtomicsWaitProofs` | theorems about it | proofs |
| `PromiseRejections` | the heap's notifications and the host's store | detailed specification |
| `PromiseRejectionsProofs` | theorems about it | proofs |
| `Microtasks` | promises, the microtask queue and its drain, Wasm host tasks, the native stack, the termination latch | detailed specification |
| `AsyncGenerators`, `ModuleGraph` | the two clients of the queue; each extends `Microtasks` | detailed specifications |
| `EventLoop` | `AsyncGenerators` and `ModuleGraph` over one queue and one stack | composition |
| `RequestQueue` | what an async generator promises its callers | abstract specification |
| `EventLoopProofs` | theorem about `EventLoop`: what is on the stack | proofs |
| `EventLoopResumers` | theorems about it: the place of each coroutine, and its types | proofs |
| `EventLoopAnswers` | theorems about it: requests and their contract, `.return`, `import()`, the order of imports | proofs |
| `Richards`, `DeltaBlue`, `Splay`, `Crypto` | the macro benchmarks of these names | detailed specifications, the last three with pure algorithms |
| `ProgramsProofs` | theorems about `Richards` and `Playground` | proofs |
| `Playground` | the playground's driver and the frame it reads | detailed specification |
| `WeakReferences` | weak slots, the kept-alive list, cleanup jobs, and a collector reduced to what they can tell apart | detailed specification |
| `WeakReferencesProofs` | theorems about it | proofs |
| `MCMetla`, `MCAtomicsWait`, `MCHolders`, `MCEventLoop`, `MCPrograms` | symmetry sets, workloads and operand sets for TLC; `MCPrograms` lets a behaviour run one of the five programs, `MCHolders` the rejection store or weak references | model checking |

A definition marked "fault" is a plausible bug in the definition below it, used
to confirm that the properties notice it. Specifications never use them.

### JsHeap and Metla

A cell is a header address; `kind` says what lives there, or `"free"`. `slot`
is the cell's outgoing pointers; primitives count as `Null`. `reg` stands for
the realm's precise roots (frame registers, accumulator, globals), `handle` for
open handle scopes, `running` for the one generator frame on the stack.
Reachability and a completed trace are the least closed set, written as an
intersection (`Trace`), which needs no recursion.

The five kinds are the five ways a cell gets its pointers in the code:

* `"object"`: every later store goes through a barriered helper
  (`storeProperty` … `storeEnvSlot`), or is a raw internal-slot store followed
  by `rememberTypedSlotWrite`;
* `"rope"`: a cons string; two immutable children, shaded at birth during a mark;
* `"array"`: `makeDenseArray` appends the elements raw;
* `"function"`: `allocateFunction` and `allocateEnvironment` store the captured
  environment or parent raw; a closure and an environment are one kind here;
* `"generator"`: its register file is the running frame's register file.

Collector state is named as in `heap.zig`. `worklist` is the set of queued cells
that are not yet marked; a queued cell that gets its colour some other way pops
as a no-op in the code and is dropped here at once. `unswept` is the part of
`objects_mature` below the sweep cursor.

| Action | Code |
|---|---|
| `AllocateCell` | the `allocate*` family: born young, in the live colour; a rope shades its children |
| `StoreSlot`, `StoreTypedSlot` | the store helpers with `writeBarrier`; `noteInternalSlotWrite` |
| `WriteFrameRegister`, `ResumeGenerator`, `YieldGenerator` | `generator.zig`'s resume, an in-place register write, `gen_yield` |
| `OpenHandle`, `CloseHandle` | `openScope` and push; `HandleScope.close` |
| `StartMajor` | `beginIncrementalMajor`: flip, unmark, mark the roots |
| `MarkSlice`, `FinishSlice` | `drainMarkWorklistBudget`, then `finishIncrementalMajor` and `collectFullTail` with a lazy object sweep |
| `SweepSlice` | `sweepObjectsMatureBudget` |
| `collectYoung` | the minor cycle, with promote-on-first survival |
| `collectGarbage` | an explicit full collection: finishes a mark in flight, or finishes a pending sweep and runs a whole cycle |

The safe point's order (sweep, then mark, then minor or new major) is in the
guards. Whether a threshold is exceeded is left open: minor and sliced-major
cycles may start at any safe point the phase permits, which covers every
threshold value; only the minor-cycle backstop (`full_every_n_minor`) is kept,
as `minors`. Explicit collections may happen at any step. `SlicedMajors = FALSE`
is a program that never crosses the byte or count threshold of a sliced major.

Not in `Metla`: weak slots (see `WeakReferences`), strings other than ropes and the
flattening of ropes, symbols and bigints (no outgoing pointers), object
accounting, the free-quarantine, the conservative stack scan armed when a native
function is below the safe point, and several realms on one heap. The full
mature scan that debug and safe builds add to a minor cycle is left out: the
model is the release build, where a missing barrier would do harm.

### WaiterList and AtomicsWait

An agent is a thread with a realm. A synchronous wait's node lives on its
stack, so the agent's name names the node; `waitAsync` allocates its node, from
`AsyncNodes`. `wait_list` is the list from `wait_head`, `woken` the nodes whose
atomic flag is up, `pending[a]` the realm's `pending_async_waits`, `refcount`
the block's count, `objects[a]` the buffer objects whose finalisation releases
it. `pc` places an agent between operations, between compare and link, parked,
in the allocation part of `waitAsync`, in the settle pass, or in teardown.

`wait` compares and links under the spin lock, as two steps with the lock held
so that other agents' stores, which take no lock, may fall in between. Critical
sections in which no other agent's step can matter (notify's walk, unlink and
outcome) are one step, guarded by the free lock. A notify is one such step:
another agent cannot see half of its walk because every reader of the list
takes the lock. A parked wait's poll of the flag and its re-read under the lock
give the same outcome as one read under the lock, except in when they run.

`waitAsync` reads the value with no lock, then builds a Promise capability, and
only then allocates and links its node; `WaitAsyncCompare`, `WaitAsyncLink`,
`WaitAsyncEnrol` are those parts, and `WaitAsyncThrow` their allocation
failures. The settle pass (`FireStart` to `FireEnd`) walks `pending` with an
index other steps do not adjust. `drainMicrotasks` makes a pass at the head of
its loop, which it enters only while a microtask or a Wasm job is queued: `Passes`
lets an agent begin one if it is in `queued`, or in `Polling`, the agents whose
host calls the pass from an idle loop of its own, as the agent pool of
`tools/test262.zig` does. `QueueTask` is a script or a task that queues one, which
nothing obliges it to do; `FireEnd` takes the task, maybe the last. `queued` is
kept only where it decides something: for an agent that has waits pending and
whose host does not poll. A settle on a freed block has no defined outcome and is not taken; that
such a state is reachable is what run `asyncfreed` shows. User code run by a
subclassed Promise constructor is not modelled, nor are read-modify-write
operations (a store, as far as waiters can tell), growing, or more than one block.

`WaiterList` is the contract: waiters in order of arrival, arrival by comparing,
a notify takes the oldest sleepers of its index and reports how many, and a wait
answers `"ok"` if and only if a notify took it. The queue is a set with an order,
the pairs of an earlier and a later waiter, so that the contract says no word of
lists and places. `KeepsContract` maps the detailed state to it: waiting are the
unwoken nodes of the list, ordered as they are linked, and the agent between
compare and link, who comes after them; taken waiters are the woken nodes. For blocking waits the arrival is the
compare itself; `waitAsync` does not have that (finding 3), so its
waits arrive when they link (`Comparers` names the others). `answer` is what the
step itself answered, so that steps nobody is answered by leave no trace of the
ones before.

### PromiseRejections

A promise is its address. `settlePromise` and `markPromiseHandled` are the
heap's transitions, with their notification included; `NotifyReject` and
`NotifyHandle` are the two arms of `notify`, with every failure: the limit, and
out of memory at either allocation. `Install` and `Deinit` attach and detach a
store. `Recycle` is a sweep and reuse: any promise the store does not root may
be freed and its address given to a fresh promise. `unseen` is a history
variable: promises whose rejection no attached store was told about.

### WeakReferences

`brand` is what a cell is and `entry` the two pointers it may hold: an object's
field, a WeakRef's target, a weak map's key and value, a registry's target and
held value. `held` is what the program can name, `kept_alive` the targets pinned
for the job in progress, `jobs` the held values of queued cleanups. A WeakSet is
a map from its members to themselves. `unbarriered` is a history variable: the
holders that a raw store has hidden from the cycle in flight or the next minor one.

| Action | Code |
|---|---|
| `NewCell`, `weakRefConstructor` | `allocateObject`, in the live colour; the constructor, which stores its target raw and pins it |
| `weakRefDeref`, `ReadValue`, `Forget` | `deref`, which pins; `WeakMap.prototype.get` and a property load; a variable dropped |
| `StoreField`, `weakMapSet`, `frRegister`, `RemoveEntry` | `writeBarrier`; `mapSetInternal` and `setAddInternal` with their `noteInternalSlotWrite`; `register`, which has none; `delete` and `unregister` |
| `clearKeptObjects` | the drain's boundary between jobs; the next one may be a cleanup |
| `beginIncrementalMajor`, `MarkSlice` | the roots, then one cell of the worklist; a marked holder is put on its list |
| `collectFullTail` | the termination, of a mark in flight or of a whole cycle: drain, `weakMapEphemeronFixpoint`, drain, `processWeakReferences`, sweep |
| `collectYoung` | a minor cycle, to which every slot is strong |

The collector is `Metla`'s with the colour bit as a set, no deferred sweep (the
weak pass is over when it begins) and the roots as `held`. Left out: entries
beyond one per holder, tokens other than the target, the conservative scan of the
native stack, which runs after the weak pass, and what happens after a freed cell
was read: a slot left dangling keeps its address from being used again.

### Microtasks, AsyncGenerators, ModuleGraph and EventLoop

One thread runs everything, so an interleaving here is an order of jobs and of
activations on the native stack, and only the top of `stack` acts. An empty
stack is the host between two runs of script. A promise is a pair of its role
and its owner: of a host event, of a module's evaluation, of a request to a
generator, of an `import()`. `waiters` are the coroutines parked on a promise, a
coroutine being an async generator or a module body with a top-level await;
`reactions` are the `import()` promises that follow one. Values are left out
except for whether they are a rejection.

| Action | Code |
|---|---|
| `settlePromise`, `awaitPromise`, `RunReaction` | `settlePromiseInternal` (waiters, then reactions), the await's pending and settled arms, a reaction job |
| `HostDrains`, `DrainEnds`, `RunWasmJob`, `NextTask` | `drainMicrotasks`: the oldest job that may run; jobs of `import()` are passed over while `module_load_depth` is not 0; a host task only when no job may run |
| `SettleHost`, `Terminate`, `ClearTermination` | the host: events, `fireExpiredAsyncWaits` at the head of a drain's iteration, the latch |
| `asyncGenDispatch` | `next`, `return` and `throw` on an async generator: enqueue, and serve unless a body runs or awaits |
| `ResumeNextReturns`, `ServeCompleted`, `ServeReturn`, `ServeNext`, `ServeThrow` | one iteration of `asyncGeneratorResumeNext`, by state and completion |
| `AwaitReturnSettled`, `AwaitReturnPending`, `RunReturnTask` | `awaitForReturnCompletion` and the job that closes the generator or drives its `finally` |
| `BodyAwaitsSettled`, `BodyAwaitsPending`, `YieldToDrain`, `YieldAfterAwait`, `BodyReturns`, `BodyThrows`, `BodyRethrows` | a body at a safe point, under either driver: the drain of its queue, or an await that settled |
| `RunResumeGen`, `RunYieldTask` | `resumeAsyncGeneratorOnSettle`; the job in which a yield answers its request |
| `StartLoad`, `ImportNext`, `LoadDep`, `ImportThrows` | `loadModule` and `module_load` |
| `LinkDrains`, `LinkThrows`, `EnterBody` | `module_link_complete`: drain, look for a rejected dependency, begin the body |
| `BodyCompletes`, `ModuleThrows`, `ModuleAwaits`, `RunResumeModule` | the end, the failure, the suspension and the resumption of a body |
| `DynamicImport`, `RunImportTask`, `ImportLoads`, `ImportSettles` | `import()`, its job, the load, and the promise that follows it |

What a body does is its choice at every safe point, and so is whether a throw
lands in a handler. `unwinding` says that its `finally` will rethrow the
completion it was entered with. `pending_return_completion` and the activation's
`return_completion` are the two places where the code keeps the value of a
`.return(v)` to recognise that rethrow. `disturbed`, `importer` and `ready` are
history variables: a `finally` of a return that awaited or was thrown into, who
a module's first static load was for, and the modules whose body has begun.

A workload is a module graph with what its scripts and its host may do, counted
in `budget`. The early returns of `resumeAsyncGeneratorOnSettle` for a generator
that is completed or running are not modelled: `OneResumer` shows that a
generator that is woken is neither.

Left out: bindings, namespaces and import attributes, `import defer`, user
reactions, thenable jobs and the combinators (script, to the queue), allocation
failures, what a Wasm host task runs before it settles its promise (getters of
imports, a start function, a second task it queues), the return from the drain
when such a task throws natively other than by a termination, and fuel, which is one of the causes that set the latch. The kept-alive list and
cleanup jobs are in `WeakReferences`.

### Richards, DeltaBlue, Splay, Crypto and Playground

Each is translated from its one source file. A step is what the program does
between two points at which its data is meant to be whole: a pass of
`schedule`'s loop, a call of the constraint planner with its propagation, a
find with its insert or a removal, a product of a power, a step of
`callEngine`. Loops inside a step are recursive operators, except in `Richards`,
which is proved about and has none.

`Richards` keeps the linked control blocks in their order as ids; a packet
keeps its destination and its counter. `DeltaBlue` runs `chainTest` and
`projectionTest` as lists of calls on one planner; strengths are the numbers of
the source and `NextWeaker` is its switch as written. `Splay` has nested records
for nodes; `present` is a history variable of the keys the tree should hold.
`Crypto` has the arrays of jsbn digit by digit, with the digits beyond `t` that
earlier results left, in a base small enough to compare each operation with the
integers; the reducers (Classic, Montgomery, Barrett), the two power
algorithms and the key setup are those of the source. `Playground` reduces a
frame to the call it answers and to the lengths that its three layouts, one per
generation of the bundle, put at different places.

Left out: the payload of a splay node, packet letters, padding and byte arrays
of RSA, the drawing and the primality test of random primes (`Crypto` takes
primes from a set, where two draws may be the same prime: `RSAGenerate` swaps
them and does not draw again, and `DecryptsText` excepts that key), the text of playground frames and the inspection of Wasm
modules.

## 3. Runs

Each run ends within four minutes on two workers. Symmetry is used in
safety runs only, over sets whose members the specifications treat alike.
Deadlock is checked except in the `MCAtomicsWait` runs, where all agents may be
parked for ever or torn down, which the code permits, and in `eventloop` and
`programs`, whose workloads and programs end.

| Run | Bounds | Question |
|---|---|---|
| `sliced` | 3 cells, 1 register, 1 handle; objects and ropes | Does every interleaving of stores, loads, allocation, slices, minor cycles and explicit collections keep memory safety, the tri-colour invariant, the remembered set, precision, the abstract heap and the inductive invariant `IInv` (which has the remembered set, the sticky marks, the dirty bits and the phase discipline as conjuncts, and implies `NoDangling`)? |
| `generational` | 3 cells, 2 registers; literals, closures, generators; no sliced majors | Are the raw stores harmless for minor and explicit collections, as their comments say? They are: the young parent is promoted with its children, functions and generators are scanned whole. |
| `liveness` | 2 cells, 2 registers; objects | Do cycles end, and does garbage fall whatever the program does? |
| `literal`, `frame` | 4 cells, 2 registers; literals, or objects and generators | Are raw stores harmless when a mark is in flight? They are not (findings 1 and 2). |
| `waits` | 2 agents with polling hosts, 1 async node, 2 indices, 2 values, sweeping and teardown | For blocking and asynchronous waits together: no lost wakeup of a blocking wait, no dead node, the block outlives the operations on it, the contract |
| `waitlive` | 2 agents, one with a polling host and one without, 2 async nodes, 1 index, teardown | Does a woken or timed wait return, and an asynchronous one settle if a pass can come? |
| `asynclost`, `asyncfreed` | 2 agents with polling hosts, 1 async node | Findings 3 and 4 |
| `holders` | 4 promises, limit 3; 3 cells, five kinds of heap | The rejection store under every order of rejections, late handlers, failures and address reuse. Does a weak slot ever dangle, is a target cleared only when it is dead, does a whole cycle free everything that is? |
| `eventloop` | 2 generators, 3 modules, 1 host promise, 3 requests, 2 imports; the workloads below | Is a coroutine woken exactly once, every request answered once and in order, the queue contract kept, no generator with requests forgotten; does a body wait for its dependencies, an `import()` for the evaluation in progress, a `.return` come out of its `finally`; is nothing left behind when the loop is quiet? |
| `programs` | the sets below | Do the programs' data structures keep their invariants at every step, do their operations agree with the integers or with sets, and do their own checks pass? |

Why the bounds suffice. Three cells and one slot hold the shapes the collector's
invariants speak about: a black parent, a white child, and a third cell that is
root, remembered container or reused header; one slot suffices because an
invariant violation always names one edge. Cells are reused, so runs go through
any number of cycles and the one-bit colour wraps many times. What a rope's shade at
birth is for needs a fourth cell (a marked root, a queued rope, its unmarked child
and the new rope), so that case rests on the theorem. `liveness` has two cells,
enough for one of them to be queued, cut off and stored again while the other is marked. A handle doubles
as a second register, since a native function may store what it has pinned. The
proofs lift these bounds. Two agents and an async node put two waiters in the
list; two indices make a notify choose among them;
two async nodes give the settle pass an entry to skip. Four promises with limit
3 reach the limit and leave swap removals with a first, middle and last place.

`holders` has weak references in heaps of up to three cells, in five mixtures of
kinds: an object, a symbol and a map (the value may refer to its own key); an
object, a computed string and a map; a symbol and two maps (the value of one is
the key or the map of the other); a symbol and two WeakRefs (a target that only a
WeakRef holds is what a sliced mark has not seen); a symbol, a WeakRef and a
registry. Each cell may be target, key, value and holder at once. Two weak maps in
a chain through an object's field would need a fourth cell; see the end of
section 4.

`eventloop` has five families of workloads. *Generators*: three requests and two
awaits over two generators, which is a request made while another is served and
one while that one waits, with a neighbour. *Graphs*: a diamond and a cycle with
a tail, each with four choices of the modules that await, two awaits, an
`import()` and a second entry. *Failures*: a module that does not compile, an
export that does not resolve. *Together*: a generator, a module graph, a host
task and an `import()` at once. *Terminations*: the latch set at any step. One
host promise is enough to hold a coroutine as long as the host likes; three
modules are the least graph with a shared dependency or with a cycle and a tail.

`programs`: `Richards` runs whole with the source's arguments `1, 1000` (whose
counts it checks) and with eight seeds that differ in every bit its idle task
tests, twenty rounds each. `DeltaBlue` runs both tests with 1, 2, 3 and 5
variables. `Splay` has a tree of five nodes and three modifications, with any
of seven keys drawn each time. `Playground` has two loads and three calls.
`Crypto` has digits of 4 bits and operands of up to three digits of both signs,
chosen at and beside the digit boundaries, exponents on both sides of the 18
bits from which the source reads a window of three, and primes between 37 and 59.
The safety runs of `AtomicsWait` take hosts that poll: these may begin a pass
whenever they are idle, so their behaviours include those of a host that only
drains. `waitlive`, where a pass that never comes matters, has one of each.

Named bounds: `Cells`, `Registers`, `Handles`, `Slots` and `FullEveryNMinor`
(32 in the code; `minors` saturates there) for `Metla`; `AsyncNodes`,
`MaxObjects`, `Counts` for `AtomicsWait`; `Promises`, `Limit` for
`PromiseRejections`; `Cells`, `Menus` (how many cells of each kind) for `WeakReferences`; `MaxRequests`, `MaxImports` and `budget` for `EventLoop`;
`Loads`, `MaxCalls` for `Playground`; `kSplayTreeSize`,
`kSplayTreeModifications` (constants of the source, scaled down) for `Splay`;
`BI_DB`, `HalfBits`, `BI_FP`, `MontBits`, `Cap` and the operand sets for
`Crypto`.

### Fairness

`Metla.FairSpec` assumes weak fairness of the safe point as a whole. The
dispatch loop crosses a safe point on every call and back edge, and a program
that runs for ever crosses it for ever; each crossing with something to do does
it. No fairness is assumed of the mutator or of explicit collections.
The fairness lets minor cycles run as long as the backstop permits, which is a
program that keeps allocating; a program that stops allocating may keep garbage
for ever, as in any engine.

`AtomicsWait.FairSpec` has two strong fairness conditions for each agent. `Proceed`
is the rest of an operation once begun: a thread keeps running, and one that
polls or spins in the end finds the lock free (it is a test-and-set lock, which
allows starvation in theory). `FireStart`: scripts and tasks end, and a queue that
has a task in it is drained, so an agent that may begin a pass again and again
begins one. It is
enabled only where the code makes a pass (`Passes`), and no fairness makes a
script queue a task, a notifier notify, or a waiter wait. The third condition is
of time: a pass does not skip the same expired wait for ever (`Skips`).
`AsyncWaitEnds` therefore speaks of waits that are `Attended` again and again; an
agent with nothing queued and a host that does not poll leaves a notified or
timed wait unsettled for ever, which is finding 13. An idle loop that gives up
(the pool's does after 30 seconds) is the realm's teardown. `waitlive` leaves out
sweeping because a freed block has no defined settle.

`WeakReferences`, `EventLoop` and the programs assume no fairness. That something must
eventually happen is stated there as what a quiet loop may not have left
undone (`NothingLeftBehind`): whether the loop becomes quiet is up to the script.

## 4. Findings

1. **Dense literals** (`literal`). `makeDenseArray` gives a new array its
   elements raw, because "the array is young". A young cell born during a sliced
   mark is born black and never visited. An element loaded from a white parent,
   placed in the literal and then gone from registers and parent is freed by the
   termination while the array points at it. `docs/handbook/gc.md:174` warns of
   exactly this; the rope path heeds it, this one does not.
   The captured environment of a closure (`allocateFunction`) and the parent of
   an environment (`allocateEnvironment`) are stored raw in the same way; the
   model treats the kind `"function"` as it does `"array"` in this respect.
2. **Generator frames** (`frame`). A generator the mark has visited runs again,
   takes a white value into a register in place, and yields before the
   termination, whose re-scan covers live frames only.
3. **waitAsync loses wakeups** (`asynclost`). It compares before it takes the
   lock and links long after, so a store and a notify of everyone in between
   leave it asleep on a value that is gone.
4. **A pending waitAsync does not keep its block** (`asyncfreed`). When the last
   buffer object is swept the block is freed under the pending record; the
   settle pass then locks and unlinks in freed memory.

5. **A module's body may run before an async dependency has settled**
   (`eventloop`). `module_link_complete` drains once and then looks only for
   dependencies that rejected. One that is still pending, because it waits for
   the host or for an `import()` the drain holds back, lets the importer's body
   run, where `src/bytecode/op.zig:990` promises the opposite.
6. **A rejected async module is not thrown again** (`eventloop`). It stays
   `evaluating_async`, so a later importer takes it for part of a cycle; the
   field that is there to re-throw (`src/runtime/module.zig:67`) is not set for it.
7. **A `.return(v)` whose `finally` awaits rejects with v** (`eventloop`). The
   value is kept across a yield of the `finally` and not across an await.
8. **DeltaBlue never retries weaker constraints** (`programs`): `nextWeaker` of
   REQUIRED is WEAKEST, so the loop of `incrementalRemove` ends after the
   required ones.
9. **A frame without a result has no `stats`** (`programs`), which the header of
   `playground/cynic-engine.js` promises of every frame.
10. **`bnCompareTo` of two negative numbers of different lengths** (`programs`)
   has the wrong sign: the lengths are compared whatever the sign is.
11. **A computed string held only by a weak map is freed** (`holders`). The
   fixpoint marks a value that `isWeakReferentLive` calls dead, and it calls every
   string and BigInt live; the entry stays, with a freed value. Literals are
   pinned, which is why a test with a literal passes.
12. **`register` tells the collector nothing** (`holders`). A mature registry's
   young held value is freed by the next minor cycle (in a release build; the
   safe builds scan every mature object), a marked registry's by the
   termination, and the callback is given it. In the same way a WeakRef made
   during a mark is on no list, and keeps a target that the termination frees.
13. **An expired `waitAsync` waits for a task** (`waitlive`). The drain makes the
   settle pass only while something is queued, so a host that drains without
   polling (`src/cli/run.zig:310` drains once, and exits) leaves the promise of a
   wait that was notified or timed out pending while its queue is empty;
   `docs/sab-atomics.md:136` says that it resolves `"timed-out"`.

Findings 1 to 4 are counterexamples of runs that expect one. Findings 5 to 13
are exceptions that a passing property names, each where it is defined
(`BodyAfterDeps`: `Held`, and `importer[d] # m`; `ReturnSurfaces`: `disturbed`;
`NothingBetterLeft`: `retracted`; `AnswersOwnCall` and `ArithmeticAgrees`: a
case each; `WeakSlotsStayValid`: `Strings` and `unbarriered`; `AsyncWaitEnds`:
`Attended`): without the
exception TLC finds the property violated.

`WeakSlotsStayValid` has a third exception, `late`, for a case the bounds do not
reach: the fixpoint is not run again after the drain that follows it, so a map or
key that is reached only through a field of a weak map's value keeps its entry and
loses the value. The least such heap has four cells: a map `m` from itself to an
object whose field is a map `n` from itself to a value nothing else holds.

Everything else checked holds.

## 5. Proofs

`MetlaProofs` (for every set of cells, registers, handles and slots, and every
backstop) proves:

* `TypeCorrect`: `Spec => []TypeOK`, with no assumption on kinds.
* `Invariance`: `Spec => []IInv`, `MemorySafety` (`NoDangling`), `TriColour`
  (`NoHiddenWhite`), `RememberedSet`, `PreciseCollect`
  (`ExplicitCollectIsPrecise`) and `Refinement` (`KeepsHeapPromise`: the
  collector implements `JsHeap!HeapSpec`), assuming `BarrieredKinds`: if sliced
  majors run, the program's kinds are objects and ropes. Findings 1 and 2 show the
  assumption is needed; without sliced majors all five kinds are covered.

`NoDangling` alone is not inductive: a trace through freed memory is excluded
only because nothing *intact* points at a condemned cell (`IntactClosed`), which
a deferred sweep preserves because a program can only obtain pointers to intact
cells; that in turn needs the marks of a finished cycle to be complete, so
`NoHiddenWhite` while marking; a minor cycle stops its trace at mature cells, so
it needs `StickyMarks` and `RememberedSetComplete`; the latter needs the dirty
bit to mean membership (`DirtyBitIsMembership`), else the barrier would skip a
store. `IInv` is the conjunction. The lemmas about `Trace` (it contains its
seeds, is closed, is the least such set, and is monotone) stand in for
induction: as the trace is an intersection of closed sets, each use exhibits one
closed set.

`PromiseRejectionsProofs` (every set of promises, every limit) proves
`Invariance`, `NothingMissed`, `MapMatchesList` and `NothingDropped`, with no
assumption but `Limit \in Nat`. The inductive invariant adds to the map and list
being inverse that the store roots unhandled rejections only, which is why a
rooted address is never recycled and the map never names a stale one.

`EventLoopProofs` (every set of generators, modules and host promises, every
bound and workload) proves `NoRequestStranded`: a generator that has requests
and that nothing runs or wakes has its drain on the stack. The invariant
`ServiceInv` adds that the stack is a sequence, that a drain on it is a record
of that form and no other, and that a generator is in one of its five states. The stack is only
ever pushed and popped, so the proof rests on two lemmas about `Append` and
`Front`, and on one per kind of step: a step that takes a drain off the stack
leaves its generator without requests, watched, or with a drain again.

`EventLoopResumers` (the same, for workloads whose graphs are graphs of the
modules, `WorkloadsAssumption`) proves `EventLoopTypes` (`TypeOK`) and
`OneResumerEach` (`OneResumer`). Counting wakers is not inductive, so
`ResumerInv` says where a coroutine is: at rest, in one task, on the list of one
promise, or in one activation (`GenPlaced`, `ModPlaced`), with what it will find
when it wakes: an await's task finds a suspended generator with a request. A settled
promise has empty lists (`SettledAreClear`), or joining one would be
for good. Each operation of the loop moves a coroutine from one place to the
next or leaves it (`Follows`, `Stays`), whatever the others do; a settlement
turns the place on a list into a task. A step is then proved once per action,
from the place its actor was taken from to the one it is put in.

`EventLoopAnswers` builds on it for what the loop owes. Every step either
`StandsAside` of the generators or is a step of one (`GeneratorActs`).

* `EveryRequestAccounted` and `ContractKept` (`KeepsContract`: the generators
  implement `RequestQueue`). `RequestInv` adds to `RequestsAccounted` that
  promises of requests not made are unsettled and that a generator that answered
  `done` or rejected is completed. A generator has at most one yield in flight,
  because its place is then that task: this is what makes `Unanswered`, the popped
  request before the queue, well defined. A step of the model is then a request
  made, the oldest answered, or a stutter.
* `ReturnsSurface` (`ReturnSurfaces`). `ReturnInv`: while a `finally` that a
  `.return(v)` landed in is undisturbed, its body's activation holds v as it runs
  and the generator holds it as it does not, and no await of the body wakes the
  generator; at finding 7 the last part is what fails, and `disturbed` begins.
* `ImportsAlwaysWait` (`ImportsWait`) and `NothingIsLeftBehind`
  (`NothingLeftBehind`). `ImportInv`: an `import()` is settled, has its task, its
  reaction's task or its job's activation, or follows a module; a module that is
  followed awaits, and no import job is above an evaluation. In a quiet loop only
  lists of unsettled promises are places to be, and the host's are settled, so an
  open request contradicts `NoRequestStranded`, and an `import()` that is open
  follows a module on the list of an `import()`: the circular wait it excepts.
* `BodiesWaitForImports` (`BodyAfterDeps`), from `OrderInvariance`. `OrderInv`: the
  first activations on the stack are in the order of the imports that led to
  them, each reached by an import that those under it are still at (`Ordered`),
  with an `import()` job and its drain only at the bottom; a module that is
  evaluating is among them; what one has been through is neither absent nor in
  error, and is on its list of async dependencies if it awaits and was first
  imported by it (`DepsLoaded`); and when the drain of an import block has run,
  only `import()` jobs are left in the queue (`Drained`). So an import d of a body
  that begins is off the stack, for else d would reach its importer and be in a
  cycle with it; it has no task, so if it is open it is on the list of a promise
  of the host or of an `import()`; and if it rejected, the importer that has it on
  its list throws. An induction over paths of the graph is not needed, as
  `Reaches` is the least closed set and an activation bears its whole chain under
  it. The one assumption is `NoneIsNoModule`, that the marker for no importer
  is not a module.

These are proofs over every interleaving of any number of generators, modules
and requests, where the run has two, three and three.

`AtomicsWaitProofs` (every finite set of agents, any nodes, indices, values,
counts and objects per agent, sweeping or not, polling hosts or not) proves the four invariants of
`waits`: `TypeInvariance`, `NoWakeupLost`, `NoNodeDies` and `BlockHeld`, and
`ContractKept` (`KeepsContract`: it implements `WaiterList`). The
invariant `WaitListInv` adds what each is carried by. `LockInv` and `ChangeInv`:
the lock belongs to the one agent between compare and link, so no notify runs
there, and what that agent saw still holds or its index is marked, as on the
list. `WaitInv` and `PendingInv`: a node in use belongs to the agent that made
it and is at most once on that agent's pending list, so taking it off the list
and letting go of it leave no other reference. `BlockInv`: the count is the
number of objects over all agents, a set whose cardinality each retain, release
and teardown changes as the code changes the count, and an agent inside an
operation has an object. They are inductive only together, as the type of the
count needs the objects and that of the lists needs them free of repetitions.
The contract then takes no further invariant, only lemmas on how linking and
unlinking change the order (`AppendOrder`, `RemoveAtOrder`), and that the places a
notify takes are the first ones and as many as it was asked for (`FirstOnes`: the
rank of a place among the sleepers is a bijection). Each step of the model is a
step of the contract or is not seen in it; linking under the lock is not seen,
as its agent has come last since it compared and nobody has come since.

`ProgramsProofs` proves four theorems about two of the programs. Of `Richards`
(every pair of arguments, runs of any length):

* `FlagsTellTheTruth`, that a block is flagged runnable if and only if it has packets, and
  `PriorityKept`, that the scheduler never passes a block that could run. They are
  inductive only together and with the shapes of what the tasks keep
  (`RichardsInv`): a pass takes a packet on the word of the flag, and a service returns
  the place to go on from, which is right only if what it did not look at was
  settled before.
* `PacketsKept` (`PacketsConserved`). `PlacesInv` views queues and kept lists as one
  family of lists: each packet is at one index of one of them (`Conserved`), where
  its address lets it be (`Routed`), and a device that keeps a packet is not
  suspended, so it is not given another to overwrite it (`DevicesKeepOne`). Every step
  that is not quiet is one or two moves of a packet from the head of a list to the
  end of another (`MoveStep`); a handler's pass is two, storing and sending. That
  no task can hold more than eight is then the pigeonhole principle.

Of `Playground` (any loads, any number of calls), `CallsAnswered`
(`AnswersOwnCall`). `PlayInv`: the one guest buffer there is belongs to the call in
progress, in the instance loaded last; an instance has no frame before it is
loaded, though its bundle is read then; a frame there to be read is of the call
made. `DecodesAsWritten` is that the reader, which has only lengths to go by, finds
the parts the bundle wrote and no others.

`WeakReferencesProofs` (every set of cells, every menu of kinds, any number of
cycles) proves the three action properties of `holders`: `SlotsStayValid`
(`WeakSlotsStayValid`), `ClearedWhenDead` (`ClearedOnlyWhenDead`) and
`DeadCollected` (`DeadAreCollected`). `WeakInv`, of `WeakInvariance`, is what a
collection relies on: the slots stored with a barrier point at live cells
(`BarrieredSlotsLive`), an old cell that points at a young one is remembered
(`OldIsRemembered`), what a mark has passed it has followed, weak slots included
once the holder is not on the lists (`PassedIsFollowed`), each but for
`unbarriered` holders, and those are WeakRefs and registries (`RawHolders`). Traces
and the ephemeron fixpoint are least closed sets (`Traced`, `Settled`), so a proof
that something is freed shows a closed set without it, and a proof that something
lives takes the marked set itself as the closed set. The exceptions `Excused`
names are where these arguments fail, and no more are needed. The run's three
cells did not show that a condition of `WeakSlotsStayValid` had been too wide: it
blamed a holder for a cell queued by another, which takes five cells and fell to
the proof; `Loses` now says whose registry it was.

Model-checked only: liveness (`CycleTerminates`, `GarbageReclaimed`, `WaitEnds`,
`AsyncWaitEnds`), and the invariants of `DeltaBlue`, `Splay` and `Crypto` with
`ProgramsCheckThemselves`, whose operators recurse over their data, so that what
they compute needs an induction the provers cannot do. No other property of a
passing run is without its theorem.

## 6. Plan

Done: the collector, `Atomics` waiting, rejections, weak references, microtasks,
async generators, module evaluation, the programs. Left, in the order of the harm a
mistake does:

1. Fuel, interrupts and the causes of the termination latch over nested entries.
2. Thenable jobs, combinators and user reactions in `Microtasks`.
3. `ParallelMoves` as a pure algorithm against simultaneous assignment.
4. The JIT code allocator; shapes and inline caches; realm teardown queued by
   a sliced sweep.

Theorems planned: the first invariants of the modules above.

## 7. Not modelled

The WebAssembly engines (a second engine of 36 thousand lines), the JIT
back ends (agreement on machine semantics), lexer, parser, compiler, regular
expressions, Intl, Temporal and Unicode (pure functions with a conformance
suite), snapshot (refuses a realm with pending work), the CLI and tools. Of the
benchmarks, the ray tracer and the fluid solver, which compute with floating
point numbers, and the harness around all of them. Inline
caches and fuel are planned. The reason for each is in `PROJECT.json`, and the
hazards without a property are listed there with theirs.
