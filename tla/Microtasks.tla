------------------------------- MODULE Microtasks ------------------------------
(***************************************************************************)
(* The realm's microtask queue, the promises its tasks settle, and the     *)
(* stack of native activations that run JavaScript.  One thread runs       *)
(* everything, so only the top of the stack acts: an empty stack is the    *)
(* host between two runs of script.                                        *)
(*                                                                         *)
(* A promise is a pair of its role and what it belongs to.  One that is    *)
(* not allocated yet is pending and known to nobody.  A coroutine is an    *)
(* async generator or a module body with a top-level await.                *)
(*                                                                         *)
(* A definition marked "fault" is a plausible bug in the one below it; the *)
(* mutation runs swap it in, and the specification never uses it.          *)
(***************************************************************************)
EXTENDS Integers, Sequences, FiniteSets, SequencesExt

CONSTANTS
    Gens,           \* async generators
    Modules,
    HostPromises,   \* promises only the host settles: timers, Wasm, waitAsync
    MaxRequests,    \* requests made to the generators of one workload (a bound)
    MaxImports      \* import() calls of one workload (a bound)

ASSUME CoroutinesAreDistinct == Gens \cap Modules = {}
ASSUME BoundsAssumption == MaxRequests \in Nat /\ MaxImports \in Nat

VARIABLES
    promise_state,
    waiters,        \* coroutines awaiting a promise
    reactions,      \* import() promises that follow a promise
    awaiting_return_completion, \* generators whose wait is for a .return(v)
    microtask_queue,
    wasm_instantiation_jobs,
    termination,    \* the host's latch
    stack,
    budget          \* what the workload may still do (bounds)

promiseVars == <<promise_state, waiters, reactions, awaiting_return_completion>>
jobVars == <<microtask_queue, wasm_instantiation_jobs>>
loopVars == <<promiseVars, jobVars, termination, stack, budget>>

Requests == 1 .. MaxRequests
Imports == 1 .. MaxImports
Coroutines == Gens \cup Modules
Promises ==
    ({"host"} \X HostPromises) \cup ({"evaluation"} \X Modules)
        \cup ({"request"} \X Requests) \cup ({"import"} \X Imports)

ResumeTask(c, t) == [kind |-> "async_resume", who |-> c, throws |-> t]
ReturnTask(g, t) ==
    [kind |-> "async_gen_return_after_await", who |-> g, throws |-> t]
YieldTask(g, r, t) ==
    [kind |-> "async_gen_yield", who |-> g, request |-> r, reject |-> t]
ReactionTask(p, t) == [kind |-> "promise_reaction", promise |-> p, throws |-> t]
ImportTask(m, i) == [kind |-> "module_import", module |-> m, import |-> i]

Tasks ==
    {ResumeTask(c, t) : c \in Coroutines, t \in BOOLEAN}
        \cup {ReturnTask(g, t) : g \in Gens, t \in BOOLEAN}
        \cup {YieldTask(g, r, t) : g \in Gens, r \in Requests, t \in BOOLEAN}
        \cup {ReactionTask(p, t) : p \in Promises, t \in BOOLEAN}
        \cup {ImportTask(m, i) : m \in Modules, i \in Imports}

-----------------------------------------------------------------------------
(* The stack.                                                              *)

Top == Last(stack)
TopIs(k) == stack # <<>> /\ Top.kind = k
Pop == Front(stack)
Push(a) == stack' = Append(stack, a)
Become(a) == stack' = Append(Pop, a)
Leave == stack' = Pop

Drain == [kind |-> "drain"]

\* User JavaScript runs: a script of the host's, a body, or a getter that a
\* .return(v) reads.
RunsJS ==
    /\ ~termination
    /\ \/ stack = <<>>
       \/ TopIs("gen_body") \/ TopIs("await_return")
       \/ TopIs("module") /\ Top.phase = "body"

Spend(what) ==
    /\ budget[what] > 0
    /\ budget' = [budget EXCEPT ![what] = @ - 1]

-----------------------------------------------------------------------------
(* Promises.                                                               *)

Settled(p) == promise_state[p] # "pending"

\* The task that wakes a coroutine: the flag of a .return(v) routes it.
WakeTask(c, t) ==
    IF c \in awaiting_return_completion THEN ReturnTask(c, t) ELSE ResumeTask(c, t)

\* settlePromiseInternal, on a queue q: waiters first, then reactions.  A
\* promise that is settled already is left alone.
settlePromise(q, p, s) ==
    LET t == s = "rejected"
    IN  IF Settled(p)
          THEN microtask_queue' = q /\ UNCHANGED promiseVars
          ELSE /\ promise_state' = [promise_state EXCEPT ![p] = s]
               /\ waiters' = [waiters EXCEPT ![p] = <<>>]
               /\ reactions' = [reactions EXCEPT ![p] = <<>>]
               /\ awaiting_return_completion' =
                    awaiting_return_completion \ ToSet(waiters[p])
               /\ microtask_queue' =
                    q \o [i \in DOMAIN waiters[p] |-> WakeTask(waiters[p][i], t)]
                      \o [i \in DOMAIN reactions[p] |->
                             ReactionTask(reactions[p][i], t)]

enqueue(task) == microtask_queue' = Append(microtask_queue, task)

\* Wait on a pending promise, or queue the task that carries what it settled
\* to: nothing resumes in the same tick.
awaitPromise(c, p) ==
    IF Settled(p)
      THEN /\ enqueue(ResumeTask(c, promise_state[p] = "rejected"))
           /\ UNCHANGED promiseVars
      ELSE /\ waiters' = [waiters EXCEPT ![p] = Append(@, c)]
           /\ UNCHANGED <<promise_state, reactions, awaiting_return_completion,
                          microtask_queue>>

-----------------------------------------------------------------------------
(* The drain.                                                              *)

\* Modules being evaluated for the first time: realm.module_load_depth.
Depth == Cardinality({i \in DOMAIN stack :
                        stack[i].kind = "module" /\ stack[i].first})

\* Fault: import jobs are taken whatever is being evaluated.
AnyTask == DOMAIN microtask_queue

\* An import() job is held back while a module graph is being evaluated.
Runnable ==
    {i \in DOMAIN microtask_queue :
        Depth = 0 \/ microtask_queue[i].kind # "module_import"}

\* The first task that may run.
NextTask == CHOOSE i \in Runnable : \A j \in Runnable : i <= j
Taken == microtask_queue[NextTask]

\* Fault: the import jobs in front of the task taken go with it.
DropsSkipped == SubSeq(microtask_queue, NextTask + 1, Len(microtask_queue))

Rest == RemoveAt(microtask_queue, NextTask)

Draining == TopIs("drain") /\ ~termination

TakesTask(kind) == Draining /\ Runnable # {} /\ Taken.kind = kind

DrainEnds ==
    /\ TopIs("drain")
    /\ termination \/ (Runnable = {} /\ wasm_instantiation_jobs = <<>>)
    /\ Leave
    /\ UNCHANGED <<promiseVars, jobVars, termination, budget>>

\* A Wasm host task runs only when no microtask can, and settles its promise.
RunWasmJob(s) ==
    /\ Draining /\ Runnable = {} /\ wasm_instantiation_jobs # <<>>
    /\ settlePromise(microtask_queue, Head(wasm_instantiation_jobs), s)
    /\ wasm_instantiation_jobs' = Tail(wasm_instantiation_jobs)
    /\ UNCHANGED <<termination, stack, budget>>

\* A reaction of an import() promise passes the settlement on.
RunReaction ==
    /\ TakesTask("promise_reaction")
    /\ settlePromise(Rest, Taken.promise,
                     IF Taken.throws THEN "rejected" ELSE "fulfilled")
    /\ UNCHANGED <<wasm_instantiation_jobs, termination, stack, budget>>

-----------------------------------------------------------------------------
(* The host.                                                               *)

HostDrains ==
    /\ stack = <<>> /\ ~termination
    /\ microtask_queue # <<>> \/ wasm_instantiation_jobs # <<>>
    /\ Push(Drain)
    /\ UNCHANGED <<promiseVars, jobVars, termination, budget>>

\* A promise resolved by a host event, by script that holds its resolve
\* function, or by fireExpiredAsyncWaits at the head of a drain's iteration.
SettleHost(h, s) ==
    /\ ~Settled(<<"host", h>>)
    /\ ~Contains(wasm_instantiation_jobs, <<"host", h>>)
    /\ stack = <<>> \/ RunsJS \/ (Draining /\ microtask_queue # <<>>)
    /\ settlePromise(microtask_queue, <<"host", h>>, s)
    /\ UNCHANGED <<wasm_instantiation_jobs, termination, stack, budget>>

InstantiateWasm(h) ==
    /\ RunsJS /\ Spend("wasm")
    /\ ~Settled(<<"host", h>>)
    /\ ~Contains(wasm_instantiation_jobs, <<"host", h>>)
    /\ wasm_instantiation_jobs' = Append(wasm_instantiation_jobs, <<"host", h>>)
    /\ UNCHANGED <<promiseVars, microtask_queue, termination, stack>>

\* Another thread terminates the realm; the latch is seen at the next safe
\* point, and cleared only between runs.
Terminate ==
    /\ stack # <<>> /\ ~termination /\ Spend("terminations")
    /\ termination' = TRUE
    /\ UNCHANGED <<promiseVars, jobVars, stack>>

ClearTermination ==
    /\ stack = <<>> /\ termination
    /\ termination' = FALSE
    /\ UNCHANGED <<promiseVars, jobVars, stack, budget>>

LoopInit ==
    /\ promise_state = [p \in Promises |-> "pending"]
    /\ waiters = [p \in Promises |-> <<>>]
    /\ reactions = [p \in Promises |-> <<>>]
    /\ awaiting_return_completion = {}
    /\ microtask_queue = <<>>
    /\ wasm_instantiation_jobs = <<>>
    /\ termination = FALSE
    /\ stack = <<>>
=============================================================================
