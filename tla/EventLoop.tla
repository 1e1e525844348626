------------------------------- MODULE EventLoop -------------------------------
(***************************************************************************)
(* The realm's event loop: async generators and the module graph over one  *)
(* microtask queue and one stack.  A workload is a module graph and what   *)
(* its scripts, bodies and host may do.                                    *)
(***************************************************************************)
EXTENDS AsyncGenerators, ModuleGraph

CONSTANTS Workloads

ASSUME WorkloadsAssumption ==
    \A w \in Workloads : w.graph.deps \in [Modules -> Seq(Modules)]

vars == <<loopVars, genVars, moduleVars>>

Init ==
    /\ LoopInit /\ GenInit /\ ModuleInit
    /\ \E w \in Workloads : graph = w.graph /\ budget = w.budget

\* What the thread does next of itself; the host's part is HostDrains.
Proceed ==
    \/ DrainEnds /\ UNCHANGED <<genVars, moduleVars>>
    \/ \E s \in {"fulfilled", "rejected"} :
         RunWasmJob(s) /\ UNCHANGED <<genVars, moduleVars>>
    \/ RunReaction /\ UNCHANGED <<genVars, moduleVars>>
    \/ GenSteps /\ UNCHANGED <<wasm_instantiation_jobs, termination, budget, moduleVars>>
    \/ ModuleSteps /\ UNCHANGED <<wasm_instantiation_jobs, termination, budget, genVars>>

\* What running JavaScript may do besides.
Script ==
    \/ \E g \in Gens :
         \/ \E k \in {"normal", "return", "throw"} :
              asyncGenDispatch(g, k) /\ UNCHANGED moduleVars
         \/ GenAwaits(g) /\ UNCHANGED <<wasm_instantiation_jobs, termination, moduleVars>>
    \/ \E m \in Modules :
         \/ DynamicImport(m)
              /\ UNCHANGED <<wasm_instantiation_jobs, termination, genVars>>
         \/ \E p \in Awaitable : ModuleAwaits(m, p)
              /\ UNCHANGED <<wasm_instantiation_jobs, termination, genVars>>
         \/ HostLoads(m)
              /\ UNCHANGED <<wasm_instantiation_jobs, termination, genVars>>
    \/ \E h \in HostPromises : InstantiateWasm(h) /\ UNCHANGED <<genVars, moduleVars>>

HostSettles(h) ==
    \E s \in {"fulfilled", "rejected"} :
        SettleHost(h, s) /\ UNCHANGED <<genVars, moduleVars>>

HostGoesOn ==
    (HostDrains \/ ClearTermination) /\ UNCHANGED <<genVars, moduleVars>>

Next ==
    \/ Proceed
    \/ Script
    \/ \E h \in HostPromises : HostSettles(h)
    \/ HostGoesOn
    \/ Terminate /\ UNCHANGED <<genVars, moduleVars>>

Spec == Init /\ [][Next]_vars
-----------------------------------------------------------------------------
(* Correctness.                                                            *)

\* The two states of a generator go together.
StatesAgree(g) ==
    <<gen[g].async_state, gen[g].state>> \in
        ({"suspended_start"} \X {"initial"})
            \cup ({"suspended_yield"} \X {"suspended"})
            \cup ({"executing"} \X {"executing"})
            \cup ({"completed"} \X {"completed"})
            \cup ({"suspended_await"} \X {"initial", "suspended", "completed"})

TypeOK ==
    /\ promise_state \in [Promises -> {"pending", "fulfilled", "rejected"}]
    /\ waiters \in [Promises -> Seq(Coroutines)]
    /\ reactions \in [Promises -> Seq(Promises)]
    /\ awaiting_return_completion \subseteq Gens
    /\ microtask_queue \in Seq(Tasks)
    /\ wasm_instantiation_jobs \in Seq(Promises)
    /\ termination \in BOOLEAN
    /\ gen \in [Gens -> GenRecords]
    /\ request \in Seq([kind : Kinds, gen : Gens, answer : Answers \cup {"open"}])
    /\ module_state \in [Modules -> {"absent", "evaluating", "evaluating_async",
                                     "evaluated", "errored"}]
    /\ pending_async_deps \in [Modules -> Seq(Modules)]
    /\ imports \in Seq(Modules)
    /\ \A g \in Gens : StatesAgree(g)

\* The ways a coroutine is about to run again.
Wakers(c) ==
    {<<"task", i>> : i \in {i \in DOMAIN microtask_queue :
        microtask_queue[i].kind \in {"async_resume", "async_gen_yield",
                                     "async_gen_return_after_await"}
            /\ microtask_queue[i].who = c}}
    \cup {<<"waiter", p>> : p \in {p \in Promises : Contains(waiters[p], c)}}
    \cup {<<"stack", i>> : i \in {i \in DOMAIN stack :
            \/ stack[i].kind \in {"gen_body", "await_return"} /\ stack[i].gen = c
            \/ stack[i].kind = "module" /\ stack[i].module = c}}

\* A body that is running or parked is woken by exactly one thing, and an
\* idle one by nothing: it is neither resumed twice nor left for good.
OneResumer ==
    /\ \A g \in Gens :
         Cardinality(Wakers(g)) =
            IF gen[g].async_state \in {"executing", "suspended_await"} THEN 1 ELSE 0
    /\ \A m \in Modules :
         LET open == module_state[m] \in {"evaluating", "evaluating_async"}
                        /\ ~Settled(Evaluation(m))
         IN  Cardinality(Wakers(m)) = IF open THEN 1 ELSE 0

\* An idle generator with requests in its queue is being served.
NoneStranded ==
    \A g \in Gens :
        Queued(g) /\ gen[g].async_state \notin {"executing", "suspended_await"}
            => \E i \in DOMAIN stack : stack[i] = ResumeNext(g)

\* The request a yield has popped and its task has not answered yet, and the
\* requests of the queue behind it.
InFlight(g) ==
    {i \in DOMAIN microtask_queue : /\ microtask_queue[i].kind = "async_gen_yield"
                                    /\ microtask_queue[i].who = g}

Unanswered(g) ==
    IF InFlight(g) = {} THEN gen[g].queue
    ELSE <<microtask_queue[CHOOSE i \in InFlight(g) : TRUE].request>> \o gen[g].queue

\* Those are the open requests made to the generator, each once and in the
\* order they were made, and a request is open until its promise is settled.
RequestsAccounted ==
    \A g \in Gens :
        /\ \A i, j \in DOMAIN Unanswered(g) :
             i < j => Unanswered(g)[i] < Unanswered(g)[j]
        /\ ToSet(Unanswered(g)) =
             {r \in DOMAIN request : request[r].gen = g /\ request[r].answer = "open"}
        /\ \A r \in DOMAIN request :
             (request[r].answer = "open") = ~Settled(<<"request", r>>)

\* The generators keep the contract of RequestQueue.
Contract ==
    INSTANCE RequestQueue WITH
        asked <- [g \in Gens |-> Unanswered(g)],
        closed <- {g \in Gens : \E r \in DOMAIN request :
                        request[r].gen = g /\ request[r].answer \in {"done", "reject"}}

KeepsContract == Contract!Spec

\* A finally that ends undisturbed gives a .return(v) its answer: the value
\* it is driven with does not come out as a rejection.
ReturnSurfaces ==
    [][\A g \in Gens :
         BodyRethrows(g) /\ gen[g].unwinding = "return" /\ ~gen[g].disturbed
            => request'[HeadOf(g)].answer = "done"]_vars

\* A module that waits for something only the host, or an import() held
\* back, can bring about.
Held(m) ==
    \/ \E h \in HostPromises : Contains(waiters[<<"host", h>>], m)
    \/ \E i \in Imports : Contains(waiters[<<"import", i>>], m)

\* A body begins when the modules it imports are evaluated, those of its own
\* cycle excepted: one that awaits has settled, or is held up by what the
\* drain cannot bring about, and the first importer of one that rejected
\* does not get that far.
BodyAfterDeps ==
    [][\A m \in ready' \ ready : \A d \in ToSet(Deps(m)) :
         m \notin Reaches(d) =>
            \/ module_state[d] = "evaluated"
            \/ /\ module_state[d] = "evaluating_async"
               /\ promise_state[Evaluation(d)] = "pending" => Held(d)
               /\ promise_state[Evaluation(d)] = "rejected" => importer[d] # m]_vars

\* import() never runs a module while a graph is being evaluated.
ImportsWait ==
    \A i \in DOMAIN stack : stack[i].kind = "import" =>
        \A j \in 1 .. i - 1 : stack[j].kind # "module" \/ ~stack[j].first

\* Nothing is left to do, and the host has settled its promises.
Quiet ==
    /\ stack = <<>> /\ ~termination
    /\ microtask_queue = <<>> /\ wasm_instantiation_jobs = <<>>
    /\ \A h \in HostPromises : Settled(<<"host", h>>)

\* Modules whose evaluation waits for an import() that follows it.
Circular(i) ==
    \E m \in Modules : /\ Contains(reactions[Evaluation(m)], <<"import", i>>)
                       /\ \E j \in Imports : Contains(waiters[<<"import", j>>], m)

\* Then every request is answered and every import() is settled, except one
\* that waits for itself.
NothingLeftBehind ==
    Quiet => /\ \A r \in DOMAIN request : request[r].answer # "open"
             /\ \A i \in DOMAIN imports : Settled(<<"import", i>>) \/ Circular(i)
=============================================================================
