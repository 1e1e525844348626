------------------------------- MODULE ModuleGraph -----------------------------
(***************************************************************************)
(* Loading and evaluating modules: the depth-first evaluation of static    *)
(* imports, bodies with a top-level await, the drain at the end of a       *)
(* module's import block, and import() jobs.                               *)
(*                                                                         *)
(* A graph gives each module its static imports in source order, the set   *)
(* of modules with a top-level await, those whose source does not compile  *)
(* and those with an indirect export that does not resolve.                *)
(***************************************************************************)
EXTENDS Microtasks

VARIABLES
    graph,
    module_state,
    pending_async_deps,
    pending_indirect_export_validation,
    imports,        \* the module each import() call asked for
    importer,       \* history: who a module's first static load was for
    ready           \* history: modules whose body proper has begun

moduleVars == <<graph, module_state, pending_async_deps,
                pending_indirect_export_validation, imports, importer, ready>>

None == "none"

ASSUME NoneIsNoModule == None \notin Modules

Deps(m) == graph.deps[m]
IsAsync(m) == m \in graph.async
Evaluation(m) == <<"evaluation", m>>

\* The modules m imports, directly or through others, and itself: the least
\* set that holds m and the imports of its members.
Reaches(m) ==
    {x \in Modules : \A closed \in SUBSET Modules :
        (m \in closed /\ \A y \in closed : ToSet(Deps(y)) \subseteq closed)
            => x \in closed}

\* A module body on the stack: importing its next dependency, waiting for
\* the drain of its module_link_complete, or in its body proper; `first` is
\* set for the activation loadModule runs, and not for a resumed one.
Activation(m, next, phase, first) ==
    [kind |-> "module", module |-> m, next |-> next, phase |-> phase,
     first |-> first]
ImportJob(m, i) == [kind |-> "import", module |-> m, import |-> i]

\* realm.current_module: the innermost module body on the stack.
CurrentModule(s) ==
    LET bodies == {i \in DOMAIN s : s[i].kind = "module"}
    IN  IF bodies = {} THEN None
        ELSE s[CHOOSE i \in bodies : \A j \in bodies : j <= i].module

-----------------------------------------------------------------------------
(* loadModule.                                                             *)

\* A module not in the cache: it is entered before its body runs, so that a
\* cycle finds it; a source that does not compile is an errored module.
StartLoad(m) ==
    /\ module_state[m] = "absent"
    /\ IF m \in graph.broken
         THEN /\ module_state' = [module_state EXCEPT ![m] = "errored"]
              /\ UNCHANGED <<stack, importer>>
         ELSE /\ module_state' = [module_state EXCEPT ![m] = "evaluating"]
              /\ importer' = [importer EXCEPT ![m] = CurrentModule(stack)]
              /\ Push(Activation(m, 1, "importing", TRUE))
    /\ UNCHANGED <<promiseVars, microtask_queue, graph, pending_async_deps,
                   pending_indirect_export_validation, imports, ready>>

AtModule(m) == TopIs("module") /\ Top.module = m
InPhase(m, phase) == AtModule(m) /\ Top.phase = phase
NextDep(m) == Deps(m)[Top.next]
HasNextDep(m) == InPhase(m, "importing") /\ Top.next <= Len(Deps(m))

\* A cached module is handed out unless it is errored; one that is being
\* evaluated, or awaits, is a cycle or is taken for one.
CacheHit(m) == module_state[m] \notin {"absent", "errored"}

\* module_load.
ImportNext(m) ==
    /\ HasNextDep(m) /\ ~termination
    /\ CacheHit(NextDep(m))
    /\ Become([Top EXCEPT !.next = @ + 1])
    /\ UNCHANGED <<promiseVars, microtask_queue, moduleVars>>

LoadDep(m) ==
    /\ HasNextDep(m) /\ ~termination
    /\ StartLoad(NextDep(m))

-----------------------------------------------------------------------------
(* A body ends.                                                            *)

\* module_link_complete has looked at the body's list.
Unlinked ==
    IF Top.phase # "linking" THEN pending_async_deps
    ELSE [pending_async_deps EXCEPT ![Top.module] = <<>>]

\* Fault: the importer is not told of an async dependency.
NotRecorded(m) == Unlinked

\* The importer whose body is below on the stack waits for an async module.
Recorded(m) ==
    LET parent == CurrentModule(Pop)
    IN  IF parent = None THEN Unlinked
        ELSE [Unlinked EXCEPT ![parent] = Append(@, m)]

\* Once the outermost load returns, the modules evaluated meanwhile have
\* their indirect exports validated.
Validated(state, queue) ==
    IF Depth > 1 THEN state
    ELSE [m \in Modules |->
            IF Contains(queue, m) /\ state[m] = "evaluated" /\ m \in graph.unresolved
              THEN "errored" ELSE state[m]]

LoadReturns(state, queue) ==
    /\ module_state' = Validated(state, queue)
    /\ pending_indirect_export_validation' = IF Depth > 1 THEN queue ELSE <<>>

\* The first activation of an async body ends or suspends: the load returns
\* its namespace.
AsyncLoadReturns(m) ==
    IF Top.first
      THEN /\ LoadReturns([module_state EXCEPT ![m] = "evaluating_async"],
                          pending_indirect_export_validation)
           /\ pending_async_deps' = Recorded(m)
      ELSE UNCHANGED <<module_state, pending_async_deps,
                       pending_indirect_export_validation>>

\* ok: the body completes; otherwise it throws.
BodyEnds(m, ok) ==
    /\ Leave
    /\ IF IsAsync(m)
         THEN /\ AsyncLoadReturns(m)
              /\ settlePromise(microtask_queue, Evaluation(m),
                               IF ok THEN "fulfilled" ELSE "rejected")
         ELSE /\ LoadReturns([module_state EXCEPT ![m] =
                                  IF ok THEN "evaluated" ELSE "errored"],
                             IF ok THEN Append(pending_indirect_export_validation, m)
                                   ELSE pending_indirect_export_validation)
              /\ pending_async_deps' = Unlinked
              /\ UNCHANGED <<promiseVars, microtask_queue>>
    /\ UNCHANGED <<graph, imports, importer, ready>>

\* An errored dependency, or the termination, ends the import block.
ImportThrows(m) ==
    /\ InPhase(m, "importing")
    /\ termination \/ (HasNextDep(m) /\ module_state[NextDep(m)] = "errored")
    /\ BodyEnds(m, FALSE)

-----------------------------------------------------------------------------
(* module_link_complete.                                                   *)

\* A module with imports drains the microtasks before its body.
LinkDrains(m) ==
    /\ InPhase(m, "importing") /\ ~termination
    /\ Deps(m) # <<>> /\ Top.next > Len(Deps(m))
    /\ stack' = Append(Append(Pop, [Top EXCEPT !.phase = "linking"]), Drain)
    /\ UNCHANGED <<promiseVars, microtask_queue, moduleVars>>

DepRejected(m) ==
    \E i \in DOMAIN pending_async_deps[m] :
        promise_state[Evaluation(pending_async_deps[m][i])] = "rejected"

\* One that rejected is thrown here.
LinkThrows(m) ==
    /\ InPhase(m, "linking") /\ DepRejected(m)
    /\ BodyEnds(m, FALSE)

\* The body proper begins.
EnterBody(m) ==
    /\ \/ InPhase(m, "linking") /\ ~DepRejected(m)
       \/ InPhase(m, "importing") /\ Deps(m) = <<>>
    /\ ~termination
    /\ Become([Top EXCEPT !.phase = "body"])
    /\ ready' = ready \cup {m}
    /\ pending_async_deps' = Unlinked
    /\ UNCHANGED <<promiseVars, microtask_queue, graph, module_state,
                   pending_indirect_export_validation, imports, importer>>

BodyCompletes(m) == InPhase(m, "body") /\ ~termination /\ BodyEnds(m, TRUE)

\* An uncaught throw, or the termination of the realm.
ModuleThrows(m) ==
    /\ InPhase(m, "body") \/ (InPhase(m, "linking") /\ termination /\ ~DepRejected(m))
    /\ BodyEnds(m, FALSE)

-----------------------------------------------------------------------------
(* Top-level await.                                                        *)

\* What a body may await: a host promise, or the import() it has asked for.
Awaitable == ({"host"} \X HostPromises) \cup ({"import"} \X DOMAIN imports)

ModuleAwaits(m, p) ==
    /\ InPhase(m, "body") /\ IsAsync(m) /\ ~termination /\ Spend("awaits")
    /\ p \in Awaitable
    /\ awaitPromise(m, p)
    /\ AsyncLoadReturns(m)
    /\ Leave
    /\ UNCHANGED <<graph, imports, importer, ready>>

\* An await that settled: go on, or throw at it, caught or not.
RunResumeModule ==
    /\ TakesTask("async_resume") /\ Taken.who \in Modules
    /\ \/ /\ Push(Activation(Taken.who, 1, "body", FALSE))
          /\ microtask_queue' = Rest
          /\ UNCHANGED promiseVars
       \/ /\ Taken.throws
          /\ settlePromise(Rest, Evaluation(Taken.who), "rejected")
          /\ UNCHANGED stack
    /\ UNCHANGED moduleVars

-----------------------------------------------------------------------------
(* import().                                                               *)

DynamicImport(m) ==
    /\ RunsJS /\ Spend("imports")
    /\ Len(imports) < MaxImports
    /\ imports' = Append(imports, m)
    /\ enqueue(ImportTask(m, Len(imports) + 1))
    /\ UNCHANGED <<promiseVars, stack, graph, module_state, pending_async_deps,
                   pending_indirect_export_validation, importer, ready>>

RunImportTask ==
    /\ TakesTask("module_import")
    /\ Push(ImportJob(Taken.module, Taken.import))
    /\ microtask_queue' = Rest
    /\ UNCHANGED <<promiseVars, moduleVars>>

ImportLoads ==
    TopIs("import") /\ StartLoad(Top.module)

\* The load returned: the promise is settled with it, or follows the
\* evaluation of an async module.
ImportSettles ==
    /\ TopIs("import")
    /\ module_state[Top.module] # "absent"
    /\ LET p == <<"import", Top.import>>
           e == Evaluation(Top.module)
       IN  IF module_state[Top.module] # "evaluating_async"
             THEN settlePromise(microtask_queue, p,
                      IF module_state[Top.module] = "errored" THEN "rejected"
                                                              ELSE "fulfilled")
           ELSE IF Settled(e)
             THEN /\ enqueue(ReactionTask(p, promise_state[e] = "rejected"))
                  /\ UNCHANGED promiseVars
           ELSE /\ reactions' = [reactions EXCEPT ![e] = Append(@, p)]
                /\ UNCHANGED <<promise_state, waiters, awaiting_return_completion,
                               microtask_queue>>
    /\ Leave
    /\ UNCHANGED moduleVars

\* The host's entry module, loaded once.
HostLoads(m) ==
    /\ stack = <<>> /\ ~termination /\ Spend("loads")
    /\ StartLoad(m)

ModuleSteps ==
    \/ \E m \in Modules :
         \/ ImportNext(m) \/ LoadDep(m) \/ ImportThrows(m)
         \/ LinkDrains(m) \/ LinkThrows(m) \/ EnterBody(m)
         \/ BodyCompletes(m) \/ ModuleThrows(m)
    \/ RunResumeModule \/ RunImportTask \/ ImportLoads \/ ImportSettles

ModuleInit ==
    /\ module_state = [m \in Modules |-> "absent"]
    /\ pending_async_deps = [m \in Modules |-> <<>>]
    /\ pending_indirect_export_validation = <<>>
    /\ imports = <<>>
    /\ importer = [m \in Modules |-> None]
    /\ ready = {}
=============================================================================
