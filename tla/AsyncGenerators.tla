---------------------------- MODULE AsyncGenerators ----------------------------
(***************************************************************************)
(* Async generators: the request queue each keeps, the drain that serves   *)
(* it, and the three ways a body is resumed.  A body is nondeterministic:  *)
(* at each safe point it awaits, yields, returns or throws, and whether a  *)
(* completion thrown into it lands in a handler is its choice.             *)
(*                                                                         *)
(* A `finally` that a completion lands in rethrows it when it ends.  The   *)
(* activation that drove a .return(v) recognises the rethrow by its value  *)
(* and turns it back into a return.                                        *)
(***************************************************************************)
EXTENDS Microtasks

VARIABLES
    gen,        \* the generators
    request     \* the requests, in the order they were made

genVars == <<gen, request>>

\* A body resumed by the drain of the queue, or by an await that settled.
Drivers == {"drain", "settle"}
Answers == {"yield", "done", "reject"}
Kinds == {"normal", "return", "throw"}

GenRecords ==
    [state : {"initial", "suspended", "executing", "completed"},
     async_state : {"suspended_start", "suspended_yield", "executing",
                    "suspended_await", "completed"},
     queue : Seq(Requests),
     pending_return_completion : BOOLEAN,
     unwinding : {"none", "return", "throw"},   \* what its finally rethrows
     disturbed : BOOLEAN]   \* history: a finally of a return awaited, or was
                            \* thrown into

NewGen ==
    [state |-> "initial", async_state |-> "suspended_start", queue |-> <<>>,
     pending_return_completion |-> FALSE, unwinding |-> "none",
     disturbed |-> FALSE]

HeadOf(g) == Head(gen[g].queue)
Queued(g) == gen[g].queue # <<>>

\* A body on the stack; return_completion is resumeGenerator's local that
\* remembers the value of a .return(v).
Body(g, driver, rc) ==
    [kind |-> "gen_body", gen |-> g, driver |-> driver, return_completion |-> rc]
ResumeNext(g) == [kind |-> "resume_next", gen |-> g]
AwaitReturn(g) == [kind |-> "await_return", gen |-> g]

-----------------------------------------------------------------------------
(* Requests.                                                               *)

\* Fault: a completed generator is not kicked.
KicksOpen(g) == gen[g].async_state \in {"suspended_start", "suspended_yield"}

Kicks(g) ==
    gen[g].async_state \in {"suspended_start", "suspended_yield", "completed"}

\* next, return and throw: enqueue, and serve the queue unless a body is
\* running or awaiting, which comes back to it.
asyncGenDispatch(g, k) ==
    /\ RunsJS /\ Len(request) < MaxRequests /\ Spend("requests")
    /\ request' = Append(request, [kind |-> k, gen |-> g, answer |-> "open"])
    /\ gen' = [gen EXCEPT ![g].queue = Append(@, Len(request) + 1)]
    /\ stack' = IF Kicks(g) THEN Append(stack, ResumeNext(g)) ELSE stack
    /\ UNCHANGED <<promiseVars, jobVars, termination>>

\* settleAsyncGenRequest and rejectAsyncGenRequest, on a queue of tasks q.
answer(q, r, a) ==
    /\ settlePromise(q, <<"request", r>>,
                     IF a = "reject" THEN "rejected" ELSE "fulfilled")
    /\ request' = IF Settled(<<"request", r>>) THEN request
                  ELSE [request EXCEPT ![r].answer = a]

\* Close the generator and answer its head request, then serve the rest.
Complete(g, q, a, below) ==
    /\ gen' = [gen EXCEPT ![g] =
                 [NewGen EXCEPT !.state = "completed", !.async_state = "completed",
                                !.queue = Tail(gen[g].queue)]]
    /\ answer(q, HeadOf(g), a)
    /\ stack' = Append(below, ResumeNext(g))

Resumed(x) == [x EXCEPT !.state = "executing", !.async_state = "executing"]

Resume(g, x, driver, rc, below) ==
    /\ gen' = [gen EXCEPT ![g] = x]
    /\ stack' = Append(below, Body(g, driver, rc))
    /\ UNCHANGED <<promiseVars, request>>

\* A throw lands in a catch or a finally, inside the finally already running
\* if there is one.
ThrowLands(g, driver, below) ==
    /\ ~termination
    /\ \E u \in IF gen[g].unwinding = "none" THEN {"none", "throw"}
                ELSE {gen[g].unwinding} :
         Resume(g, [Resumed(gen[g]) EXCEPT
                        !.unwinding = u,
                        !.disturbed = @ \/ gen[g].unwinding = "return"],
                driver, FALSE, below)

\* A return completion steps past catch clauses to a finally.
ReturnLands(g, below) ==
    Resume(g, [Resumed(gen[g]) EXCEPT !.unwinding = "return", !.disturbed = FALSE],
           "drain", TRUE, below)

-----------------------------------------------------------------------------
(* asyncGeneratorResumeNext: one iteration of the drain is one step.       *)

Serving(g) ==
    /\ TopIs("resume_next") /\ Top.gen = g
    /\ Queued(g) /\ gen[g].async_state \notin {"executing", "suspended_await"}

Serves(g, k) == Serving(g) /\ request[HeadOf(g)].kind = k
Completed(g) == gen[g].async_state = "completed"

ResumeNextReturns(g) ==
    /\ TopIs("resume_next") /\ Top.gen = g /\ ~Serving(g)
    /\ Leave
    /\ UNCHANGED <<promiseVars, microtask_queue, genVars>>

\* A completed generator answers at once, except a return.
ServeCompleted(g) ==
    /\ Completed(g)
    /\ \/ Serves(g, "normal") /\ Complete(g, microtask_queue, "done", Pop)
       \/ Serves(g, "throw") /\ Complete(g, microtask_queue, "reject", Pop)

\* Fault: the state is left alone until the value's await is set up.
ParkLate(g) == gen[g]

\* The generator is parked before the value is looked at, whose getters may
\* make more requests.
Parked(g) == [gen[g] EXCEPT !.async_state = "suspended_await"]

ServeReturn(g) ==
    /\ Serves(g, "return")
    /\ gen' = [gen EXCEPT ![g] = Parked(g)]
    /\ Become(AwaitReturn(g))
    /\ UNCHANGED <<promiseVars, microtask_queue, request>>

RemembersReturn(g) == gen[g].pending_return_completion

ServeNext(g) ==
    /\ Serves(g, "normal") /\ ~Completed(g)
    /\ Resume(g, [Resumed(gen[g]) EXCEPT !.pending_return_completion = FALSE],
              "drain", RemembersReturn(g), Pop)
    /\ UNCHANGED microtask_queue

\* Before the first resumption, and with no handler, a throw closes.
ServeThrow(g) ==
    /\ Serves(g, "throw") /\ ~Completed(g)
    /\ \/ Complete(g, microtask_queue, "reject", Pop)
       \/ /\ gen[g].state = "suspended"
          /\ ThrowLands(g, "drain", Pop)
          /\ UNCHANGED microtask_queue

-----------------------------------------------------------------------------
(* awaitForReturnCompletion.                                               *)

\* A bare value, a settled promise, or a getter that throws: a task carries
\* the outcome.
AwaitReturnSettled(g, t) ==
    /\ TopIs("await_return") /\ Top.gen = g
    /\ enqueue(ReturnTask(g, t))
    /\ Leave
    /\ UNCHANGED <<promiseVars, genVars>>

\* A pending promise, or the one a thenable resolves: the generator waits.
AwaitReturnPending(g, h) ==
    /\ TopIs("await_return") /\ Top.gen = g
    /\ ~Settled(<<"host", h>>)
    /\ waiters' = [waiters EXCEPT ![<<"host", h>>] = Append(@, g)]
    /\ awaiting_return_completion' = awaiting_return_completion \cup {g}
    /\ Leave
    /\ UNCHANGED <<promise_state, reactions, microtask_queue, genVars>>

\* The value is ready: close, or drive the body's finally with it.
RunReturnTask ==
    /\ TakesTask("async_gen_return_after_await")
    /\ LET g == Taken.who
       IN  \/ Complete(g, Rest, IF Taken.throws THEN "reject" ELSE "done", stack)
           \/ /\ gen[g].state = "suspended"
              /\ IF Taken.throws THEN ThrowLands(g, "drain", stack)
                                 ELSE ReturnLands(g, stack)
              /\ microtask_queue' = Rest

-----------------------------------------------------------------------------
(* A body at a safe point.                                                 *)

AtBody(g) == TopIs("gen_body") /\ Top.gen = g
Runs(g) == AtBody(g) /\ ~termination

\* Fault: the finally's yield forgets the return.
ForgetStash(g) == gen[g].pending_return_completion

\* resumeGenerator stashes the return it was driving.
StashReturn(g) == gen[g].pending_return_completion \/ Top.return_completion

SuspendedAs(g, s) ==
    [gen[g] EXCEPT !.state = "suspended", !.async_state = s,
                   !.pending_return_completion = StashReturn(g)]

Suspended(g) ==
    [SuspendedAs(g, "suspended_await") EXCEPT
        !.disturbed = @ \/ gen[g].unwinding = "return"]

\* A bare value, a settled promise, or a getter that throws.
BodyAwaitsSettled(g, t) ==
    /\ Runs(g) /\ Spend("awaits")
    /\ enqueue(ResumeTask(g, t))
    /\ gen' = [gen EXCEPT ![g] = Suspended(g)]
    /\ Leave
    /\ UNCHANGED <<promiseVars, request>>

BodyAwaitsPending(g, h) ==
    /\ Runs(g) /\ Spend("awaits")
    /\ ~Settled(<<"host", h>>)
    /\ awaitPromise(g, <<"host", h>>)
    /\ gen' = [gen EXCEPT ![g] = Suspended(g)]
    /\ Leave
    /\ UNCHANGED request

\* Fault: the request stays in the queue until it is answered.
Kept(g) == gen[g].queue

Popped(g) == Tail(gen[g].queue)

\* Fault: the next request may be served before the task has run.
StaysOpen(g) == "suspended_yield"

YieldParks(g) == "suspended_await"

\* The drain of the queue pops the request and settles it in a later task;
\* a rejected promise yielded by yield* closes the generator.
YieldToDrain(g, rejected) ==
    /\ Runs(g) /\ Top.driver = "drain"
    /\ enqueue(YieldTask(g, HeadOf(g), rejected))
    /\ gen' = [gen EXCEPT ![g] =
                 [SuspendedAs(g, YieldParks(g)) EXCEPT
                     !.state = IF rejected THEN "completed" ELSE @,
                     !.queue = Popped(g)]]
    /\ Leave
    /\ UNCHANGED <<promiseVars, request>>

\* After an await the request is settled in the same tick.
YieldAfterAwait(g, rejected) ==
    /\ Runs(g) /\ Top.driver = "settle"
    /\ IF rejected
         THEN Complete(g, microtask_queue, "reject", Pop)
         ELSE /\ gen' = [gen EXCEPT ![g] =
                            [SuspendedAs(g, "suspended_yield") EXCEPT
                                !.queue = Popped(g)]]
              /\ answer(microtask_queue, HeadOf(g), "yield")
              /\ Become(ResumeNext(g))

BodyReturns(g) ==
    Runs(g) /\ Complete(g, microtask_queue, "done", Pop)

\* An uncaught throw, or the termination of the realm.
BodyThrows(g) ==
    AtBody(g) /\ Complete(g, microtask_queue, "reject", Pop)

\* The finally ends: the completion it was entered with goes on.
BodyRethrows(g) ==
    /\ Runs(g) /\ gen[g].unwinding # "none"
    /\ Complete(g, microtask_queue,
                IF gen[g].unwinding = "return" /\ Top.return_completion
                  THEN "done" ELSE "reject",
                Pop)

-----------------------------------------------------------------------------
(* Tasks that wake a generator.                                            *)

\* An await settled: go on, or throw at the await.
RunResumeGen ==
    /\ TakesTask("async_resume") /\ Taken.who \in Gens
    /\ LET g == Taken.who
       IN  \/ /\ ~Taken.throws
              /\ Resume(g, Resumed(gen[g]), "settle", FALSE, stack)
              /\ microtask_queue' = Rest
           \/ /\ Taken.throws
              /\ ThrowLands(g, "settle", stack)
              /\ microtask_queue' = Rest
           \/ Taken.throws /\ Complete(g, Rest, "reject", stack)

\* Fault: a generator the rejection closed is left open.
StillOpen(g) == "suspended_yield"

AfterYield(g) ==
    IF gen[g].state = "completed" THEN "completed" ELSE "suspended_yield"

\* The second half of a yield: answer, and serve the queue again.
RunYieldTask ==
    /\ TakesTask("async_gen_yield")
    /\ LET g == Taken.who
       IN  /\ answer(Rest, Taken.request, IF Taken.reject THEN "reject" ELSE "yield")
           /\ gen' = [gen EXCEPT ![g].async_state = AfterYield(g)]
           /\ Push(ResumeNext(g))

GenRunsOn(g) ==
    \/ ResumeNextReturns(g)
    \/ ServeCompleted(g) \/ ServeReturn(g) \/ ServeNext(g) \/ ServeThrow(g)
    \/ \E t \in BOOLEAN : AwaitReturnSettled(g, t)
    \/ \E h \in HostPromises : AwaitReturnPending(g, h)
    \/ \E rejected \in BOOLEAN : YieldToDrain(g, rejected) \/ YieldAfterAwait(g, rejected)
    \/ BodyReturns(g) \/ BodyThrows(g) \/ BodyRethrows(g)

\* Steps of the generators, between which the thread does not leave them.
GenSteps ==
    \/ (\E g \in Gens : GenRunsOn(g)) \/ RunReturnTask \/ RunResumeGen \/ RunYieldTask

GenAwaits(g) ==
    \/ \E t \in BOOLEAN : BodyAwaitsSettled(g, t)
    \/ \E h \in HostPromises : BodyAwaitsPending(g, h)

GenInit ==
    /\ gen = [g \in Gens |-> NewGen]
    /\ request = <<>>
=============================================================================
