---------------------------- MODULE EventLoopProofs ----------------------------
(***************************************************************************)
(* Proofs about the event loop, for every set of generators, modules and   *)
(* host promises, every module graph and any number of requests.           *)
(***************************************************************************)
EXTENDS EventLoop, FiniteSetTheorems, SequenceTheorems, WellFoundedInduction, TLAPS

-----------------------------------------------------------------------------
(* Stacks.                                                                 *)

IsSequence(s) == s \in Seq({s[i] : i \in DOMAIN s})

\* A sequence over any set is one over its own elements.
LEMMA SequenceOver ==
    ASSUME NEW S, NEW s \in Seq(S)
    PROVE  IsSequence(s)
<1>1. s \in [1 .. Len(s) -> S] /\ Len(s) \in Nat /\ DOMAIN s = 1 .. Len(s)
    BY LenProperties
<1>2. s \in [1 .. Len(s) -> {s[i] : i \in DOMAIN s}]
    BY <1>1
<1>3. \A R : s \in [1 .. Len(s) -> R] => s \in Seq(R)
    BY <1>1, SeqDef
<1>4. QED
    BY <1>2, <1>3, Zenon DEF IsSequence

LEMMA PushOnto ==
    ASSUME NEW s, IsSequence(s), NEW e
    PROVE  /\ IsSequence(Append(s, e))
           /\ Len(s) \in Nat /\ DOMAIN s = 1 .. Len(s)
           /\ DOMAIN Append(s, e) = 1 .. (Len(s) + 1)
           /\ \A i \in 1 .. Len(s) : Append(s, e)[i] = s[i]
           /\ Append(s, e)[Len(s) + 1] = e
<1> DEFINE S == {s[i] : i \in DOMAIN s} \cup {e}
<1>1. s \in Seq(S) /\ e \in S
  <2> DEFINE R == {s[i] : i \in DOMAIN s}
  <2>1. s \in Seq(R)
      BY DEF IsSequence
  <2>2. R \subseteq S
      OBVIOUS
  <2> HIDE DEF R
  <2>3. s \in Seq(S)
      BY <2>1, <2>2, SeqMonotonic
  <2>4. QED
      BY <2>3
<1> HIDE DEF S
<1>2. Append(s, e) \in Seq(S)
    BY <1>1, AppendProperties
<1>3. IsSequence(Append(s, e))
    BY <1>2, SequenceOver
<1>4. Len(s) \in Nat /\ DOMAIN s = 1 .. Len(s)
    BY <1>1, LenProperties
<1>5. /\ Len(Append(s, e)) = Len(s) + 1
      /\ \A i \in 1 .. Len(s) : Append(s, e)[i] = s[i]
      /\ Append(s, e)[Len(s) + 1] = e
    BY <1>1, AppendProperties
<1>6. DOMAIN Append(s, e) = 1 .. Len(Append(s, e))
    BY <1>2, LenProperties
<1>7. QED
    BY <1>3, <1>4, <1>5, <1>6

LEMMA PopFrom ==
    ASSUME NEW s, IsSequence(s), s # <<>>
    PROVE  /\ IsSequence(Front(s))
           /\ Len(s) \in Nat \ {0} /\ DOMAIN s = 1 .. Len(s)
           /\ Len(Front(s)) = Len(s) - 1
           /\ DOMAIN Front(s) = 1 .. (Len(s) - 1)
           /\ \A i \in 1 .. (Len(s) - 1) : Front(s)[i] = s[i]
<1> DEFINE S == {s[i] : i \in DOMAIN s}
<1>1. s \in Seq(S)
    BY DEF IsSequence
<1> HIDE DEF S
<1>2. Len(s) \in Nat \ {0} /\ DOMAIN s = 1 .. Len(s)
    BY <1>1, EmptySeq, LenProperties
<1>3. \A i \in 1 .. (Len(s) - 1) : s[i] \in S
    BY <1>1, <1>2, ElementOfSeq
<1>4. /\ Front(s) \in Seq(S)
      /\ Len(Front(s)) = Len(s) - 1
      /\ \A i \in 1 .. (Len(s) - 1) : Front(s)[i] = s[i]
  <2>1. /\ SubSeq(s, 1, Len(s) - 1) \in Seq(S)
        /\ Len(SubSeq(s, 1, Len(s) - 1)) =
               IF 1 <= Len(s) - 1 THEN Len(s) - 1 - 1 + 1 ELSE 0
        /\ \A i \in 1 .. Len(s) - 1 - 1 + 1 : SubSeq(s, 1, Len(s) - 1)[i] = s[1 + i - 1]
      BY <1>2, <1>3, SubSeqProperties
  <2>2. QED
      BY <1>2, <2>1 DEF Front
<1>5. QED
    BY <1>2, <1>4, LenProperties, SequenceOver

\* import() jobs have no first activation of a module under them.
WaitsOn(s) ==
    \A i \in DOMAIN s : s[i].kind = "import" =>
        \A j \in 1 .. i - 1 : s[j].kind # "module" \/ ~s[j].first

Formed(e) == e.kind = "resume_next" => e = ResumeNext(e.gen)

AllFormed(s) == \A i \in DOMAIN s : Formed(s[i])

\* Something in s is about to serve g.
ServedOn(s, g) == \E i \in DOMAIN s : s[i] = ResumeNext(g)

LEMMA PushKeeps ==
    ASSUME NEW s, IsSequence(s), NEW e
    PROVE  /\ IsSequence(Append(s, e))
           /\ WaitsOn(s) /\ e.kind # "import" => WaitsOn(Append(s, e))
           /\ AllFormed(s) /\ Formed(e) => AllFormed(Append(s, e))
           /\ \A g : ServedOn(Append(s, e), g) <=> ServedOn(s, g) \/ e = ResumeNext(g)
<1>1. /\ IsSequence(Append(s, e))
      /\ Len(s) \in Nat /\ DOMAIN s = 1 .. Len(s)
      /\ DOMAIN Append(s, e) = 1 .. (Len(s) + 1)
      /\ \A i \in 1 .. Len(s) : Append(s, e)[i] = s[i]
      /\ Append(s, e)[Len(s) + 1] = e
    BY PushOnto
<1>2. ASSUME WaitsOn(s), e.kind # "import" PROVE WaitsOn(Append(s, e))
    BY <1>1, <1>2 DEF WaitsOn
<1>3. ASSUME NEW g PROVE ServedOn(Append(s, e), g) <=> ServedOn(s, g) \/ e = ResumeNext(g)
    BY <1>1 DEF ServedOn
<1>4. ASSUME AllFormed(s), Formed(e) PROVE AllFormed(Append(s, e))
    BY <1>1, <1>4 DEF AllFormed
<1>5. QED
    BY <1>1, <1>2, <1>3, <1>4

LEMMA PopKeeps ==
    ASSUME NEW s, IsSequence(s), s # <<>>
    PROVE  /\ IsSequence(Front(s))
           /\ WaitsOn(s) => WaitsOn(Front(s))
           /\ AllFormed(s) => AllFormed(Front(s)) /\ Formed(Last(s))
           /\ \A g : ServedOn(s, g) <=> ServedOn(Front(s), g) \/ Last(s) = ResumeNext(g)
<1>1. /\ IsSequence(Front(s))
      /\ Len(s) \in Nat \ {0} /\ DOMAIN s = 1 .. Len(s)
      /\ DOMAIN Front(s) = 1 .. (Len(s) - 1)
      /\ \A i \in 1 .. (Len(s) - 1) : Front(s)[i] = s[i]
    BY PopFrom
<1>2. ASSUME WaitsOn(s) PROVE WaitsOn(Front(s))
    BY <1>1, <1>2 DEF WaitsOn
<1>3. ASSUME NEW g
      PROVE  ServedOn(s, g) <=> ServedOn(Front(s), g) \/ Last(s) = ResumeNext(g)
    BY <1>1 DEF ServedOn, Last
<1>4. ASSUME AllFormed(s) PROVE AllFormed(Front(s)) /\ Formed(Last(s))
    BY <1>1, <1>4 DEF AllFormed, Last
<1>5. QED
    BY <1>1, <1>2, <1>3, <1>4

-----------------------------------------------------------------------------
(* No request is stranded.                                                 *)

GenShape ==
    /\ DOMAIN gen = Gens
    /\ \A g \in Gens :
         /\ "async_state" \in DOMAIN gen[g]
         /\ gen[g].async_state \in {"suspended_start", "suspended_yield", "executing",
                                    "suspended_await", "completed"}

Unwatched(g) == gen[g].async_state \notin {"executing", "suspended_await"}

ServiceInv ==
    /\ IsSequence(stack) /\ AllFormed(stack)
    /\ GenShape
    /\ \A g \in Gens : Queued(g) /\ Unwatched(g) => ServedOn(stack, g)

\* A step that leaves the generators alone may take anything off the stack but
\* an activation that serves a queue.
LEMMA StackStep ==
    ASSUME ServiceInv, UNCHANGED gen, NEW e, Formed(e),
           \/ stack' = stack
           \/ stack' = Append(stack, e)
           \/ /\ stack # <<>> /\ Last(stack).kind # "resume_next"
              /\ stack' = Front(stack) \/ stack' = Append(Front(stack), e)
    PROVE  ServiceInv'
<1>1. /\ IsSequence(stack') /\ AllFormed(stack')
      /\ \A g \in Gens : ServedOn(stack, g) => ServedOn(stack', g)
  <2>1. CASE stack' = stack
      BY <2>1 DEF ServiceInv
  <2>2. CASE stack' = Append(stack, e)
      BY <2>2, PushKeeps DEF ServiceInv
  <2>3. CASE stack # <<>> /\ Last(stack).kind # "resume_next"
    <3>1. /\ IsSequence(Front(stack)) /\ AllFormed(Front(stack))
          /\ \A g : ServedOn(stack, g) <=> ServedOn(Front(stack), g) \/ Last(stack) = ResumeNext(g)
        BY <2>3, PopKeeps DEF ServiceInv
    <3>2. \A g : Last(stack) # ResumeNext(g)
        BY <2>3 DEF ResumeNext
    <3>3. \A g : ServedOn(stack, g) => ServedOn(Front(stack), g)
        BY <3>1, <3>2
    <3>4. /\ IsSequence(Append(Front(stack), e)) /\ AllFormed(Append(Front(stack), e))
          /\ \A g : ServedOn(Append(Front(stack), e), g)
                        <=> ServedOn(Front(stack), g) \/ e = ResumeNext(g)
        BY <3>1, PushKeeps
    <3>5. CASE stack' = Front(stack)
        BY <3>1, <3>3, <3>5
    <3>6. CASE stack' = Append(Front(stack), e)
        BY <3>3, <3>4, <3>6
    <3>7. CASE stack' = stack \/ stack' = Append(stack, e)
        BY <2>1, <2>2, <3>7
    <3>8. QED
        BY <3>5, <3>6, <3>7
  <2>4. QED
      BY <2>1, <2>2, <2>3
<1>2. QED
    BY <1>1 DEF ServiceInv, GenShape, Queued, Unwatched

\* A step of one generator may also take off what served it, if it leaves the
\* generator watched, or served again.
LEMMA GeneratorStep ==
    ASSUME ServiceInv, NEW g, NEW x, NEW e, Formed(e), NEW below,
           gen' = [gen EXCEPT ![g] = x],
           g \in Gens => /\ "async_state" \in DOMAIN x
                         /\ x.async_state \in {"suspended_start", "suspended_yield",
                                "executing", "suspended_await", "completed"},
           \/ below = stack
           \/ /\ stack # <<>> /\ below = Front(stack)
              /\ Last(stack).kind = "resume_next" => Last(stack).gen = g,
           stack' = below \/ stack' = Append(below, e),
           \/ g \in Gens => x.async_state \in {"executing", "suspended_await"}
           \/ stack' = Append(below, e) /\ e = ResumeNext(g)
    PROVE  ServiceInv'
<1>1. /\ IsSequence(below) /\ AllFormed(below)
      /\ \A h \in Gens \ {g} : ServedOn(stack, h) => ServedOn(below, h)
  <2>1. CASE below = stack
      BY <2>1 DEF ServiceInv
  <2>2. CASE /\ stack # <<>> /\ below = Front(stack)
             /\ Last(stack).kind = "resume_next" => Last(stack).gen = g
    <3>1. /\ IsSequence(below) /\ AllFormed(below)
          /\ \A h : ServedOn(stack, h) <=> ServedOn(below, h) \/ Last(stack) = ResumeNext(h)
        BY <2>2, PopKeeps DEF ServiceInv
    <3>2. \A h \in Gens \ {g} : Last(stack) # ResumeNext(h)
        BY <2>2 DEF ResumeNext
    <3>3. QED
        BY <3>1, <3>2
  <2>3. QED
      BY <2>1, <2>2
<1>2. /\ IsSequence(Append(below, e)) /\ AllFormed(Append(below, e))
      /\ \A h : ServedOn(Append(below, e), h) <=> ServedOn(below, h) \/ e = ResumeNext(h)
    BY <1>1, PushKeeps
<1>3. /\ IsSequence(stack') /\ AllFormed(stack')
      /\ \A h \in Gens \ {g} : ServedOn(stack, h) => ServedOn(stack', h)
      /\ stack' = Append(below, e) /\ e = ResumeNext(g) => ServedOn(stack', g)
    BY <1>1, <1>2
<1>4. /\ DOMAIN gen' = Gens
      /\ g \in Gens => gen'[g] = x
      /\ \A h \in Gens \ {g} : gen'[h] = gen[h]
    BY DEF ServiceInv, GenShape
<1>5. GenShape'
    BY <1>4 DEF ServiceInv, GenShape
<1>6. ASSUME NEW h \in Gens, Queued(h)', Unwatched(h)' PROVE ServedOn(stack', h)
  <2>1. CASE h = g
      BY <1>3, <1>4, <1>6, <2>1 DEF Unwatched
  <2>2. CASE h # g
      BY <1>3, <1>4, <1>6, <2>2 DEF Unwatched, Queued, ServiceInv
  <2>3. QED
      BY <2>1, <2>2
<1>7. QED
    BY <1>3, <1>5, <1>6 DEF ServiceInv

\* Complete serves the queue again when it has closed the generator.
LEMMA CompleteKeepsService ==
    ASSUME ServiceInv, NEW g, NEW q, NEW a, NEW below, Complete(g, q, a, below),
           \/ below = stack
           \/ /\ stack # <<>> /\ below = Front(stack)
              /\ Last(stack).kind = "resume_next" => Last(stack).gen = g
    PROVE  ServiceInv'
<1> DEFINE x == [NewGen EXCEPT !.state = "completed", !.async_state = "completed",
                               !.queue = Tail(gen[g].queue)]
<1>1. "async_state" \in DOMAIN x /\ x.async_state = "completed"
    BY DEF NewGen
<1>2. gen' = [gen EXCEPT ![g] = x] /\ stack' = Append(below, ResumeNext(g))
    BY DEF Complete
<1>3. Formed(ResumeNext(g))
    BY DEF Formed, ResumeNext
<1> HIDE DEF x
<1>4. QED
    BY <1>1, <1>2, <1>3, GeneratorStep

LEMMA ResumeKeepsService ==
    ASSUME ServiceInv, NEW g, NEW x, NEW d, NEW rc, NEW below, Resume(g, x, d, rc, below),
           g \in Gens => "async_state" \in DOMAIN x /\ x.async_state = "executing",
           \/ below = stack
           \/ /\ stack # <<>> /\ below = Front(stack)
              /\ Last(stack).kind = "resume_next" => Last(stack).gen = g
    PROVE  ServiceInv'
<1>1. gen' = [gen EXCEPT ![g] = x] /\ stack' = Append(below, Body(g, d, rc))
    BY DEF Resume
<1>2. Formed(Body(g, d, rc))
    BY DEF Formed, Body
<1>3. QED
    BY <1>1, <1>2, GeneratorStep

\* asyncGenDispatch kicks the queue of every generator nobody watches.
LEMMA DispatchKeepsService ==
    ASSUME ServiceInv, NEW g \in Gens, NEW k, asyncGenDispatch(g, k)
    PROVE  ServiceInv'
<1> DEFINE x == [gen[g] EXCEPT !.queue = Append(@, Len(request) + 1)]
<1>1. gen' = [gen EXCEPT ![g] = x]
    BY DEF asyncGenDispatch
<1>2. "async_state" \in DOMAIN x /\ x.async_state = gen[g].async_state
    BY DEF ServiceInv, GenShape
<1>3. Formed(ResumeNext(g))
    BY DEF Formed, ResumeNext
<1> HIDE DEF x
<1>4. CASE Kicks(g) /\ stack' = Append(stack, ResumeNext(g))
    BY <1>1, <1>2, <1>3, <1>4, GeneratorStep DEF Kicks
<1>5. CASE ~Kicks(g) /\ stack' = stack
  <2>1. gen[g].async_state \in {"executing", "suspended_await"}
      BY <1>5 DEF Kicks, ServiceInv, GenShape
  <2>2. QED
      BY <1>1, <1>2, <1>3, <1>5, <2>1, GeneratorStep
<1>6. QED
    BY <1>4, <1>5 DEF asyncGenDispatch

\* A body about to go on is watched.
LEMMA Watched ==
    ASSUME ServiceInv, NEW g \in Gens
    PROVE  /\ "async_state" \in DOMAIN Resumed(gen[g])
           /\ Resumed(gen[g]).async_state = "executing"
           /\ \A b : /\ "async_state" \in DOMAIN [Resumed(gen[g]) EXCEPT !.pending_return_completion = b]
                     /\ [Resumed(gen[g]) EXCEPT !.pending_return_completion = b].async_state = "executing"
           /\ \A u, b : /\ "async_state" \in DOMAIN [Resumed(gen[g]) EXCEPT !.unwinding = u, !.disturbed = b]
                        /\ [Resumed(gen[g]) EXCEPT !.unwinding = u, !.disturbed = b].async_state = "executing"
           /\ "async_state" \in DOMAIN Parked(g)
           /\ Parked(g).async_state = "suspended_await"
           /\ \A s : /\ "async_state" \in DOMAIN SuspendedAs(g, s)
                     /\ SuspendedAs(g, s).async_state = s
<1>1. "async_state" \in DOMAIN gen[g]
    BY DEF ServiceInv, GenShape
<1>2. QED
    BY <1>1 DEF Resumed, Parked, SuspendedAs

LEMMA ThrowKeepsService ==
    ASSUME ServiceInv, NEW g, NEW d, NEW below, ThrowLands(g, d, below),
           \/ below = stack
           \/ /\ stack # <<>> /\ below = Front(stack)
              /\ Last(stack).kind = "resume_next" => Last(stack).gen = g
    PROVE  ServiceInv'
<1>1. PICK u : Resume(g, [Resumed(gen[g]) EXCEPT
                            !.unwinding = u,
                            !.disturbed = @ \/ gen[g].unwinding = "return"],
                      d, FALSE, below)
    BY DEF ThrowLands
<1> DEFINE x == [Resumed(gen[g]) EXCEPT
                    !.unwinding = u,
                    !.disturbed = @ \/ gen[g].unwinding = "return"]
<1>2. g \in Gens => "async_state" \in DOMAIN x /\ x.async_state = "executing"
    BY Watched
<1> HIDE DEF x
<1>3. QED
    BY <1>1, <1>2, ResumeKeepsService DEF x

\* One iteration of asyncGeneratorResumeNext, or its return.
LEMMA DrainKeepsService ==
    ASSUME ServiceInv, NEW g \in Gens,
           \/ ResumeNextReturns(g)
           \/ ServeCompleted(g) \/ ServeReturn(g) \/ ServeNext(g) \/ ServeThrow(g)
    PROVE  ServiceInv'
<1>1. stack # <<>> /\ Last(stack).kind = "resume_next" /\ Last(stack).gen = g
    BY DEF ResumeNextReturns, ServeCompleted, ServeReturn, ServeNext, ServeThrow, Serves,
           Serving, TopIs, Top
<1>2. CASE ResumeNextReturns(g)
  <2>1. /\ stack' = Front(stack) /\ gen' = gen
        /\ ~(Queued(g) /\ Unwatched(g))
      BY <1>1, <1>2 DEF ResumeNextReturns, Serving, Leave, Pop, genVars, TopIs, Top, Unwatched
  <2>2. /\ IsSequence(Front(stack)) /\ AllFormed(Front(stack))
        /\ \A h : ServedOn(stack, h) <=> ServedOn(Front(stack), h) \/ Last(stack) = ResumeNext(h)
      BY <1>1, PopKeeps DEF ServiceInv
  <2>3. \A h \in Gens \ {g} : Last(stack) # ResumeNext(h)
      BY <1>1 DEF ResumeNext
  <2>4. ASSUME NEW h \in Gens, Queued(h)', Unwatched(h)' PROVE ServedOn(stack', h)
      BY <2>1, <2>2, <2>3, <2>4 DEF ServiceInv, Queued, Unwatched
  <2>5. QED
      BY <2>1, <2>2, <2>4 DEF ServiceInv, GenShape
<1>3. CASE ServeCompleted(g)
    BY <1>1, <1>3, CompleteKeepsService DEF ServeCompleted, Pop
<1>4. CASE ServeReturn(g)
  <2>1. /\ gen' = [gen EXCEPT ![g] = Parked(g)]
        /\ stack' = Append(Front(stack), AwaitReturn(g))
      BY <1>4 DEF ServeReturn, Become, Pop
  <2>2. Formed(AwaitReturn(g))
      BY DEF Formed, AwaitReturn
  <2>3. QED
      BY <1>1, <2>1, <2>2, Watched, GeneratorStep
<1>5. CASE ServeNext(g)
  <2> DEFINE x == [Resumed(gen[g]) EXCEPT !.pending_return_completion = FALSE]
  <2>1. Resume(g, x, "drain", RemembersReturn(g), Front(stack))
      BY <1>5 DEF ServeNext, Pop
  <2>2. "async_state" \in DOMAIN x /\ x.async_state = "executing"
      BY Watched
  <2> HIDE DEF x
  <2>3. QED
      BY <1>1, <2>1, <2>2, ResumeKeepsService
<1>6. CASE ServeThrow(g)
    BY <1>1, <1>6, CompleteKeepsService, ThrowKeepsService DEF ServeThrow, Pop
<1>7. QED
    BY <1>2, <1>3, <1>4, <1>5, <1>6

\* A body leaves the stack parked, or closed, or answered: in each case its
\* queue is watched or served.
LEMMA BodyKeepsService ==
    ASSUME ServiceInv, NEW g \in Gens,
           \/ \E rejected \in BOOLEAN : YieldToDrain(g, rejected) \/ YieldAfterAwait(g, rejected)
           \/ BodyReturns(g) \/ BodyThrows(g) \/ BodyRethrows(g)
           \/ GenAwaits(g)
    PROVE  ServiceInv'
<1>1. stack # <<>> /\ Last(stack).kind = "gen_body"
    BY DEF YieldToDrain, YieldAfterAwait, BodyReturns, BodyThrows, BodyRethrows, GenAwaits,
           BodyAwaitsSettled, BodyAwaitsPending, Runs, AtBody, TopIs, Top
<1>2. Formed(Drain) /\ Formed(ResumeNext(g))
    BY DEF Formed, Drain, ResumeNext
<1>3. ASSUME NEW rejected \in BOOLEAN, YieldToDrain(g, rejected) PROVE ServiceInv'
  <2> DEFINE x == [SuspendedAs(g, YieldParks(g)) EXCEPT
                      !.state = IF rejected THEN "completed" ELSE @,
                      !.queue = Popped(g)]
  <2>1. gen' = [gen EXCEPT ![g] = x] /\ stack' = Front(stack)
      BY <1>3 DEF YieldToDrain, Leave, Pop
  <2>2. "async_state" \in DOMAIN x /\ x.async_state = "suspended_await"
      BY Watched DEF YieldParks
  <2> HIDE DEF x
  <2>3. QED
      BY <1>1, <1>2, <2>1, <2>2, GeneratorStep
<1>4. ASSUME NEW rejected \in BOOLEAN, YieldAfterAwait(g, rejected) PROVE ServiceInv'
  <2>1. CASE Complete(g, microtask_queue, "reject", Pop)
      BY <1>1, <2>1, CompleteKeepsService DEF Pop
  <2> DEFINE x == [SuspendedAs(g, "suspended_yield") EXCEPT !.queue = Popped(g)]
  <2>2. CASE gen' = [gen EXCEPT ![g] = x] /\ Become(ResumeNext(g))
    <3>1. "async_state" \in DOMAIN x /\ x.async_state = "suspended_yield"
        BY Watched
    <3>2. stack' = Append(Front(stack), ResumeNext(g))
        BY <2>2 DEF Become, Pop
    <3> HIDE DEF x
    <3>3. QED
        BY <1>1, <1>2, <2>2, <3>1, <3>2, GeneratorStep
  <2>3. QED
      BY <1>4, <2>1, <2>2 DEF YieldAfterAwait
<1>5. ASSUME NEW q, NEW a, Complete(g, q, a, Pop) PROVE ServiceInv'
    BY <1>1, <1>5, CompleteKeepsService DEF Pop
<1>6. CASE GenAwaits(g)
  <2>1. gen' = [gen EXCEPT ![g] = Suspended(g)] /\ stack' = Front(stack)
      BY <1>6 DEF GenAwaits, BodyAwaitsSettled, BodyAwaitsPending, Leave, Pop
  <2>2. "async_state" \in DOMAIN Suspended(g) /\ Suspended(g).async_state = "suspended_await"
      BY Watched DEF Suspended
  <2>3. QED
      BY <1>1, <1>2, <2>1, <2>2, GeneratorStep
<1>7. QED
    BY <1>3, <1>4, <1>5, <1>6 DEF BodyReturns, BodyThrows, BodyRethrows

\* A task wakes a body, or serves the queue again.
LEMMA TaskKeepsService ==
    ASSUME ServiceInv, RunReturnTask \/ RunResumeGen \/ RunYieldTask
    PROVE  ServiceInv'
<1> DEFINE g == Taken.who
<1>1. CASE RunReturnTask
  <2> DEFINE x == [Resumed(gen[g]) EXCEPT !.unwinding = "return", !.disturbed = FALSE]
  <2>1. g \in Gens => "async_state" \in DOMAIN x /\ x.async_state = "executing"
      BY Watched
  <2>2. ASSUME ReturnLands(g, stack) PROVE ServiceInv'
    <3>1. Resume(g, x, "drain", TRUE, stack)
        BY <2>2 DEF ReturnLands
    <3> HIDE DEF x, g
    <3>2. QED
        BY <2>1, <3>1, ResumeKeepsService
  <2> HIDE DEF x
  <2>3. QED
      BY <1>1, <2>2, CompleteKeepsService, ThrowKeepsService DEF RunReturnTask
<1>2. CASE RunResumeGen
  <2>1. g \in Gens
      BY <1>2 DEF RunResumeGen
  <2>2. "async_state" \in DOMAIN Resumed(gen[g]) /\ Resumed(gen[g]).async_state = "executing"
      BY <2>1, Watched
  <2>3. QED
      BY <1>2, <2>2, CompleteKeepsService, ThrowKeepsService, ResumeKeepsService DEF RunResumeGen
<1>3. CASE RunYieldTask
  <2> DEFINE x == [gen[g] EXCEPT !.async_state = AfterYield(g)]
  <2>1. gen' = [gen EXCEPT ![g] = x] /\ stack' = Append(stack, ResumeNext(g))
      BY <1>3 DEF RunYieldTask, Push
  <2>2. g \in Gens => /\ "async_state" \in DOMAIN x
                      /\ x.async_state \in {"completed", "suspended_yield"}
      BY DEF AfterYield, ServiceInv, GenShape
  <2>3. Formed(ResumeNext(g))
      BY DEF Formed, ResumeNext
  <2> HIDE DEF x, g
  <2>4. QED
      BY <2>1, <2>2, <2>3, GeneratorStep
<1>4. QED
    BY <1>1, <1>2, <1>3

-----------------------------------------------------------------------------
\* The event loop, the modules and the host leave the generators alone, and
\* take off the stack nothing that serves a queue.
LEMMA OthersKeepService ==
    ASSUME ServiceInv, UNCHANGED gen,
           \/ DrainEnds \/ RunReaction \/ HostDrains \/ ClearTermination \/ Terminate
           \/ \E s \in {"fulfilled", "rejected"} : RunWasmJob(s)
           \/ \E h \in HostPromises : InstantiateWasm(h)
           \/ \E h \in HostPromises, s \in {"fulfilled", "rejected"} : SettleHost(h, s)
           \/ \E g \in Gens :
                \/ \E t \in BOOLEAN : AwaitReturnSettled(g, t)
                \/ \E h \in HostPromises : AwaitReturnPending(g, h)
    PROVE  ServiceInv'
<1>1. Formed(Drain)
    BY DEF Formed, Drain
<1>2. \/ stack' = stack
      \/ stack' = Append(stack, Drain)
      \/ /\ stack # <<>> /\ Last(stack).kind # "resume_next"
         /\ stack' = Front(stack)
    BY DEF DrainEnds, RunReaction, HostDrains, ClearTermination, Terminate, RunWasmJob,
           InstantiateWasm, SettleHost, AwaitReturnSettled, AwaitReturnPending, TopIs, Top,
           Leave, Push, Pop
<1>3. QED
    BY <1>1, <1>2, StackStep

LEMMA StartLoadPushes ==
    ASSUME NEW m, StartLoad(m)
    PROVE  \/ stack' = stack
           \/ stack' = Append(stack, Activation(m, 1, "importing", TRUE))
BY DEF StartLoad, Push

LEMMA ModulesKeepService ==
    ASSUME ServiceInv, UNCHANGED gen,
           \/ ModuleSteps
           \/ \E m \in Modules :
                DynamicImport(m) \/ HostLoads(m) \/ \E p \in Awaitable : ModuleAwaits(m, p)
    PROVE  ServiceInv'
<1>1. \A m, i, x, f : /\ Formed(ImportJob(m, i))
                      /\ Formed(Activation(m, i, x, f))
    BY DEF Formed, ImportJob, Activation
<1>2. ASSUME NEW m \in Modules, ImportNext(m) \/ EnterBody(m) PROVE ServiceInv'
  <2>1. stack # <<>> /\ Last(stack).kind = "module"
      BY <1>2 DEF ImportNext, HasNextDep, EnterBody, InPhase, AtModule, TopIs, Top
  <2>2. PICK e : Formed(e) /\ stack' = Append(Front(stack), e)
    <3>1. Formed([Last(stack) EXCEPT !.next = @ + 1])
        BY <2>1 DEF Formed
    <3>2. Formed([Last(stack) EXCEPT !.phase = "body"])
        BY <2>1 DEF Formed
    <3>3. QED
        BY <1>2, <3>1, <3>2 DEF ImportNext, EnterBody, Become, Top, Pop
  <2>3. QED
      BY <2>1, <2>2, StackStep
<1>3. ASSUME NEW m, StartLoad(m) PROVE ServiceInv'
    BY <1>1, <1>3, StartLoadPushes, StackStep
<1>4. ASSUME NEW m \in Modules,
             \/ ImportThrows(m) \/ LinkThrows(m) \/ BodyCompletes(m) \/ ModuleThrows(m)
             \/ \E p \in Awaitable : ModuleAwaits(m, p)
      PROVE  ServiceInv'
  <2>1. /\ stack # <<>> /\ Last(stack).kind = "module"
        /\ stack' = Front(stack)
      BY <1>4 DEF ImportThrows, LinkThrows, BodyCompletes, ModuleThrows, ModuleAwaits,
                  BodyEnds, Leave, Pop, InPhase, AtModule, TopIs, Top
  <2>2. QED
      BY <1>1, <2>1, StackStep
<1>5. ASSUME NEW m \in Modules, LinkDrains(m) PROVE ServiceInv'
  <2>1. stack # <<>> /\ Last(stack).kind = "module"
      BY <1>5 DEF LinkDrains, InPhase, AtModule, TopIs, Top
  <2> DEFINE e == [Last(stack) EXCEPT !.phase = "linking"]
             s == Append(Front(stack), e)
  <2>2. stack' = Append(s, Drain)
      BY <1>5 DEF LinkDrains, Top, Pop
  <2>3. Formed(e) /\ Formed(Drain)
      BY <2>1 DEF Formed, Drain
  <2> HIDE DEF e
  <2>4. /\ IsSequence(Front(stack)) /\ AllFormed(Front(stack))
        /\ \A g : ServedOn(stack, g) <=> ServedOn(Front(stack), g) \/ Last(stack) = ResumeNext(g)
      BY <2>1, PopKeeps DEF ServiceInv
  <2>5. /\ IsSequence(s) /\ AllFormed(s)
        /\ \A g : ServedOn(s, g) <=> ServedOn(Front(stack), g) \/ e = ResumeNext(g)
      BY <2>3, <2>4, PushKeeps
  <2> HIDE DEF s
  <2>6. /\ IsSequence(stack') /\ AllFormed(stack')
        /\ \A g : ServedOn(stack', g) <=> ServedOn(s, g) \/ Drain = ResumeNext(g)
      BY <2>2, <2>3, <2>5, PushKeeps
  <2>7. \A g : Last(stack) # ResumeNext(g)
      BY <2>1 DEF ResumeNext
  <2>8. QED
      BY <2>4, <2>5, <2>6, <2>7 DEF ServiceInv, GenShape, Queued, Unwatched
<1>6. ASSUME NEW m \in Modules, LoadDep(m) PROVE ServiceInv'
    BY <1>3, <1>6 DEF LoadDep
<1>7. CASE RunResumeModule \/ RunImportTask
  <2>1. \/ stack' = stack
        \/ \E e : Formed(e) /\ stack' = Append(stack, e)
      BY <1>1, <1>7 DEF RunResumeModule, RunImportTask, Push
  <2>2. QED
      BY <1>1, <2>1, StackStep
<1>8. CASE ImportLoads
    BY <1>3, <1>8 DEF ImportLoads
<1>9. CASE ImportSettles
  <2>1. stack # <<>> /\ Last(stack).kind = "import" /\ stack' = Front(stack)
      BY <1>9 DEF ImportSettles, TopIs, Top, Leave, Pop
  <2>2. QED
      BY <1>1, <2>1, StackStep
<1>10. ASSUME NEW m \in Modules, DynamicImport(m) PROVE ServiceInv'
    BY <1>1, <1>10, StackStep DEF DynamicImport
<1>11. ASSUME NEW m \in Modules, HostLoads(m) PROVE ServiceInv'
    BY <1>3, <1>11 DEF HostLoads
<1>12. QED
    BY <1>2, <1>4, <1>5, <1>6, <1>7, <1>8, <1>9, <1>10, <1>11 DEF ModuleSteps

-----------------------------------------------------------------------------
THEOREM ServiceInvariance == Spec => []ServiceInv
<1>1. Init => ServiceInv
  <2> SUFFICES ASSUME Init PROVE ServiceInv
      OBVIOUS
  <2>1. IsSequence(stack) /\ AllFormed(stack)
    <3>1. stack = <<>> /\ stack \in Seq({})
        BY EmptySeq DEF Init, LoopInit
    <3>2. IsSequence(stack)
        BY <3>1, SequenceOver
    <3>3. DOMAIN stack = {}
        BY <3>1, EmptySeq, LenProperties
    <3>4. QED
        BY <3>2, <3>3 DEF AllFormed
  <2>2. \A g \in Gens : gen[g] = NewGen
      BY DEF Init, GenInit
  <2>3. GenShape /\ \A g \in Gens : ~Queued(g)
      BY <2>2 DEF Init, GenInit, GenShape, NewGen, Queued
  <2>4. QED
      BY <2>1, <2>3 DEF ServiceInv
<1>2. ServiceInv /\ [Next]_vars => ServiceInv'
  <2> SUFFICES ASSUME ServiceInv, [Next]_vars
               PROVE  ServiceInv'
      OBVIOUS
  <2>1. CASE Proceed
    <3>1. ASSUME NEW g \in Gens, GenRunsOn(g), ~(UNCHANGED gen) PROVE ServiceInv'
        BY <3>1, DrainKeepsService, BodyKeepsService
        DEF GenRunsOn, AwaitReturnSettled, AwaitReturnPending, genVars
    <3>2. ASSUME NEW g \in Gens, GenRunsOn(g), UNCHANGED gen PROVE ServiceInv'
        BY <3>2, DrainKeepsService, BodyKeepsService, OthersKeepService DEF GenRunsOn
    <3>3. CASE GenSteps
        BY <3>1, <3>2, <3>3, TaskKeepsService DEF GenSteps
    <3>4. CASE ModuleSteps /\ UNCHANGED genVars
        BY <3>4, ModulesKeepService DEF genVars
    <3>5. CASE /\ UNCHANGED genVars
               /\ DrainEnds \/ RunReaction \/ \E s \in {"fulfilled", "rejected"} : RunWasmJob(s)
        BY <3>5, OthersKeepService DEF genVars
    <3>6. QED
        BY <2>1, <3>3, <3>4, <3>5 DEF Proceed
  <2>2. CASE Script
    <3>1. ASSUME NEW g \in Gens, NEW k, asyncGenDispatch(g, k) PROVE ServiceInv'
        BY <3>1, DispatchKeepsService
    <3>2. ASSUME NEW g \in Gens, GenAwaits(g) PROVE ServiceInv'
        BY <3>2, BodyKeepsService
    <3>3. CASE /\ UNCHANGED genVars
               /\ \E m \in Modules :
                    DynamicImport(m) \/ HostLoads(m) \/ \E p \in Awaitable : ModuleAwaits(m, p)
        BY <3>3, ModulesKeepService DEF genVars
    <3>4. CASE UNCHANGED genVars /\ \E h \in HostPromises : InstantiateWasm(h)
        BY <3>4, OthersKeepService DEF genVars
    <3>5. QED
        BY <2>2, <3>1, <3>2, <3>3, <3>4 DEF Script
  <2>3. CASE \E h \in HostPromises : HostSettles(h)
      BY <2>3, OthersKeepService DEF HostSettles, genVars
  <2>4. CASE HostGoesOn \/ (Terminate /\ UNCHANGED <<genVars, moduleVars>>)
      BY <2>4, OthersKeepService DEF HostGoesOn, genVars
  <2>5. CASE UNCHANGED vars
      BY <2>5 DEF vars, loopVars, genVars, ServiceInv, GenShape, Queued, Unwatched
  <2>6. QED
      BY <2>1, <2>2, <2>3, <2>4, <2>5 DEF Next
<1>3. QED
    BY <1>1, <1>2, PTL DEF Spec

\* However requests, awaits, yields and terminations of any generators and
\* modules interleave, a queue nobody watches has the drain coming.
THEOREM NoRequestStranded == Spec => []NoneStranded
<1>1. ServiceInv => NoneStranded
    BY DEF ServiceInv, NoneStranded, Unwatched, ServedOn
<1>2. QED
    BY <1>1, ServiceInvariance, PTL
=============================================================================
