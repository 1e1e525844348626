---------------------------- MODULE EventLoopAnswers ----------------------------
(***************************************************************************)
(* Proofs about what the event loop owes: the requests made to async       *)
(* generators, the promises of import(), and the imports of a module       *)
(* before its body, for every set of generators, modules and host          *)
(* promises, every module graph and any number of requests.                *)
(***************************************************************************)
EXTENDS EventLoopProofs, EventLoopResumers

-----------------------------------------------------------------------------
(* The tasks of a queue, as a set.                                         *)

LEMMA Elements ==
    ASSUME NEW S
    PROVE  /\ \A q \in Seq(S) : ToSet(q) \subseteq S
           /\ \A q \in Seq(S), t \in S : ToSet(Append(q, t)) = ToSet(q) \cup {t}
           /\ \A q \in Seq(S) : \A k \in DOMAIN q :
                q[k] \in S /\ ToSet(q) = ToSet(RemoveAt(q, k)) \cup {q[k]}
           /\ \A q, r \in Seq(S) : ToSet(q \o r) = ToSet(q) \cup ToSet(r)
           /\ \A q \in Seq(S) : \A x : Contains(q, x) <=> x \in ToSet(q)
<1>1. ASSUME NEW q \in Seq(S)
      PROVE  /\ Len(q) \in Nat /\ DOMAIN q = 1 .. Len(q)
             /\ ToSet(q) \subseteq S
             /\ \A x : x \in ToSet(q) <=> \E i \in 1 .. Len(q) : q[i] = x
  <2>1. Len(q) \in Nat /\ DOMAIN q = 1 .. Len(q) /\ \A i \in 1 .. Len(q) : q[i] \in S
      BY LenProperties, ElementOfSeq
  <2>2. QED
      BY <2>1 DEF ToSet
<1>2. ASSUME NEW q \in Seq(S), NEW t \in S PROVE ToSet(Append(q, t)) = ToSet(q) \cup {t}
  <2>1. /\ Append(q, t) \in Seq(S) /\ Len(Append(q, t)) = Len(q) + 1
        /\ \A i \in 1 .. Len(q) : Append(q, t)[i] = q[i]
        /\ Append(q, t)[Len(q) + 1] = t
      BY AppendProperties
  <2> DEFINE u == Append(q, t)
  <2> HIDE DEF u
  <2>2. \A x : x \in ToSet(u) <=> \E i \in 1 .. (Len(q) + 1) : u[i] = x
    <3>1. u \in Seq(S) /\ Len(u) = Len(q) + 1
        BY <2>1 DEF u
    <3>2. QED
        BY <1>1, <3>1
  <2>3. \A i \in 1 .. (Len(q) + 1) : i \in 1 .. Len(q) \/ i = Len(q) + 1
      BY <1>1
  <2>4. \A i \in 1 .. Len(q) : i \in 1 .. (Len(q) + 1)
      BY <1>1
  <2>5. Len(q) + 1 \in 1 .. (Len(q) + 1)
      BY <1>1
  <2>6. /\ \A i \in 1 .. Len(q) : u[i] = q[i]
        /\ u[Len(q) + 1] = t
      BY <2>1 DEF u
  <2>7. \A x : x \in ToSet(u) <=> x \in ToSet(q) \/ x = t
      BY <1>1, <2>2, <2>3, <2>4, <2>5, <2>6
  <2>8. QED
      BY <2>7 DEF u
<1>3. ASSUME NEW q \in Seq(S), NEW k \in DOMAIN q
      PROVE  q[k] \in S /\ ToSet(q) = ToSet(RemoveAt(q, k)) \cup {q[k]}
  <2>1. /\ q[k] \in S
        /\ \A i \in DOMAIN RemoveAt(q, k) : \E j \in DOMAIN q : RemoveAt(q, k)[i] = q[j]
        /\ \A j \in DOMAIN q \ {k} : \E i \in DOMAIN RemoveAt(q, k) : RemoveAt(q, k)[i] = q[j]
      BY RemovePlaces
  <2>2. QED
      BY <2>1 DEF ToSet
<1>4. ASSUME NEW q \in Seq(S), NEW r \in Seq(S) PROVE ToSet(q \o r) = ToSet(q) \cup ToSet(r)
  <2>1. /\ q \o r \in Seq(S) /\ Len(q \o r) = Len(q) + Len(r)
        /\ \A i \in 1 .. Len(q) + Len(r) :
             (q \o r)[i] = IF i <= Len(q) THEN q[i] ELSE r[i - Len(q)]
      BY ConcatProperties
  <2> DEFINE u == q \o r
  <2>2. /\ u \in Seq(S) /\ Len(u) = Len(q) + Len(r)
        /\ \A i \in 1 .. Len(q) + Len(r) :
             u[i] = IF i <= Len(q) THEN q[i] ELSE r[i - Len(q)]
      BY <2>1
  <2> HIDE DEF u
  <2>3. \A x : x \in ToSet(u) <=> \E i \in 1 .. (Len(q) + Len(r)) : u[i] = x
      BY <1>1, <2>2
  <2>4. Len(q) \in Nat /\ Len(r) \in Nat
      BY <1>1
  <2>5. ASSUME NEW x PROVE x \in ToSet(u) <=> x \in ToSet(q) \/ x \in ToSet(r)
    <3>1. ASSUME NEW i \in 1 .. (Len(q) + Len(r)), u[i] = x
          PROVE  x \in ToSet(q) \/ x \in ToSet(r)
      <4>1. CASE i <= Len(q)
        <5>1. i \in 1 .. Len(q) /\ q[i] = x
            BY <2>2, <2>4, <3>1, <4>1
        <5>2. QED
            BY <1>1, <5>1
      <4>2. CASE ~(i <= Len(q))
        <5>1. i - Len(q) \in 1 .. Len(r) /\ r[i - Len(q)] = x
            BY <2>2, <2>4, <3>1, <4>2
        <5>2. QED
            BY <1>1, <5>1
      <4>3. QED
          BY <4>1, <4>2
    <3>2. ASSUME NEW i \in 1 .. Len(q), q[i] = x PROVE x \in ToSet(u)
      <4>1. i \in 1 .. (Len(q) + Len(r)) /\ u[i] = x
          BY <2>2, <2>4, <3>2
      <4>2. QED
          BY <2>3, <4>1
    <3>3. ASSUME NEW i \in 1 .. Len(r), r[i] = x PROVE x \in ToSet(u)
      <4>1. /\ i + Len(q) \in 1 .. (Len(q) + Len(r)) /\ ~(i + Len(q) <= Len(q))
            /\ (i + Len(q)) - Len(q) = i
          BY <2>4
      <4>2. u[i + Len(q)] = x
          BY <2>2, <3>3, <4>1
      <4>3. QED
          BY <2>3, <4>1, <4>2
    <3>4. QED
        BY <1>1, <2>3, <3>1, <3>2, <3>3
  <2>6. QED
      BY <2>5 DEF u
<1>5. ASSUME NEW q \in Seq(S), NEW x PROVE Contains(q, x) <=> x \in ToSet(q)
    BY <1>1 DEF Contains
<1>6. QED
    BY <1>1, <1>2, <1>3, <1>4, <1>5

\* settlePromiseInternal queues a task for each waiter and each reaction.
LEMMA SettleElements ==
    ASSUME PromisesTyped, NEW q \in Seq(Jobs), NEW p \in Promises,
           NEW s \in {"fulfilled", "rejected"}, settlePromise(q, p, s)
    PROVE  /\ Settled(p) => ToSet(microtask_queue') = ToSet(q) /\ UNCHANGED promiseVars
           /\ ~Settled(p) =>
                /\ ToSet(microtask_queue') =
                     ToSet(q) \cup {WakeTask(c, s = "rejected") : c \in ToSet(waiters[p])}
                              \cup {ReactionTask(r, s = "rejected") : r \in ToSet(reactions[p])}
                /\ promise_state' = [promise_state EXCEPT ![p] = s]
                /\ waiters' = [waiters EXCEPT ![p] = <<>>]
                /\ reactions' = [reactions EXCEPT ![p] = <<>>]
                /\ awaiting_return_completion' = awaiting_return_completion \ ToSet(waiters[p])
<1>1. CASE Settled(p)
    BY <1>1 DEF settlePromise
<1>2. CASE ~Settled(p)
  <2> DEFINE t == s = "rejected"
             W == waiters[p]
             R == reactions[p]
             a == [i \in DOMAIN W |-> WakeTask(W[i], t)]
             b == [i \in DOMAIN R |-> ReactionTask(R[i], t)]
  <2>1. /\ promise_state' = [promise_state EXCEPT ![p] = s]
        /\ waiters' = [waiters EXCEPT ![p] = <<>>]
        /\ reactions' = [reactions EXCEPT ![p] = <<>>]
        /\ awaiting_return_completion' = awaiting_return_completion \ ToSet(W)
        /\ microtask_queue' = q \o a \o b
      BY <1>2 DEF settlePromise
  <2>2. W \in Seq(Coroutines) /\ R \in Seq(ImportPromises) /\ t \in BOOLEAN
      BY DEF PromisesTyped
  <2>3. ToSet(a) = {WakeTask(c, t) : c \in ToSet(W)} /\ ToSet(b) = {ReactionTask(r, t) : r \in ToSet(R)}
      BY DEF ToSet
  <2>4. a \in Seq(Jobs) /\ b \in Seq(Jobs)
      BY <2>2, WokenTasks, ReactionTasks DEF PromisesTyped
  <2> HIDE DEF a, b
  <2>5. q \o a \in Seq(Jobs) /\ ToSet(q \o a) = ToSet(q) \cup ToSet(a)
      BY <2>4, Elements, ConcatPlaces
  <2>6. \A u \in Seq(Jobs) : ToSet(u \o b) = ToSet(u) \cup ToSet(b)
      BY <2>4, Elements
  <2>7. QED
      BY <1>2, <2>1, <2>3, <2>5, <2>6
<1>3. QED
    BY <1>1, <1>2
-----------------------------------------------------------------------------
(* Requests.                                                               *)

YieldsIn(q) == {t \in ToSet(q) : t.kind = "async_gen_yield"}

\* Unanswered, of a generator with queue Q over the tasks q.
UnansweredIn(q, Q, g) ==
    LET flight == {i \in DOMAIN q : q[i].kind = "async_gen_yield" /\ q[i].who = g}
    IN  IF flight = {} THEN Q
        ELSE <<q[CHOOSE i \in flight : TRUE].request>> \o Q

LEMMA UnansweredAt ==
    ASSUME NEW q \in Seq(Jobs), NEW w, NEW f, NEW s, NEW x, NEW g \in Gens,
           GenPlaced(q, w, f, s, x, g), NEW Q
    PROVE  /\ (\A t \in YieldsIn(q) : t.who # g) => UnansweredIn(q, Q, g) = Q
           /\ \A t \in YieldsIn(q) : t.who = g => UnansweredIn(q, Q, g) = <<t.request>> \o Q
<1> DEFINE flight == {i \in DOMAIN q : q[i].kind = "async_gen_yield" /\ q[i].who = g}
<1>1. UnansweredIn(q, Q, g) = IF flight = {} THEN Q
                              ELSE <<q[CHOOSE i \in flight : TRUE].request>> \o Q
    BY DEF UnansweredIn
<1>2. /\ \A i \in flight : q[i] \in YieldsIn(q) /\ q[i].who = g
      /\ \A t \in YieldsIn(q) : t.who = g => \E i \in flight : q[i] = t
    BY DEF YieldsIn, ToSet
<1>3. \A i \in flight : q[i] \in TasksOf(g)
  <2>1. \A i \in DOMAIN q : q[i] \in Jobs
      BY LenProperties, ElementOfSeq
  <2>2. QED
      BY <2>1, Owners
<1>4. \A i, j \in flight : q[i] = q[j]
  <2>1. NoTask(q, g) \/ \E t : OneTask(q, g, t)
      BY DEF GenPlaced, AtRest, OnStack, InQueue, OnList
  <2>2. QED
      BY <1>3, <2>1 DEF NoTask, OneTask, Nowhere, Once
<1> HIDE DEF flight
<1>5. (\A t \in YieldsIn(q) : t.who # g) => flight = {}
    BY <1>2
<1>6. ASSUME NEW t \in YieldsIn(q), t.who = g
      PROVE  flight # {} /\ q[CHOOSE i \in flight : TRUE] = t
    BY <1>2, <1>4, <1>6
<1>7. QED
    BY <1>1, <1>5, <1>6

LEMMA UnansweredIs ==
    /\ \A g \in Gens : Unanswered(g) = UnansweredIn(microtask_queue, gen[g].queue, g)
    /\ \A g \in Gens : Unanswered(g)' = UnansweredIn(microtask_queue', gen'[g].queue, g)
BY DEF Unanswered, UnansweredIn, InFlight

LEMMA UnansweredNow ==
    ASSUME ResumerInv, NEW g \in Gens
    PROVE  /\ (\A t \in YieldsIn(microtask_queue) : t.who # g) => Unanswered(g) = gen[g].queue
           /\ \A t \in YieldsIn(microtask_queue) : t.who = g =>
                Unanswered(g) = <<t.request>> \o gen[g].queue
<1>1. /\ microtask_queue \in Seq(Jobs)
      /\ GenPlaced(microtask_queue, waiters, awaiting_return_completion, stack, gen[g], g)
    BY DEF ResumerInv, LoopTyped, GensPlaced
<1>2. \A Q : /\ (\A t \in YieldsIn(microtask_queue) : t.who # g) => UnansweredIn(microtask_queue, Q, g) = Q
             /\ \A t \in YieldsIn(microtask_queue) : t.who = g =>
                  UnansweredIn(microtask_queue, Q, g) = <<t.request>> \o Q
    BY <1>1, UnansweredAt, SMTT(30)
<1>3. QED
    BY <1>2, UnansweredIs

LEMMA UnansweredNext ==
    ASSUME ResumerInv', NEW g \in Gens
    PROVE  /\ (\A t \in YieldsIn(microtask_queue') : t.who # g) => Unanswered(g)' = gen'[g].queue
           /\ \A t \in YieldsIn(microtask_queue') : t.who = g =>
                Unanswered(g)' = <<t.request>> \o gen'[g].queue
<1>1. /\ microtask_queue' \in Seq(Jobs)
      /\ GenPlaced(microtask_queue', waiters', awaiting_return_completion', stack', gen'[g], g)
    BY DEF ResumerInv, LoopTyped, GensPlaced
<1>2. \A q \in Seq(Jobs) : \A w, f, s, x : GenPlaced(q, w, f, s, x, g) =>
        \A Q : /\ (\A t \in YieldsIn(q) : t.who # g) => UnansweredIn(q, Q, g) = Q
               /\ \A t \in YieldsIn(q) : t.who = g => UnansweredIn(q, Q, g) = <<t.request>> \o Q
    BY UnansweredAt, SMTT(30)
<1>3. \A Q : /\ (\A t \in YieldsIn(microtask_queue') : t.who # g) => UnansweredIn(microtask_queue', Q, g) = Q
             /\ \A t \in YieldsIn(microtask_queue') : t.who = g =>
                  UnansweredIn(microtask_queue', Q, g) = <<t.request>> \o Q
    BY <1>1, <1>2, ZenonT(30)
<1>4. QED
    BY <1>3, UnansweredIs

\* The requests made, and what has become of them: a promise is settled only
\* when its request is answered, and a generator that has said it is done, or
\* rejected, is completed.
RequestsMade ==
    /\ Len(request) <= MaxRequests
    /\ \A r \in Requests : r > Len(request) => ~Settled(<<"request", r>>)
    /\ \A r \in DOMAIN request :
         request[r].answer \in {"done", "reject"} => gen[request[r].gen].state = "completed"

RequestInv == ResumerInv /\ RequestsMade /\ RequestsAccounted

\* What a step may do to the requests.
CompletedStay ==
    \A g \in Gens : gen[g].state = "completed" => gen'[g].state = "completed"

OthersWait(g) == \A h \in Gens \ {g} : Unanswered(h)' = Unanswered(h)

Same ==
    /\ \A g \in Gens : Unanswered(g)' = Unanswered(g)
    /\ request' = request /\ CompletedStay
    /\ \A r \in Requests : promise_state'[<<"request", r>>] = promise_state[<<"request", r>>]

Asks(g, k) ==
    /\ Len(request) < MaxRequests
    /\ request' = Append(request, [kind |-> k, gen |-> g, answer |-> "open"])
    /\ Unanswered(g)' = Append(Unanswered(g), Len(request) + 1) /\ OthersWait(g)
    /\ CompletedStay
    /\ \A r \in Requests : promise_state'[<<"request", r>>] = promise_state[<<"request", r>>]

IsAnswered(g, a) ==
    LET h == Head(Unanswered(g))
    IN  /\ Unanswered(g) # <<>> /\ Unanswered(g)' = Tail(Unanswered(g)) /\ OthersWait(g)
        /\ request' = [request EXCEPT ![h].answer = a] /\ CompletedStay
        /\ promise_state'[<<"request", h>>] # "pending"
        /\ \A r \in Requests \ {h} :
             promise_state'[<<"request", r>>] = promise_state[<<"request", r>>]
        /\ IF a = "yield" THEN gen[g].state # "completed" ELSE gen'[g].state = "completed"

RequestStep ==
    \/ Same
    \/ \E g \in Gens, k \in Kinds : Asks(g, k)
    \/ \E g \in Gens, a \in Answers : IsAnswered(g, a)

LEMMA RequestTypes ==
    ASSUME RequestInv
    PROVE  /\ request \in Seq(RequestRecords)
           /\ Len(request) \in Nat /\ DOMAIN request = 1 .. Len(request)
           /\ DOMAIN request \subseteq Requests
           /\ \A r \in DOMAIN request : request[r] \in RequestRecords
           /\ \A g \in Gens : Unanswered(g) \in Seq(DOMAIN request)
<1>1. /\ request \in Seq(RequestRecords)
      /\ Len(request) \in Nat /\ DOMAIN request = 1 .. Len(request)
      /\ \A r \in DOMAIN request : request[r] \in RequestRecords
    BY LenProperties, ElementOfSeq DEF RequestInv, ResumerInv, GenTyped
<1>2. DOMAIN request \subseteq Requests
    BY <1>1, BoundsAssumption DEF RequestInv, RequestsMade, Requests
<1>3. ASSUME NEW g \in Gens PROVE Unanswered(g) \in Seq(DOMAIN request)
  <2>1. microtask_queue \in Seq(Jobs) /\ gen[g].queue \in Seq(Requests) /\ GenPlace(g)
      BY GenTypes DEF RequestInv, ResumerInv, LoopTyped
  <2>2. \/ Unanswered(g) = gen[g].queue
        \/ \E t \in YieldsIn(microtask_queue) : Unanswered(g) = <<t.request>> \o gen[g].queue
      BY UnansweredNow DEF RequestInv
  <2>3. \A t \in YieldsIn(microtask_queue) : t.request \in Requests
      BY <2>1, Elements, JobFields DEF YieldsIn
  <2>4. Unanswered(g) \in Seq(Requests)
    <3>1. \A r \in Requests : <<r>> \in Seq(Requests)
        OBVIOUS
    <3>2. \A r \in Requests : <<r>> \o gen[g].queue \in Seq(Requests)
        BY <2>1, <3>1, ConcatProperties
    <3>3. QED
        BY <2>1, <2>2, <2>3, <3>2
  <2>5. ToSet(Unanswered(g)) \subseteq DOMAIN request
      BY DEF RequestInv, RequestsAccounted
  <2> DEFINE u == Unanswered(g)
  <2>6. u \in Seq(Requests) /\ ToSet(u) \subseteq DOMAIN request
      BY <2>4, <2>5
  <2> HIDE DEF u
  <2>7. Len(u) \in Nat /\ u \in [1 .. Len(u) -> DOMAIN request]
      BY <2>6, LenProperties DEF ToSet
  <2>8. u \in Seq(DOMAIN request)
      BY <2>7, SeqDef
  <2>9. QED
      BY <2>8 DEF u
<1>4. QED
    BY <1>1, <1>2, <1>3
Increasing(u) == \A i, j \in DOMAIN u : i < j => u[i] < u[j]

LEMMA IncreasingAppend ==
    ASSUME NEW n \in Nat, NEW u \in Seq(1 .. n), Increasing(u)
    PROVE  Increasing(Append(u, n + 1))
<1> DEFINE v == Append(u, n + 1)
<1>1. u \in Seq(Nat) /\ Len(u) \in Nat /\ DOMAIN u = 1 .. Len(u) /\ \A i \in 1 .. Len(u) : u[i] \in 1 .. n
  <2>1. 1 .. n \subseteq Nat
      OBVIOUS
  <2>2. QED
      BY <2>1, SeqMonotonic, LenProperties, ElementOfSeq
<1>2. /\ v \in Seq(Nat) /\ Len(v) = Len(u) + 1
      /\ \A i \in 1 .. Len(u) : v[i] = u[i]
      /\ v[Len(u) + 1] = n + 1
    BY <1>1, AppendProperties
<1> HIDE DEF v
<1>3. DOMAIN v = 1 .. (Len(u) + 1)
    BY <1>2, LenProperties
<1>4. ASSUME NEW i \in DOMAIN v, NEW j \in DOMAIN v, i < j PROVE v[i] < v[j]
  <2>1. i \in 1 .. Len(u)
      BY <1>1, <1>3, <1>4
  <2>2. CASE j = Len(u) + 1
      BY <1>1, <1>2, <2>1, <2>2
  <2>3. CASE j # Len(u) + 1
    <3>1. j \in 1 .. Len(u)
        BY <1>1, <1>3, <2>3
    <3>2. QED
        BY <1>1, <1>2, <1>4, <2>1, <3>1 DEF Increasing
  <2>4. QED
      BY <2>2, <2>3
<1>5. QED
    BY <1>4 DEF Increasing, v

LEMMA IncreasingTail ==
    ASSUME NEW u \in Seq(Nat), u # <<>>, Increasing(u)
    PROVE  /\ Increasing(Tail(u)) /\ Head(u) \in ToSet(u)
           /\ ToSet(Tail(u)) = ToSet(u) \ {Head(u)}
<1> DEFINE v == Tail(u)
<1>1. /\ Len(u) \in Nat \ {0} /\ DOMAIN u = 1 .. Len(u) /\ \A i \in 1 .. Len(u) : u[i] \in Nat
      /\ Head(u) = u[1]
    BY LenProperties, ElementOfSeq, EmptySeq, HeadTailProperties
<1>2. /\ v \in Seq(Nat) /\ Len(v) = Len(u) - 1
      /\ \A i \in 1 .. Len(v) : v[i] = u[i + 1]
    BY HeadTailProperties
<1> HIDE DEF v
<1>3. DOMAIN v = 1 .. (Len(u) - 1) /\ \A i \in 1 .. (Len(u) - 1) : v[i] = u[i + 1] /\ i + 1 \in DOMAIN u
    BY <1>1, <1>2, LenProperties
<1>4. Increasing(v)
  <2>1. ASSUME NEW i \in DOMAIN v, NEW j \in DOMAIN v, i < j PROVE v[i] < v[j]
    <3>1. i + 1 < j + 1 /\ i + 1 \in DOMAIN u /\ j + 1 \in DOMAIN u
        BY SMTT(30), <1>1, <1>3, <2>1
    <3>2. QED
        BY <1>3, <3>1 DEF Increasing
  <2>2. QED
      BY <2>1 DEF Increasing
<1>5. Head(u) \in ToSet(u)
    BY <1>1 DEF ToSet
<1>6. ASSUME NEW i \in DOMAIN v PROVE v[i] \in ToSet(u) /\ v[i] # Head(u)
  <2>1. 1 < i + 1 /\ 1 \in DOMAIN u /\ i + 1 \in DOMAIN u /\ u[1] \in Nat /\ u[i + 1] \in Nat
      BY <1>1, <1>3
  <2>2. u[1] < u[i + 1]
      BY <2>1 DEF Increasing
  <2>3. QED
      BY <1>1, <1>3, <2>1, <2>2 DEF ToSet
<1>7. ASSUME NEW i \in DOMAIN u, u[i] # Head(u) PROVE u[i] \in ToSet(v)
  <2>1. i - 1 \in 1 .. (Len(u) - 1) /\ (i - 1) + 1 = i
      BY <1>1, <1>7
  <2>2. v[i - 1] = u[i]
      BY <1>3, <2>1
  <2>3. QED
      BY <1>3, <2>1, <2>2 DEF ToSet
<1>8. ToSet(v) = ToSet(u) \ {Head(u)}
  <2>1. ToSet(v) \subseteq ToSet(u) \ {Head(u)}
      BY <1>6 DEF ToSet
  <2>2. ToSet(u) \ {Head(u)} \subseteq ToSet(v)
    <3>1. ASSUME NEW r \in ToSet(u), r # Head(u) PROVE r \in ToSet(v)
      <4>1. PICK i \in DOMAIN u : u[i] = r
          BY DEF ToSet
      <4>2. QED
          BY <1>7, <3>1, <4>1
    <3>2. QED
        BY <3>1
  <2>3. QED
      BY <2>1, <2>2
<1>9. QED
    BY <1>4, <1>5, <1>8 DEF v

\* The account of one generator.
Accounted(u, R, g) ==
    /\ Increasing(u)
    /\ ToSet(u) = {r \in DOMAIN R : R[r].gen = g /\ R[r].answer = "open"}

LEMMA AccountedFor ==
    /\ RequestsAccounted <=>
         \A g \in Gens : /\ Accounted(Unanswered(g), request, g)
                         /\ \A r \in DOMAIN request :
                              (request[r].answer = "open") = ~Settled(<<"request", r>>)
    /\ RequestsAccounted' <=>
         \A g \in Gens : /\ Accounted(Unanswered(g)', request', g)
                         /\ \A r \in DOMAIN request' :
                              (request'[r].answer = "open") = (promise_state'[<<"request", r>>] = "pending")
<1>1. RequestsAccounted <=>
         \A g \in Gens : /\ Accounted(Unanswered(g), request, g)
                         /\ \A r \in DOMAIN request :
                              (request[r].answer = "open") = ~Settled(<<"request", r>>)
    BY DEF RequestsAccounted, Accounted, Increasing
<1>2. RequestsAccounted' <=>
         \A g \in Gens : /\ Accounted(Unanswered(g)', request', g)
                         /\ \A r \in DOMAIN request' :
                              (request'[r].answer = "open") = (promise_state'[<<"request", r>>] = "pending")
    BY DEF RequestsAccounted, Accounted, Increasing, Settled
<1>3. QED
    BY <1>1, <1>2
LEMMA RequestStepKeeps ==
    ASSUME RequestInv, ResumerInv', RequestStep
    PROVE  RequestInv'
<1>1. /\ request \in Seq(RequestRecords)
      /\ Len(request) \in Nat /\ DOMAIN request = 1 .. Len(request)
      /\ DOMAIN request \subseteq Requests /\ Len(request) <= MaxRequests
      /\ \A r \in DOMAIN request : request[r] \in RequestRecords
      /\ \A g \in Gens : Unanswered(g) \in Seq(DOMAIN request)
      /\ \A g \in Gens : Accounted(Unanswered(g), request, g)
      /\ \A r \in Requests : r > Len(request) => promise_state[<<"request", r>>] = "pending"
    BY RequestTypes, AccountedFor DEF RequestInv, RequestsMade, Settled
<1>2. ASSUME NEW r \in DOMAIN request, Gens # {}
      PROVE  (request[r].answer = "open") = (promise_state[<<"request", r>>] = "pending")
    BY <1>2, AccountedFor DEF RequestInv, Settled
<1>3. ASSUME NEW r \in DOMAIN request
      PROVE  /\ request[r].gen \in Gens /\ request[r].answer \in Answers \cup {"open"}
             /\ request[r].answer \in {"done", "reject"} => gen[request[r].gen].state = "completed"
    BY <1>1, <1>3 DEF RequestRecords, RequestInv, RequestsMade
<1>4. SUFFICES /\ Len(request') <= MaxRequests
               /\ \A r \in Requests : r > Len(request') => promise_state'[<<"request", r>>] = "pending"
               /\ \A r \in DOMAIN request' : request'[r].answer \in {"done", "reject"} =>
                    gen'[request'[r].gen].state = "completed"
               /\ \A g \in Gens : Accounted(Unanswered(g)', request', g)
               /\ \A r \in DOMAIN request' : Gens # {} =>
                    (request'[r].answer = "open") = (promise_state'[<<"request", r>>] = "pending")
  <2>1. RequestsMade'
      BY DEF RequestsMade, Settled
  <2>2. RequestsAccounted'
      BY AccountedFor
  <2>3. QED
      BY <2>1, <2>2 DEF RequestInv
<1>5. CASE Same
    BY SMTT(30), <1>1, <1>2, <1>3, <1>5 DEF Same, CompletedStay
<1>6. ASSUME NEW g \in Gens, NEW k \in Kinds, Asks(g, k)
      PROVE  /\ Len(request') <= MaxRequests
             /\ \A r \in Requests : r > Len(request') => promise_state'[<<"request", r>>] = "pending"
             /\ \A r \in DOMAIN request' : request'[r].answer \in {"done", "reject"} =>
                  gen'[request'[r].gen].state = "completed"
             /\ \A h \in Gens : Accounted(Unanswered(h)', request', h)
             /\ \A r \in DOMAIN request' : Gens # {} =>
                  (request'[r].answer = "open") = (promise_state'[<<"request", r>>] = "pending")
  <2> DEFINE e == [kind |-> k, gen |-> g, answer |-> "open"]
             n == Len(request) + 1
             R == request'
  <2>1. /\ R = Append(request, e) /\ Len(request) < MaxRequests
        /\ e \in RequestRecords /\ e.gen = g /\ e.answer = "open"
      BY <1>6 DEF Asks, RequestRecords
  <2> HIDE DEF e
  <2>2. /\ R \in Seq(RequestRecords) /\ Len(R) = n /\ DOMAIN R = 1 .. n
        /\ \A r \in DOMAIN request : R[r] = request[r]
        /\ R[n] = e
    <3>1. /\ Append(request, e) \in Seq(RequestRecords) /\ Len(Append(request, e)) = n
          /\ \A r \in DOMAIN request : Append(request, e)[r] = request[r]
          /\ Append(request, e)[n] = e
        BY <1>1, <2>1, AppendProperties
    <3>2. DOMAIN Append(request, e) = 1 .. n
        BY <3>1, LenProperties
    <3>3. QED
        BY <2>1, <3>1, <3>2
  <2>3. n \in Requests /\ n > Len(request)
      BY <1>1, <2>1, BoundsAssumption DEF Requests
  <2>4. \A r \in 1 .. n : r \in DOMAIN request \/ r = n
      BY <1>1
  <2>5. n \notin DOMAIN request /\ DOMAIN request \subseteq 1 .. n /\ n \in 1 .. n
      BY <1>1
  <2>6. /\ \A r \in Requests : promise_state'[<<"request", r>>] = promise_state[<<"request", r>>]
        /\ Unanswered(g)' = Append(Unanswered(g), n)
        /\ \A h \in Gens \ {g} : Unanswered(h)' = Unanswered(h)
        /\ \A h \in Gens : gen[h].state = "completed" => gen'[h].state = "completed"
      BY <1>6 DEF Asks, OthersWait, CompletedStay
  <2>7. Len(R) <= MaxRequests /\ \A r \in Requests : r > Len(R) => promise_state'[<<"request", r>>] = "pending"
    <3>1. \A r \in Requests : r > n => r > Len(request)
        BY <1>1 DEF Requests
    <3>2. n <= MaxRequests
        BY <2>3, BoundsAssumption DEF Requests
    <3>3. QED
        BY <1>1, <2>2, <2>6, <3>1, <3>2
  <2>8. \A r \in DOMAIN R : R[r].answer \in {"done", "reject"} => gen'[R[r].gen].state = "completed"
    <3>1. ASSUME NEW r \in DOMAIN request, R[r].answer \in {"done", "reject"}
          PROVE  gen'[R[r].gen].state = "completed"
      <4>1. R[r] = request[r] /\ request[r].gen \in Gens
          BY <1>3, <2>2
      <4>2. gen[request[r].gen].state = "completed"
          BY <1>3, <3>1, <4>1
      <4>3. QED
          BY <2>6, <4>1, <4>2
    <3>2. ASSUME NEW r \in DOMAIN R, R[r].answer \in {"done", "reject"} PROVE r \in DOMAIN request
        BY <2>1, <2>2, <2>4, <3>2
    <3>3. QED
        BY <3>1, <3>2
  <2>9. \A r \in DOMAIN R : Gens # {} =>
            (R[r].answer = "open") = (promise_state'[<<"request", r>>] = "pending")
    <3>1. ASSUME NEW r \in DOMAIN R, Gens # {}
          PROVE  R[r].answer = "open" <=> promise_state'[<<"request", r>>] = "pending"
      <4>1. CASE r = n
          BY <1>1, <2>1, <2>2, <2>3, <2>6, <4>1
      <4>2. CASE r # n
        <5>1. r \in DOMAIN request /\ r \in Requests /\ R[r] = request[r]
            BY <1>1, <2>2, <2>4, <4>2
        <5>2. promise_state'[<<"request", r>>] = promise_state[<<"request", r>>]
            BY <2>6, <5>1
        <5>3. request[r].answer = "open" <=> promise_state[<<"request", r>>] = "pending"
            BY <1>2, <3>1, <5>1
        <5>4. QED
            BY <5>1, <5>2, <5>3
      <4>3. QED
          BY <4>1, <4>2
    <3>2. QED
        BY <3>1
  <2> DEFINE u == Unanswered(g)
  <2>10. Accounted(Append(u, n), R, g)
    <3>1. u \in Seq(1 .. Len(request)) /\ Increasing(u)
          /\ ToSet(u) = {r \in DOMAIN request : request[r].gen = g /\ request[r].answer = "open"}
        BY <1>1 DEF Accounted
    <3> HIDE DEF u
    <3>2. Increasing(Append(u, n))
        BY <1>1, <3>1, IncreasingAppend
    <3>3. ToSet(Append(u, n)) = ToSet(u) \cup {n}
      <4>1. u \in Seq(Requests)
          BY <1>1, <3>1, SeqMonotonic
      <4>2. QED
          BY <2>3, <4>1, Elements
    <3>4. {r \in DOMAIN R : R[r].gen = g /\ R[r].answer = "open"} =
             {r \in DOMAIN request : request[r].gen = g /\ request[r].answer = "open"} \cup {n}
        BY <2>1, <2>2, <2>4, <2>5
    <3>5. QED
        BY <3>1, <3>2, <3>3, <3>4 DEF Accounted
  <2>11. ASSUME NEW h \in Gens \ {g} PROVE Accounted(Unanswered(h), R, h)
    <3>1. {r \in DOMAIN R : R[r].gen = h /\ R[r].answer = "open"} =
             {r \in DOMAIN request : request[r].gen = h /\ request[r].answer = "open"}
        BY <2>1, <2>2, <2>4, <2>5
    <3>2. QED
        BY <1>1, <3>1 DEF Accounted
  <2>12. \A h \in Gens : Accounted(Unanswered(h)', R, h)
    <3>1. ASSUME NEW h \in Gens PROVE Accounted(Unanswered(h)', R, h)
      <4>1. CASE h = g
          BY <2>6, <2>10, <4>1
      <4>2. CASE h # g
          BY <2>6, <2>11, <4>2
      <4>3. QED
          BY <4>1, <4>2
    <3>2. QED
        BY <3>1
  <2>13. QED
      BY <2>7, <2>8, <2>9, <2>12
<1>7. ASSUME NEW g \in Gens, NEW a \in Answers, IsAnswered(g, a)
      PROVE  /\ Len(request') <= MaxRequests
             /\ \A r \in Requests : r > Len(request') => promise_state'[<<"request", r>>] = "pending"
             /\ \A r \in DOMAIN request' : request'[r].answer \in {"done", "reject"} =>
                  gen'[request'[r].gen].state = "completed"
             /\ \A h \in Gens : Accounted(Unanswered(h)', request', h)
             /\ \A r \in DOMAIN request' : Gens # {} =>
                  (request'[r].answer = "open") = (promise_state'[<<"request", r>>] = "pending")
  <2> DEFINE u == Unanswered(g)
             n == Head(u)
             R == request'
  <2>1. /\ u # <<>> /\ Unanswered(g)' = Tail(u)
        /\ \A h \in Gens \ {g} : Unanswered(h)' = Unanswered(h)
        /\ R = [request EXCEPT ![n].answer = a]
        /\ \A h \in Gens : gen[h].state = "completed" => gen'[h].state = "completed"
        /\ promise_state'[<<"request", n>>] # "pending"
        /\ \A r \in Requests \ {n} : promise_state'[<<"request", r>>] = promise_state[<<"request", r>>]
        /\ a \in {"done", "reject"} => gen'[g].state = "completed"
      BY <1>7 DEF IsAnswered, OthersWait, CompletedStay
  <2>2. /\ u \in Seq(DOMAIN request) /\ Increasing(u)
        /\ ToSet(u) = {r \in DOMAIN request : request[r].gen = g /\ request[r].answer = "open"}
      BY <1>1 DEF Accounted
  <2> HIDE DEF u
  <2>3. /\ Increasing(Tail(u)) /\ n \in ToSet(u)
        /\ ToSet(Tail(u)) = ToSet(u) \ {n}
    <3>1. DOMAIN request \subseteq Nat
        BY <1>1
    <3>2. u \in Seq(Nat)
        BY <2>2, <3>1, SeqMonotonic
    <3>3. QED
        BY <2>1, <2>2, <3>2, IncreasingTail
  <2>4. n \in DOMAIN request /\ request[n].gen = g /\ request[n].answer = "open"
      BY <2>2, <2>3
  <2> HIDE DEF n
  <2>5. /\ DOMAIN R = DOMAIN request /\ R[n].gen = g /\ R[n].answer = a
        /\ \A r \in DOMAIN request \ {n} : R[r] = request[r]
        /\ Len(R) = Len(request)
    <3>1. /\ DOMAIN [request EXCEPT ![n].answer = a] = DOMAIN request
          /\ [request EXCEPT ![n].answer = a][n] = [request[n] EXCEPT !.answer = a]
          /\ \A r \in DOMAIN request \ {n} : [request EXCEPT ![n].answer = a][r] = request[r]
        BY <1>1, <2>4
    <3>2. request[n] \in RequestRecords
        BY <1>1, <2>4
    <3>3. [request[n] EXCEPT !.answer = a].gen = request[n].gen /\ [request[n] EXCEPT !.answer = a].answer = a
        BY <3>2 DEF RequestRecords
    <3>4. Len(R) \in Nat /\ DOMAIN R = 1 .. Len(R)
        BY LenProperties DEF ResumerInv, GenTyped
    <3>5. QED
        BY <1>1, <2>1, <2>4, <3>1, <3>3, <3>4
  <2>6. Len(R) <= MaxRequests /\ \A r \in Requests : r > Len(R) => promise_state'[<<"request", r>>] = "pending"
    <3>1. \A r \in Requests : r > Len(request) => r # n
        BY <1>1, <2>4 DEF Requests
    <3>2. QED
        BY <1>1, <2>1, <2>5, <3>1
  <2>7. \A r \in DOMAIN R : R[r].answer \in {"done", "reject"} => gen'[R[r].gen].state = "completed"
    <3>1. ASSUME NEW r \in DOMAIN request \ {n}, R[r].answer \in {"done", "reject"}
          PROVE  gen'[R[r].gen].state = "completed"
      <4>1. R[r] = request[r] /\ request[r].gen \in Gens
          BY <1>3, <2>5
      <4>2. gen[request[r].gen].state = "completed"
          BY <1>3, <3>1, <4>1
      <4>3. QED
          BY <2>1, <4>1, <4>2
    <3>2. ASSUME NEW r \in DOMAIN R, R[r].answer \in {"done", "reject"}
          PROVE  gen'[R[r].gen].state = "completed"
      <4>1. CASE r = n
          BY <2>1, <2>5, <3>2, <4>1
      <4>2. CASE r # n
          BY <2>5, <3>1, <3>2, <4>2
      <4>3. QED
          BY <4>1, <4>2
    <3>3. QED
        BY <3>2
  <2>8. \A r \in DOMAIN R : Gens # {} =>
            (R[r].answer = "open") = (promise_state'[<<"request", r>>] = "pending")
    <3>1. ASSUME NEW r \in DOMAIN R, Gens # {}
          PROVE  R[r].answer = "open" <=> promise_state'[<<"request", r>>] = "pending"
      <4>1. CASE r = n
          BY <2>1, <2>5, <4>1 DEF Answers
      <4>2. CASE r # n
        <5>1. r \in DOMAIN request /\ r \in Requests \ {n} /\ R[r] = request[r]
            BY <1>1, <2>5, <4>2
        <5>2. promise_state'[<<"request", r>>] = promise_state[<<"request", r>>]
            BY <2>1, <5>1
        <5>3. request[r].answer = "open" <=> promise_state[<<"request", r>>] = "pending"
            BY <1>2, <3>1, <5>1
        <5>4. QED
            BY <5>1, <5>2, <5>3
      <4>3. QED
          BY <4>1, <4>2
    <3>2. QED
        BY <3>1
  <2>9. Accounted(Tail(u), R, g)
    <3>1. {r \in DOMAIN R : R[r].gen = g /\ R[r].answer = "open"} =
             {r \in DOMAIN request : request[r].gen = g /\ request[r].answer = "open"} \ {n}
        BY <2>5 DEF Answers
    <3>2. QED
        BY <2>2, <2>3, <3>1 DEF Accounted
  <2>10. ASSUME NEW h \in Gens \ {g} PROVE Accounted(Unanswered(h), R, h)
    <3>1. {r \in DOMAIN R : R[r].gen = h /\ R[r].answer = "open"} =
             {r \in DOMAIN request : request[r].gen = h /\ request[r].answer = "open"}
        BY <2>4, <2>5
    <3>2. QED
        BY <1>1, <3>1 DEF Accounted
  <2>11. \A h \in Gens : Accounted(Unanswered(h)', R, h)
    <3>1. ASSUME NEW h \in Gens PROVE Accounted(Unanswered(h)', R, h)
      <4>1. CASE h = g
          BY <2>1, <2>9, <4>1
      <4>2. CASE h # g
          BY <2>1, <2>10, <4>2
      <4>3. QED
          BY <4>1, <4>2
    <3>2. QED
        BY <3>1
  <2>12. QED
      BY <2>6, <2>7, <2>8, <2>11
<1>8. QED
    BY <1>5, <1>6, <1>7 DEF RequestStep

\* What becomes of the tasks of yields.
LEMMA YieldsMove ==
    /\ \A q \in Seq(Jobs), t \in Jobs :
         YieldsIn(Append(q, t)) = YieldsIn(q) \cup (IF t.kind = "async_gen_yield" THEN {t} ELSE {})
    /\ \A q \in Seq(Jobs) : \A k \in DOMAIN q :
         q[k].kind # "async_gen_yield" => YieldsIn(RemoveAt(q, k)) = YieldsIn(q)
    /\ \A q \in Seq(Jobs), c \in Coroutines : NoTask(q, c) => \A t \in YieldsIn(q) : t.who # c
<1>1. ASSUME NEW q \in Seq(Jobs), NEW t \in Jobs
      PROVE  YieldsIn(Append(q, t)) = YieldsIn(q) \cup (IF t.kind = "async_gen_yield" THEN {t} ELSE {})
  <2>1. ToSet(Append(q, t)) = ToSet(q) \cup {t}
      BY Elements
  <2>2. QED
      BY <2>1 DEF YieldsIn
<1>2. ASSUME NEW q \in Seq(Jobs), NEW k \in DOMAIN q, q[k].kind # "async_gen_yield"
      PROVE  YieldsIn(RemoveAt(q, k)) = YieldsIn(q)
  <2>1. ToSet(q) = ToSet(RemoveAt(q, k)) \cup {q[k]}
      BY Elements
  <2>2. QED
      BY <1>2, <2>1 DEF YieldsIn
<1>3. ASSUME NEW q \in Seq(Jobs), NEW c \in Coroutines, NoTask(q, c), NEW t \in YieldsIn(q)
      PROVE  t.who # c
  <2>1. PICK i \in DOMAIN q : q[i] = t /\ t.kind = "async_gen_yield"
      BY DEF YieldsIn, ToSet
  <2>2. t \in Jobs /\ t \notin TasksOf(c)
      BY <1>3, <2>1, Elements DEF NoTask, Nowhere
  <2>3. QED
      BY <2>1, <2>2, Owners
<1>4. QED
    BY <1>1, <1>2, <1>3

LEMMA SettleYields ==
    ASSUME PromisesTyped, NEW q \in Seq(Jobs), NEW p \in Promises,
           NEW s \in {"fulfilled", "rejected"}, settlePromise(q, p, s)
    PROVE  /\ YieldsIn(microtask_queue') = YieldsIn(q)
           /\ promise_state'[p] # "pending"
           /\ \A r \in Promises \ {p} : promise_state'[r] = promise_state[r]
<1>1. /\ \A c, b : WakeTask(c, b).kind # "async_gen_yield"
      /\ \A r, b : ReactionTask(r, b).kind # "async_gen_yield"
    BY DEF WakeTask, ReturnTask, ResumeTask, ReactionTask
<1>2. YieldsIn(microtask_queue') = YieldsIn(q)
    BY <1>1, SettleElements DEF YieldsIn
<1>3. QED
    BY <1>2, SettlePlaces DEF Settled

LEMMA UnansweredSame ==
    ASSUME ResumerInv, ResumerInv', NEW g \in Gens, gen'[g].queue = gen[g].queue,
           \A t : t.who = g => (t \in YieldsIn(microtask_queue') <=> t \in YieldsIn(microtask_queue))
    PROVE  Unanswered(g)' = Unanswered(g)
<1> DEFINE u == Unanswered(g)
           v == Unanswered(g)'
           Y == YieldsIn(microtask_queue)
           Z == YieldsIn(microtask_queue')
<1>1. /\ (\A t \in Y : t.who # g) => u = gen[g].queue
      /\ \A t \in Y : t.who = g => u = <<t.request>> \o gen[g].queue
    BY UnansweredNow
<1>2. /\ (\A t \in Z : t.who # g) => v = gen[g].queue
      /\ \A t \in Z : t.who = g => v = <<t.request>> \o gen[g].queue
    BY UnansweredNext
<1>3. \A t : t.who = g => (t \in Z <=> t \in Y)
    OBVIOUS
<1> HIDE DEF u, v, Y, Z
<1>4. CASE \A t \in Y : t.who # g
  <2>1. \A t \in Z : t.who # g
      BY <1>3, <1>4
  <2>2. QED
      BY <1>1, <1>2, <1>4, <2>1 DEF u, v
<1>5. ASSUME NEW t \in Y, t.who = g PROVE v = u
  <2>1. t \in Z
      BY <1>3, <1>5
  <2>2. u = <<t.request>> \o gen[g].queue /\ v = <<t.request>> \o gen[g].queue
      BY <1>1, <1>2, <1>5, <2>1
  <2>3. QED
      BY <2>2
<1>6. QED
    BY <1>4, <1>5 DEF u, v

LEMMA SameStep ==
    ASSUME RequestInv, ResumerInv', request' = request, CompletedStay,
           \A g \in Gens : gen'[g].queue = gen[g].queue,
           YieldsIn(microtask_queue') = YieldsIn(microtask_queue),
           \A r \in Requests : promise_state'[<<"request", r>>] = promise_state[<<"request", r>>]
    PROVE  RequestStep
<1>1. \A g \in Gens : Unanswered(g)' = Unanswered(g)
    BY UnansweredSame DEF RequestInv
<1>2. QED
    BY <1>1 DEF RequestStep, Same

\* The head of those unanswered is open, so that its answer counts.
LEMMA HeadAnswered ==
    ASSUME RequestInv, NEW g \in Gens, NEW h, h = Head(Unanswered(g)), Unanswered(g) # <<>>,
           NEW q \in Seq(Jobs), NEW a \in Answers, answer(q, h, a)
    PROVE  /\ h \in DOMAIN request
           /\ request' = [request EXCEPT ![h].answer = a]
           /\ promise_state'[<<"request", h>>] # "pending"
           /\ \A r \in Requests \ {h} :
                promise_state'[<<"request", r>>] = promise_state[<<"request", r>>]
           /\ YieldsIn(microtask_queue') = YieldsIn(q)
<1> DEFINE u == Unanswered(g)
           v == IF a = "reject" THEN "rejected" ELSE "fulfilled"
<1>1. /\ u \in Seq(DOMAIN request) /\ DOMAIN request \subseteq Requests
      /\ ToSet(u) = {r \in DOMAIN request : request[r].gen = g /\ request[r].answer = "open"}
    BY RequestTypes, AccountedFor DEF RequestInv, Accounted
<1> HIDE DEF u
<1>2. h \in ToSet(u)
  <2>1. h = u[1] /\ 1 \in DOMAIN u
      BY <1>1, HeadTailProperties, LenProperties, EmptySeq DEF u
  <2>2. QED
      BY <2>1 DEF ToSet
<1>3. h \in DOMAIN request /\ h \in Requests /\ request[h].answer = "open"
    BY <1>1, <1>2
<1>4. ~Settled(<<"request", h>>)
    BY <1>3, AccountedFor DEF RequestInv
<1>5. /\ request' = [request EXCEPT ![h].answer = a]
      /\ settlePromise(q, <<"request", h>>, v)
    BY <1>4 DEF answer
<1>6. v \in {"fulfilled", "rejected"} /\ PromisesTyped /\ <<"request", h>> \in Promises
    BY <1>3 DEF RequestInv, ResumerInv, LoopTyped, Promises
<1> HIDE DEF v
<1>7. /\ YieldsIn(microtask_queue') = YieldsIn(q)
      /\ promise_state'[<<"request", h>>] # "pending"
      /\ \A r \in Promises \ {<<"request", h>>} : promise_state'[r] = promise_state[r]
    BY <1>5, <1>6, SettleYields
<1>8. \A r \in Requests \ {h} : <<"request", r>> \in Promises \ {<<"request", h>>}
    BY DEF Promises
<1>9. QED
    BY <1>3, <1>5, <1>7, <1>8

\* A body, or the drain of the queue, answers the request at its head.
LEMMA AnswersStep ==
    ASSUME RequestInv, ResumerInv', NEW g \in Gens, NEW q \in Seq(Jobs), NoTask(q, g),
           YieldsIn(q) = YieldsIn(microtask_queue), gen[g].queue # <<>>,
           NEW x, gen' = [gen EXCEPT ![g] = x], x.queue = Tail(gen[g].queue),
           NEW a \in Answers, answer(q, HeadOf(g), a),
           IF a = "yield" THEN gen[g].state # "completed" ELSE x.state = "completed"
    PROVE  RequestStep
<1>1. gen'[g] = x /\ \A h \in Gens \ {g} : gen'[h] = gen[h]
    BY DEF RequestInv, ResumerInv, GenTyped
<1>2. \A t \in YieldsIn(q) : t.who # g
    BY YieldsMove DEF Coroutines
<1>3. Unanswered(g) = gen[g].queue
    BY <1>2, UnansweredNow DEF RequestInv
<1>4. /\ HeadOf(g) = Head(Unanswered(g))
      /\ request' = [request EXCEPT ![HeadOf(g)].answer = a]
      /\ promise_state'[<<"request", HeadOf(g)>>] # "pending"
      /\ \A r \in Requests \ {HeadOf(g)} :
           promise_state'[<<"request", r>>] = promise_state[<<"request", r>>]
      /\ YieldsIn(microtask_queue') = YieldsIn(microtask_queue)
    BY <1>3, HeadAnswered DEF HeadOf
<1>5. Unanswered(g)' = Tail(Unanswered(g))
    BY <1>1, <1>2, <1>3, <1>4, UnansweredNext
<1>6. ASSUME NEW h \in Gens \ {g} PROVE Unanswered(h)' = Unanswered(h)
    BY <1>1, <1>4, <1>6, UnansweredSame DEF RequestInv
<1>7. CompletedStay
    BY <1>1 DEF CompletedStay
<1>8. IsAnswered(g, a)
    BY <1>1, <1>3, <1>4, <1>5, <1>6, <1>7 DEF IsAnswered, OthersWait
<1>9. QED
    BY <1>8 DEF RequestStep
-----------------------------------------------------------------------------
(* Steps that are not the generators'.                                     *)

\* What wakes g next is the settlement of an await of its body, and not that
\* of the value of a .return(v).
BareIn(q, w, f, g) ==
    \/ \E t \in ToSet(q) : t.kind = "async_resume" /\ t.who = g
    \/ g \notin f /\ \E p \in Promises : g \in ToSet(w[p])

Bare(g) == BareIn(microtask_queue, waiters, awaiting_return_completion, g)

\* The tasks q, which the step has left or taken from, become the queue: no
\* generator is woken otherwise than before.
QuietQueue(q) ==
    /\ YieldsIn(microtask_queue') = YieldsIn(q)
    /\ \A r \in Requests : promise_state'[<<"request", r>>] = promise_state[<<"request", r>>]
    /\ \A h \in Gens : BareIn(microtask_queue', waiters', awaiting_return_completion', h)
                         => BareIn(q, waiters, awaiting_return_completion, h)

LEMMA AtMostOneList ==
    ASSUME ResumerInv, NEW g \in Gens
    PROVE  NoWait(waiters, g) \/ \E p \in Promises : OneWait(waiters, g, p)
<1>1. GenPlaced(microtask_queue, waiters, awaiting_return_completion, stack, gen[g], g)
    BY DEF ResumerInv, GensPlaced
<1>2. QED
    BY <1>1 DEF GenPlaced, AtRest, OnStack, InQueue, OnList, OneWait

LEMMA SettleBare ==
    ASSUME ResumerInv, NEW q \in Seq(Jobs), NEW p \in Promises,
           NEW s \in {"fulfilled", "rejected"}, settlePromise(q, p, s), NEW g \in Gens,
           BareIn(microtask_queue', waiters', awaiting_return_completion', g)
    PROVE  BareIn(q, waiters, awaiting_return_completion, g)
<1> DEFINE f == awaiting_return_completion
<1>1. PromisesTyped
    BY DEF ResumerInv, LoopTyped
<1>2. CASE Settled(p)
    BY <1>1, <1>2, SettleElements DEF BareIn, promiseVars
<1>3. CASE ~Settled(p)
  <2>1. /\ ToSet(microtask_queue') =
             ToSet(q) \cup {WakeTask(c, s = "rejected") : c \in ToSet(waiters[p])}
                      \cup {ReactionTask(r, s = "rejected") : r \in ToSet(reactions[p])}
        /\ waiters' = [waiters EXCEPT ![p] = <<>>]
        /\ awaiting_return_completion' = f \ ToSet(waiters[p])
      BY <1>1, <1>3, SettleElements
  <2>2. waiters'[p] = <<>> /\ \A r \in Promises \ {p} : waiters'[r] = waiters[r]
      BY <1>1, <2>1 DEF PromisesTyped
  <2>3. ToSet(<<>>) = {}
      BY DEF ToSet
  <2>4. ASSUME NEW t \in ToSet(microtask_queue'), t.kind = "async_resume", t.who = g
        PROVE  BareIn(q, waiters, f, g)
    <3>1. CASE t \in ToSet(q)
        BY <2>4, <3>1 DEF BareIn
    <3>2. ASSUME NEW c \in ToSet(waiters[p]), t = WakeTask(c, s = "rejected")
          PROVE  BareIn(q, waiters, f, g)
      <4>1. c = g /\ c \notin f
          BY <2>4, <3>2 DEF WakeTask, ResumeTask, ReturnTask
      <4>2. QED
          BY <3>2, <4>1 DEF BareIn
    <3>3. ASSUME NEW r, t = ReactionTask(r, s = "rejected") PROVE FALSE
        BY <2>4, <3>3 DEF ReactionTask
    <3>4. QED
        BY <2>1, <3>1, <3>2, <3>3
  <2>5. ASSUME g \notin f \ ToSet(waiters[p]), NEW r \in Promises, g \in ToSet(waiters'[r])
        PROVE  BareIn(q, waiters, f, g)
    <3>1. r # p /\ g \in ToSet(waiters[r])
        BY <2>2, <2>3, <2>5
    <3>2. g \notin ToSet(waiters[p])
      <4>1. ~NoWait(waiters, g)
          BY <3>1 DEF NoWait, Nowhere, ToSet
      <4>2. PICK k \in Promises : OneWait(waiters, g, k)
          BY <4>1, AtMostOneList
      <4>3. \A j \in Promises \ {k} : g \notin ToSet(waiters[j])
          BY <4>2 DEF OneWait, Nowhere, ToSet
      <4>4. QED
          BY <3>1, <4>3
    <3>3. QED
        BY <2>5, <3>1, <3>2 DEF BareIn
  <2>6. QED
      BY <2>1, <2>4, <2>5 DEF BareIn
<1>4. QED
    BY <1>2, <1>3

\* The promises the loop and the modules settle.
NotRequests == Hosts \cup ImportPromises \cup {Evaluation(m) : m \in Modules}

LEMMA QuietSettle ==
    ASSUME ResumerInv, NEW q \in Seq(Jobs), NEW p \in NotRequests,
           NEW s \in {"fulfilled", "rejected"}, settlePromise(q, p, s)
    PROVE  QuietQueue(q)
<1>1. PromisesTyped /\ p \in Promises
    BY TaskTypes DEF ResumerInv, LoopTyped, NotRequests, Evaluation, Promises
<1>2. \A r \in Requests : <<"request", r>> \in Promises \ {p}
    BY DEF NotRequests, Hosts, ImportPromises, Evaluation, Promises
<1>3. QED
    BY <1>1, <1>2, SettleYields, SettleBare DEF QuietQueue

LEMMA QuietAppend ==
    ASSUME NEW q \in Seq(Jobs), NEW t \in Jobs, t.kind # "async_gen_yield",
           t.kind = "async_resume" => t.who \notin Gens,
           microtask_queue' = Append(q, t), UNCHANGED promiseVars
    PROVE  QuietQueue(q)
<1>1. ToSet(Append(q, t)) = ToSet(q) \cup {t}
    BY Elements
<1>2. YieldsIn(Append(q, t)) = YieldsIn(q)
    BY <1>1 DEF YieldsIn
<1>3. QED
    BY <1>1, <1>2 DEF QuietQueue, BareIn, promiseVars

LEMMA QuietSame ==
    ASSUME NEW q, microtask_queue' = q, UNCHANGED promiseVars
    PROVE  QuietQueue(q)
BY DEF QuietQueue, BareIn, promiseVars

\* A task that is taken, other than that of a yield.
LEMMA QuietTake ==
    ASSUME ResumerInv, NEW k, TakesTask(k)
    PROVE  /\ Rest \in Seq(Jobs)
           /\ ToSet(microtask_queue) = ToSet(Rest) \cup {Taken} /\ Taken.kind = k
           /\ k # "async_gen_yield" => YieldsIn(Rest) = YieldsIn(microtask_queue)
           /\ \A w, f, h : BareIn(Rest, w, f, h) => BareIn(microtask_queue, w, f, h)
<1>1. microtask_queue \in Seq(Jobs) /\ Taken \in Jobs /\ Taken.kind = k /\ Rest \in Seq(Jobs)
    BY TaskTaken DEF ResumerInv, LoopTyped
<1>2. NextTask \in DOMAIN microtask_queue
  <2>1. DOMAIN microtask_queue = 1 .. Len(microtask_queue) /\ Len(microtask_queue) \in Nat
      BY <1>1, LenProperties
  <2>2. Runnable \subseteq Nat /\ Runnable # {} /\ Runnable \subseteq DOMAIN microtask_queue
      BY <2>1 DEF Runnable, TakesTask
  <2>3. NextTask \in Runnable
      BY <2>2, LeastOf, Zenon DEF NextTask
  <2>4. QED
      BY <2>2, <2>3
<1>3. ToSet(microtask_queue) = ToSet(Rest) \cup {Taken}
    BY <1>1, <1>2, Elements DEF Rest, Taken
<1>4. QED
    BY <1>1, <1>3 DEF YieldsIn, BareIn
\* What comes of a task that is taken comes of the queue.
LEMMA QuietTaken ==
    ASSUME ResumerInv, NEW k, TakesTask(k), k # "async_gen_yield", QuietQueue(Rest)
    PROVE  QuietQueue(microtask_queue)
<1>1. /\ YieldsIn(Rest) = YieldsIn(microtask_queue)
      /\ \A w, f, h : BareIn(Rest, w, f, h) => BareIn(microtask_queue, w, f, h)
    BY QuietTake
<1>2. QED
    BY <1>1 DEF QuietQueue

\* A module joins the list of a promise.
LEMMA QuietJoin ==
    ASSUME ResumerInv, NEW m \in Modules, NEW p \in Promises,
           waiters' = [waiters EXCEPT ![p] = Append(@, m)],
           UNCHANGED <<promise_state, awaiting_return_completion, microtask_queue>>
    PROVE  QuietQueue(microtask_queue)
<1>1. waiters \in [Promises -> Seq(Coroutines)] /\ m \in Coroutines
    BY DEF ResumerInv, LoopTyped, PromisesTyped, Coroutines
<1>2. ToSet(Append(waiters[p], m)) = ToSet(waiters[p]) \cup {m}
    BY <1>1, Elements
<1>3. \A h \in Gens, r \in Promises : h \in ToSet(waiters'[r]) => h \in ToSet(waiters[r])
    BY <1>1, <1>2, CoroutinesAreDistinct
<1>4. QED
    BY <1>3 DEF QuietQueue, BareIn

\* The bodies of generators on the stack were there before.
BodiesStay == \A e \in ToSet(stack') : e.kind = "gen_body" => e \in ToSet(stack)

LEMMA StackElements ==
    ASSUME NEW s, IsSequence(s)
    PROVE  /\ \A e : /\ IsSequence(Append(s, e))
                     /\ ToSet(Append(s, e)) = ToSet(s) \cup {e}
           /\ s # <<>> => /\ IsSequence(Front(s))
                          /\ ToSet(s) = ToSet(Front(s)) \cup {Last(s)}
<1>1. ASSUME NEW e PROVE IsSequence(Append(s, e)) /\ ToSet(Append(s, e)) = ToSet(s) \cup {e}
  <2>1. /\ IsSequence(Append(s, e))
        /\ Len(s) \in Nat /\ DOMAIN s = 1 .. Len(s)
        /\ DOMAIN Append(s, e) = 1 .. (Len(s) + 1)
        /\ \A i \in 1 .. Len(s) : Append(s, e)[i] = s[i]
        /\ Append(s, e)[Len(s) + 1] = e
      BY PushOnto
  <2>2. /\ \A i \in 1 .. (Len(s) + 1) : i \in 1 .. Len(s) \/ i = Len(s) + 1
        /\ \A i \in 1 .. Len(s) : i \in 1 .. (Len(s) + 1)
        /\ Len(s) + 1 \in 1 .. (Len(s) + 1)
      BY <2>1
  <2> DEFINE u == Append(s, e)
  <2>3. /\ DOMAIN u = 1 .. (Len(s) + 1) /\ \A i \in 1 .. Len(s) : u[i] = s[i]
        /\ u[Len(s) + 1] = e
      BY <2>1
  <2> HIDE DEF u
  <2>4. ToSet(u) = ToSet(s) \cup {e}
      BY <2>1, <2>2, <2>3 DEF ToSet
  <2>5. QED
      BY <2>1, <2>4 DEF u
<1>2. ASSUME s # <<>> PROVE IsSequence(Front(s)) /\ ToSet(s) = ToSet(Front(s)) \cup {Last(s)}
  <2>1. /\ IsSequence(Front(s))
        /\ Len(s) \in Nat \ {0} /\ DOMAIN s = 1 .. Len(s)
        /\ DOMAIN Front(s) = 1 .. (Len(s) - 1)
        /\ \A i \in 1 .. (Len(s) - 1) : Front(s)[i] = s[i]
      BY <1>2, PopFrom
  <2>2. /\ \A i \in 1 .. Len(s) : i \in 1 .. (Len(s) - 1) \/ i = Len(s)
        /\ \A i \in 1 .. (Len(s) - 1) : i \in 1 .. Len(s)
        /\ Len(s) \in 1 .. Len(s)
    <3>1. \A n \in Nat \ {0} : /\ \A i \in 1 .. n : i \in 1 .. (n - 1) \/ i = n
                              /\ \A i \in 1 .. (n - 1) : i \in 1 .. n
                              /\ n \in 1 .. n
        OBVIOUS
    <3> DEFINE n == Len(s)
    <3>2. n \in Nat \ {0}
        BY <2>1
    <3> HIDE DEF n
    <3>3. /\ \A i \in 1 .. n : i \in 1 .. (n - 1) \/ i = n
          /\ \A i \in 1 .. (n - 1) : i \in 1 .. n
          /\ n \in 1 .. n
        BY <3>2
    <3>4. QED
        BY <3>3 DEF n
  <2> DEFINE u == Front(s)
  <2>3. DOMAIN u = 1 .. (Len(s) - 1) /\ \A i \in 1 .. (Len(s) - 1) : u[i] = s[i]
      BY <2>1
  <2> HIDE DEF u
  <2>4. ToSet(s) = ToSet(u) \cup {Last(s)}
      BY <2>1, <2>2, <2>3 DEF ToSet, Last
  <2>5. QED
      BY <2>1, <2>4 DEF u
<1>3. \A e : /\ IsSequence(Append(s, e))
            /\ ToSet(Append(s, e)) = ToSet(s) \cup {e}
    BY <1>1
<1>4. QED
    BY <1>2, <1>3, Zenon

LEMMA BodiesMove ==
    ASSUME ResumerInv, NEW e, e.kind # "gen_body",
           \/ stack' = stack
           \/ stack' = Append(stack, e)
           \/ stack # <<>> /\ stack' = Front(stack)
           \/ stack # <<>> /\ stack' = Append(Front(stack), e)
           \/ stack # <<>> /\ stack' = Append(Append(Front(stack), e), Drain)
    PROVE  BodiesStay
<1>1. IsSequence(stack)
    BY SequenceOver DEF ResumerInv, LoopTyped
<1>2. Drain.kind # "gen_body"
    BY DEF Drain
<1>3. ToSet(Append(stack, e)) = ToSet(stack) \cup {e}
    BY <1>1, StackElements
<1>4. CASE stack # <<>>
  <2>1. IsSequence(Front(stack)) /\ ToSet(stack) = ToSet(Front(stack)) \cup {Last(stack)}
      BY <1>1, <1>4, StackElements
  <2>2. /\ IsSequence(Append(Front(stack), e))
        /\ ToSet(Append(Front(stack), e)) = ToSet(Front(stack)) \cup {e}
      BY <2>1, StackElements
  <2> DEFINE t == Append(Front(stack), e)
  <2> HIDE DEF t
  <2>3. IsSequence(t) /\ ToSet(t) = ToSet(Front(stack)) \cup {e}
      BY <2>2 DEF t
  <2>4. ToSet(Append(t, Drain)) = ToSet(t) \cup {Drain}
      BY <2>3, StackElements
  <2>5. \/ stack' = stack \/ stack' = Append(stack, e) \/ stack' = Front(stack)
        \/ stack' = t \/ stack' = Append(t, Drain)
      BY DEF t
  <2>6. QED
      BY <1>2, <1>3, <2>1, <2>3, <2>4, <2>5 DEF BodiesStay
<1>5. QED
    BY <1>3, <1>4 DEF BodiesStay
\* A step that is not the generators' leaves them to themselves.
StandsAside == UNCHANGED genVars /\ QuietQueue(microtask_queue) /\ BodiesStay

LEMMA LoopStandsAside ==
    ASSUME ResumerInv, UNCHANGED <<genVars, moduleVars>>,
           \/ DrainEnds \/ RunReaction \/ HostDrains \/ ClearTermination \/ Terminate
           \/ \E s \in {"fulfilled", "rejected"} : RunWasmJob(s)
           \/ \E h \in HostPromises : InstantiateWasm(h)
           \/ \E h \in HostPromises, s \in {"fulfilled", "rejected"} : SettleHost(h, s)
    PROVE  StandsAside
<1>1. BodiesStay
  <2>1. \/ stack' = stack
        \/ stack' = Append(stack, Drain)
        \/ stack # <<>> /\ stack' = Front(stack)
      BY DEF DrainEnds, RunReaction, HostDrains, ClearTermination, Terminate, RunWasmJob,
             InstantiateWasm, SettleHost, TopIs, Leave, Push, Pop
  <2>2. Drain.kind # "gen_body"
      BY DEF Drain
  <2>3. QED
      BY <2>1, <2>2, BodiesMove
<1>2. microtask_queue \in Seq(Jobs) /\ wasm_instantiation_jobs \in Seq(Hosts)
    BY DEF ResumerInv, LoopTyped
<1>3. CASE DrainEnds \/ HostDrains \/ ClearTermination \/ Terminate
           \/ \E h \in HostPromises : InstantiateWasm(h)
  <2>1. microtask_queue' = microtask_queue /\ UNCHANGED promiseVars
      BY <1>3 DEF DrainEnds, HostDrains, ClearTermination, Terminate, InstantiateWasm, jobVars
  <2>2. QED
      BY <1>1, <2>1, QuietSame DEF StandsAside
<1>4. ASSUME NEW s \in {"fulfilled", "rejected"}, RunWasmJob(s) PROVE StandsAside
  <2>1. /\ settlePromise(microtask_queue, Head(wasm_instantiation_jobs), s)
        /\ wasm_instantiation_jobs # <<>>
      BY <1>4 DEF RunWasmJob
  <2>2. Head(wasm_instantiation_jobs) \in NotRequests
      BY <1>2, <2>1, HeadTailProperties DEF NotRequests
  <2>3. QED
      BY <1>1, <1>2, <2>1, <2>2, QuietSettle DEF StandsAside
<1>5. ASSUME NEW h \in HostPromises, NEW s \in {"fulfilled", "rejected"}, SettleHost(h, s)
      PROVE  StandsAside
  <2>1. settlePromise(microtask_queue, <<"host", h>>, s) /\ <<"host", h>> \in NotRequests
      BY <1>5 DEF SettleHost, NotRequests, Hosts
  <2>2. QED
      BY <1>1, <1>2, <2>1, QuietSettle DEF StandsAside
<1>6. CASE RunReaction
  <2> DEFINE v == IF Taken.throws THEN "rejected" ELSE "fulfilled"
  <2>1. /\ TakesTask("promise_reaction") /\ settlePromise(Rest, Taken.promise, v)
        /\ v \in {"fulfilled", "rejected"}
      BY <1>6 DEF RunReaction
  <2> HIDE DEF v
  <2>2. Taken.promise \in NotRequests /\ Rest \in Seq(Jobs)
      BY <2>1, TaskTaken, JobFields DEF NotRequests
  <2>3. QuietQueue(Rest)
      BY <2>1, <2>2, QuietSettle
  <2>4. QED
      BY <1>1, <2>1, <2>3, QuietTaken DEF StandsAside
<1>7. QED
    BY <1>3, <1>4, <1>5, <1>6

LEMMA LoadStandsAside ==
    ASSUME ResumerInv, NEW m, StartLoad(m), UNCHANGED genVars
    PROVE  StandsAside
<1>1. \/ stack' = stack
      \/ stack' = Append(stack, Activation(m, 1, "importing", TRUE))
    BY StartLoadPushes
<1>2. Activation(m, 1, "importing", TRUE).kind # "gen_body"
    BY DEF Activation
<1>3. BodiesStay
    BY <1>1, <1>2, BodiesMove
<1>4. QED
    BY <1>3, QuietSame DEF StartLoad, StandsAside

LEMMA BodiesStandAside ==
    ASSUME ResumerInv, NEW m \in Modules,
           \/ ImportNext(m) \/ LoadDep(m) \/ ImportThrows(m)
           \/ LinkDrains(m) \/ LinkThrows(m) \/ EnterBody(m)
           \/ BodyCompletes(m) \/ ModuleThrows(m),
           UNCHANGED genVars
    PROVE  StandsAside
<1>1. AtModule(m) /\ Top.kind = "module" /\ stack # <<>>
    BY DEF ImportNext, LoadDep, HasNextDep, ImportThrows, LinkDrains, LinkThrows, EnterBody,
           BodyCompletes, ModuleThrows, InPhase, AtModule, TopIs
<1>2. microtask_queue \in Seq(Jobs)
    BY DEF ResumerInv, LoopTyped
<1>3. /\ [Top EXCEPT !.next = @ + 1].kind = "module"
      /\ \A x : [Top EXCEPT !.phase = x].kind = "module"
  <2>1. Top \in Activations
      BY <1>1, ModOnTop
  <2>2. Top \in [kind : {"module"}, module : Modules, next : Nat \ {0},
                 phase : {"importing", "linking", "body"}, first : BOOLEAN]
      BY <1>1, <2>1 DEF Activations, Drain
  <2>3. QED
      BY <2>2
<1>4. CASE ImportNext(m) \/ EnterBody(m) \/ LinkDrains(m)
  <2>1. PICK e : /\ e.kind # "gen_body"
                 /\ \/ stack' = Append(Front(stack), e)
                    \/ stack' = Append(Append(Front(stack), e), Drain)
      BY <1>3, <1>4 DEF ImportNext, EnterBody, LinkDrains, Become, Pop
  <2>2. BodiesStay
      BY <1>1, <2>1, BodiesMove
  <2>3. microtask_queue' = microtask_queue /\ UNCHANGED promiseVars
      BY <1>4 DEF ImportNext, EnterBody, LinkDrains
  <2>4. QED
      BY <2>2, <2>3, QuietSame DEF StandsAside
<1>5. CASE LoadDep(m)
    BY <1>5, LoadStandsAside DEF LoadDep
<1>6. ASSUME NEW ok \in BOOLEAN, BodyEnds(m, ok) PROVE StandsAside
  <2>1. BodiesStay
      BY <1>1, <1>6, BodiesMove, ActOwners DEF BodyEnds, Leave, Pop, Drain
  <2>2. \/ UNCHANGED promiseVars /\ microtask_queue' = microtask_queue
        \/ \E s \in {"fulfilled", "rejected"} : settlePromise(microtask_queue, Evaluation(m), s)
      BY <1>6 DEF BodyEnds
  <2>3. Evaluation(m) \in NotRequests
      BY DEF NotRequests
  <2>4. QuietQueue(microtask_queue)
      BY <1>2, <2>2, <2>3, QuietSame, QuietSettle
  <2>5. QED
      BY <2>1, <2>4 DEF StandsAside
<1>7. QED
    BY <1>4, <1>5, <1>6 DEF ImportThrows, LinkThrows, BodyCompletes, ModuleThrows
LEMMA ModuleAwaitsStandsAside ==
    ASSUME ResumerInv, NEW m \in Modules, NEW p \in Awaitable, ModuleAwaits(m, p),
           UNCHANGED genVars
    PROVE  StandsAside
<1>1. microtask_queue \in Seq(Jobs) /\ imports \in Seq(Modules) /\ Len(imports) <= MaxImports
    BY DEF ResumerInv, LoopTyped, ModTyped
<1>2. BodiesStay
  <2>1. stack # <<>> /\ stack' = Front(stack) /\ Drain.kind # "gen_body"
      BY DEF ModuleAwaits, InPhase, AtModule, TopIs, Leave, Pop, Drain
  <2>2. QED
      BY <2>1, BodiesMove
<1>3. p \in Promises
  <2>1. DOMAIN imports = 1 .. Len(imports) /\ Len(imports) \in Nat
      BY <1>1, LenProperties
  <2>2. DOMAIN imports \subseteq Imports
      BY <1>1, <2>1, BoundsAssumption DEF Imports
  <2>3. QED
      BY <2>2 DEF Awaitable, Promises
<1>4. awaitPromise(m, p)
    BY DEF ModuleAwaits
<1>5. CASE Settled(p)
  <2> DEFINE t == ResumeTask(m, promise_state[p] = "rejected")
  <2>1. microtask_queue' = Append(microtask_queue, t) /\ UNCHANGED promiseVars
      BY <1>4, <1>5 DEF awaitPromise, enqueue
  <2>2. t \in Jobs
    <3>1. (promise_state[p] = "rejected") \in BOOLEAN
        OBVIOUS
    <3>2. QED
        BY <3>1, TaskTypes DEF Coroutines
  <2>3. t.kind = "async_resume" /\ t.who = m
      BY DEF ResumeTask
  <2> HIDE DEF t
  <2>4. QED
      BY <1>1, <1>2, <2>1, <2>2, <2>3, CoroutinesAreDistinct, QuietAppend DEF StandsAside
<1>6. CASE ~Settled(p)
    BY <1>2, <1>3, <1>4, <1>6, QuietJoin DEF awaitPromise, StandsAside
<1>7. QED
    BY <1>5, <1>6

LEMMA ResumeStandsAside ==
    ASSUME ResumerInv, RunResumeModule, UNCHANGED genVars
    PROVE  StandsAside
<1>1. /\ TakesTask("async_resume") /\ Taken.who \in Modules
      /\ Rest \in Seq(Jobs)
    BY TaskTaken DEF RunResumeModule
<1> DEFINE e == Activation(Taken.who, 1, "body", FALSE)
<1>2. e.kind # "gen_body"
    BY DEF Activation
<1>3. \/ stack' = Append(stack, e) /\ microtask_queue' = Rest /\ UNCHANGED promiseVars
      \/ settlePromise(Rest, Evaluation(Taken.who), "rejected") /\ stack' = stack
    BY DEF RunResumeModule, Push
<1>4. Evaluation(Taken.who) \in NotRequests
    BY <1>1 DEF NotRequests
<1> HIDE DEF e
<1>5. BodiesStay
    BY <1>2, <1>3, BodiesMove
<1>6. QuietQueue(Rest)
    BY <1>1, <1>3, <1>4, QuietSame, QuietSettle
<1>7. QED
    BY <1>1, <1>5, <1>6, QuietTaken DEF StandsAside

LEMMA ImportsStandAside ==
    ASSUME ResumerInv, UNCHANGED genVars,
           \/ \E m \in Modules : DynamicImport(m)
           \/ RunImportTask \/ ImportLoads \/ ImportSettles
    PROVE  StandsAside
<1>1. microtask_queue \in Seq(Jobs) /\ stack \in Seq(Activations)
      /\ imports \in Seq(Modules) /\ Len(imports) \in Nat
    BY LenProperties DEF ResumerInv, LoopTyped, ModTyped
<1>2. ASSUME NEW m \in Modules, DynamicImport(m) PROVE StandsAside
  <2> DEFINE t == ImportTask(m, Len(imports) + 1)
  <2>1. /\ microtask_queue' = Append(microtask_queue, t)
        /\ UNCHANGED <<promiseVars, stack>> /\ Len(imports) + 1 \in Imports
      BY <1>1, <1>2, BoundsAssumption DEF DynamicImport, enqueue, Imports
  <2>2. t \in Jobs /\ t.kind = "module_import"
      BY <2>1, TaskTypes DEF ImportTask
  <2> HIDE DEF t
  <2>3. QuietQueue(microtask_queue)
      BY <1>1, <2>1, <2>2, QuietAppend
  <2>4. QED
      BY <2>1, <2>3 DEF StandsAside, BodiesStay
<1>3. CASE RunImportTask
  <2> DEFINE e == ImportJob(Taken.module, Taken.import)
  <2>1. /\ TakesTask("module_import") /\ stack' = Append(stack, e)
        /\ microtask_queue' = Rest /\ UNCHANGED promiseVars
      BY <1>3 DEF RunImportTask, Push
  <2>2. e.kind # "gen_body"
      BY DEF ImportJob
  <2> HIDE DEF e
  <2>3. BodiesStay /\ QuietQueue(Rest)
      BY <2>1, <2>2, BodiesMove, QuietSame
  <2>4. QED
      BY <2>1, <2>3, QuietTaken DEF StandsAside
<1>4. CASE ImportLoads
    BY <1>4, LoadStandsAside DEF ImportLoads
<1>5. CASE ImportSettles
  <2>1. stack # <<>> /\ Top.kind = "import" /\ stack' = Front(stack) /\ Drain.kind # "gen_body"
      BY <1>5 DEF ImportSettles, TopIs, Leave, Pop, Drain
  <2>2. BodiesStay
      BY <2>1, BodiesMove
  <2>3. Top.module \in Modules /\ Top.import \in Imports
      BY <1>1, <2>1, PopPlaces, ActFields DEF Top
  <2> DEFINE p == <<"import", Top.import>>
             e == Evaluation(Top.module)
             v == IF module_state[Top.module] = "errored" THEN "rejected" ELSE "fulfilled"
             t == ReactionTask(p, promise_state[e] = "rejected")
  <2>4. p \in ImportPromises /\ p \in NotRequests /\ v \in {"fulfilled", "rejected"}
      BY <2>3 DEF ImportPromises, NotRequests
  <2>5. \/ settlePromise(microtask_queue, p, v)
        \/ microtask_queue' = Append(microtask_queue, t) /\ UNCHANGED promiseVars
        \/ UNCHANGED <<promise_state, waiters, awaiting_return_completion, microtask_queue>>
      BY <1>5 DEF ImportSettles, enqueue
  <2>6. t \in Jobs /\ t.kind = "promise_reaction"
    <3>1. (promise_state[e] = "rejected") \in BOOLEAN
        OBVIOUS
    <3>2. QED
        BY <2>4, <3>1, TaskTypes DEF ReactionTask
  <2> HIDE DEF p, e, v, t
  <2>7. CASE settlePromise(microtask_queue, p, v)
      BY <1>1, <2>2, <2>4, <2>7, QuietSettle DEF StandsAside
  <2>8. CASE microtask_queue' = Append(microtask_queue, t) /\ UNCHANGED promiseVars
      BY <1>1, <2>2, <2>6, <2>8, QuietAppend DEF StandsAside
  <2>9. CASE UNCHANGED <<promise_state, waiters, awaiting_return_completion, microtask_queue>>
      BY <2>2, <2>9 DEF StandsAside, QuietQueue, BareIn
  <2>10. QED
      BY <2>5, <2>7, <2>8, <2>9
<1>6. QED
    BY <1>2, <1>3, <1>4, <1>5
-----------------------------------------------------------------------------
(* The steps of the generators, as answers to requests.                    *)

LEMMA FirstOfMany ==
    ASSUME NEW S, NEW r \in S, NEW u \in Seq(S)
    PROVE  /\ <<r>> \o u # <<>> /\ Head(<<r>> \o u) = r /\ Tail(<<r>> \o u) = u
           /\ \A n \in S : <<r>> \o Append(u, n) = Append(<<r>> \o u, n)
           /\ u # <<>> => <<Head(u)>> \o Tail(u) = u
<1> DEFINE o == <<r>>
           v == o \o u
<1>1. /\ o \in Seq(S) /\ Len(o) = 1 /\ o[1] = r
      /\ Len(u) \in Nat
    BY LenProperties
<1> HIDE DEF o
<1>2. /\ v \in Seq(S) /\ Len(v) = Len(o) + Len(u)
      /\ \A i \in 1 .. Len(o) + Len(u) : v[i] = IF i <= Len(o) THEN o[i] ELSE u[i - Len(o)]
    BY <1>1, ConcatProperties
<1> HIDE DEF v
<1>3. v # <<>> /\ Head(v) = r
  <2>1. Len(v) # 0
      BY <1>1, <1>2
  <2>2. v # <<>>
      BY <2>1, EmptySeq
  <2>3. 1 \in 1 .. Len(o) + Len(u)
      BY <1>1
  <2>4. v[1] = r
      BY <1>1, <1>2, <2>3
  <2>5. QED
      BY <2>2, <2>4
<1>4. Tail(v) = u
  <2>1. /\ Tail(v) \in Seq(S) /\ Len(Tail(v)) = Len(u)
        /\ \A i \in 1 .. Len(u) : Tail(v)[i] = v[i + 1]
      BY <1>1, <1>2, <1>3, HeadTailProperties
  <2>2. \A i \in 1 .. Len(u) : /\ i + 1 \in 1 .. Len(o) + Len(u) /\ ~(i + 1 <= Len(o))
                               /\ (i + 1) - Len(o) = i
      BY <1>1
  <2>3. \A i \in 1 .. Len(u) : Tail(v)[i] = u[i]
      BY <1>2, <2>1, <2>2
  <2>4. QED
      BY <2>1, <2>3, SeqEqual
<1>5. ASSUME NEW n \in S PROVE o \o Append(u, n) = Append(v, n)
  <2>1. Append(u, n) = u \o <<n>> /\ Append(v, n) = v \o <<n>> /\ <<n>> \in Seq(S)
      BY <1>2, AppendIsConcat
  <2>2. \A a, b, c \in Seq(S) : (a \o b) \o c = a \o (b \o c)
      BY ConcatAssociative
  <2>3. (o \o u) \o <<n>> = o \o (u \o <<n>>)
      BY <1>1, <2>1, <2>2, Zenon
  <2>4. QED
      BY <2>1, <2>3 DEF v
<1>6. ASSUME u # <<>> PROVE <<Head(u)>> \o Tail(u) = u
  <2>1. /\ Head(u) = u[1] /\ Head(u) \in S /\ Tail(u) \in Seq(S) /\ Len(u) \in Nat \ {0}
        /\ Len(Tail(u)) = Len(u) - 1
        /\ \A i \in 1 .. (Len(u) - 1) : Tail(u)[i] = u[i + 1]
      BY <1>6, HeadTailProperties, EmptySeq
  <2> DEFINE h == <<Head(u)>>
             t == Tail(u)
             w == h \o t
  <2>2. h \in Seq(S) /\ Len(h) = 1 /\ h[1] = u[1]
      BY <2>1
  <2>3. t \in Seq(S) /\ Len(t) = Len(u) - 1 /\ \A i \in 1 .. (Len(u) - 1) : t[i] = u[i + 1]
      BY <2>1
  <2> HIDE DEF h, t
  <2>4. /\ w \in Seq(S) /\ Len(w) = Len(h) + Len(t)
        /\ \A i \in 1 .. Len(h) + Len(t) : w[i] = IF i <= Len(h) THEN h[i] ELSE t[i - Len(h)]
    <3>1. h \in Seq(S) /\ t \in Seq(S)
        BY <2>2, <2>3
    <3>2. QED
        BY <3>1, ConcatProperties
  <2> HIDE DEF w
  <2>5. Len(w) = Len(u)
      BY <1>1, <2>2, <2>3, <2>4
  <2>6. ASSUME NEW i \in 1 .. Len(w) PROVE w[i] = u[i]
    <3>1. CASE i = 1
      <4>1. 1 \in 1 .. Len(h) + Len(t)
          BY <2>1, <2>2, <2>3
      <4>2. w[1] = h[1]
          BY <2>2, <2>4, <4>1
      <4>3. QED
          BY <2>2, <3>1, <4>2
    <3>2. CASE i # 1
      <4>1. /\ i \in 1 .. Len(h) + Len(t) /\ ~(i <= Len(h))
            /\ i - Len(h) \in 1 .. (Len(u) - 1) /\ (i - Len(h)) + 1 = i
          BY <1>1, <2>2, <2>3, <2>5, <3>2
      <4>2. w[i] = t[i - Len(h)] /\ t[i - Len(h)] = u[(i - Len(h)) + 1]
          BY <2>3, <2>4, <4>1
      <4>3. QED
          BY <4>1, <4>2
    <3>3. QED
        BY <3>1, <3>2
  <2>7. w = u
      BY <2>4, <2>5, <2>6, SeqEqual
  <2>8. QED
      BY <2>7 DEF w, h, t
<1>7. QED
    BY <1>3, <1>4, <1>5, <1>6 DEF v, o
\* asyncGenDispatch adds a request behind those unanswered.
LEMMA DispatchAsks ==
    ASSUME RequestInv, ResumerInv', NEW g \in Gens, NEW k \in Kinds, asyncGenDispatch(g, k)
    PROVE  RequestStep
<1> DEFINE n == Len(request) + 1
           Y == YieldsIn(microtask_queue)
           u == Unanswered(g)
           v == Unanswered(g)'
<1>1. /\ Len(request) < MaxRequests
      /\ request' = Append(request, [kind |-> k, gen |-> g, answer |-> "open"])
      /\ gen' = [gen EXCEPT ![g].queue = Append(@, n)]
      /\ microtask_queue' = microtask_queue /\ UNCHANGED promiseVars
    BY DEF asyncGenDispatch, jobVars
<1>2. Len(request) \in Nat /\ ResumerInv /\ gen \in [Gens -> GenRecords]
    BY RequestTypes DEF RequestInv, ResumerInv, GenTyped
<1>3. n \in Requests
    BY <1>1, <1>2, BoundsAssumption DEF Requests
<1> HIDE DEF n
<1>4. gen[g].queue \in Seq(Requests) /\ gen[g] \in GenRecords
    BY <1>2, GenTypes
<1>5. /\ gen'[g].queue = Append(gen[g].queue, n) /\ gen'[g].state = gen[g].state
      /\ \A h \in Gens \ {g} : gen'[h] = gen[h]
    BY <1>1, <1>2, <1>4 DEF GenRecords
<1>6. \A h \in Gens \ {g} : Unanswered(h)' = Unanswered(h)
    BY <1>1, <1>2, <1>5, UnansweredSame
<1>7. /\ (\A t \in Y : t.who # g) => u = gen[g].queue
      /\ \A t \in Y : t.who = g => u = <<t.request>> \o gen[g].queue
      /\ \A t \in Y : t.request \in Requests
  <2>1. microtask_queue \in Seq(Jobs)
      BY <1>2 DEF ResumerInv, LoopTyped
  <2>2. \A t \in Y : t.request \in Requests
      BY <2>1, Elements, JobFields DEF YieldsIn
  <2>3. QED
      BY <1>2, <2>2, UnansweredNow
<1>8. /\ (\A t \in Y : t.who # g) => v = Append(gen[g].queue, n)
      /\ \A t \in Y : t.who = g => v = <<t.request>> \o Append(gen[g].queue, n)
    BY <1>1, <1>5, UnansweredNext
<1>9. \A r \in Requests : <<r>> \o Append(gen[g].queue, n) = Append(<<r>> \o gen[g].queue, n)
  <2>1. ASSUME NEW r \in Requests, NEW w \in Seq(Requests), NEW m \in Requests
        PROVE  <<r>> \o Append(w, m) = Append(<<r>> \o w, m)
    <3>1. \A i \in Requests : <<r>> \o Append(w, i) = Append(<<r>> \o w, i)
        BY FirstOfMany
    <3>2. QED
        BY <3>1
  <2>2. QED
      BY <1>3, <1>4, <2>1
<1> HIDE DEF u, v, Y
<1>10. v = Append(u, n)
  <2>1. CASE \A t \in Y : t.who # g
      BY <1>7, <1>8, <2>1
  <2>2. ASSUME NEW t \in Y, t.who = g PROVE v = Append(u, n)
      BY <1>7, <1>8, <1>9, <2>2
  <2>3. QED
      BY <2>1, <2>2
<1>11. Asks(g, k)
    BY <1>1, <1>5, <1>6, <1>10 DEF Asks, OthersWait, CompletedStay, promiseVars, u, v, n
<1>12. QED
    BY <1>11 DEF RequestStep

\* A generator that closes answers the request at the head of its queue.
LEMMA CompleteAnswers ==
    ASSUME RequestInv, ResumerInv', NEW g \in Gens, NEW q, NEW s, Freed(g, q, s),
           YieldsIn(q) = YieldsIn(microtask_queue), gen[g].queue # <<>>,
           NEW a \in {"done", "reject"}, Complete(g, q, a, s)
    PROVE  RequestStep
<1> DEFINE x == [NewGen EXCEPT !.state = "completed", !.async_state = "completed",
                               !.queue = Tail(gen[g].queue)]
<1>1. gen' = [gen EXCEPT ![g] = x] /\ answer(q, HeadOf(g), a)
    BY DEF Complete
<1>2. x.queue = Tail(gen[g].queue) /\ x.state = "completed"
    BY DEF NewGen
<1> HIDE DEF x
<1>3. q \in Seq(Jobs) /\ NoTask(q, g)
    BY DEF Freed, AtRest
<1>4. a \in Answers /\ a # "yield"
    BY DEF Answers
<1>5. QED
    BY <1>1, <1>2, <1>3, <1>4, AnswersStep

\* A body that goes on, or is parked, answers nothing.
LEMMA GoesOnSame ==
    ASSUME RequestInv, ResumerInv', NEW g \in Gens, NEW x, gen' = [gen EXCEPT ![g] = x],
           x.queue = gen[g].queue, gen[g].state = "completed" => x.state = "completed",
           request' = request, promise_state' = promise_state,
           YieldsIn(microtask_queue') = YieldsIn(microtask_queue)
    PROVE  RequestStep
<1>1. gen'[g] = x /\ \A h \in Gens \ {g} : gen'[h] = gen[h]
    BY DEF RequestInv, ResumerInv, GenTyped
<1>2. CompletedStay /\ \A h \in Gens : gen'[h].queue = gen[h].queue
    BY <1>1 DEF CompletedStay
<1>3. QED
    BY <1>2, SameStep

LEMMA ThrowLandsSame ==
    ASSUME RequestInv, ResumerInv', NEW g \in Gens, NEW d, NEW s, ThrowLands(g, d, s),
           gen[g].state # "completed",
           YieldsIn(microtask_queue') = YieldsIn(microtask_queue)
    PROVE  RequestStep
<1>1. gen[g] \in GenRecords
    BY GenTypes DEF RequestInv
<1>2. PICK u : LET x == [Resumed(gen[g]) EXCEPT
                            !.unwinding = u,
                            !.disturbed = @ \/ gen[g].unwinding = "return"]
               IN  Resume(g, x, d, FALSE, s)
    BY DEF ThrowLands
<1> DEFINE b == gen[g].disturbed \/ gen[g].unwinding = "return"
           x == [Resumed(gen[g]) EXCEPT !.unwinding = u, !.disturbed = b]
<1>3. Resume(g, x, d, FALSE, s)
  <2>1. Resumed(gen[g]).disturbed = gen[g].disturbed
      BY <1>1 DEF Resumed, GenRecords
  <2>2. QED
      BY <1>2, <2>1
<1> HIDE DEF b
<1>4. x.queue = gen[g].queue
    BY <1>1 DEF Resumed, GenRecords
<1> HIDE DEF x
<1>5. gen' = [gen EXCEPT ![g] = x] /\ request' = request /\ promise_state' = promise_state
    BY <1>3 DEF Resume, promiseVars
<1>6. QED
    BY <1>4, <1>5, GoesOnSame
LEMMA DrainAnswers ==
    ASSUME RequestInv, ResumerInv', NEW g \in Gens,
           ServeCompleted(g) \/ ServeReturn(g) \/ ServeNext(g) \/ ServeThrow(g)
    PROVE  RequestStep
<1>1. Serving(g) /\ ResumerInv
    BY DEF ServeCompleted, ServeReturn, ServeNext, ServeThrow, Serves, RequestInv
<1>2. /\ Freed(g, microtask_queue, Front(stack))
      /\ gen[g].queue # <<>> /\ gen[g] \in GenRecords /\ Agree(gen[g])
      /\ gen[g].async_state \notin {"executing", "suspended_await"}
    BY <1>1, ServerOnTop, GenTypes DEF Serving
<1>3. CASE ServeCompleted(g)
    BY <1>2, <1>3, CompleteAnswers DEF ServeCompleted, Pop
<1>4. CASE ServeReturn(g)
  <2>1. Parked(g).queue = gen[g].queue /\ Parked(g).state = gen[g].state
      BY <1>2 DEF Parked, GenRecords
  <2>2. /\ gen' = [gen EXCEPT ![g] = Parked(g)]
        /\ UNCHANGED <<promise_state, microtask_queue, request>>
      BY <1>4 DEF ServeReturn, promiseVars
  <2>3. QED
      BY <2>1, <2>2, GoesOnSame
<1>5. CASE ServeNext(g)
  <2> DEFINE x == [Resumed(gen[g]) EXCEPT !.pending_return_completion = FALSE]
  <2>1. /\ gen' = [gen EXCEPT ![g] = x]
        /\ UNCHANGED <<promise_state, microtask_queue, request>>
      BY <1>5 DEF ServeNext, Resume, promiseVars
  <2>2. x.queue = gen[g].queue
      BY <1>2 DEF Resumed, GenRecords
  <2>3. gen[g].state # "completed"
      BY <1>2, <1>5 DEF ServeNext, Completed, Agree
  <2> HIDE DEF x
  <2>4. QED
      BY <2>1, <2>2, <2>3, GoesOnSame
<1>6. CASE ServeThrow(g)
  <2>1. CASE Complete(g, microtask_queue, "reject", Pop)
      BY <1>2, <2>1, CompleteAnswers DEF Pop
  <2>2. CASE /\ gen[g].state = "suspended" /\ ThrowLands(g, "drain", Pop)
             /\ UNCHANGED microtask_queue
      BY <2>2, ThrowLandsSame
  <2>3. QED
      BY <1>6, <2>1, <2>2 DEF ServeThrow
<1>7. QED
    BY <1>3, <1>4, <1>5, <1>6

LEMMA AwaitReturnAnswers ==
    ASSUME RequestInv, ResumerInv', NEW g \in Gens,
           \/ ResumeNextReturns(g)
           \/ \E t \in BOOLEAN : AwaitReturnSettled(g, t)
           \/ \E h \in HostPromises : AwaitReturnPending(g, h)
    PROVE  RequestStep
<1>1. /\ gen' = gen /\ request' = request /\ promise_state' = promise_state
      /\ \/ microtask_queue' = microtask_queue
         \/ \E t \in BOOLEAN : microtask_queue' = Append(microtask_queue, ReturnTask(g, t))
    BY DEF ResumeNextReturns, AwaitReturnSettled, AwaitReturnPending, genVars, promiseVars, enqueue
<1>2. microtask_queue \in Seq(Jobs)
    BY DEF RequestInv, ResumerInv, LoopTyped
<1>3. \A t \in BOOLEAN : YieldsIn(Append(microtask_queue, ReturnTask(g, t))) = YieldsIn(microtask_queue)
  <2>1. \A t \in BOOLEAN : ReturnTask(g, t) \in Jobs /\ ReturnTask(g, t).kind # "async_gen_yield"
      BY TaskTypes DEF ReturnTask
  <2>2. QED
      BY ZenonT(60), <1>2, <2>1, YieldsMove
<1>4. QED
    BY <1>1, <1>3, SameStep DEF CompletedStay

LEMMA BodyAnswers ==
    ASSUME RequestInv, ResumerInv', NEW g \in Gens,
           \/ \E rejected \in BOOLEAN : YieldToDrain(g, rejected) \/ YieldAfterAwait(g, rejected)
           \/ BodyReturns(g) \/ BodyThrows(g) \/ BodyRethrows(g)
           \/ GenAwaits(g)
    PROVE  RequestStep
<1>1. AtBody(g) /\ ResumerInv /\ microtask_queue \in Seq(Jobs)
    BY DEF YieldToDrain, YieldAfterAwait, BodyReturns, BodyThrows, BodyRethrows, GenAwaits,
           BodyAwaitsSettled, BodyAwaitsPending, Runs, RequestInv, ResumerInv, LoopTyped
<1>2. /\ Freed(g, microtask_queue, Front(stack)) /\ NoTask(microtask_queue, g)
      /\ gen[g].queue # <<>> /\ gen[g] \in GenRecords /\ gen[g].state = "executing"
      /\ gen[g].queue \in Seq(Requests) /\ HeadOf(g) \in Requests
    BY <1>1, GenOnTop, GenTypes DEF Freed, AtRest, Agree
<1>3. ASSUME NEW a \in {"done", "reject"}, Complete(g, microtask_queue, a, Pop) PROVE RequestStep
    BY <1>2, <1>3, CompleteAnswers DEF Pop
<1>4. \A s : SuspendedAs(g, s).queue = gen[g].queue /\ SuspendedAs(g, s).state = "suspended"
    BY <1>2 DEF SuspendedAs, GenRecords
<1>5. \A t \in YieldsIn(microtask_queue) : t.who # g
    BY <1>1, <1>2, YieldsMove DEF Coroutines
<1>6. ASSUME NEW rejected \in BOOLEAN, YieldToDrain(g, rejected) PROVE RequestStep
  <2> DEFINE x == [SuspendedAs(g, YieldParks(g)) EXCEPT
                      !.state = IF rejected THEN "completed" ELSE @,
                      !.queue = Popped(g)]
             t == YieldTask(g, HeadOf(g), rejected)
             Y == YieldsIn(microtask_queue)
             Z == YieldsIn(microtask_queue')
  <2>1. /\ gen' = [gen EXCEPT ![g] = x] /\ microtask_queue' = Append(microtask_queue, t)
        /\ UNCHANGED <<promiseVars, request>>
      BY <1>6 DEF YieldToDrain, enqueue
  <2>2. x.queue = Tail(gen[g].queue)
      BY <1>2 DEF Popped, SuspendedAs, GenRecords
  <2>3. t \in Jobs /\ t.kind = "async_gen_yield" /\ t.who = g /\ t.request = HeadOf(g)
      BY <1>2, TaskTypes DEF YieldTask
  <2> HIDE DEF x, t
  <2>4. gen'[g] = x /\ \A h \in Gens \ {g} : gen'[h] = gen[h]
      BY <1>1, <2>1 DEF ResumerInv, GenTyped
  <2>5. Z = Y \cup {t}
      BY <1>1, <2>1, <2>3, YieldsMove
  <2>6. \A h \in Gens \ {g} : Unanswered(h)' = Unanswered(h)
      BY <1>1, <2>3, <2>4, <2>5, UnansweredSame
  <2>7. Unanswered(g) = gen[g].queue
      BY <1>1, <1>5, UnansweredNow
  <2>8. Unanswered(g)' = <<HeadOf(g)>> \o Tail(gen[g].queue)
      BY <2>2, <2>3, <2>4, <2>5, UnansweredNext
  <2>9. <<HeadOf(g)>> \o Tail(gen[g].queue) = gen[g].queue
      BY <1>2, FirstOfMany DEF HeadOf
  <2>10. CompletedStay
      BY <1>2, <2>4 DEF CompletedStay
  <2>11. \A h \in Gens : Unanswered(h)' = Unanswered(h)
      BY <2>6, <2>7, <2>8, <2>9
  <2>12. Same
      BY <2>1, <2>10, <2>11 DEF Same, promiseVars
  <2>13. QED
      BY <2>12 DEF RequestStep
<1>7. ASSUME NEW rejected \in BOOLEAN, YieldAfterAwait(g, rejected) PROVE RequestStep
  <2> DEFINE x == [SuspendedAs(g, "suspended_yield") EXCEPT !.queue = Popped(g)]
  <2>1. CASE /\ gen' = [gen EXCEPT ![g] = x]
             /\ answer(microtask_queue, HeadOf(g), "yield")
    <3>1. x.queue = Tail(gen[g].queue)
        BY <1>2 DEF Popped, SuspendedAs, GenRecords
    <3> HIDE DEF x
    <3>2. "yield" \in Answers
        BY DEF Answers
    <3>3. QED
        BY <1>1, <1>2, <2>1, <3>1, <3>2, AnswersStep
  <2>2. QED
      BY <1>3, <1>7, <2>1 DEF YieldAfterAwait
<1>8. CASE GenAwaits(g)
  <2>1. Suspended(g).queue = gen[g].queue
    <3> DEFINE y == SuspendedAs(g, "suspended_await")
               b == y.disturbed \/ gen[g].unwinding = "return"
    <3>1. Suspended(g) = [y EXCEPT !.disturbed = b]
        BY DEF Suspended
    <3>2. "queue" \in DOMAIN y /\ y.queue = gen[g].queue
        BY <1>2 DEF SuspendedAs, GenRecords
    <3> HIDE DEF b, y
    <3>3. QED
        BY <3>1, <3>2
  <2>2. /\ gen' = [gen EXCEPT ![g] = Suspended(g)] /\ request' = request
        /\ promise_state' = promise_state
      BY <1>8 DEF GenAwaits, BodyAwaitsSettled, BodyAwaitsPending, awaitPromise, promiseVars
  <2>3. YieldsIn(microtask_queue') = YieldsIn(microtask_queue)
    <3>1. \/ microtask_queue' = microtask_queue
          \/ \E t \in BOOLEAN : microtask_queue' = Append(microtask_queue, ResumeTask(g, t))
        BY <1>8 DEF GenAwaits, BodyAwaitsSettled, BodyAwaitsPending, awaitPromise, enqueue
    <3>2. \A t \in BOOLEAN : ResumeTask(g, t) \in Jobs /\ ResumeTask(g, t).kind # "async_gen_yield"
        BY TaskTypes DEF ResumeTask, Coroutines
    <3>3. QED
        BY ZenonT(60), <1>1, <3>1, <3>2, YieldsMove
  <2>4. QED
      BY <1>2, <2>1, <2>2, <2>3, GoesOnSame
<1>9. CASE BodyReturns(g) \/ BodyThrows(g) \/ BodyRethrows(g)
    BY <1>3, <1>9 DEF BodyReturns, BodyThrows, BodyRethrows
<1>10. QED
    BY <1>6, <1>7, <1>8, <1>9
LEMMA YieldTaskAnswers ==
    ASSUME RequestInv, ResumerInv', RunYieldTask
    PROVE  RequestStep
<1>1. PICK g \in Gens, t \in Jobs :
        /\ t = Taken /\ g = t.who /\ t.kind = "async_gen_yield" /\ t.request \in Requests
        /\ TakesTask("async_gen_yield")
        /\ answer(Rest, t.request, IF t.reject THEN "reject" ELSE "yield")
        /\ gen' = [gen EXCEPT ![g].async_state = AfterYield(g)]
  <2>1. TakesTask("async_gen_yield") /\ ResumerInv
      BY DEF RunYieldTask, RequestInv
  <2>2. /\ Taken \in Jobs /\ Taken.kind = "async_gen_yield" /\ Taken.who \in Gens
        /\ Taken.request \in Requests
      BY <2>1, TaskTaken, JobFields
  <2>3. QED
      BY <2>1, <2>2 DEF RunYieldTask
<1>2. /\ Freed(g, Rest, stack) /\ TaskFits(gen[g], t) /\ gen[g] \in GenRecords
      /\ ResumerInv /\ gen[g].queue \in Seq(Requests)
      /\ Rest \in Seq(Jobs) /\ ToSet(microtask_queue) = ToSet(Rest) \cup {t}
  <2>1. ResumerInv
      BY DEF RequestInv
  <2>2. Freed(g, Rest, stack) /\ TaskFits(gen[g], Taken)
      BY <1>1, <2>1, GenTaken
  <2>3. Rest \in Seq(Jobs) /\ ToSet(microtask_queue) = ToSet(Rest) \cup {Taken}
      BY <1>1, <2>1, QuietTake
  <2>4. QED
      BY <1>1, <2>1, <2>2, <2>3, GenTypes
<1> DEFINE Y == YieldsIn(microtask_queue)
           R == YieldsIn(Rest)
           Z == YieldsIn(microtask_queue')
           a == IF t.reject THEN "reject" ELSE "yield"
<1>3. Y = R \cup {t}
    BY <1>1, <1>2 DEF YieldsIn
<1>4. \A s \in R : s.who # g
    BY <1>2, YieldsMove DEF Freed, AtRest, Coroutines
<1>5. /\ Unanswered(g) = <<t.request>> \o gen[g].queue
      /\ Unanswered(g) # <<>> /\ t.request = Head(Unanswered(g))
      /\ gen[g].queue = Tail(Unanswered(g))
  <2>1. Unanswered(g) = <<t.request>> \o gen[g].queue
      BY <1>1, <1>2, <1>3, UnansweredNow
  <2>2. /\ <<t.request>> \o gen[g].queue # <<>>
        /\ Head(<<t.request>> \o gen[g].queue) = t.request
        /\ Tail(<<t.request>> \o gen[g].queue) = gen[g].queue
      BY <1>1, <1>2, FirstOfMany
  <2>3. QED
      BY <2>1, <2>2, Zenon
<1>6. a \in Answers
    BY DEF Answers
<1>7. answer(Rest, t.request, a)
    BY <1>1
<1>8. a = "reject" <=> t.reject
    OBVIOUS
<1> HIDE DEF a
<1>9. /\ request' = [request EXCEPT ![t.request].answer = a]
      /\ promise_state'[<<"request", t.request>>] # "pending"
      /\ \A r \in Requests \ {t.request} :
           promise_state'[<<"request", r>>] = promise_state[<<"request", r>>]
      /\ Z = R
    BY ZenonT(60), <1>2, <1>5, <1>6, <1>7, HeadAnswered
<1>10. /\ gen'[g].queue = gen[g].queue /\ gen'[g].state = gen[g].state
       /\ \A h \in Gens \ {g} : gen'[h] = gen[h]
    BY <1>1, <1>2 DEF ResumerInv, GenTyped, GenRecords
<1>11. Unanswered(g)' = Tail(Unanswered(g))
    BY <1>4, <1>5, <1>9, <1>10, UnansweredNext
<1>12. \A h \in Gens \ {g} : Unanswered(h)' = Unanswered(h)
    BY <1>1, <1>2, <1>3, <1>9, <1>10, UnansweredSame
<1>13. CompletedStay
    BY <1>10 DEF CompletedStay
<1>14. IF a = "yield" THEN gen[g].state # "completed" ELSE gen'[g].state = "completed"
    BY <1>1, <1>2, <1>6, <1>8, <1>10 DEF TaskFits, a
<1>15. IsAnswered(g, a)
    BY <1>5, <1>9, <1>11, <1>12, <1>13, <1>14 DEF IsAnswered, OthersWait
<1>16. QED
    BY <1>6, <1>15 DEF RequestStep

LEMMA TaskAnswers ==
    ASSUME RequestInv, ResumerInv', RunReturnTask \/ RunResumeGen \/ RunYieldTask
    PROVE  RequestStep
<1>1. ResumerInv
    BY DEF RequestInv
<1>2. CASE RunYieldTask
    BY <1>2, YieldTaskAnswers
<1>3. CASE RunReturnTask \/ RunResumeGen
  <2>1. PICK k \in {"async_gen_return_after_await", "async_resume"}, g \in Gens :
          /\ TakesTask(k) /\ g = Taken.who
          /\ \/ \E a \in {"done", "reject"} : Complete(g, Rest, a, stack)
             \/ \E d : ThrowLands(g, d, stack) /\ microtask_queue' = Rest /\ gen[g].state = "suspended"
             \/ ReturnLands(g, stack) /\ microtask_queue' = Rest /\ gen[g].state = "suspended"
             \/ /\ Resume(g, Resumed(gen[g]), "settle", FALSE, stack) /\ microtask_queue' = Rest
                /\ gen[g].state = "suspended"
    <3>1. CASE RunReturnTask
      <4>1. TakesTask("async_gen_return_after_await") /\ Taken.who \in Gens
          BY <1>1, <3>1, TaskTaken, JobFields DEF RunReturnTask
      <4>2. QED
          BY <3>1, <4>1 DEF RunReturnTask
    <3>2. CASE RunResumeGen
      <4>1. TakesTask("async_resume") /\ Taken.who \in Gens
          BY <3>2 DEF RunResumeGen
      <4>2. gen[Taken.who].state = "suspended"
          BY <1>1, <4>1, TaskTaken, GenTaken DEF TaskFits
      <4>3. QED
          BY <3>2, <4>1, <4>2 DEF RunResumeGen
    <3>3. QED
        BY <1>3, <3>1, <3>2
  <2>2. /\ Freed(g, Rest, stack) /\ TaskFits(gen[g], Taken) /\ gen[g] \in GenRecords
        /\ Taken.kind = k /\ YieldsIn(Rest) = YieldsIn(microtask_queue)
      BY <1>1, <2>1, GenTaken, GenTypes, QuietTake
  <2>3. gen[g].queue # <<>>
      BY <2>1, <2>2 DEF TaskFits
  <2>4. CASE \E a \in {"done", "reject"} : Complete(g, Rest, a, stack)
      BY <2>2, <2>3, <2>4, CompleteAnswers
  <2>5. CASE /\ \E d : ThrowLands(g, d, stack)
             /\ microtask_queue' = Rest /\ gen[g].state = "suspended"
      BY <2>2, <2>5, ThrowLandsSame
  <2>6. ASSUME NEW x, NEW d, NEW b, Resume(g, x, d, b, stack), x.queue = gen[g].queue,
               microtask_queue' = Rest, gen[g].state = "suspended"
        PROVE  RequestStep
    <3>1. gen' = [gen EXCEPT ![g] = x] /\ UNCHANGED <<request, promise_state>>
        BY <2>6 DEF Resume, promiseVars
    <3>2. QED
        BY <2>2, <2>6, <3>1, GoesOnSame
  <2>7. CASE ReturnLands(g, stack) /\ microtask_queue' = Rest /\ gen[g].state = "suspended"
    <3> DEFINE x == [Resumed(gen[g]) EXCEPT !.unwinding = "return", !.disturbed = FALSE]
    <3>1. x.queue = gen[g].queue
        BY <2>2 DEF Resumed, GenRecords
    <3>2. Resume(g, x, "drain", TRUE, stack)
        BY <2>7 DEF ReturnLands
    <3> HIDE DEF x
    <3>3. QED
        BY <2>6, <2>7, <3>1, <3>2
  <2>8. CASE /\ Resume(g, Resumed(gen[g]), "settle", FALSE, stack) /\ microtask_queue' = Rest
             /\ gen[g].state = "suspended"
    <3>1. Resumed(gen[g]).queue = gen[g].queue
        BY <2>2, RecordTypes
    <3>2. QED
        BY <2>6, <2>8, <3>1
  <2>9. QED
      BY <2>1, <2>4, <2>5, <2>7, <2>8
<1>4. QED
    BY <1>2, <1>3

LEMMA AsideAnswers ==
    ASSUME RequestInv, ResumerInv', StandsAside
    PROVE  RequestStep
BY SameStep DEF StandsAside, QuietQueue, CompletedStay, genVars
GeneratorActs ==
    \/ \E g \in Gens, k \in Kinds : asyncGenDispatch(g, k)
    \/ \E g \in Gens : GenRunsOn(g) \/ GenAwaits(g)
    \/ RunReturnTask \/ RunResumeGen \/ RunYieldTask

LEMMA StepsOfTheLoop ==
    ASSUME ResumerInv, [Next]_vars
    PROVE  StandsAside \/ GeneratorActs
<1>1. CASE Proceed
  <2>1. CASE GenSteps
      BY <2>1 DEF GenSteps, GeneratorActs
  <2>2. CASE ModuleSteps /\ UNCHANGED genVars
      BY <2>2, BodiesStandAside, ResumeStandsAside, ImportsStandAside DEF ModuleSteps
  <2>3. CASE /\ UNCHANGED <<genVars, moduleVars>>
             /\ DrainEnds \/ RunReaction \/ \E s \in {"fulfilled", "rejected"} : RunWasmJob(s)
      BY <2>3, LoopStandsAside
  <2>4. QED
      BY <1>1, <2>1, <2>2, <2>3 DEF Proceed
<1>2. CASE Script
  <2>1. CASE \/ \E g \in Gens, k \in Kinds : asyncGenDispatch(g, k)
             \/ \E g \in Gens : GenAwaits(g)
      BY <2>1 DEF GeneratorActs
  <2>2. CASE /\ UNCHANGED genVars
             /\ \E m \in Modules :
                  DynamicImport(m) \/ HostLoads(m) \/ \E p \in Awaitable : ModuleAwaits(m, p)
      BY <2>2, ImportsStandAside, LoadStandsAside, ModuleAwaitsStandsAside DEF HostLoads
  <2>3. CASE /\ UNCHANGED <<genVars, moduleVars>>
             /\ \E h \in HostPromises : InstantiateWasm(h)
      BY <2>3, LoopStandsAside
  <2>4. QED
      BY <1>2, <2>1, <2>2, <2>3 DEF Script, Kinds
<1>3. CASE \E h \in HostPromises : HostSettles(h)
    BY <1>3, LoopStandsAside DEF HostSettles
<1>4. CASE HostGoesOn \/ (Terminate /\ UNCHANGED <<genVars, moduleVars>>)
    BY <1>4, LoopStandsAside DEF HostGoesOn
<1>5. CASE UNCHANGED vars
    BY <1>5, QuietSame DEF vars, loopVars, jobVars, StandsAside, BodiesStay
<1>6. QED
    BY <1>1, <1>2, <1>3, <1>4, <1>5 DEF Next

LEMMA StepsAnswer ==
    ASSUME RequestInv, ResumerInv', [Next]_vars
    PROVE  RequestStep
<1>1. StandsAside \/ GeneratorActs
    BY StepsOfTheLoop DEF RequestInv
<1>2. ASSUME NEW g \in Gens, GenRunsOn(g) \/ GenAwaits(g) PROVE RequestStep
    BY <1>2, DrainAnswers, AwaitReturnAnswers, BodyAnswers DEF GenRunsOn
<1>3. QED
    BY <1>1, <1>2, AsideAnswers, DispatchAsks, TaskAnswers DEF GeneratorActs

\* The requests made, those answered and those whose turn is to come agree,
\* with the queues, the tasks in flight and the promises handed out.
THEOREM RequestInvariance == Spec => []RequestInv
<1>1. Init /\ ResumerInv => RequestInv
  <2> SUFFICES ASSUME Init, ResumerInv PROVE RequestInv
      OBVIOUS
  <2>1. /\ request = <<>> /\ microtask_queue = <<>>
        /\ \A g \in Gens : gen[g].queue = <<>>
        /\ \A r \in Requests : ~Settled(<<"request", r>>)
      BY DEF Init, LoopInit, GenInit, NewGen, Settled, Promises
  <2>2. Len(<<>>) = 0 /\ DOMAIN <<>> = {} /\ ToSet(<<>>) = {}
      BY EmptySeq, LenProperties DEF ToSet
  <2>3. RequestsMade
      BY <2>1, <2>2, BoundsAssumption DEF RequestsMade
  <2>4. \A g \in Gens : Unanswered(g) = <<>>
      BY <2>1, <2>2 DEF Unanswered, InFlight
  <2>5. RequestsAccounted
      BY <2>1, <2>2, <2>4 DEF RequestsAccounted
  <2>6. QED
      BY <2>3, <2>5 DEF RequestInv
<1>2. RequestInv /\ ResumerInv' /\ [Next]_vars => RequestInv'
    BY StepsAnswer, RequestStepKeeps
<1>3. QED
    BY <1>1, <1>2, ResumerInvariance, PTL DEF Spec

\* However the requests, awaits, yields and terminations interleave, those of
\* a generator that are not answered are in its queue, or in the task of a
\* yield, once and in the order they were made.
THEOREM EveryRequestAccounted == Spec => []RequestsAccounted
<1>1. RequestInv => RequestsAccounted
    BY DEF RequestInv
<1>2. QED
    BY <1>1, RequestInvariance, PTL

Asked == [g \in Gens |-> Unanswered(g)]
Closed == {g \in Gens : \E r \in DOMAIN request :
               request[r].gen = g /\ request[r].answer \in {"done", "reject"}}

LEMMA AnswersInOrder ==
    ASSUME RequestInv, RequestInv', RequestStep
    PROVE  Contract!Next \/ UNCHANGED <<Asked, Closed>>
<1>1. /\ Len(request) \in Nat /\ DOMAIN request = 1 .. Len(request)
      /\ \A r \in DOMAIN request : request[r].gen \in Gens
      /\ \A r \in DOMAIN request :
           request[r].answer \in {"done", "reject"} => gen[request[r].gen].state = "completed"
      /\ \A g \in Gens : Accounted(Unanswered(g), request, g)
      /\ \A g \in Gens : Unanswered(g) \in Seq(DOMAIN request)
      /\ request \in Seq(RequestRecords) /\ request' \in Seq(RequestRecords)
  <2>1. request' \in Seq(RequestRecords)
      BY DEF RequestInv, ResumerInv, GenTyped
  <2>2. QED
      BY <2>1, RequestTypes, AccountedFor DEF RequestInv, RequestsMade, RequestRecords
<1>2. Asked' = [g \in Gens |-> Unanswered(g)']
    BY DEF Asked
<1>3. CASE Same
    BY <1>2, <1>3 DEF Same, Asked, Closed
<1>4. ASSUME NEW g \in Gens, NEW k \in Kinds, Asks(g, k) PROVE Contract!Next
  <2> DEFINE n == Len(request) + 1
             e == [kind |-> k, gen |-> g, answer |-> "open"]
  <2>1. /\ Len(request) < MaxRequests /\ request' = Append(request, e)
        /\ Unanswered(g)' = Append(Unanswered(g), n)
        /\ \A h \in Gens \ {g} : Unanswered(h)' = Unanswered(h)
      BY <1>4 DEF Asks, OthersWait
  <2>2. n \in Requests
      BY <1>1, <2>1, BoundsAssumption DEF Requests
  <2>3. Asked' = [Asked EXCEPT ![g] = Append(@, n)]
      BY <1>2, <2>1 DEF Asked
  <2>4. e \in RequestRecords /\ e.answer = "open"
      BY DEF RequestRecords
  <2> HIDE DEF e
  <2>5. /\ Len(request') = n
        /\ \A r \in 1 .. Len(request) : request'[r] = request[r]
        /\ request'[n] = e
      BY <1>1, <2>1, <2>4, AppendProperties
  <2>6. DOMAIN request' = 1 .. n
      BY <1>1, <2>5, LenProperties
  <2>7. \A r : r \in DOMAIN request' <=> r \in DOMAIN request \/ r = n
      BY <1>1, <2>6
  <2>8. Closed' = Closed
      BY <1>1, <2>4, <2>5, <2>7 DEF Closed
  <2> HIDE DEF n
  <2>9. Contract!Ask(g, n)
      BY <2>3, <2>8 DEF Contract!Ask, Asked, Closed
  <2>10. QED
      BY <2>2, <2>9 DEF Contract!Next
<1>5. ASSUME NEW g \in Gens, NEW a \in Answers, IsAnswered(g, a) PROVE Contract!Next
  <2> DEFINE u == Unanswered(g)
             h == Head(u)
  <2>1. /\ u # <<>> /\ Unanswered(g)' = Tail(u)
        /\ \A f \in Gens \ {g} : Unanswered(f)' = Unanswered(f)
        /\ request' = [request EXCEPT ![h].answer = a]
        /\ a = "yield" => gen[g].state # "completed"
      BY <1>5 DEF IsAnswered, OthersWait
  <2>2. Asked' = [Asked EXCEPT ![g] = Tail(@)] /\ Asked[g] # <<>>
      BY <1>2, <2>1 DEF Asked
  <2>3. h \in DOMAIN request /\ request[h].gen = g /\ request[h].answer = "open"
    <3>1. h \in ToSet(u)
      <4>1. u \in Seq(Nat) /\ Increasing(u)
        <5>1. DOMAIN request \subseteq Nat
            BY <1>1
        <5>2. QED
            BY <1>1, <5>1, SeqMonotonic DEF Accounted
      <4>2. QED
          BY <2>1, <4>1, IncreasingTail
    <3>2. QED
        BY <1>1, <3>1 DEF Accounted
  <2> HIDE DEF h, u
  <2>4. /\ DOMAIN request' = DOMAIN request
        /\ request'[h].gen = g /\ request'[h].answer = a
        /\ \A r \in DOMAIN request \ {h} : request'[r] = request[r]
    <3>1. request[h] \in RequestRecords
        BY <1>1, <2>3, ElementOfSeq
    <3>2. [request[h] EXCEPT !.answer = a].gen = request[h].gen /\ [request[h] EXCEPT !.answer = a].answer = a
        BY <3>1 DEF RequestRecords
    <3>3. /\ DOMAIN request' = DOMAIN request
          /\ request'[h] = [request[h] EXCEPT !.answer = a]
          /\ \A r \in DOMAIN request \ {h} : request'[r] = request[r]
        BY <2>1, <2>3
    <3>4. QED
        BY <2>3, <3>2, <3>3
  <2>5. CASE a = "yield"
    <3>1. Closed' = Closed
        BY <2>3, <2>4, <2>5 DEF Closed
    <3>2. g \notin Closed
        BY <1>1, <2>1, <2>5 DEF Closed
    <3>3. Contract!Yield(g)
        BY <2>2, <3>1, <3>2 DEF Contract!Yield, Contract!Answer, Asked, Closed
    <3>4. QED
        BY <3>3 DEF Contract!Next
  <2>6. CASE a # "yield"
    <3>1. Closed' = Closed \cup {g}
        BY <1>1, <2>3, <2>4, <2>6 DEF Closed, Answers
    <3>2. Contract!Close(g)
        BY <2>2, <3>1 DEF Contract!Close, Contract!Answer, Asked, Closed
    <3>3. QED
        BY <3>2 DEF Contract!Next
  <2>7. QED
      BY <2>5, <2>6
<1>6. QED
    BY <1>3, <1>4, <1>5 DEF RequestStep

\* The generators implement RequestQueue: each request is answered once, in
\* the order they were made, and nothing is yielded after a done or a reject.
THEOREM ContractKept == Spec => KeepsContract
<1>1. Init => Contract!Init
  <2> SUFFICES ASSUME Init PROVE Contract!Init
      OBVIOUS
  <2>1. /\ request = <<>> /\ microtask_queue = <<>>
        /\ \A g \in Gens : gen[g].queue = <<>>
      BY DEF Init, LoopInit, GenInit, NewGen
  <2>2. DOMAIN <<>> = {}
      BY EmptySeq, LenProperties
  <2>3. \A g \in Gens : Unanswered(g) = <<>>
      BY <2>1, <2>2 DEF Unanswered, InFlight
  <2>4. QED
      BY <2>1, <2>2, <2>3 DEF Contract!Init
<1>2. RequestInv /\ RequestInv' /\ [Next]_vars => Contract!Next \/ UNCHANGED <<Asked, Closed>>
    BY StepsAnswer, AnswersInOrder DEF RequestInv
<1>3. QED
    BY <1>1, <1>2, RequestInvariance, PTL DEF Spec, KeepsContract, Contract!Spec, Asked, Closed
-----------------------------------------------------------------------------
(* The value of a .return(v).                                              *)

\* A .return(v) has landed in a finally that nothing has disturbed since.
Returning(x) == x.unwinding = "return" /\ ~x.disturbed

\* Its value is kept by the body while it runs, and by the generator while it
\* does not; what wakes the generator is not an await of its body.
ReturnInv ==
    \A g \in Gens : Returning(gen[g]) =>
        /\ gen[g].state = "executing" \/ gen[g].pending_return_completion
        /\ ~Bare(g)
        /\ \A e \in ToSet(stack) : e.kind = "gen_body" /\ e.gen = g => e.return_completion

\* Tasks q and activations s are what is left once one has been taken.
Leaves(q, s) ==
    /\ ToSet(s) \subseteq ToSet(stack)
    /\ \A h \in Gens : BareIn(q, waiters, awaiting_return_completion, h) => Bare(h)

LEMMA TopLeaves ==
    ASSUME ResumerInv
    PROVE  /\ Leaves(microtask_queue, stack)
           /\ stack # <<>> => /\ Leaves(microtask_queue, Front(stack))
                              /\ Last(stack) \in ToSet(stack)
           /\ \A k : TakesTask(k) => Leaves(Rest, stack)
<1>1. IsSequence(stack)
    BY SequenceOver DEF ResumerInv, LoopTyped
<1>2. stack # <<>> => ToSet(stack) = ToSet(Front(stack)) \cup {Last(stack)}
    BY <1>1, StackElements
<1>3. ASSUME NEW k, TakesTask(k) PROVE Leaves(Rest, stack)
    BY <1>3, QuietTake DEF Leaves, Bare
<1>4. QED
    BY <1>2, <1>3 DEF Leaves, Bare

LEMMA FreedIsQuiet ==
    ASSUME NEW g \in Gens, NEW q, NEW s, Freed(g, q, s)
    PROVE  /\ ~BareIn(q, waiters, awaiting_return_completion, g)
           /\ \A e \in ToSet(s) : ~(e.kind = "gen_body" /\ e.gen = g)
<1>1. /\ q \in Seq(Jobs) /\ NoTask(q, g) /\ NoWait(waiters, g)
      /\ s \in Seq(Activations) /\ NoAct(s, g)
    BY DEF Freed, AtRest
<1>2. ToSet(q) \subseteq Jobs /\ ToSet(s) \subseteq Activations
    BY <1>1, Elements
<1>3. /\ \A t \in ToSet(q) : t \notin TasksOf(g)
      /\ \A e \in ToSet(s) : e \notin ActsOf(g)
      /\ \A p \in Promises : g \notin ToSet(waiters[p])
    BY <1>1 DEF NoTask, NoWait, NoAct, Nowhere, ToSet
<1>4. QED
    BY <1>2, <1>3, Owners DEF BareIn

\* A step of one generator, which was taken off the stack or out of the queue.
LEMMA ReturnStep ==
    ASSUME ResumerInv, ReturnInv, NEW g \in Gens, NEW q, NEW s, Freed(g, q, s), Leaves(q, s),
           NEW x, gen' = [gen EXCEPT ![g] = x],
           \A h \in Gens : Bare(h)' => \/ BareIn(q, waiters, awaiting_return_completion, h)
                                       \/ h = g /\ ~Returning(x),
           \/ stack' = s
           \/ \E e : /\ stack' = Append(s, e)
                     /\ e.kind = "gen_body" => e.gen = g /\ (Returning(x) => e.return_completion),
           Returning(x) => x.state = "executing" \/ x.pending_return_completion
    PROVE  ReturnInv'
<1>1. gen'[g] = x /\ \A h \in Gens \ {g} : gen'[h] = gen[h]
    BY DEF ResumerInv, GenTyped
<1>2. /\ ~BareIn(q, waiters, awaiting_return_completion, g)
      /\ \A e \in ToSet(s) : ~(e.kind = "gen_body" /\ e.gen = g)
    BY FreedIsQuiet
<1>3. /\ \A e \in ToSet(s) : e \in ToSet(stack)
      /\ \A h \in Gens : BareIn(q, waiters, awaiting_return_completion, h) => Bare(h)
    BY DEF Leaves
<1>4. \A e \in ToSet(stack') : e.kind = "gen_body" =>
         e \in ToSet(s) \/ (e.gen = g /\ (Returning(x) => e.return_completion))
  <2>1. IsSequence(s)
      BY SequenceOver DEF Freed
  <2>2. \A e : ToSet(Append(s, e)) = ToSet(s) \cup {e}
      BY <2>1, StackElements
  <2>3. CASE stack' = s
      BY <2>3
  <2>4. ASSUME NEW d, stack' = Append(s, d),
               d.kind = "gen_body" => d.gen = g /\ (Returning(x) => d.return_completion)
        PROVE  \A e \in ToSet(stack') : e.kind = "gen_body" =>
                 e \in ToSet(s) \/ (e.gen = g /\ (Returning(x) => e.return_completion))
      BY <2>2, <2>4
  <2>5. QED
      BY <2>3, <2>4
<1>5. ASSUME NEW h \in Gens, Returning(gen'[h])
      PROVE  /\ gen'[h].state = "executing" \/ gen'[h].pending_return_completion
             /\ ~Bare(h)'
             /\ \A e \in ToSet(stack') : e.kind = "gen_body" /\ e.gen = h => e.return_completion
  <2>1. CASE h = g
      BY <1>1, <1>2, <1>4, <1>5, <2>1
  <2>2. CASE h # g
    <3>1. Returning(gen[h]) /\ gen'[h] = gen[h]
        BY <1>1, <1>5, <2>2
    <3>2. ~Bare(h)'
        BY <1>3, <2>2, <3>1 DEF ReturnInv
    <3>3. QED
        BY <1>3, <1>4, <2>2, <3>1, <3>2 DEF ReturnInv
  <2>3. QED
      BY <2>1, <2>2
<1>6. QED
    BY <1>5 DEF ReturnInv, Returning

LEMMA CompleteKeepsReturn ==
    ASSUME ResumerInv, ReturnInv, NEW g \in Gens, NEW q, NEW s, Freed(g, q, s), Leaves(q, s),
           gen[g].queue # <<>>, NEW a \in {"done", "reject"}, Complete(g, q, a, s)
    PROVE  ReturnInv'
<1> DEFINE x == [NewGen EXCEPT !.state = "completed", !.async_state = "completed",
                               !.queue = Tail(gen[g].queue)]
           v == IF a = "reject" THEN "rejected" ELSE "fulfilled"
<1>1. /\ gen' = [gen EXCEPT ![g] = x] /\ stack' = Append(s, ResumeNext(g))
      /\ settlePromise(q, <<"request", HeadOf(g)>>, v)
    BY DEF Complete, answer
<1>2. ~Returning(x)
    BY DEF Returning, NewGen
<1> HIDE DEF x
<1>3. v \in {"fulfilled", "rejected"} /\ <<"request", HeadOf(g)>> \in Promises /\ q \in Seq(Jobs)
    BY GenTypes DEF Promises, Freed
<1> HIDE DEF v
<1>4. \A h \in Gens : Bare(h)' => BareIn(q, waiters, awaiting_return_completion, h)
    BY <1>1, <1>3, SettleBare DEF Bare
<1>5. ResumeNext(g).kind # "gen_body"
    BY DEF ResumeNext
<1>6. QED
    BY <1>1, <1>2, <1>4, <1>5, ReturnStep

LEMMA ResumeKeepsReturn ==
    ASSUME ResumerInv, ReturnInv, NEW g \in Gens, NEW q, NEW s, Freed(g, q, s), Leaves(q, s),
           NEW x, NEW d, NEW b, Resume(g, x, d, b, s), microtask_queue' = q,
           Returning(x) => x.state = "executing" /\ b
    PROVE  ReturnInv'
<1>1. gen' = [gen EXCEPT ![g] = x] /\ stack' = Append(s, Body(g, d, b)) /\ UNCHANGED promiseVars
    BY DEF Resume
<1>2. Body(g, d, b).gen = g /\ Body(g, d, b).return_completion = b
    BY DEF Body
<1>3. \A h \in Gens : Bare(h)' => BareIn(q, waiters, awaiting_return_completion, h)
    BY <1>1 DEF Bare, BareIn, promiseVars
<1>4. QED
    BY <1>1, <1>2, <1>3, ReturnStep

\* A completion thrown into a finally of a return disturbs it.
LEMMA ThrowKeepsReturn ==
    ASSUME ResumerInv, ReturnInv, NEW g \in Gens, NEW q, NEW s, Freed(g, q, s), Leaves(q, s),
           NEW d, ThrowLands(g, d, s), microtask_queue' = q
    PROVE  ReturnInv'
<1>1. PICK u \in IF gen[g].unwinding = "none" THEN {"none", "throw"} ELSE {gen[g].unwinding} :
        Resume(g, [Resumed(gen[g]) EXCEPT
                      !.unwinding = u,
                      !.disturbed = @ \/ gen[g].unwinding = "return"],
               d, FALSE, s)
    BY DEF ThrowLands
<1> DEFINE b == Resumed(gen[g]).disturbed \/ gen[g].unwinding = "return"
           x == [Resumed(gen[g]) EXCEPT !.unwinding = u, !.disturbed = b]
<1>2. gen[g] \in GenRecords /\ Resumed(gen[g]) \in GenRecords
    BY GenTypes, RecordTypes
<1>3. x.unwinding = u /\ x.disturbed = b
  <2> HIDE DEF b
  <2>1. QED
      BY <1>2 DEF GenRecords
<1>4. ~Returning(x)
    BY <1>1, <1>3 DEF Returning
<1>5. Resume(g, x, d, FALSE, s)
    BY <1>1
<1> HIDE DEF x, b
<1>6. QED
    BY <1>4, <1>5, ResumeKeepsReturn
\* One iteration of the drain.  The value kept across the yield of a finally
\* goes on with the body.
LEMMA DrainKeepsReturn ==
    ASSUME ResumerInv, ReturnInv, NEW g \in Gens,
           ServeCompleted(g) \/ ServeReturn(g) \/ ServeNext(g) \/ ServeThrow(g)
    PROVE  ReturnInv'
<1>1. Serving(g)
    BY DEF ServeCompleted, ServeReturn, ServeNext, ServeThrow, Serves
<1>2. /\ Freed(g, microtask_queue, Front(stack)) /\ gen[g].queue # <<>>
      /\ gen[g] \in GenRecords /\ Agree(gen[g]) /\ stack # <<>>
      /\ gen[g].async_state \notin {"executing", "suspended_await"}
    BY <1>1, ServerOnTop, GenTypes DEF Serving, TopIs
<1>3. Leaves(microtask_queue, Front(stack))
    BY <1>2, TopLeaves
<1>4. CASE ServeCompleted(g)
    BY <1>2, <1>3, <1>4, CompleteKeepsReturn DEF ServeCompleted, Pop
<1>5. Returning(gen[g]) => gen[g].pending_return_completion
    BY <1>2 DEF ReturnInv, Agree
<1>6. CASE ServeReturn(g)
  <2> DEFINE x == Parked(g)
  <2>1. /\ gen' = [gen EXCEPT ![g] = x] /\ stack' = Append(Front(stack), AwaitReturn(g))
        /\ microtask_queue' = microtask_queue /\ UNCHANGED promiseVars
      BY <1>6 DEF ServeReturn, Become, Pop
  <2>2. /\ x.unwinding = gen[g].unwinding /\ x.disturbed = gen[g].disturbed
        /\ x.pending_return_completion = gen[g].pending_return_completion
      BY <1>2 DEF Parked, GenRecords
  <2> HIDE DEF x
  <2>3. AwaitReturn(g).kind # "gen_body"
      BY DEF AwaitReturn
  <2>4. \A h \in Gens : Bare(h)' => BareIn(microtask_queue, waiters, awaiting_return_completion, h)
      BY <2>1 DEF Bare, BareIn, promiseVars
  <2>5. Returning(x) => x.pending_return_completion
      BY <1>5, <2>2 DEF Returning
  <2>6. QED
      BY <1>2, <1>3, <2>1, <2>3, <2>4, <2>5, ReturnStep
<1>7. CASE ServeNext(g)
  <2> DEFINE x == [Resumed(gen[g]) EXCEPT !.pending_return_completion = FALSE]
  <2>1. /\ Resume(g, x, "drain", gen[g].pending_return_completion, Front(stack))
        /\ microtask_queue' = microtask_queue
      BY <1>7 DEF ServeNext, RemembersReturn, Pop
  <2>2. /\ x.unwinding = gen[g].unwinding /\ x.disturbed = gen[g].disturbed
        /\ x.state = "executing"
      BY <1>2 DEF Resumed, GenRecords
  <2> HIDE DEF x
  <2>3. Returning(x) => x.state = "executing" /\ gen[g].pending_return_completion
      BY <1>5, <2>2 DEF Returning
  <2>4. QED
      BY <1>2, <1>3, <2>1, <2>3, ResumeKeepsReturn
<1>8. CASE ServeThrow(g)
    BY <1>2, <1>3, <1>8, CompleteKeepsReturn, ThrowKeepsReturn DEF ServeThrow, Pop
<1>9. QED
    BY <1>4, <1>6, <1>7, <1>8

\* The drain returns, or a request is made.
LEMMA QueueKeepsReturn ==
    ASSUME ResumerInv, ReturnInv, NEW g \in Gens,
           ResumeNextReturns(g) \/ \E k \in Kinds : asyncGenDispatch(g, k)
    PROVE  ReturnInv'
<1>1. UNCHANGED promiseVars /\ microtask_queue' = microtask_queue
    BY DEF ResumeNextReturns, asyncGenDispatch, jobVars
<1>2. ASSUME NEW h \in Gens
      PROVE  /\ gen'[h].unwinding = gen[h].unwinding /\ gen'[h].disturbed = gen[h].disturbed
             /\ gen'[h].state = gen[h].state
             /\ gen'[h].pending_return_completion = gen[h].pending_return_completion
  <2>1. gen[h] \in GenRecords /\ gen \in [Gens -> GenRecords]
      BY DEF ResumerInv, GenTyped
  <2>2. gen' = gen \/ \E n : gen' = [gen EXCEPT ![g].queue = Append(@, n)]
      BY DEF ResumeNextReturns, asyncGenDispatch, genVars
  <2>3. ASSUME NEW n, gen' = [gen EXCEPT ![g].queue = n]
        PROVE  /\ gen'[h].unwinding = gen[h].unwinding /\ gen'[h].disturbed = gen[h].disturbed
               /\ gen'[h].state = gen[h].state
               /\ gen'[h].pending_return_completion = gen[h].pending_return_completion
    <3>1. CASE h = g
        BY <2>1, <2>3, <3>1 DEF GenRecords
    <3>2. CASE h # g
        BY <2>1, <2>3, <3>2
    <3>3. QED
        BY <3>1, <3>2
  <2>4. QED
      BY <2>2, <2>3, Zenon
<1>3. BodiesStay
  <2>1. ResumeNext(g).kind # "gen_body"
      BY DEF ResumeNext
  <2>2. \/ stack' = stack \/ stack' = Append(stack, ResumeNext(g))
        \/ stack # <<>> /\ stack' = Front(stack)
      BY DEF ResumeNextReturns, asyncGenDispatch, TopIs, Leave, Pop
  <2>3. QED
      BY <2>1, <2>2, BodiesMove
<1>4. \A h \in Gens : Bare(h)' => Bare(h)
    BY <1>1 DEF Bare, BareIn, promiseVars
<1>5. QED
    BY <1>2, <1>3, <1>4 DEF ReturnInv, Returning, BodiesStay

\* The value a .return(v) carries is waited for.
LEMMA AwaitKeepsReturn ==
    ASSUME ResumerInv, ReturnInv, NEW g \in Gens,
           \/ \E t \in BOOLEAN : AwaitReturnSettled(g, t)
           \/ \E h \in HostPromises : AwaitReturnPending(g, h)
    PROVE  ReturnInv'
<1> DEFINE x == gen[g]
<1>1. /\ TopIs("await_return") /\ Top.gen = g /\ gen' = gen
      /\ stack # <<>> /\ stack' = Front(stack)
    BY DEF AwaitReturnSettled, AwaitReturnPending, genVars, Leave, Pop, TopIs
<1>2. /\ Freed(g, microtask_queue, Front(stack)) /\ ~AtBody(g)
      /\ gen[g].async_state = "suspended_await" /\ Agree(gen[g])
      /\ Leaves(microtask_queue, Front(stack))
  <2>1. ~AtBody(g)
      BY <1>1 DEF AtBody, TopIs
  <2>2. QED
      BY <1>1, <2>1, GenOnTop, GenTypes, TopLeaves
<1>3. gen' = [gen EXCEPT ![g] = x]
    BY <1>1 DEF ResumerInv, GenTyped
<1>4. Returning(x) => x.pending_return_completion
    BY <1>2 DEF ReturnInv, Agree
<1>5. ASSUME NEW h \in Gens, Bare(h)'
      PROVE  BareIn(microtask_queue, waiters, awaiting_return_completion, h)
  <2>1. microtask_queue \in Seq(Jobs) /\ waiters \in [Promises -> Seq(Coroutines)]
      BY DEF ResumerInv, LoopTyped, PromisesTyped
  <2>2. ASSUME NEW t \in BOOLEAN, AwaitReturnSettled(g, t)
        PROVE  BareIn(microtask_queue, waiters, awaiting_return_completion, h)
    <3>1. microtask_queue' = Append(microtask_queue, ReturnTask(g, t)) /\ UNCHANGED promiseVars
        BY <2>2 DEF AwaitReturnSettled, enqueue
    <3>2. ToSet(microtask_queue') = ToSet(microtask_queue) \cup {ReturnTask(g, t)}
        BY <2>1, <3>1, TaskTypes, Elements
    <3>3. ReturnTask(g, t).kind # "async_resume"
        BY DEF ReturnTask
    <3>4. QED
        BY <1>5, <3>1, <3>2, <3>3 DEF Bare, BareIn, promiseVars
  <2>3. ASSUME NEW k \in HostPromises, AwaitReturnPending(g, k)
        PROVE  BareIn(microtask_queue, waiters, awaiting_return_completion, h)
    <3> DEFINE p == <<"host", k>>
    <3>1. /\ waiters' = [waiters EXCEPT ![p] = Append(@, g)] /\ microtask_queue' = microtask_queue
          /\ awaiting_return_completion' = awaiting_return_completion \cup {g}
        BY <2>3 DEF AwaitReturnPending
    <3>2. p \in Promises /\ g \in Coroutines
        BY DEF Promises, Coroutines
    <3> HIDE DEF p
    <3>3. ToSet(Append(waiters[p], g)) = ToSet(waiters[p]) \cup {g}
        BY <2>1, <3>2, Elements
    <3>4. \A r \in Promises : h \in ToSet(waiters'[r]) => h \in ToSet(waiters[r]) \/ h = g
        BY <2>1, <3>1, <3>2, <3>3
    <3>5. QED
        BY <1>5, <3>1, <3>4 DEF Bare, BareIn
  <2>4. QED
      BY <2>2, <2>3
<1> HIDE DEF x
<1>6. QED
    BY <1>1, <1>2, <1>3, <1>4, <1>5, ReturnStep
\* A body yields: the generator remembers the return the body was driven with.
LEMMA YieldKeepsReturn ==
    ASSUME ResumerInv, ReturnInv, NEW g \in Gens, NEW rejected \in BOOLEAN,
           YieldToDrain(g, rejected) \/ YieldAfterAwait(g, rejected)
    PROVE  ReturnInv'
<1>1. AtBody(g) /\ stack # <<>>
    BY DEF YieldToDrain, YieldAfterAwait, Runs, AtBody, TopIs
<1>2. /\ Freed(g, microtask_queue, Front(stack)) /\ gen[g].queue # <<>>
      /\ gen[g] \in GenRecords /\ Top \in Activations
      /\ Leaves(microtask_queue, Front(stack)) /\ Top \in ToSet(stack)
      /\ microtask_queue \in Seq(Jobs) /\ HeadOf(g) \in Requests
    BY <1>1, GenOnTop, GenTypes, TopLeaves DEF Top, Freed
<1>3. Returning(gen[g]) => Top.return_completion
    BY <1>1, <1>2 DEF ReturnInv, AtBody, TopIs
<1>4. \A s : /\ SuspendedAs(g, s).unwinding = gen[g].unwinding
             /\ SuspendedAs(g, s).disturbed = gen[g].disturbed
             /\ SuspendedAs(g, s).pending_return_completion = StashReturn(g)
             /\ DOMAIN SuspendedAs(g, s) = DOMAIN gen[g]
    BY <1>2 DEF SuspendedAs, GenRecords
<1>5. \A s, a, q : LET x == [SuspendedAs(g, s) EXCEPT !.state = a, !.queue = q]
                       y == [SuspendedAs(g, s) EXCEPT !.queue = q]
                   IN  /\ Returning(x) => x.pending_return_completion
                       /\ Returning(y) => y.pending_return_completion
  <2>1. Returning(gen[g]) => StashReturn(g)
      BY <1>3 DEF StashReturn
  <2>2. {"unwinding", "disturbed", "pending_return_completion", "state", "queue"} \subseteq DOMAIN gen[g]
      BY <1>2 DEF GenRecords
  <2>3. ASSUME NEW s, NEW a, NEW q
        PROVE  LET z == SuspendedAs(g, s)
                   x == [SuspendedAs(g, s) EXCEPT !.state = a, !.queue = q]
                   y == [SuspendedAs(g, s) EXCEPT !.queue = q]
               IN  /\ x.unwinding = z.unwinding /\ y.unwinding = z.unwinding
                   /\ x.disturbed = z.disturbed /\ y.disturbed = z.disturbed
                   /\ x.pending_return_completion = z.pending_return_completion
                   /\ y.pending_return_completion = z.pending_return_completion
      BY <1>4, <2>2
  <2>4. QED
      BY <1>4, <2>1, <2>3 DEF Returning
<1>6. CASE YieldToDrain(g, rejected)
  <2> DEFINE a == IF rejected THEN "completed" ELSE SuspendedAs(g, YieldParks(g)).state
             x == [SuspendedAs(g, YieldParks(g)) EXCEPT !.state = a, !.queue = Popped(g)]
             t == YieldTask(g, HeadOf(g), rejected)
  <2>1. /\ gen' = [gen EXCEPT ![g] = x] /\ microtask_queue' = Append(microtask_queue, t)
        /\ UNCHANGED promiseVars /\ stack' = Front(stack)
      BY <1>6 DEF YieldToDrain, enqueue, Leave, Pop
  <2>2. Returning(x) => x.pending_return_completion
      BY <1>5, Zenon
  <2>3. t \in Jobs /\ t.kind # "async_resume"
      BY <1>2, TaskTypes DEF YieldTask
  <2> HIDE DEF x, t
  <2>4. ToSet(microtask_queue') = ToSet(microtask_queue) \cup {t}
      BY <1>2, <2>1, <2>3, Elements
  <2>5. \A h \in Gens : Bare(h)' => BareIn(microtask_queue, waiters, awaiting_return_completion, h)
      BY <2>1, <2>3, <2>4 DEF Bare, BareIn, promiseVars
  <2>6. QED
      BY <1>2, <2>1, <2>2, <2>5, ReturnStep
<1>7. CASE YieldAfterAwait(g, rejected)
  <2> DEFINE x == [SuspendedAs(g, "suspended_yield") EXCEPT !.queue = Popped(g)]
  <2>1. CASE Complete(g, microtask_queue, "reject", Pop)
      BY <1>2, <2>1, CompleteKeepsReturn DEF Pop
  <2>2. CASE /\ gen' = [gen EXCEPT ![g] = x]
             /\ answer(microtask_queue, HeadOf(g), "yield")
             /\ Become(ResumeNext(g))
    <3>1. Returning(x) => x.pending_return_completion
        BY <1>5, Zenon
    <3> HIDE DEF x
    <3>2. /\ settlePromise(microtask_queue, <<"request", HeadOf(g)>>, "fulfilled")
          /\ <<"request", HeadOf(g)>> \in Promises
        BY <1>2, <2>2 DEF answer, Promises
    <3>3. \A h \in Gens : Bare(h)' => BareIn(microtask_queue, waiters, awaiting_return_completion, h)
        BY <1>2, <3>2, SettleBare DEF Bare
    <3>4. stack' = Append(Front(stack), ResumeNext(g)) /\ ResumeNext(g).kind # "gen_body"
        BY <2>2 DEF Become, Pop, ResumeNext
    <3>5. QED
        BY <1>2, <2>2, <3>1, <3>3, <3>4, ReturnStep
  <2>3. QED
      BY <1>7, <2>1, <2>2 DEF YieldAfterAwait
<1>8. QED
    BY <1>6, <1>7

\* A body awaits, which disturbs its finally, or ends.
LEMMA BodyKeepsReturn ==
    ASSUME ResumerInv, ReturnInv, NEW g \in Gens,
           BodyReturns(g) \/ BodyThrows(g) \/ BodyRethrows(g) \/ GenAwaits(g)
    PROVE  ReturnInv'
<1>1. AtBody(g) /\ stack # <<>>
    BY DEF BodyReturns, BodyThrows, BodyRethrows, GenAwaits, BodyAwaitsSettled,
           BodyAwaitsPending, Runs, AtBody, TopIs
<1>2. /\ Freed(g, microtask_queue, Front(stack)) /\ gen[g].queue # <<>>
      /\ gen[g] \in GenRecords /\ Leaves(microtask_queue, Front(stack))
      /\ microtask_queue \in Seq(Jobs)
    BY <1>1, GenOnTop, GenTypes, TopLeaves DEF Freed
<1>3. CASE BodyReturns(g) \/ BodyThrows(g) \/ BodyRethrows(g)
    BY <1>2, <1>3, CompleteKeepsReturn DEF BodyReturns, BodyThrows, BodyRethrows, Pop
<1>4. CASE GenAwaits(g)
  <2> DEFINE x == Suspended(g)
  <2>1. gen' = [gen EXCEPT ![g] = x] /\ stack' = Front(stack)
      BY <1>4 DEF GenAwaits, BodyAwaitsSettled, BodyAwaitsPending, Leave, Pop
  <2>2. ~Returning(x)
    <3> DEFINE y == SuspendedAs(g, "suspended_await")
               b == y.disturbed \/ gen[g].unwinding = "return"
    <3>1. x = [y EXCEPT !.disturbed = b]
        BY DEF Suspended
    <3>2. /\ y.unwinding = gen[g].unwinding
          /\ "unwinding" \in DOMAIN y /\ "disturbed" \in DOMAIN y
        BY <1>2 DEF SuspendedAs, GenRecords
    <3> HIDE DEF y, x
    <3>3. x.unwinding = gen[g].unwinding /\ x.disturbed = b
      <4> HIDE DEF b
      <4>1. QED
          BY <3>1, <3>2
    <3>4. QED
        BY <3>3 DEF Returning
  <2> HIDE DEF x
  <2>3. ASSUME NEW h \in Gens, Bare(h)'
        PROVE  BareIn(microtask_queue, waiters, awaiting_return_completion, h) \/ h = g
    <3>1. waiters \in [Promises -> Seq(Coroutines)] /\ g \in Coroutines
        BY DEF ResumerInv, LoopTyped, PromisesTyped, Coroutines
    <3>2. CASE /\ \E t \in BOOLEAN : microtask_queue' = Append(microtask_queue, ResumeTask(g, t))
               /\ UNCHANGED promiseVars
      <4>1. PICK t \in BOOLEAN : microtask_queue' = Append(microtask_queue, ResumeTask(g, t))
          BY <3>2
      <4>2. ToSet(microtask_queue') = ToSet(microtask_queue) \cup {ResumeTask(g, t)}
          BY <1>2, <3>1, <4>1, TaskTypes, Elements
      <4>3. ResumeTask(g, t).who = g
          BY DEF ResumeTask
      <4>4. QED
          BY <2>3, <3>2, <4>2, <4>3 DEF Bare, BareIn, promiseVars
    <3>3. CASE \E p \in Promises :
                 /\ waiters' = [waiters EXCEPT ![p] = Append(@, g)]
                 /\ UNCHANGED <<microtask_queue, awaiting_return_completion>>
      <4>1. PICK p \in Promises : waiters' = [waiters EXCEPT ![p] = Append(@, g)]
          BY <3>3
      <4>2. ToSet(Append(waiters[p], g)) = ToSet(waiters[p]) \cup {g}
          BY <3>1, Elements
      <4>3. \A r \in Promises : h \in ToSet(waiters'[r]) => h \in ToSet(waiters[r]) \/ h = g
          BY <3>1, <4>1, <4>2
      <4>4. QED
          BY <2>3, <3>3, <4>3 DEF Bare, BareIn
    <3>4. QED
      <4>1. \A k \in HostPromises : <<"host", k>> \in Promises
          BY DEF Promises
      <4>2. CASE \E t \in BOOLEAN : BodyAwaitsSettled(g, t)
          BY <3>2, <4>2 DEF BodyAwaitsSettled, enqueue
      <4>3. ASSUME NEW k \in HostPromises, BodyAwaitsPending(g, k)
            PROVE  /\ waiters' = [waiters EXCEPT ![<<"host", k>>] = Append(@, g)]
                   /\ UNCHANGED <<microtask_queue, awaiting_return_completion>>
          BY <4>3 DEF BodyAwaitsPending, awaitPromise
      <4>4. QED
          BY <1>4, <3>3, <4>1, <4>2, <4>3 DEF GenAwaits
  <2>4. QED
      BY <1>2, <2>1, <2>2, <2>3, ReturnStep
<1>5. QED
    BY <1>3, <1>4
\* A task wakes a generator; that of an await is not for one whose finally is
\* undisturbed.
LEMMA TaskKeepsReturn ==
    ASSUME RequestInv, ReturnInv, RunReturnTask \/ RunResumeGen \/ RunYieldTask
    PROVE  ReturnInv'
<1>1. ResumerInv
    BY DEF RequestInv
<1>2. ASSUME NEW k \in {"async_gen_return_after_await", "async_resume", "async_gen_yield"},
             TakesTask(k), NEW g \in Gens, g = Taken.who
      PROVE  /\ Freed(g, Rest, stack) /\ TaskFits(gen[g], Taken) /\ gen[g] \in GenRecords
             /\ Taken \in Jobs /\ Taken.kind = k /\ Leaves(Rest, stack)
             /\ Taken \in ToSet(microtask_queue) /\ Rest \in Seq(Jobs)
             /\ gen[g].async_state = "suspended_await" /\ Agree(gen[g])
    BY <1>1, <1>2, GenTaken, GenTypes, TaskTaken, QuietTake, TopLeaves
<1>3. CASE RunReturnTask
  <2>1. PICK g \in Gens : g = Taken.who /\ TakesTask("async_gen_return_after_await")
      BY <1>1, <1>3, TaskTaken, JobFields DEF RunReturnTask
  <2>2. /\ Freed(g, Rest, stack) /\ gen[g] \in GenRecords /\ gen[g].queue # <<>>
        /\ Leaves(Rest, stack)
      BY <1>2, <2>1 DEF TaskFits
  <2>3. CASE \E a \in {"done", "reject"} : Complete(g, Rest, a, stack)
      BY <1>1, <2>2, <2>3, CompleteKeepsReturn
  <2>4. CASE ThrowLands(g, "drain", stack) /\ microtask_queue' = Rest
      BY <1>1, <2>2, <2>4, ThrowKeepsReturn
  <2>5. CASE ReturnLands(g, stack) /\ microtask_queue' = Rest
    <3> DEFINE x == [Resumed(gen[g]) EXCEPT !.unwinding = "return", !.disturbed = FALSE]
    <3>1. Resume(g, x, "drain", TRUE, stack)
        BY <2>5 DEF ReturnLands
    <3>2. x.state = "executing"
        BY <2>2 DEF Resumed, GenRecords
    <3> HIDE DEF x
    <3>3. QED
        BY <1>1, <2>2, <2>5, <3>1, <3>2, ResumeKeepsReturn
  <2>6. QED
      BY <1>3, <2>1, <2>3, <2>4, <2>5 DEF RunReturnTask
<1>4. CASE RunResumeGen
  <2>1. PICK g \in Gens : g = Taken.who /\ TakesTask("async_resume")
      BY <1>4 DEF RunResumeGen
  <2>2. /\ Freed(g, Rest, stack) /\ gen[g] \in GenRecords /\ gen[g].queue # <<>>
        /\ Leaves(Rest, stack) /\ Bare(g)
      BY <1>2, <2>1 DEF TaskFits, Bare, BareIn
  <2>3. CASE Complete(g, Rest, "reject", stack)
      BY <1>1, <2>2, <2>3, CompleteKeepsReturn
  <2>4. CASE ThrowLands(g, "settle", stack) /\ microtask_queue' = Rest
      BY <1>1, <2>2, <2>4, ThrowKeepsReturn
  <2>5. CASE /\ Resume(g, Resumed(gen[g]), "settle", FALSE, stack)
             /\ microtask_queue' = Rest
    <3>1. /\ Resumed(gen[g]).unwinding = gen[g].unwinding
          /\ Resumed(gen[g]).disturbed = gen[g].disturbed
        BY <2>2 DEF Resumed, GenRecords
    <3>2. ~Returning(Resumed(gen[g]))
        BY <2>2, <3>1 DEF ReturnInv, Returning
    <3>3. QED
        BY <1>1, <2>2, <2>5, <3>2, ResumeKeepsReturn
  <2>6. QED
      BY <1>4, <2>1, <2>3, <2>4, <2>5 DEF RunResumeGen
<1>5. CASE RunYieldTask
  <2>1. PICK g \in Gens, t \in Jobs :
          /\ g = t.who /\ t = Taken /\ t.request \in Requests
          /\ TakesTask("async_gen_yield")
          /\ answer(Rest, t.request, IF t.reject THEN "reject" ELSE "yield")
          /\ gen' = [gen EXCEPT ![g].async_state = AfterYield(g)]
          /\ stack' = Append(stack, ResumeNext(g))
    <3>1. TakesTask("async_gen_yield")
        BY <1>5 DEF RunYieldTask
    <3>2. /\ Taken \in Jobs /\ Taken.kind = "async_gen_yield" /\ Taken.who \in Gens
          /\ Taken.request \in Requests
        BY <1>1, <3>1, TaskTaken, JobFields
    <3>3. QED
        BY <1>5, <3>1, <3>2 DEF RunYieldTask, Push
  <2>2. /\ Freed(g, Rest, stack) /\ gen[g] \in GenRecords /\ Rest \in Seq(Jobs)
        /\ Leaves(Rest, stack) /\ gen[g].state # "executing"
      BY <1>2, <2>1 DEF Agree
  <2> DEFINE x == [gen[g] EXCEPT !.async_state = AfterYield(g)]
             r == t.request
             v == IF (IF t.reject THEN "reject" ELSE "yield") = "reject" THEN "rejected" ELSE "fulfilled"
  <2>3. /\ x.unwinding = gen[g].unwinding /\ x.disturbed = gen[g].disturbed
        /\ x.pending_return_completion = gen[g].pending_return_completion
      BY <2>2 DEF GenRecords
  <2>4. Returning(x) => x.pending_return_completion
      BY <2>2, <2>3 DEF ReturnInv, Returning
  <2>5. gen' = [gen EXCEPT ![g] = x] /\ settlePromise(Rest, <<"request", r>>, v)
      BY <2>1 DEF answer
  <2>6. v \in {"fulfilled", "rejected"} /\ <<"request", r>> \in Promises
      BY <2>1 DEF Promises
  <2> HIDE DEF x, v
  <2>7. \A h \in Gens : Bare(h)' => BareIn(Rest, waiters, awaiting_return_completion, h)
      BY <1>1, <2>2, <2>5, <2>6, SettleBare DEF Bare
  <2>8. \E e : /\ stack' = Append(stack, e)
               /\ e.kind = "gen_body" => e.gen = g /\ (Returning(x) => e.return_completion)
    <3>1. ResumeNext(g).kind # "gen_body"
        BY DEF ResumeNext
    <3>2. QED
        BY <2>1, <3>1
  <2>9. QED
      BY <1>1, <2>2, <2>4, <2>5, <2>7, <2>8, ReturnStep
<1>6. QED
    BY <1>3, <1>4, <1>5

LEMMA AsideKeepsReturn ==
    ASSUME ReturnInv, StandsAside
    PROVE  ReturnInv'
<1>1. /\ gen' = gen /\ BodiesStay
      /\ \A h \in Gens : Bare(h)' => Bare(h)
    BY DEF StandsAside, genVars, QuietQueue, Bare
<1>2. ASSUME NEW h \in Gens, Returning(gen'[h])
      PROVE  /\ gen'[h].state = "executing" \/ gen'[h].pending_return_completion
             /\ ~Bare(h)'
             /\ \A e \in ToSet(stack') : e.kind = "gen_body" /\ e.gen = h => e.return_completion
    BY <1>1, <1>2 DEF ReturnInv, BodiesStay
<1>3. QED
    BY <1>2 DEF ReturnInv, Returning

\* The value of a .return(v) survives the yields of the finally it is in.
THEOREM ReturnInvariance == Spec => []ReturnInv
<1>1. Init => ReturnInv
    BY DEF Init, GenInit, NewGen, ReturnInv, Returning
<1>2. RequestInv /\ ReturnInv /\ [Next]_vars => ReturnInv'
  <2> SUFFICES ASSUME RequestInv, ReturnInv, [Next]_vars PROVE ReturnInv'
      OBVIOUS
  <2>1. ResumerInv
      BY DEF RequestInv
  <2>2. StandsAside \/ GeneratorActs
      BY <2>1, StepsOfTheLoop
  <2>3. ASSUME NEW g \in Gens, GenRunsOn(g) \/ GenAwaits(g) PROVE ReturnInv'
      BY <2>1, <2>3, DrainKeepsReturn, QueueKeepsReturn, AwaitKeepsReturn, YieldKeepsReturn,
         BodyKeepsReturn DEF GenRunsOn
  <2>4. QED
      BY <2>1, <2>2, <2>3, AsideKeepsReturn, QueueKeepsReturn, TaskKeepsReturn DEF GeneratorActs
<1>3. QED
    BY <1>1, <1>2, RequestInvariance, PTL DEF Spec

\* However a generator's requests, yields and terminations interleave, a
\* finally that a .return(v) landed in, and that ends undisturbed, answers it.
THEOREM ReturnsSurface == Spec => ReturnSurfaces
<1>1. ASSUME RequestInv, ReturnInv, NEW g \in Gens, BodyRethrows(g),
             gen[g].unwinding = "return", ~gen[g].disturbed
      PROVE  request'[HeadOf(g)].answer = "done"
  <2>1. ResumerInv /\ AtBody(g) /\ stack # <<>>
      BY <1>1 DEF RequestInv, BodyRethrows, Runs, AtBody, TopIs
  <2>2. /\ Freed(g, microtask_queue, Front(stack)) /\ gen[g].queue # <<>>
        /\ Top \in ToSet(stack)
      BY <2>1, GenOnTop, TopLeaves DEF Top
  <2>3. Top.return_completion
      BY <1>1, <2>1, <2>2 DEF ReturnInv, Returning, AtBody, TopIs
  <2>4. answer(microtask_queue, HeadOf(g), "done")
      BY <1>1, <2>3 DEF BodyRethrows, Complete
  <2>5. Unanswered(g) = gen[g].queue
    <3>1. \A t \in YieldsIn(microtask_queue) : t.who # g
        BY <2>1, <2>2, YieldsMove DEF Freed, AtRest, Coroutines
    <3>2. QED
        BY <2>1, <3>1, UnansweredNow
  <2>6. /\ HeadOf(g) \in DOMAIN request
        /\ request' = [request EXCEPT ![HeadOf(g)].answer = "done"]
      BY <1>1, <2>2, <2>4, <2>5, HeadAnswered DEF HeadOf, Freed, Answers
  <2>7. request[HeadOf(g)] \in RequestRecords
      BY <1>1, <2>6, RequestTypes
  <2>8. QED
      BY <2>6, <2>7 DEF RequestRecords
<1>2. RequestInv /\ ReturnInv /\ [Next]_vars =>
        [\A g \in Gens : BodyRethrows(g) /\ gen[g].unwinding = "return" /\ ~gen[g].disturbed
            => request'[HeadOf(g)].answer = "done"]_vars
    BY <1>1
<1>3. QED
    BY <1>2, RequestInvariance, ReturnInvariance, PTL DEF Spec, ReturnSurfaces
-----------------------------------------------------------------------------
(* import().                                                               *)

\* The tasks and the activations that bring import() i on its way.
Works(t, i) ==
    \/ t.kind = "module_import" /\ t.import = i
    \/ t.kind = "promise_reaction" /\ t.promise = <<"import", i>>

Loads(e, i) == e.kind = "import" /\ e.import = i

\* Import i is settled, has a task in q or an activation in s, or follows
\* the evaluation of a module.
ImportIn(q, s, i) ==
    \/ Settled(<<"import", i>>)
    \/ \E t \in ToSet(q) : Works(t, i)
    \/ \E e \in ToSet(s) : Loads(e, i)
    \/ \E m \in Modules : <<"import", i>> \in ToSet(reactions[Evaluation(m)])

Underway(i) == ImportIn(microtask_queue, stack, i)

\* Every import() is under way, those that follow a module follow one that
\* awaits, and an import job never starts in the middle of an evaluation.
ImportInv ==
    /\ \A i \in DOMAIN imports : Underway(i)
    /\ \A m \in Modules :
         /\ reactions[Evaluation(m)] # <<>> => module_state[m] = "evaluating_async"
         /\ module_state[m] = "evaluating_async" => IsAsync(m)
    /\ WaitsOn(stack)

\* What the other steps do: they take tasks q and activations s that are no
\* import's, settle a promise or queue a task, and push what is no import job.
TakesNoImport(q, s) ==
    /\ \/ q = microtask_queue
       \/ /\ q = Rest
          /\ \E k \in {"async_resume", "async_gen_yield", "async_gen_return_after_await"} :
               TakesTask(k)
    /\ s = stack \/ (stack # <<>> /\ Last(stack).kind # "import" /\ s = Front(stack))

Settles(q) ==
    \/ \E p \in Promises : \E v \in {"fulfilled", "rejected"} : settlePromise(q, p, v)
    \/ /\ UNCHANGED <<promise_state, reactions>>
       /\ microtask_queue' = q \/ \E t \in Jobs : microtask_queue' = Append(q, t)

Grows(s) ==
    \/ stack' = s
    \/ \E e : /\ e.kind # "import"
              /\ stack' = Append(s, e) \/ stack' = Append(Append(s, e), Drain)

GoesOn == \E q, s : TakesNoImport(q, s) /\ Settles(q) /\ Grows(s)

\* Modules that await go on awaiting, and only those with an await begin to.
AsyncStay ==
    /\ UNCHANGED <<graph, imports>>
    /\ \A m \in Modules :
         /\ module_state[m] = "evaluating_async" => module_state'[m] = "evaluating_async"
         /\ module_state'[m] = "evaluating_async" =>
              module_state[m] = "evaluating_async" \/ IsAsync(m)

LEMMA EvaluationPromises ==
    /\ \A m \in Modules : Evaluation(m) \in Promises
    /\ \A i \in Imports : <<"import", i>> \in Promises /\ <<"import", i>> \in ImportPromises
    /\ \A m \in Modules, i \in Imports : Evaluation(m) # <<"import", i>>
BY DEF Evaluation, Promises, ImportPromises

\* A settled promise stays settled, and the import()s that follow it get
\* their tasks.
LEMMA SettlesKeepImports ==
    ASSUME PromisesTyped, NEW q \in Seq(Jobs), Settles(q), NEW i \in Imports
    PROVE  /\ Settled(<<"import", i>>) => Settled(<<"import", i>>)'
           /\ \A t \in ToSet(q) : t \in ToSet(microtask_queue')
           /\ \A m \in Modules :
                <<"import", i>> \in ToSet(reactions[Evaluation(m)]) =>
                  \/ <<"import", i>> \in ToSet(reactions'[Evaluation(m)])
                  \/ \E t \in ToSet(microtask_queue') : Works(t, i)
<1>1. CASE UNCHANGED <<promise_state, reactions>> /\ microtask_queue' = q
    BY <1>1 DEF Settled
<1>2. CASE UNCHANGED <<promise_state, reactions>> /\ \E t \in Jobs : microtask_queue' = Append(q, t)
  <2>1. PICK t \in Jobs : microtask_queue' = Append(q, t)
      BY <1>2
  <2>2. ToSet(microtask_queue') = ToSet(q) \cup {t}
      BY <2>1, Elements
  <2>3. QED
      BY <1>2, <2>2 DEF Settled
<1>3. ASSUME NEW p \in Promises, NEW v \in {"fulfilled", "rejected"}, settlePromise(q, p, v)
      PROVE  /\ Settled(<<"import", i>>) => Settled(<<"import", i>>)'
             /\ \A t \in ToSet(q) : t \in ToSet(microtask_queue')
             /\ \A m \in Modules :
                  <<"import", i>> \in ToSet(reactions[Evaluation(m)]) =>
                    \/ <<"import", i>> \in ToSet(reactions'[Evaluation(m)])
                    \/ \E t \in ToSet(microtask_queue') : Works(t, i)
  <2>1. CASE Settled(p)
    <3>1. UNCHANGED promiseVars /\ ToSet(microtask_queue') = ToSet(q)
        BY <1>3, <2>1, SettleElements
    <3>2. QED
        BY <3>1 DEF promiseVars, Settled
  <2>2. CASE ~Settled(p)
    <3>1. /\ ToSet(microtask_queue') =
               ToSet(q) \cup {WakeTask(c, v = "rejected") : c \in ToSet(waiters[p])}
                        \cup {ReactionTask(r, v = "rejected") : r \in ToSet(reactions[p])}
          /\ promise_state' = [promise_state EXCEPT ![p] = v]
          /\ reactions' = [reactions EXCEPT ![p] = <<>>]
        BY <1>3, <2>2, SettleElements
    <3>2. /\ reactions'[p] = <<>> /\ \A r \in Promises \ {p} : reactions'[r] = reactions[r]
          /\ promise_state'[p] = v
          /\ \A r \in Promises \ {p} : promise_state'[r] = promise_state[r]
        BY <3>1 DEF PromisesTyped
    <3>3. Settled(<<"import", i>>) => Settled(<<"import", i>>)'
        BY <3>2, EvaluationPromises DEF Settled
    <3>4. ASSUME <<"import", i>> \in ToSet(reactions[p])
          PROVE  \E t \in ToSet(microtask_queue') : Works(t, i)
      <4>1. ReactionTask(<<"import", i>>, v = "rejected") \in ToSet(microtask_queue')
          BY <3>1, <3>4
      <4>2. Works(ReactionTask(<<"import", i>>, v = "rejected"), i)
          BY DEF Works, ReactionTask
      <4>3. QED
          BY <4>1, <4>2
    <3>5. \A t \in ToSet(q) : t \in ToSet(microtask_queue')
        BY <3>1
    <3>6. ASSUME NEW m \in Modules, <<"import", i>> \in ToSet(reactions[Evaluation(m)])
          PROVE  \/ <<"import", i>> \in ToSet(reactions'[Evaluation(m)])
                 \/ \E t \in ToSet(microtask_queue') : Works(t, i)
      <4>1. CASE Evaluation(m) = p
          BY <3>4, <3>6, <4>1
      <4>2. CASE Evaluation(m) # p
          BY <3>2, <3>6, <4>2, EvaluationPromises
      <4>3. QED
          BY <4>1, <4>2
    <3>7. QED
        BY <3>3, <3>5, <3>6
  <2>3. QED
      BY <2>1, <2>2
<1>4. QED
    BY <1>1, <1>2, <1>3, Zenon DEF Settles

LEMMA GrowsKeepsImports ==
    ASSUME NEW s, IsSequence(s), Grows(s)
    PROVE  /\ \A e \in ToSet(s) : e \in ToSet(stack')
           /\ WaitsOn(s) => WaitsOn(stack')
<1>1. CASE stack' = s
    BY <1>1
<1>2. ASSUME NEW e, e.kind # "import",
             stack' = Append(s, e) \/ stack' = Append(Append(s, e), Drain)
      PROVE  /\ \A d \in ToSet(s) : d \in ToSet(stack')
             /\ WaitsOn(s) => WaitsOn(stack')
  <2> DEFINE u == Append(s, e)
  <2>1. /\ IsSequence(u) /\ ToSet(u) = ToSet(s) \cup {e}
        /\ WaitsOn(s) => WaitsOn(u)
      BY <1>2, StackElements, PushKeeps
  <2>2. stack' = u \/ stack' = Append(u, Drain)
      BY <1>2
  <2>3. Drain.kind # "import"
      BY DEF Drain
  <2> HIDE DEF u
  <2>4. /\ ToSet(Append(u, Drain)) = ToSet(u) \cup {Drain}
        /\ WaitsOn(u) => WaitsOn(Append(u, Drain))
      BY <2>1, <2>3, StackElements, PushKeeps
  <2>5. QED
      BY <2>1, <2>2, <2>4
<1>3. QED
    BY <1>1, <1>2 DEF Grows

\* What comes of q and s when they are what is left, an import() whose task
\* or activation was taken excepted.
LEMMA ImportStep ==
    ASSUME ResumerInv, NEW q \in Seq(Jobs), NEW s, IsSequence(s), Settles(q), Grows(s)
    PROVE  /\ \A i \in Imports : ImportIn(q, s, i) => Underway(i)'
           /\ \A m \in Modules :
                reactions'[Evaluation(m)] # <<>> => reactions[Evaluation(m)] # <<>>
<1>1. PromisesTyped
    BY DEF ResumerInv, LoopTyped
<1>2. \A e \in ToSet(s) : e \in ToSet(stack')
    BY GrowsKeepsImports
<1>3. ASSUME NEW i \in Imports, ImportIn(q, s, i) PROVE Underway(i)'
  <2>1. /\ Settled(<<"import", i>>) => Settled(<<"import", i>>)'
        /\ \A t \in ToSet(q) : t \in ToSet(microtask_queue')
        /\ \A m \in Modules :
             <<"import", i>> \in ToSet(reactions[Evaluation(m)]) =>
                     \/ <<"import", i>> \in ToSet(reactions'[Evaluation(m)])
                     \/ \E t \in ToSet(microtask_queue') : Works(t, i)
      BY <1>1, SettlesKeepImports
  <2>2. Underway(i)' <=>
          \/ Settled(<<"import", i>>)'
          \/ \E t \in ToSet(microtask_queue') : Works(t, i)
          \/ \E e \in ToSet(stack') : Loads(e, i)
          \/ \E m \in Modules : <<"import", i>> \in ToSet(reactions'[Evaluation(m)])
      BY DEF Underway, ImportIn, Works, Loads, Evaluation
  <2>3. QED
      BY <1>2, <1>3, <2>1, <2>2 DEF ImportIn
<1>4. ASSUME NEW m \in Modules, reactions'[Evaluation(m)] # <<>>
      PROVE  reactions[Evaluation(m)] # <<>>
  <2>1. CASE reactions' = reactions
      BY <1>4, <2>1
  <2>2. ASSUME NEW p \in Promises, NEW v \in {"fulfilled", "rejected"}, settlePromise(q, p, v)
        PROVE  reactions[Evaluation(m)] # <<>>
    <3>1. reactions' = reactions \/ reactions' = [reactions EXCEPT ![p] = <<>>]
        BY <2>2 DEF settlePromise, promiseVars
    <3>2. reactions \in [Promises -> Seq(ImportPromises)] /\ Evaluation(m) \in Promises
        BY <1>1, EvaluationPromises DEF PromisesTyped
    <3>3. QED
        BY <1>4, <3>1, <3>2
  <2>3. QED
      BY <2>1, <2>2 DEF Settles
<1>5. QED
    BY <1>3, <1>4
\* A generator's task is not an import's.
LEMMA TakingKeepsImports ==
    ASSUME ResumerInv, NEW q, NEW s, TakesNoImport(q, s)
    PROVE  /\ q \in Seq(Jobs) /\ IsSequence(s)
           /\ \A i : Underway(i) => ImportIn(q, s, i)
           /\ WaitsOn(stack) => WaitsOn(s)
<1>1. microtask_queue \in Seq(Jobs) /\ IsSequence(stack)
    BY SequenceOver DEF ResumerInv, LoopTyped
<1>2. q \in Seq(Jobs) /\ \A i : (\E t \in ToSet(microtask_queue) : Works(t, i))
                                  => \E t \in ToSet(q) : Works(t, i)
  <2>1. CASE q = microtask_queue
      BY <1>1, <2>1
  <2>2. ASSUME NEW k \in {"async_resume", "async_gen_yield", "async_gen_return_after_await"},
               TakesTask(k), q = Rest
        PROVE  q \in Seq(Jobs) /\ \A i : (\E t \in ToSet(microtask_queue) : Works(t, i))
                                           => \E t \in ToSet(q) : Works(t, i)
    <3>1. /\ Rest \in Seq(Jobs) /\ ToSet(microtask_queue) = ToSet(Rest) \cup {Taken}
          /\ Taken.kind = k
        BY <2>2, QuietTake
    <3>2. \A i : ~Works(Taken, i)
        BY <3>1 DEF Works
    <3>3. QED
        BY <2>2, <3>1, <3>2
  <2>3. QED
      BY <2>1, <2>2 DEF TakesNoImport
<1>3. /\ IsSequence(s)
      /\ WaitsOn(stack) => WaitsOn(s)
      /\ \A i : (\E e \in ToSet(stack) : Loads(e, i)) => \E e \in ToSet(s) : Loads(e, i)
  <2>1. CASE s = stack
      BY <1>1, <2>1
  <2>2. CASE stack # <<>> /\ Last(stack).kind # "import" /\ s = Front(stack)
    <3>1. /\ IsSequence(s) /\ ToSet(stack) = ToSet(s) \cup {Last(stack)}
          /\ WaitsOn(stack) => WaitsOn(s)
        BY <1>1, <2>2, StackElements, PopKeeps
    <3>2. \A i : ~Loads(Last(stack), i)
        BY <2>2 DEF Loads
    <3>3. QED
        BY <3>1, <3>2
  <2>3. QED
      BY <2>1, <2>2 DEF TakesNoImport
<1>4. QED
    BY <1>2, <1>3 DEF Underway, ImportIn

LEMMA ImportsAreCounted ==
    ASSUME ResumerInv
    PROVE  DOMAIN imports \subseteq Imports
<1>1. /\ Len(imports) \in Nat /\ Len(imports) <= MaxImports
      /\ DOMAIN imports = 1 .. Len(imports)
    BY LenProperties DEF ResumerInv, ModTyped
<1>2. QED
    BY <1>1, BoundsAssumption DEF Imports

\* The parts of the invariant that are about the modules' states.
LEMMA AwaitingStay ==
    ASSUME ImportInv, AsyncStay,
           \A m \in Modules : reactions'[Evaluation(m)] # <<>> => reactions[Evaluation(m)] # <<>>
    PROVE  \A m \in Modules :
             /\ reactions'[Evaluation(m)] # <<>> => module_state'[m] = "evaluating_async"
             /\ module_state'[m] = "evaluating_async" => IsAsync(m)'
<1>1. \A m \in Modules : IsAsync(m)' <=> IsAsync(m)
    BY DEF AsyncStay, IsAsync
<1>2. QED
    BY <1>1 DEF ImportInv, AsyncStay

\* The invariant after a step, from its parts.
LEMMA ImportInvNext ==
    ASSUME \A i \in DOMAIN imports' : Underway(i)',
           \A m \in Modules :
             /\ reactions'[Evaluation(m)] # <<>> => module_state'[m] = "evaluating_async"
             /\ module_state'[m] = "evaluating_async" => IsAsync(m)',
           WaitsOn(stack')
    PROVE  ImportInv'
BY DEF ImportInv, Evaluation, WaitsOn

LEMMA OthersKeepImports ==
    ASSUME ResumerInv, ImportInv, AsyncStay, GoesOn
    PROVE  ImportInv'
<1>1. PICK q, s : TakesNoImport(q, s) /\ Settles(q) /\ Grows(s)
    BY DEF GoesOn
<1>2. /\ q \in Seq(Jobs) /\ IsSequence(s)
      /\ \A i : Underway(i) => ImportIn(q, s, i)
      /\ WaitsOn(s)
    BY <1>1, TakingKeepsImports DEF ImportInv
<1>3. /\ \A i \in Imports : ImportIn(q, s, i) => Underway(i)'
      /\ \A m \in Modules :
           reactions'[Evaluation(m)] # <<>> => reactions[Evaluation(m)] # <<>>
    BY <1>1, <1>2, ImportStep
<1>4. WaitsOn(stack')
    BY <1>1, <1>2, GrowsKeepsImports
<1>5. \A i \in DOMAIN imports' : Underway(i)'
  <2>1. imports' = imports /\ DOMAIN imports \subseteq Imports
      BY ImportsAreCounted DEF AsyncStay
  <2>2. QED
      BY <1>2, <1>3, <2>1 DEF ImportInv
<1>6. QED
    BY <1>3, <1>4, <1>5, AwaitingStay, ImportInvNext
\* A generator that is answered, resumed or left.
LEMMA CompleteGoesOn ==
    ASSUME ResumerInv, NEW g \in Gens, gen[g].queue # <<>>, NEW q, NEW s,
           NEW a \in {"done", "reject"}, Complete(g, q, a, s)
    PROVE  Settles(q) /\ Grows(s)
<1> DEFINE v == IF a = "reject" THEN "rejected" ELSE "fulfilled"
<1>1. /\ settlePromise(q, <<"request", HeadOf(g)>>, v)
      /\ stack' = Append(s, ResumeNext(g))
    BY DEF Complete, answer
<1>2. <<"request", HeadOf(g)>> \in Promises /\ v \in {"fulfilled", "rejected"}
    BY GenTypes DEF Promises
<1>3. ResumeNext(g).kind # "import"
    BY DEF ResumeNext
<1> HIDE DEF v
<1>4. QED
    BY <1>1, <1>2, <1>3 DEF Settles, Grows

LEMMA ResumeGoesOn ==
    ASSUME NEW g, NEW x, NEW d, NEW b, NEW q, NEW s, Resume(g, x, d, b, s), microtask_queue' = q
    PROVE  Settles(q) /\ Grows(s)
<1>1. Body(g, d, b).kind # "import"
    BY DEF Body
<1>2. QED
    BY <1>1 DEF Resume, Settles, Grows, promiseVars

LEMMA LandsGoesOn ==
    ASSUME NEW g, NEW d, NEW q, NEW s, ThrowLands(g, d, s) \/ ReturnLands(g, s),
           microtask_queue' = q
    PROVE  Settles(q) /\ Grows(s)
<1>1. \E x, e, b : Resume(g, x, e, b, s)
    BY DEF ThrowLands, ReturnLands
<1>2. QED
    BY <1>1, ResumeGoesOn

\* Steps that take no task.
LEMMA OnTopGoesOn ==
    ASSUME \/ Settles(microtask_queue) /\ Grows(stack)
           \/ /\ stack # <<>> /\ Last(stack).kind # "import"
              /\ Settles(microtask_queue) /\ Grows(Front(stack))
    PROVE  GoesOn
BY DEF GoesOn, TakesNoImport

LEMMA GeneratorsGoOn ==
    ASSUME ResumerInv, NEW g \in Gens,
           \/ GenRunsOn(g) \/ GenAwaits(g) \/ \E k \in Kinds : asyncGenDispatch(g, k)
    PROVE  GoesOn
<1>1. microtask_queue \in Seq(Jobs) /\ gen[g].queue \in Seq(Requests)
    BY GenTypes DEF ResumerInv, LoopTyped
<1>2. /\ ResumeNext(g).kind # "import" /\ AwaitReturn(g).kind # "import"
      /\ \A t \in BOOLEAN : ResumeTask(g, t) \in Jobs /\ ReturnTask(g, t) \in Jobs
      /\ \A r \in Requests, t \in BOOLEAN : YieldTask(g, r, t) \in Jobs
    BY TaskTypes DEF ResumeNext, AwaitReturn, Coroutines
<1>3. CASE ServeCompleted(g) \/ ServeReturn(g) \/ ServeNext(g) \/ ServeThrow(g)
  <2>1. Serving(g)
      BY <1>3 DEF ServeCompleted, ServeReturn, ServeNext, ServeThrow, Serves
  <2>2. gen[g].queue # <<>> /\ stack # <<>> /\ Last(stack).kind # "import"
      BY <2>1, ServerOnTop DEF Serving, TopIs, Top
  <2>3. Settles(microtask_queue) /\ Grows(Front(stack))
    <3>1. CASE \E a \in {"done", "reject"} : Complete(g, microtask_queue, a, Front(stack))
        BY <2>2, <3>1, CompleteGoesOn
    <3>2. CASE ServeReturn(g)
      <4>1. stack' = Append(Front(stack), AwaitReturn(g)) /\ microtask_queue' = microtask_queue
            /\ UNCHANGED promiseVars
          BY <3>2 DEF ServeReturn, Become, Pop
      <4>2. QED
          BY <1>2, <4>1 DEF Grows, Settles, promiseVars
    <3>3. CASE ServeNext(g)
        BY <3>3, ResumeGoesOn DEF ServeNext, Pop
    <3>4. CASE ThrowLands(g, "drain", Front(stack)) /\ microtask_queue' = microtask_queue
        BY <3>4, LandsGoesOn
    <3>5. QED
        BY <1>3, <3>1, <3>2, <3>3, <3>4 DEF ServeCompleted, ServeThrow, Pop
  <2>4. QED
      BY <2>2, <2>3, OnTopGoesOn
<1>4. CASE ResumeNextReturns(g)
  <2>1. /\ stack # <<>> /\ Last(stack).kind # "import" /\ stack' = Front(stack)
        /\ microtask_queue' = microtask_queue /\ UNCHANGED promiseVars
      BY <1>4 DEF ResumeNextReturns, TopIs, Top, Leave, Pop
  <2>2. QED
      BY <2>1, OnTopGoesOn DEF Grows, Settles, promiseVars
<1>5. CASE \/ \E t \in BOOLEAN : AwaitReturnSettled(g, t)
           \/ \E h \in HostPromises : AwaitReturnPending(g, h)
  <2>1. /\ stack # <<>> /\ Last(stack).kind # "import" /\ stack' = Front(stack)
        /\ UNCHANGED <<promise_state, reactions>>
        /\ \/ microtask_queue' = microtask_queue
           \/ \E t \in BOOLEAN : microtask_queue' = Append(microtask_queue, ReturnTask(g, t))
      BY <1>5 DEF AwaitReturnSettled, AwaitReturnPending, TopIs, Top, Leave, Pop, enqueue, promiseVars
  <2>2. Settles(microtask_queue)
      BY <1>2, <2>1 DEF Settles
  <2>3. QED
      BY <2>1, <2>2, OnTopGoesOn DEF Grows
<1>6. CASE \/ \E rejected \in BOOLEAN : YieldToDrain(g, rejected) \/ YieldAfterAwait(g, rejected)
           \/ BodyReturns(g) \/ BodyThrows(g) \/ BodyRethrows(g) \/ GenAwaits(g)
  <2>1. AtBody(g)
      BY <1>6 DEF YieldToDrain, YieldAfterAwait, BodyReturns, BodyThrows, BodyRethrows, GenAwaits,
                  BodyAwaitsSettled, BodyAwaitsPending, Runs
  <2>2. gen[g].queue # <<>> /\ stack # <<>> /\ Last(stack).kind # "import"
      BY <2>1, GenOnTop DEF AtBody, TopIs, Top
  <2>3. HeadOf(g) \in Requests
      BY <2>2, GenTypes
  <2>4. Settles(microtask_queue) /\ Grows(Front(stack))
    <3>1. CASE \E a \in {"done", "reject"} : Complete(g, microtask_queue, a, Front(stack))
        BY <2>2, <3>1, CompleteGoesOn
    <3>2. ASSUME NEW t \in Jobs, microtask_queue' = Append(microtask_queue, t),
                 UNCHANGED promiseVars, stack' = Front(stack)
          PROVE  Settles(microtask_queue) /\ Grows(Front(stack))
        BY <3>2 DEF Settles, Grows, promiseVars
    <3>3. ASSUME NEW rejected \in BOOLEAN, YieldToDrain(g, rejected)
          PROVE  Settles(microtask_queue) /\ Grows(Front(stack))
        BY <1>2, <2>3, <3>2, <3>3 DEF YieldToDrain, enqueue, Leave, Pop
    <3>4. ASSUME NEW rejected \in BOOLEAN, YieldAfterAwait(g, rejected)
          PROVE  Settles(microtask_queue) /\ Grows(Front(stack))
      <4>1. CASE answer(microtask_queue, HeadOf(g), "yield") /\ Become(ResumeNext(g))
        <5>1. /\ settlePromise(microtask_queue, <<"request", HeadOf(g)>>, "fulfilled")
              /\ stack' = Append(Front(stack), ResumeNext(g))
              /\ <<"request", HeadOf(g)>> \in Promises
            BY <2>3, <4>1 DEF answer, Become, Pop, Promises
        <5>2. QED
            BY <1>2, <5>1 DEF Settles, Grows
      <4>2. QED
          BY <3>1, <3>4, <4>1 DEF YieldAfterAwait, Pop
    <3>5. CASE GenAwaits(g)
      <4>1. /\ stack' = Front(stack) /\ UNCHANGED <<promise_state, reactions>>
            /\ \/ microtask_queue' = microtask_queue
               \/ \E t \in BOOLEAN : microtask_queue' = Append(microtask_queue, ResumeTask(g, t))
          BY <3>5 DEF GenAwaits, BodyAwaitsSettled, BodyAwaitsPending, awaitPromise, enqueue,
                      Leave, Pop, promiseVars
      <4>2. QED
          BY <1>2, <4>1 DEF Settles, Grows
    <3>6. QED
        BY <1>6, <3>1, <3>3, <3>4, <3>5 DEF BodyReturns, BodyThrows, BodyRethrows, Pop
  <2>5. QED
      BY <2>2, <2>4, OnTopGoesOn
<1>7. ASSUME NEW k \in Kinds, asyncGenDispatch(g, k) PROVE GoesOn
  <2>1. /\ stack' = stack \/ stack' = Append(stack, ResumeNext(g))
        /\ UNCHANGED <<promiseVars, microtask_queue>>
      BY <1>7 DEF asyncGenDispatch, jobVars
  <2>2. QED
      BY <1>2, <2>1, OnTopGoesOn DEF Grows, Settles, promiseVars
<1>8. QED
    BY <1>3, <1>4, <1>5, <1>6, <1>7 DEF GenRunsOn

LEMMA GenTasksGoOn ==
    ASSUME ResumerInv, RunReturnTask \/ RunResumeGen \/ RunYieldTask
    PROVE  GoesOn
<1>1. ASSUME NEW k \in {"async_resume", "async_gen_yield", "async_gen_return_after_await"},
             TakesTask(k), Settles(Rest), Grows(stack)
      PROVE  GoesOn
    BY <1>1 DEF GoesOn, TakesNoImport
<1>2. CASE RunReturnTask \/ RunResumeGen
  <2>1. PICK k \in {"async_gen_return_after_await", "async_resume"}, g \in Gens :
          TakesTask(k) /\ g = Taken.who
    <3>1. RunReturnTask => TakesTask("async_gen_return_after_await") /\ Taken.who \in Gens
        BY TaskTaken, JobFields DEF RunReturnTask
    <3>2. QED
        BY <1>2, <3>1 DEF RunResumeGen
  <2>2. gen[g].queue # <<>>
      BY <2>1, TaskTaken, GenTaken DEF TaskFits
  <2>3. CASE \E a \in {"done", "reject"} : Complete(g, Rest, a, stack)
      BY <1>1, <2>1, <2>2, <2>3, CompleteGoesOn
  <2>4. CASE /\ microtask_queue' = Rest
             /\ (\E d : ThrowLands(g, d, stack)) \/ ReturnLands(g, stack)
                  \/ Resume(g, Resumed(gen[g]), "settle", FALSE, stack)
      BY <1>1, <2>1, <2>4, LandsGoesOn, ResumeGoesOn
  <2>5. QED
      BY <1>2, <2>1, <2>3, <2>4 DEF RunReturnTask, RunResumeGen
<1>3. CASE RunYieldTask
  <2>1. TakesTask("async_gen_yield")
      BY <1>3 DEF RunYieldTask
  <2>2. Taken.who \in Gens /\ Taken.request \in Requests
      BY <2>1, TaskTaken, JobFields
  <2> DEFINE v == IF (IF Taken.reject THEN "reject" ELSE "yield") = "reject" THEN "rejected" ELSE "fulfilled"
  <2>3. /\ settlePromise(Rest, <<"request", Taken.request>>, v)
        /\ stack' = Append(stack, ResumeNext(Taken.who))
      BY <1>3 DEF RunYieldTask, answer, Push
  <2>4. v \in {"fulfilled", "rejected"} /\ <<"request", Taken.request>> \in Promises
        /\ ResumeNext(Taken.who).kind # "import"
      BY <2>2 DEF Promises, ResumeNext
  <2> HIDE DEF v
  <2>5. Settles(Rest) /\ Grows(stack)
      BY <2>3, <2>4 DEF Settles, Grows
  <2>6. QED
      BY <1>1, <2>1, <2>5
<1>4. QED
    BY <1>2, <1>3
LEMMA LoopGoesOn ==
    ASSUME ResumerInv,
           \/ DrainEnds \/ HostDrains \/ ClearTermination \/ Terminate
           \/ \E s \in {"fulfilled", "rejected"} : RunWasmJob(s)
           \/ \E h \in HostPromises : InstantiateWasm(h)
           \/ \E h \in HostPromises, s \in {"fulfilled", "rejected"} : SettleHost(h, s)
           \/ UNCHANGED vars
    PROVE  GoesOn
<1>1. CASE DrainEnds
  <2>1. /\ stack # <<>> /\ Last(stack).kind # "import" /\ stack' = Front(stack)
        /\ microtask_queue' = microtask_queue /\ UNCHANGED promiseVars
      BY <1>1 DEF DrainEnds, TopIs, Top, Leave, Pop, jobVars
  <2>2. QED
      BY <2>1, OnTopGoesOn DEF Grows, Settles, promiseVars
<1>2. CASE HostDrains \/ ClearTermination \/ Terminate \/ UNCHANGED vars
           \/ \E h \in HostPromises : InstantiateWasm(h)
  <2>1. /\ stack' = stack \/ stack' = Append(stack, Drain)
        /\ microtask_queue' = microtask_queue /\ UNCHANGED promiseVars
      BY <1>2 DEF HostDrains, ClearTermination, Terminate, InstantiateWasm, Push, jobVars,
                  vars, loopVars
  <2>2. Drain.kind # "import"
      BY DEF Drain
  <2>3. QED
      BY <2>1, <2>2, OnTopGoesOn DEF Grows, Settles, promiseVars
<1>3. ASSUME NEW p \in Promises, NEW s \in {"fulfilled", "rejected"},
             settlePromise(microtask_queue, p, s), stack' = stack
      PROVE  GoesOn
    BY <1>3, OnTopGoesOn DEF Grows, Settles
<1>4. ASSUME NEW s \in {"fulfilled", "rejected"}, RunWasmJob(s) PROVE GoesOn
  <2>1. wasm_instantiation_jobs \in Seq(Hosts) /\ wasm_instantiation_jobs # <<>>
      BY <1>4 DEF RunWasmJob, ResumerInv, LoopTyped
  <2>2. Head(wasm_instantiation_jobs) \in Promises
      BY <2>1, HeadTailProperties, TaskTypes
  <2>3. QED
      BY <1>3, <1>4, <2>2 DEF RunWasmJob
<1>5. ASSUME NEW h \in HostPromises, NEW s \in {"fulfilled", "rejected"}, SettleHost(h, s)
      PROVE  GoesOn
  <2>1. <<"host", h>> \in Promises
      BY DEF Promises
  <2>2. QED
      BY <1>3, <1>5, <2>1 DEF SettleHost
<1>6. QED
    BY <1>1, <1>2, <1>4, <1>5

\* A module that starts to load does not await yet.
LEMMA LoadGoesOn ==
    ASSUME ResumerInv, NEW m \in Modules, StartLoad(m)
    PROVE  GoesOn /\ AsyncStay
<1>1. /\ stack' = stack \/ stack' = Append(stack, Activation(m, 1, "importing", TRUE))
      /\ UNCHANGED <<promiseVars, microtask_queue, graph, imports>>
    BY StartLoadPushes DEF StartLoad
<1>2. Activation(m, 1, "importing", TRUE).kind # "import"
    BY DEF Activation
<1>3. GoesOn
    BY <1>1, <1>2, OnTopGoesOn DEF Grows, Settles, promiseVars
<1>4. \/ module_state' = [module_state EXCEPT ![m] = "errored"]
      \/ module_state' = [module_state EXCEPT ![m] = "evaluating"]
    BY DEF StartLoad
<1>5. module_state[m] = "absent" /\ module_state \in [Modules -> States]
    BY DEF StartLoad, ResumerInv, ModTyped, States
<1>6. AsyncStay
    BY <1>1, <1>4, <1>5 DEF AsyncStay
<1>7. QED
    BY <1>3, <1>6

LEMMA EndGoesOn ==
    ASSUME ResumerInv, ImportInv, NEW m \in Modules, AtModule(m),
           NEW ok \in BOOLEAN, BodyEnds(m, ok)
    PROVE  GoesOn /\ AsyncStay
<1>1. /\ stack # <<>> /\ Last(stack).kind # "import" /\ stack' = Front(stack)
      /\ UNCHANGED <<graph, imports>>
    BY DEF BodyEnds, AtModule, TopIs, Top, Leave, Pop
<1>2. CASE IsAsync(m)
  <2> DEFINE v == IF ok THEN "fulfilled" ELSE "rejected"
  <2>1. AsyncLoadReturns(m) /\ settlePromise(microtask_queue, Evaluation(m), v)
      BY <1>2 DEF BodyEnds
  <2>2. v \in {"fulfilled", "rejected"} /\ Evaluation(m) \in Promises
      BY EvaluationPromises
  <2> HIDE DEF v
  <2>3. GoesOn
      BY <1>1, <2>1, <2>2, OnTopGoesOn DEF Grows, Settles
  <2>4. /\ module_state'[m] = "evaluating_async"
        /\ \A d \in Modules \ {m} :
             \/ module_state'[d] = module_state[d]
             \/ module_state[d] = "evaluated" /\ module_state'[d] = "errored"
      BY <2>1, AsyncLoadStates
  <2>5. QED
      BY <1>1, <1>2, <2>3, <2>4 DEF AsyncStay
<1>3. CASE ~IsAsync(m)
  <2> DEFINE s == [module_state EXCEPT ![m] = IF ok THEN "evaluated" ELSE "errored"]
             k == IF ok THEN Append(pending_indirect_export_validation, m)
                        ELSE pending_indirect_export_validation
             v == Validated(s, k)
  <2>1. module_state' = v /\ UNCHANGED promiseVars /\ microtask_queue' = microtask_queue
      BY <1>3 DEF BodyEnds, LoadReturns
  <2>2. GoesOn
      BY <1>1, <2>1, OnTopGoesOn DEF Grows, Settles, promiseVars
  <2>3. /\ s \in [Modules -> States] /\ s[m] \in {"evaluated", "errored"}
        /\ \A d \in Modules \ {m} : s[d] = module_state[d]
      BY DEF ResumerInv, ModTyped, States
  <2> HIDE DEF s, k
  <2>4. \A d \in Modules : v[d] = s[d] \/ (s[d] = "evaluated" /\ v[d] = "errored")
      BY <2>3, ValidatedStates
  <2> HIDE DEF v
  <2>5. module_state[m] # "evaluating_async"
      BY <1>3 DEF ImportInv
  <2>6. ASSUME NEW d \in Modules
        PROVE  module_state[d] = "evaluating_async" <=> module_state'[d] = "evaluating_async"
      BY <2>1, <2>3, <2>4, <2>5
  <2>7. QED
      BY <1>1, <2>2, <2>6 DEF AsyncStay
<1>4. QED
    BY <1>2, <1>3

LEMMA BodiesGoOn ==
    ASSUME ResumerInv, ImportInv, NEW m \in Modules,
           \/ ImportNext(m) \/ LoadDep(m) \/ ImportThrows(m)
           \/ LinkDrains(m) \/ LinkThrows(m) \/ EnterBody(m)
           \/ BodyCompletes(m) \/ ModuleThrows(m)
    PROVE  GoesOn /\ AsyncStay
<1>1. AtModule(m) /\ Top.kind = "module" /\ stack # <<>>
    BY DEF ImportNext, LoadDep, HasNextDep, ImportThrows, LinkDrains, LinkThrows, EnterBody,
           BodyCompletes, ModuleThrows, InPhase, AtModule, TopIs
<1>2. Top \in Activations /\ Top.next \in Nat \ {0}
    BY <1>1, ModOnTop, ActFields
<1>3. CASE ImportNext(m) \/ LinkDrains(m) \/ EnterBody(m)
  <2>1. PICK e : /\ e.kind # "import"
                 /\ \/ stack' = Append(Front(stack), e)
                    \/ stack' = Append(Append(Front(stack), e), Drain)
    <3>1. /\ [Top EXCEPT !.next = @ + 1].kind # "import"
          /\ \A x : [Top EXCEPT !.phase = x].kind # "import"
        BY <1>1
    <3>2. QED
        BY <1>3, <3>1 DEF ImportNext, LinkDrains, EnterBody, Become, Pop
  <2>2. UNCHANGED <<promiseVars, microtask_queue, graph, module_state, imports>>
      BY <1>3 DEF ImportNext, LinkDrains, EnterBody, moduleVars
  <2>3. Settles(microtask_queue) /\ Grows(Front(stack))
      BY <2>1, <2>2 DEF Grows, Settles, promiseVars
  <2>4. QED
      BY <1>1, <2>2, <2>3, OnTopGoesOn DEF AsyncStay, Top
<1>4. CASE LoadDep(m)
  <2>1. NextDep(m) \in Modules
    <3>1. Deps(m) \in Seq(Modules) /\ Top.next <= Len(Deps(m))
        BY <1>4, ModTypes DEF LoadDep, HasNextDep
    <3>2. Len(Deps(m)) \in Nat
        BY <3>1, LenProperties
    <3>3. Top.next \in 1 .. Len(Deps(m))
        BY <1>2, <3>1, <3>2
    <3>4. QED
        BY <3>1, <3>3, ElementOfSeq DEF NextDep
  <2>2. QED
      BY <1>4, <2>1, LoadGoesOn DEF LoadDep
<1>5. CASE ImportThrows(m) \/ LinkThrows(m) \/ BodyCompletes(m) \/ ModuleThrows(m)
  <2>1. \E ok \in BOOLEAN : BodyEnds(m, ok)
      BY <1>5 DEF ImportThrows, LinkThrows, BodyCompletes, ModuleThrows
  <2>2. QED
      BY <1>1, <2>1, EndGoesOn
<1>6. QED
    BY <1>3, <1>4, <1>5

LEMMA AwaitsGoOn ==
    ASSUME ResumerInv, ImportInv, NEW m \in Modules, NEW p \in Awaitable, ModuleAwaits(m, p)
    PROVE  GoesOn /\ AsyncStay
<1>1. /\ AtModule(m) /\ IsAsync(m) /\ awaitPromise(m, p) /\ AsyncLoadReturns(m)
      /\ stack # <<>> /\ Last(stack).kind # "import" /\ stack' = Front(stack)
      /\ UNCHANGED <<graph, imports>>
    BY DEF ModuleAwaits, InPhase, AtModule, TopIs, Top, Leave, Pop
<1>2. Settles(microtask_queue)
  <2>1. \A t \in BOOLEAN : ResumeTask(m, t) \in Jobs
      BY TaskTypes DEF Coroutines
  <2>2. (promise_state[p] = "rejected") \in BOOLEAN
      OBVIOUS
  <2>3. \/ UNCHANGED promiseVars /\ \E t \in Jobs : microtask_queue' = Append(microtask_queue, t)
        \/ UNCHANGED <<promise_state, reactions, microtask_queue>>
    <3>1. CASE Settled(p)
        BY <1>1, <2>1, <2>2, <3>1 DEF awaitPromise, enqueue
    <3>2. CASE ~Settled(p)
        BY <1>1, <3>2 DEF awaitPromise
    <3>3. QED
        BY <3>1, <3>2
  <2>4. QED
      BY <2>3 DEF Settles, promiseVars
<1>3. /\ module_state'[m] = "evaluating_async"
      /\ \A d \in Modules \ {m} :
           \/ module_state'[d] = module_state[d]
           \/ module_state[d] = "evaluated" /\ module_state'[d] = "errored"
    BY <1>1, AsyncLoadStates
<1>4. AsyncStay
    BY <1>1, <1>3 DEF AsyncStay
<1>5. QED
    BY <1>1, <1>2, <1>4, OnTopGoesOn DEF Grows

LEMMA ResumeModuleGoesOn ==
    ASSUME ResumerInv, RunResumeModule
    PROVE  GoesOn /\ AsyncStay
<1>1. TakesTask("async_resume") /\ Taken.who \in Modules /\ UNCHANGED moduleVars
    BY DEF RunResumeModule
<1>2. AsyncStay
    BY <1>1 DEF moduleVars, AsyncStay
<1>3. Settles(Rest) /\ Grows(stack)
  <2>1. CASE settlePromise(Rest, Evaluation(Taken.who), "rejected") /\ stack' = stack
      BY <1>1, <2>1, EvaluationPromises DEF Settles, Grows
  <2>2. CASE /\ stack' = Append(stack, Activation(Taken.who, 1, "body", FALSE))
             /\ microtask_queue' = Rest /\ UNCHANGED promiseVars
    <3>1. Activation(Taken.who, 1, "body", FALSE).kind # "import"
        BY DEF Activation
    <3>2. QED
        BY <2>2, <3>1 DEF Settles, Grows, promiseVars
  <2>3. QED
      BY <2>1, <2>2 DEF RunResumeModule, Push
<1>4. QED
    BY <1>1, <1>2, <1>3 DEF GoesOn, TakesNoImport
\* The steps of import() itself.
LEMMA DynamicImportKeeps ==
    ASSUME ResumerInv, ImportInv, NEW m \in Modules, DynamicImport(m)
    PROVE  ImportInv'
<1>1. PICK n, t : n = Len(imports) + 1 /\ t = ImportTask(m, n)
    OBVIOUS
<1>a. /\ imports' = Append(imports, m) /\ microtask_queue' = Append(microtask_queue, t)
      /\ stack' = stack /\ Len(imports) < MaxImports
      /\ UNCHANGED <<promiseVars, graph, module_state>>
    BY <1>1 DEF DynamicImport, enqueue
<1>2. /\ imports \in Seq(Modules) /\ Len(imports) \in Nat
      /\ microtask_queue \in Seq(Jobs) /\ IsSequence(stack)
    BY SequenceOver, LenProperties DEF ResumerInv, LoopTyped, ModTyped
<1>3. n \in Imports /\ \A i \in DOMAIN imports' : i \in DOMAIN imports \/ i = n
  <2>1. imports' \in Seq(Modules) /\ Len(imports') = Len(imports) + 1
      BY <1>1, <1>a, <1>2, AppendProperties
  <2>2. DOMAIN imports' = 1 .. (Len(imports) + 1) /\ DOMAIN imports = 1 .. Len(imports)
      BY <1>2, <2>1, LenProperties
  <2>3. QED
      BY <1>1, <1>a, <1>2, <2>2, BoundsAssumption DEF Imports
<1>4. t \in Jobs /\ Works(t, n)
    BY <1>1, <1>3, TaskTypes DEF ImportTask, Works
<1>5. Settles(microtask_queue) /\ Grows(stack)
    BY <1>a, <1>4 DEF Settles, Grows, promiseVars
<1>6. \A i \in Imports : Underway(i) => Underway(i)'
    BY <1>2, <1>5, ImportStep DEF Underway
<1>7. Underway(n)'
  <2>1. t \in ToSet(microtask_queue')
      BY <1>1, <1>a, <1>2, <1>4, Elements
  <2>2. QED
      BY <1>4, <2>1 DEF Underway, ImportIn, Works
<1>8. \A i \in DOMAIN imports' : Underway(i)'
    BY <1>3, <1>6, <1>7, ImportsAreCounted DEF ImportInv
<1>9. QED
    BY <1>a, <1>8, ImportInvNext DEF ImportInv, IsAsync, promiseVars

\* An import job starts between two evaluations.
LEMMA RunImportTaskKeeps ==
    ASSUME ResumerInv, ImportInv, RunImportTask
    PROVE  ImportInv'
<1> DEFINE e == ImportJob(Taken.module, Taken.import)
<1>1. /\ TakesTask("module_import") /\ stack' = Append(stack, e) /\ microtask_queue' = Rest
      /\ UNCHANGED <<promiseVars, moduleVars>>
    BY DEF RunImportTask, Push
<1>2. /\ Taken.kind = "module_import" /\ Depth = 0
      /\ ToSet(microtask_queue) = ToSet(Rest) \cup {Taken}
    BY <1>1, TaskTaken, QuietTake
<1>3. IsSequence(stack) /\ Len(stack) \in Nat /\ DOMAIN stack = 1 .. Len(stack)
    BY SequenceOver, LenProperties DEF ResumerInv, LoopTyped
<1>4. Loads(e, Taken.import)
    BY DEF ImportJob, Loads
<1> HIDE DEF e
<1>5. /\ ToSet(stack') = ToSet(stack) \cup {e}
      /\ DOMAIN stack' = 1 .. (Len(stack) + 1) /\ stack'[Len(stack) + 1] = e
      /\ \A i \in 1 .. Len(stack) : stack'[i] = stack[i]
    BY <1>1, <1>3, StackElements, PushOnto
<1>6. \A i : Underway(i) => Underway(i)'
  <2>1. ASSUME NEW i, Underway(i)
        PROVE  \/ Settled(<<"import", i>>)
               \/ \E t \in ToSet(microtask_queue') : Works(t, i)
               \/ \E d \in ToSet(stack') : Loads(d, i)
               \/ \E m \in Modules : <<"import", i>> \in ToSet(reactions[Evaluation(m)])
    <3>1. Works(Taken, i) => Taken.import = i
        BY <1>2 DEF Works
    <3>2. QED
        BY <1>1, <1>2, <1>4, <1>5, <2>1, <3>1 DEF Underway, ImportIn
  <2>2. QED
      BY <1>1, <2>1 DEF Underway, ImportIn, promiseVars, Settled, Works, Loads, Evaluation
<1>7. \A j \in DOMAIN stack : stack[j].kind # "module" \/ ~stack[j].first
  <2> DEFINE S == {j \in DOMAIN stack : stack[j].kind = "module" /\ stack[j].first}
  <2>a. IsFiniteSet(1 .. Len(stack)) /\ S \subseteq 1 .. Len(stack)
      BY <1>3, FS_Interval
  <2>1. IsFiniteSet(S)
    <3> HIDE DEF S
    <3> QED BY <2>a, FS_Subset
  <2>2. Cardinality(S) = 0
      BY <1>2 DEF Depth
  <2>3. S = {}
      BY <2>1, <2>2, FS_EmptySet
  <2>4. QED
      BY <2>3
<1>8. WaitsOn(stack')
  <2>1. \A i \in 1 .. (Len(stack) + 1) : i \in 1 .. Len(stack) \/ i = Len(stack) + 1
      BY <1>3
  <2>2. \A i \in 1 .. Len(stack) : \A j \in 1 .. i - 1 : j \in 1 .. Len(stack)
      BY <1>3
  <2>3. \A j \in 1 .. (Len(stack) + 1) - 1 : j \in 1 .. Len(stack)
      BY <1>3
  <2>4. WaitsOn(stack)
      BY DEF ImportInv
  <2>5. QED
      BY <1>3, <1>5, <1>7, <2>1, <2>2, <2>3, <2>4 DEF WaitsOn
<1>9. QED
    BY <1>1, <1>6, <1>8, ImportInvNext DEF ImportInv, moduleVars, IsAsync, promiseVars

\* It ends when its load has returned: its promise is settled, or follows.
LEMMA ImportSettlesKeeps ==
    ASSUME ResumerInv, ImportInv, ImportSettles
    PROVE  ImportInv'
<1>1. /\ stack # <<>> /\ Top.kind = "import" /\ stack' = Front(stack)
      /\ UNCHANGED moduleVars
    BY DEF ImportSettles, TopIs, Leave, Pop
<1>2. /\ microtask_queue \in Seq(Jobs) /\ IsSequence(stack) /\ PromisesTyped
      /\ Top \in Activations /\ Top.module \in Modules /\ Top.import \in Imports
  <2>1. stack \in Seq(Activations) /\ microtask_queue \in Seq(Jobs) /\ PromisesTyped
      BY DEF ResumerInv, LoopTyped
  <2>2. Top \in Activations
      BY <1>1, <2>1, PopPlaces DEF Top
  <2>3. QED
      BY <1>1, <2>1, <2>2, ActFields, SequenceOver
<1>a. PICK n \in Imports, m0 \in Modules : n = Top.import /\ m0 = Top.module
    BY <1>2
<1> DEFINE p == <<"import", n>>
           e == Evaluation(m0)
           v == IF module_state[Top.module] = "errored" THEN "rejected" ELSE "fulfilled"
           t == ReactionTask(p, promise_state[e] = "rejected")
<1>3. /\ IsSequence(Front(stack)) /\ ToSet(stack) = ToSet(Front(stack)) \cup {Top}
      /\ WaitsOn(Front(stack))
    BY <1>1, <1>2, StackElements, PopKeeps DEF ImportInv, Top
<1>4. \A i : Underway(i) => i = n \/ ImportIn(microtask_queue, Front(stack), i)
  <2>1. \A i : Loads(Top, i) => i = n
      BY <1>a DEF Loads
  <2>2. QED
      BY <1>3, <2>1 DEF Underway, ImportIn
<1>5. /\ p \in Promises /\ p \in ImportPromises /\ e \in Promises
      /\ v \in {"fulfilled", "rejected"}
    BY EvaluationPromises
<1>6. t \in Jobs /\ Works(t, n)
  <2>1. (promise_state[e] = "rejected") \in BOOLEAN
      OBVIOUS
  <2>2. QED
      BY <1>5, <2>1, TaskTypes DEF ReactionTask, Works
<1>7. \/ settlePromise(microtask_queue, p, v)
      \/ microtask_queue' = Append(microtask_queue, t) /\ UNCHANGED promiseVars
      \/ /\ module_state[Top.module] = "evaluating_async"
         /\ reactions' = [reactions EXCEPT ![e] = Append(@, p)]
         /\ UNCHANGED <<promise_state, microtask_queue>>
    BY <1>a DEF ImportSettles, enqueue
<1> HIDE DEF p, e, v, t
<1>8. Grows(Front(stack)) /\ DOMAIN imports \subseteq Imports
    BY <1>1, ImportsAreCounted DEF Grows
<1>9. ASSUME Settles(microtask_queue), Underway(n)' PROVE ImportInv'
  <2>1. /\ \A i \in Imports : ImportIn(microtask_queue, Front(stack), i) => Underway(i)'
        /\ \A m \in Modules :
             reactions'[Evaluation(m)] # <<>> => reactions[Evaluation(m)] # <<>>
      BY <1>2, <1>3, <1>8, <1>9, ImportStep
  <2>2. \A i \in DOMAIN imports : Underway(i)'
      BY <1>4, <1>8, <1>9, <2>1 DEF ImportInv
  <2>3. QED
      BY <1>1, <1>3, <2>1, <2>2, ImportInvNext DEF ImportInv, moduleVars, IsAsync
<1>10. CASE settlePromise(microtask_queue, p, v)
  <2>1. Settles(microtask_queue)
      BY <1>5, <1>10 DEF Settles
  <2>2. Settled(p)'
      BY <1>2, <1>5, <1>10, SettlePlaces
  <2>3. Underway(n)'
      BY <2>2 DEF Underway, ImportIn, p, Settled
  <2>4. QED
      BY <1>9, <2>1, <2>3
<1>11. CASE microtask_queue' = Append(microtask_queue, t) /\ UNCHANGED promiseVars
  <2>1. Settles(microtask_queue) /\ t \in ToSet(microtask_queue')
      BY <1>2, <1>6, <1>11, Elements DEF Settles, promiseVars
  <2>2. Underway(n)'
      BY <1>6, <2>1 DEF Underway, ImportIn, Works
  <2>3. QED
      BY <1>9, <2>1, <2>2
<1>12. CASE /\ module_state[Top.module] = "evaluating_async"
            /\ reactions' = [reactions EXCEPT ![e] = Append(@, p)]
            /\ UNCHANGED <<promise_state, microtask_queue>>
  <2>1. /\ reactions'[e] = Append(reactions[e], p) /\ reactions[e] \in Seq(ImportPromises)
        /\ \A r \in Promises \ {e} : reactions'[r] = reactions[r]
      BY <1>2, <1>5, <1>12 DEF PromisesTyped
  <2>2. ToSet(reactions'[e]) = ToSet(reactions[e]) \cup {p}
      BY <1>5, <2>1, Elements
  <2>3. \A m \in Modules : /\ ToSet(reactions[Evaluation(m)]) \subseteq ToSet(reactions'[Evaluation(m)])
                           /\ Evaluation(m) = e \/ reactions'[Evaluation(m)] = reactions[Evaluation(m)]
      BY <2>1, <2>2, EvaluationPromises
  <2>4. ASSUME NEW i, ImportIn(microtask_queue, Front(stack), i) \/ i = n
        PROVE  \/ Settled(<<"import", i>>)
               \/ \E r \in ToSet(microtask_queue) : Works(r, i)
               \/ \E d \in ToSet(Front(stack)) : Loads(d, i)
               \/ \E m \in Modules : <<"import", i>> \in ToSet(reactions'[Evaluation(m)])
    <3>1. CASE i = n
        BY <2>2, <3>1 DEF p, e
    <3>2. CASE ImportIn(microtask_queue, Front(stack), i)
        BY <2>3, <3>2 DEF ImportIn
    <3>3. QED
        BY <2>4, <3>1, <3>2
  <2>5. \A i : ImportIn(microtask_queue, Front(stack), i) \/ i = n => Underway(i)'
      BY <1>1, <1>12, <2>4 DEF Underway, ImportIn, Settled, Works, Loads, Evaluation
  <2>6. ASSUME NEW m \in Modules, reactions'[Evaluation(m)] # <<>>
        PROVE  module_state'[m] = "evaluating_async"
    <3>1. CASE Evaluation(m) = e
      <4>1. m = Top.module
          BY <1>a, <3>1 DEF e, Evaluation
      <4>2. QED
          BY <1>1, <1>12, <4>1 DEF moduleVars
    <3>2. CASE Evaluation(m) # e
        BY <1>1, <2>3, <2>6, <3>2 DEF moduleVars, ImportInv
    <3>3. QED
        BY <3>1, <3>2
  <2>7. \A i \in DOMAIN imports' : Underway(i)'
      BY <1>1, <1>4, <2>5 DEF ImportInv, moduleVars
  <2>8. QED
      BY <1>1, <1>3, <2>6, <2>7, ImportInvNext DEF ImportInv, moduleVars, IsAsync
<1>13. QED
    BY <1>7, <1>10, <1>11, <1>12

\* What the promise follows has settled.
LEMMA RunReactionKeeps ==
    ASSUME ResumerInv, ImportInv, RunReaction, UNCHANGED moduleVars
    PROVE  ImportInv'
<1> DEFINE v == IF Taken.throws THEN "rejected" ELSE "fulfilled"
<1>1. /\ TakesTask("promise_reaction") /\ settlePromise(Rest, Taken.promise, v)
      /\ stack' = stack /\ v \in {"fulfilled", "rejected"}
    BY DEF RunReaction
<1> HIDE DEF v
<1>2. /\ Taken \in Jobs /\ Taken.kind = "promise_reaction" /\ Rest \in Seq(Jobs)
      /\ ToSet(microtask_queue) = ToSet(Rest) \cup {Taken}
      /\ Taken.promise \in Promises
  <2>1. /\ Taken \in Jobs /\ Taken.kind = "promise_reaction" /\ Rest \in Seq(Jobs)
        /\ ToSet(microtask_queue) = ToSet(Rest) \cup {Taken}
      BY <1>1, TaskTaken, QuietTake
  <2>2. QED
      BY <2>1, JobFields, TaskTypes
<1>3. PromisesTyped /\ IsSequence(stack) /\ DOMAIN imports \subseteq Imports
    BY SequenceOver, ImportsAreCounted DEF ResumerInv, LoopTyped
<1>a. PICK p \in Promises : p = Taken.promise
    BY <1>2
<1>4. Settled(p)'
    BY <1>1, <1>a, <1>2, <1>3, SettlePlaces
<1>5. Settles(Rest) /\ Grows(stack)
    BY <1>1, <1>2 DEF Settles, Grows
<1>6. /\ \A i \in Imports : ImportIn(Rest, stack, i) => Underway(i)'
      /\ \A m \in Modules :
           reactions'[Evaluation(m)] # <<>> => reactions[Evaluation(m)] # <<>>
    BY <1>2, <1>3, <1>5, ImportStep
<1>7. ASSUME NEW i \in DOMAIN imports PROVE Underway(i)'
  <2>1. CASE ImportIn(Rest, stack, i)
      BY <1>3, <1>6, <2>1
  <2>2. CASE Works(Taken, i)
    <3>1. Taken.promise = <<"import", i>>
        BY <1>2, <2>2 DEF Works
    <3>2. p = <<"import", i>> /\ Settled(p)'
        BY <1>4, <1>a, <3>1
    <3>3. QED
        BY <3>2 DEF Underway, ImportIn, Settled
  <2>3. ImportIn(Rest, stack, i) \/ Works(Taken, i)
      BY <1>2 DEF ImportInv, Underway, ImportIn
  <2>4. QED
      BY <2>1, <2>2, <2>3
<1>8. QED
    BY <1>1, <1>6, <1>7, ImportInvNext DEF ImportInv, moduleVars, IsAsync
LEMMA ImportsKeptByAll ==
    ASSUME ResumerInv, ImportInv, [Next]_vars
    PROVE  ImportInv'
<1>1. ASSUME UNCHANGED moduleVars PROVE AsyncStay
    BY <1>1 DEF moduleVars, AsyncStay
<1>2. CASE Proceed
  <2>1. CASE GenSteps /\ UNCHANGED moduleVars
      BY <1>1, <2>1, GeneratorsGoOn, GenTasksGoOn, OthersKeepImports DEF GenSteps
  <2>2. CASE ModuleSteps
    <3>1. CASE \E m \in Modules :
                  \/ ImportNext(m) \/ LoadDep(m) \/ ImportThrows(m)
                  \/ LinkDrains(m) \/ LinkThrows(m) \/ EnterBody(m)
                  \/ BodyCompletes(m) \/ ModuleThrows(m)
        BY <3>1, BodiesGoOn, OthersKeepImports
    <3>2. CASE RunResumeModule
        BY <3>2, ResumeModuleGoesOn, OthersKeepImports
    <3>3. CASE ImportLoads
      <4>1. stack # <<>> /\ Top.kind = "import" /\ stack \in Seq(Activations)
          BY <3>3 DEF ImportLoads, TopIs, ResumerInv, LoopTyped
      <4>2. Top \in Activations
          BY <4>1, PopPlaces DEF Top
      <4>3. Top.module \in Modules
          BY <4>1, <4>2, ActFields
      <4>4. QED
          BY <3>3, <4>3, LoadGoesOn, OthersKeepImports DEF ImportLoads
    <3>4. QED
        BY <2>2, <3>1, <3>2, <3>3, RunImportTaskKeeps, ImportSettlesKeeps DEF ModuleSteps
  <2>3. CASE RunReaction /\ UNCHANGED moduleVars
      BY <2>3, RunReactionKeeps
  <2>4. CASE /\ UNCHANGED moduleVars
             /\ DrainEnds \/ \E s \in {"fulfilled", "rejected"} : RunWasmJob(s)
      BY <1>1, <2>4, LoopGoesOn, OthersKeepImports
  <2>5. QED
      BY <1>2, <2>1, <2>2, <2>3, <2>4 DEF Proceed
<1>3. CASE Script
  <2>1. CASE /\ UNCHANGED moduleVars
             /\ \E g \in Gens : GenAwaits(g) \/ \E k \in Kinds : asyncGenDispatch(g, k)
      BY <1>1, <2>1, GeneratorsGoOn, OthersKeepImports
  <2>2. ASSUME NEW m \in Modules,
               DynamicImport(m) \/ HostLoads(m) \/ \E p \in Awaitable : ModuleAwaits(m, p)
        PROVE  ImportInv'
      BY <2>2, DynamicImportKeeps, LoadGoesOn, AwaitsGoOn, OthersKeepImports DEF HostLoads
  <2>3. CASE UNCHANGED moduleVars /\ \E h \in HostPromises : InstantiateWasm(h)
      BY <1>1, <2>3, LoopGoesOn, OthersKeepImports
  <2>4. QED
      BY <1>3, <2>1, <2>2, <2>3 DEF Script, Kinds
<1>4. CASE \E h \in HostPromises : HostSettles(h)
    BY <1>1, <1>4, LoopGoesOn, OthersKeepImports DEF HostSettles
<1>5. CASE HostGoesOn \/ (Terminate /\ UNCHANGED <<genVars, moduleVars>>)
    BY <1>1, <1>5, LoopGoesOn, OthersKeepImports DEF HostGoesOn
<1>6. CASE UNCHANGED vars
    BY <1>1, <1>6, LoopGoesOn, OthersKeepImports DEF vars
<1>7. QED
    BY <1>2, <1>3, <1>4, <1>5, <1>6 DEF Next

\* Every import() is settled or has a task, an activation or an awaiting
\* module that will bring it on.
THEOREM ImportInvariance == Spec => []ImportInv
<1>1. Init => ImportInv
  <2> SUFFICES ASSUME Init PROVE ImportInv
      OBVIOUS
  <2>1. DOMAIN <<>> = {}
      OBVIOUS
  <2>2. /\ imports = <<>> /\ stack = <<>>
        /\ \A m \in Modules : module_state[m] = "absent" /\ reactions[Evaluation(m)] = <<>>
      BY EvaluationPromises DEF Init, LoopInit, ModuleInit
  <2>3. QED
      BY <2>1, <2>2 DEF ImportInv, WaitsOn
<1>2. ResumerInv /\ ImportInv /\ [Next]_vars => ImportInv'
    BY ImportsKeptByAll
<1>3. QED
    BY <1>1, <1>2, ResumerInvariance, PTL DEF Spec

\* Whatever drains run within an evaluation, the job of an import() waits
\* for it to end: no module is evaluated within another's evaluation but by
\* the import that names it.
THEOREM ImportsAlwaysWait == Spec => []ImportsWait
<1>1. ImportInv => ImportsWait
    BY DEF ImportInv, WaitsOn, ImportsWait
<1>2. QED
    BY <1>1, ImportInvariance, PTL

\* With no task and nothing on the stack, an open request is in the queue of
\* a generator that waits for the host.
LEMMA RequestsAnswered ==
    ASSUME RequestInv, NoneStranded, Quiet, NEW r \in DOMAIN request
    PROVE  request[r].answer # "open"
<1> SUFFICES ASSUME request[r].answer = "open" PROVE FALSE
    OBVIOUS
<1>1. request[r] \in RequestRecords
    BY RequestTypes
<1>2. PICK g \in Gens : g = request[r].gen
    BY <1>1 DEF RequestRecords
<1>3. DOMAIN microtask_queue = {} /\ DOMAIN stack = {}
    BY DEF Quiet
<1>4. InFlight(g) = {}
    BY <1>3 DEF InFlight
<1>5. r \in ToSet(gen[g].queue)
    BY <1>2, <1>4 DEF RequestInv, RequestsAccounted, Unanswered
<1>6. gen[g].queue # <<>>
    BY <1>5 DEF ToSet
<1>7. gen[g].async_state \in {"executing", "suspended_await"}
    BY <1>3, <1>6 DEF NoneStranded, Queued
<1>8. PICK p \in Hosts : OnList(microtask_queue, waiters, stack, g, p)
  <2>1. GenPlace(g)
      BY DEF RequestInv, ResumerInv, GensPlaced, GenPlace
  <2>2. QED
      BY <1>3, <1>7, <2>1 DEF GenPlace, GenPlaced, InQueue, OnStack, OneTask, OneAct, Once
<1>9. waiters[p] # <<>> /\ p \in Promises
    BY <1>8 DEF OnList, OneWait, Once
<1>10. Settled(p)
    BY <1>8 DEF Quiet, Hosts
<1>11. QED
    BY <1>9, <1>10 DEF RequestInv, ResumerInv, LoopTyped, PromisesTyped, SettledAreClear

\* An import() that is not settled then follows a module that awaits an
\* import().
LEMMA ImportsSettled ==
    ASSUME ResumerInv, ImportInv, Quiet, NEW i \in DOMAIN imports
    PROVE  Settled(<<"import", i>>) \/ Circular(i)
<1> SUFFICES ASSUME ~Settled(<<"import", i>>) PROVE Circular(i)
    OBVIOUS
<1>1. DOMAIN microtask_queue = {} /\ DOMAIN stack = {}
    BY DEF Quiet
<1>2. ToSet(microtask_queue) = {} /\ ToSet(stack) = {}
    BY <1>1 DEF ToSet
<1>3. PICK m \in Modules : <<"import", i>> \in ToSet(reactions[Evaluation(m)])
    BY <1>2 DEF ImportInv, Underway, ImportIn
<1>4. reactions[Evaluation(m)] # <<>> /\ Evaluation(m) \in Promises
    BY <1>3, EvaluationPromises DEF ToSet
<1>5. /\ \A p \in Promises : Settled(p) => waiters[p] = <<>> /\ reactions[p] = <<>>
      /\ waiters \in [Promises -> Seq(Coroutines)]
      /\ reactions \in [Promises -> Seq(ImportPromises)]
    BY DEF ResumerInv, LoopTyped, PromisesTyped, SettledAreClear
<1>6. Open(m)
    BY <1>4, <1>5 DEF ImportInv, Open
<1>7. PICK p \in Hosts \cup ImportPromises : OnList(microtask_queue, waiters, stack, m, p)
  <2>1. ModPlace(m)
      BY DEF ResumerInv, ModsPlaced, ModPlace
  <2>2. QED
      BY <1>1, <1>6, <2>1 DEF ModPlace, ModPlaced, InQueue, OnStack, OneTask, OneAct, Once
<1>8. p \in Promises /\ m \in ToSet(waiters[p]) /\ waiters[p] # <<>>
    BY <1>7 DEF OnList, OneWait, Once, ToSet
<1>9. p \notin Hosts
    BY <1>5, <1>8 DEF Quiet, Hosts
<1>10. PICK j \in Imports : p = <<"import", j>>
    BY <1>7, <1>9 DEF ImportPromises
<1>11. Contains(waiters[<<"import", j>>], m)
    BY <1>5, <1>8, <1>10, Elements
<1>12. Contains(reactions[Evaluation(m)], <<"import", i>>)
    BY <1>3, <1>4, <1>5, Elements
<1>13. QED
    BY <1>11, <1>12 DEF Circular

\* When the loop has run dry and the host has settled its promises, every
\* request has its answer and every import() is settled, those that wait for
\* themselves excepted: nothing was dropped on the way.
THEOREM NothingIsLeftBehind == Spec => []NothingLeftBehind
<1>1. RequestInv /\ NoneStranded /\ ImportInv => NothingLeftBehind
  <2>1. ASSUME RequestInv, NoneStranded, ImportInv PROVE NothingLeftBehind
    <3>1. ResumerInv
        BY <2>1 DEF RequestInv
    <3>2. QED
        BY <2>1, <3>1, RequestsAnswered, ImportsSettled DEF NothingLeftBehind
  <2>2. QED
      BY <2>1
<1>2. QED
    BY <1>1, RequestInvariance, NoRequestStranded, ImportInvariance, PTL

-----------------------------------------------------------------------------
(* Bodies wait for their imports.  The activations of one evaluation lie   *)
(* on the stack in the order of the imports that led to them.              *)

\* A module being evaluated for the first time, and one that still imports
\* or waits for the drain of its import block.
Loading(e) == e.kind = "module" /\ e.first
Importing(e) == Loading(e) /\ e.phase # "body"
Linking(e) == Loading(e) /\ e.phase = "linking"

\* The imports an activation has been through.
Passed(e) ==
    {Deps(e.module)[i] : i \in {i \in DOMAIN Deps(e.module) : i < e.next}}

\* What a first activation e may have under it: the import() job that loads
\* it, that job's drain, and the modules that import it, which reach it by an
\* import they are still at.
Under(u, e) ==
    \/ u.kind \in {"drain", "import"}
    \/ Loading(u) /\ u.phase = "importing" /\ e.module \in Reaches(u.module) \ Passed(u)

\* Activation e may lie on the stack s: f is the importer of each module.
FitsOn(f, s, e) ==
    /\ Loading(e) => /\ \A u \in ToSet(s) : Under(u, e)
                     /\ f[e.module] = CurrentModule(s)
    /\ e.kind = "module" /\ ~e.first => e.phase = "body"
    /\ Linking(e) => e.next > Len(Deps(e.module))
    /\ e.kind = "import" => s = <<Drain>>
    /\ s # <<>> => (e.kind = "drain" <=> Linking(Last(s)))

Ordered(f, s) == \A j \in DOMAIN s : FitsOn(f, SubSeq(s, 1, j - 1), s[j])

\* The imports an activation has been through have been loaded, and those
\* that await are on the list its module looks at.
DepsLoaded(e) ==
    /\ \A x \in Passed(e) : module_state[x] \notin {"absent", "errored"}
    /\ \A d \in Modules :
         module_state[d] = "evaluating_async" /\ importer[d] = e.module
            => d \in ToSet(pending_async_deps[e.module])

\* A module is past the drain of its import block when only import() jobs
\* are left.
Drained ==
    stack # <<>> /\ Linking(Last(stack)) /\ ~termination
        => \A t \in ToSet(microtask_queue) : t.kind = "module_import"

OrderInv ==
    /\ \A d \in Modules : module_state[d] = "evaluating" =>
         \E e \in ToSet(stack) : Loading(e) /\ e.module = d
    /\ importer \in [Modules -> Modules \cup {None}]
    /\ \A d \in Modules : importer[d] \in Modules => module_state[importer[d]] # "absent"
    /\ Ordered(importer, stack)
    /\ \A e \in ToSet(stack) : Importing(e) => DepsLoaded(e)
    /\ Drained

\* The top of a sequence and what is under it.
LEMMA Stacked ==
    ASSUME NEW s, IsSequence(s)
    PROVE  /\ s # <<>> => s = Append(Front(s), Last(s)) /\ IsSequence(Front(s))
           /\ \A e : /\ Append(s, e) # <<>> /\ IsSequence(Append(s, e))
                     /\ Front(Append(s, e)) = s /\ Last(Append(s, e)) = e
<1>1. ASSUME NEW e
      PROVE  /\ Append(s, e) # <<>> /\ IsSequence(Append(s, e))
             /\ Front(Append(s, e)) = s /\ Last(Append(s, e)) = e
  <2> DEFINE S == {s[i] : i \in DOMAIN s} \cup {e}
             t == Append(s, e)
  <2>1. s \in Seq(S) /\ e \in S
    <3>1. {s[i] : i \in DOMAIN s} \subseteq S
        OBVIOUS
    <3>2. s \in Seq({s[i] : i \in DOMAIN s})
        BY DEF IsSequence
    <3> HIDE DEF S
    <3>3. s \in Seq(S)
        BY <3>1, <3>2, SeqMonotonic
    <3>4. QED
        BY <3>3 DEF S
  <2> HIDE DEF S
  <2>2. /\ t \in Seq(S) /\ Len(t) = Len(s) + 1 /\ t[Len(t)] = e
        /\ Len(s) \in Nat /\ \A i \in 1 .. Len(s) : t[i] = s[i]
      BY <2>1, AppendProperties, LenProperties
  <2>3. IsSequence(t) /\ t # <<>>
    <3>1. IsSequence(t)
        BY <2>2, SequenceOver
    <3>2. Len(t) # 0 /\ Len(<<>>) = 0
        BY <2>2
    <3>3. QED
        BY <3>1, <3>2
  <2>4. /\ Len(Front(t)) = Len(t) - 1 /\ DOMAIN Front(t) = 1 .. (Len(t) - 1)
        /\ \A i \in 1 .. (Len(t) - 1) : Front(t)[i] = t[i]
        /\ IsSequence(Front(t))
      BY <2>3, PopFrom
  <2> HIDE DEF t
  <2> DEFINE u == Front(t)
  <2>5. IsSequence(u) /\ Len(u) = Len(s) /\ \A i \in 1 .. Len(s) : u[i] = s[i]
      BY <2>2, <2>4
  <2> HIDE DEF u
  <2>6. u = s
    <3> DEFINE U == {u[i] : i \in DOMAIN u}
    <3>1. u \in Seq(U)
        BY <2>5 DEF IsSequence
    <3> HIDE DEF U
    <3>2. QED
        BY <2>1, <2>5, <3>1, SeqEqual
  <2>7. QED
      BY <2>2, <2>3, <2>6 DEF t, u, Last
<1>2. ASSUME s # <<>> PROVE s = Append(Front(s), Last(s)) /\ IsSequence(Front(s))
  <2> DEFINE u == Front(s)
             t == Append(u, Last(s))
  <2>1. /\ IsSequence(u) /\ Len(s) \in Nat \ {0} /\ Len(u) = Len(s) - 1
        /\ \A i \in 1 .. (Len(s) - 1) : u[i] = s[i]
      BY <1>2, PopFrom
  <2> HIDE DEF u
  <2>2. /\ IsSequence(t) /\ DOMAIN t = 1 .. (Len(u) + 1)
        /\ \A i \in 1 .. Len(u) : t[i] = u[i]
        /\ t[Len(u) + 1] = Last(s)
      BY <2>1, PushOnto
  <2> HIDE DEF t
  <2> DEFINE n == Len(s)
  <2>3. n \in Nat \ {0} /\ Len(u) = n - 1 /\ s[n] = Last(s)
      BY <2>1 DEF Last
  <2>4. DOMAIN t = 1 .. n /\ \A i \in 1 .. n : t[i] = s[i]
    <3>1. \A i \in 1 .. (n - 1) : u[i] = s[i]
        BY <2>1
    <3> HIDE DEF n
    <3>2. (n - 1) + 1 = n /\ \A i \in 1 .. n : i \in 1 .. (n - 1) \/ i = n
        BY <2>3
    <3>3. QED
        BY <2>2, <2>3, <3>1, <3>2
  <2> DEFINE S == {s[i] : i \in DOMAIN s}
             T == {t[i] : i \in DOMAIN t}
  <2>5. s \in Seq(S) /\ t \in Seq(T)
      BY <2>2 DEF IsSequence
  <2> HIDE DEF S, T
  <2>6. Len(t) = n
      BY <2>3, <2>4, <2>5, LenProperties
  <2>7. s = t
      BY <2>4, <2>5, <2>6, SeqEqual
  <2>8. QED
      BY <2>1, <2>7 DEF t, u
<1>3. QED
    BY <1>1, <1>2

\* What an activation lies on does not change when another is put on top.
LEMMA OrderedPush ==
    ASSUME NEW s, IsSequence(s), NEW e, NEW f
    PROVE  Ordered(f, Append(s, e)) <=> Ordered(f, s) /\ FitsOn(f, s, e)
<1> DEFINE S == {s[i] : i \in DOMAIN s} \cup {e}
           t == Append(s, e)
           n == Len(s)
<1>1. s \in Seq(S) /\ e \in S
  <2>1. {s[i] : i \in DOMAIN s} \subseteq S
      OBVIOUS
  <2>2. s \in Seq({s[i] : i \in DOMAIN s})
      BY DEF IsSequence
  <2> HIDE DEF S
  <2>3. s \in Seq(S)
      BY <2>1, <2>2, SeqMonotonic
  <2>4. QED
      BY <2>3 DEF S
<1> HIDE DEF S
<1>2. /\ t \in Seq(S) /\ Len(t) = n + 1 /\ t[n + 1] = e
      /\ n \in Nat /\ \A i \in 1 .. n : t[i] = s[i]
      /\ DOMAIN s = 1 .. n /\ DOMAIN t = 1 .. (n + 1)
  <2>1. /\ t \in Seq(S) /\ Len(t) = n + 1 /\ t[n + 1] = e
        /\ \A i \in 1 .. n : t[i] = s[i]
      BY <1>1, AppendProperties
  <2>2. n \in Nat /\ DOMAIN s = 1 .. n /\ DOMAIN t = 1 .. Len(t)
      BY <1>1, <2>1, LenProperties
  <2>3. QED
      BY <2>1, <2>2
<1> HIDE DEF t
<1>3. ASSUME NEW j \in 1 .. (n + 1) PROVE SubSeq(t, 1, j - 1) = SubSeq(s, 1, j - 1)
  <2> DEFINE k == j - 1
  <2>1. /\ 1 \in Int /\ k \in Int
        /\ \A i \in 1 .. k : i \in 1 .. n
        /\ \A i \in 1 .. k - 1 + 1 : i \in 1 .. n /\ 1 + i - 1 = i
      BY <1>2
  <2>2. /\ \A i \in 1 .. k : s[i] \in S
        /\ \A i \in 1 .. k : t[i] \in S
      BY <1>1, <1>2, <2>1, ElementOfSeq
  <2> HIDE DEF k, n
  <2>3. /\ SubSeq(s, 1, k) \in Seq(S)
        /\ Len(SubSeq(s, 1, k)) = IF 1 <= k THEN k - 1 + 1 ELSE 0
        /\ \A i \in 1 .. k - 1 + 1 : SubSeq(s, 1, k)[i] = s[1 + i - 1]
      BY <2>1, <2>2, SubSeqProperties
  <2>4. /\ SubSeq(t, 1, k) \in Seq(S)
        /\ Len(SubSeq(t, 1, k)) = IF 1 <= k THEN k - 1 + 1 ELSE 0
        /\ \A i \in 1 .. k - 1 + 1 : SubSeq(t, 1, k)[i] = t[1 + i - 1]
      BY <2>1, <2>2, SubSeqProperties
  <2>5. \A i \in 1 .. k - 1 + 1 : SubSeq(t, 1, k)[i] = SubSeq(s, 1, k)[i]
      BY <1>2, <2>1, <2>3, <2>4
  <2>6. \A i \in 1 .. Len(SubSeq(s, 1, k)) : i \in 1 .. k - 1 + 1
      BY <2>1, <2>3
  <2> DEFINE x == SubSeq(s, 1, k)
             y == SubSeq(t, 1, k)
  <2>7. x \in Seq(S) /\ y \in Seq(S) /\ Len(x) = Len(y) /\ \A i \in 1 .. Len(x) : x[i] = y[i]
      BY <2>3, <2>4, <2>5, <2>6
  <2> HIDE DEF x, y
  <2>8. x = y
      BY <2>7, SeqEqual
  <2>9. QED
      BY <2>8 DEF x, y, k
<1>4. SubSeq(t, 1, (n + 1) - 1) = s
  <2>1. n + 1 \in 1 .. (n + 1) /\ (n + 1) - 1 = n
      BY <1>2
  <2>2. SubSeq(s, 1, n) = s
      BY <1>1, SubSeqFull
  <2>3. QED
      BY <1>3, <2>1, <2>2
<1> HIDE DEF n
<1>5. /\ \A j \in 1 .. n : j \in 1 .. (n + 1)
      /\ \A j \in 1 .. (n + 1) : j \in 1 .. n \/ j = n + 1
      /\ n + 1 \in 1 .. (n + 1)
    BY <1>2
<1>6. \A j \in 1 .. n : FitsOn(f, SubSeq(t, 1, j - 1), t[j]) <=> FitsOn(f, SubSeq(s, 1, j - 1), s[j])
    BY <1>2, <1>3, <1>5
<1>7. FitsOn(f, SubSeq(t, 1, (n + 1) - 1), t[n + 1]) <=> FitsOn(f, s, e)
    BY <1>2, <1>4
<1>8. Ordered(f, t) <=> Ordered(f, s) /\ FitsOn(f, s, e)
    BY <1>2, <1>5, <1>6, <1>7, Zenon DEF Ordered
<1>9. QED
    BY <1>8 DEF t
-----------------------------------------------------------------------------
(* Steps that leave the module graph alone.                                *)

\* Whether a stack is in order depends on the graph alone.
LEMMA OrderedSame ==
    ASSUME UNCHANGED graph
    PROVE  \A f, s : Ordered(f, s)' <=> Ordered(f, s)
<1>1. \A e : Passed(e)' = Passed(e)
    BY DEF Passed, Deps
<1>2. \A m : Reaches(m)' = Reaches(m)
    BY DEF Reaches, Deps
<1>3. \A u, e : Under(u, e)' <=> Under(u, e)
    BY <1>1, <1>2 DEF Under, Loading
<1>4. \A f, s, e : FitsOn(f, s, e)' <=> FitsOn(f, s, e)
    BY <1>3 DEF FitsOn, Loading, Linking, CurrentModule, Deps, Drain
<1>5. QED
    BY <1>4 DEF Ordered

\* The graph and what is known of its modules stay, and what is new on the
\* stack imports nothing.
LEMMA OrderNext ==
    ASSUME OrderInv, UNCHANGED <<graph, importer, module_state, pending_async_deps>>,
           Ordered(importer, stack'),
           \A e \in ToSet(stack') : Importing(e) => e \in ToSet(stack),
           \A e \in ToSet(stack) : Loading(e) => e \in ToSet(stack'),
           Drained'
    PROVE  OrderInv'
<1>1. Ordered(importer, stack)'
  <2> DEFINE f == importer'
             s == stack'
  <2>1. \A g, t : Ordered(g, t)' <=> Ordered(g, t)
      BY OrderedSame
  <2>2. Ordered(f, s)
      OBVIOUS
  <2>3. QED
      BY <2>1, <2>2
<1>2. \A e : DepsLoaded(e)' <=> DepsLoaded(e)
    BY DEF DepsLoaded, Passed, Deps
<1>3. \A e \in ToSet(stack') : Importing(e) => DepsLoaded(e)'
    BY <1>2 DEF OrderInv
<1>4. \A e \in ToSet(stack)' : Importing(e)' => DepsLoaded(e)'
    BY <1>3 DEF Importing, Loading, ToSet
<1>5. \A d \in Modules : module_state'[d] = "evaluating" =>
        \E e \in ToSet(stack') : Loading(e) /\ e.module = d
    BY DEF OrderInv
<1>6. \A d \in Modules : module_state'[d] = "evaluating" =>
        \E e \in ToSet(stack)' : Loading(e)' /\ e.module = d
    BY <1>5 DEF Loading, ToSet
<1>7. QED
    BY <1>1, <1>4, <1>6 DEF OrderInv

\* What is no drain, import() job or first activation of a module.
Idle(e) ==
    \/ e.kind \in {"gen_body", "resume_next", "await_return"}
    \/ e.kind = "module" /\ ~e.first /\ e.phase = "body"

\* What a step of the top of the stack leaves under it.
Base(s) ==
    \/ s = stack /\ (stack # <<>> => ~Linking(Last(stack)))
    \/ /\ stack # <<>> /\ Last(stack).kind # "drain" /\ ~Loading(Last(stack))
       /\ s = Front(stack)

\* A base is in order, and every module that imports is in it.
LEMMA BaseOf ==
    ASSUME ResumerInv, OrderInv, NEW s, Base(s)
    PROVE  /\ IsSequence(s) /\ Ordered(importer, s) /\ ToSet(s) \subseteq ToSet(stack)
           /\ \A e \in ToSet(stack) : Loading(e) => e \in ToSet(s)
           /\ s # <<>> => ~Linking(Last(s))
<1>1. IsSequence(stack) /\ Ordered(importer, stack)
    BY SequenceOver DEF ResumerInv, LoopTyped, OrderInv
<1>2. CASE s = stack /\ (stack # <<>> => ~Linking(Last(stack)))
    BY <1>1, <1>2
<1>3. CASE /\ stack # <<>> /\ Last(stack).kind # "drain" /\ ~Loading(Last(stack))
           /\ s = Front(stack)
  <2>1. stack = Append(s, Last(stack)) /\ IsSequence(s)
      BY <1>1, <1>3, Stacked
  <2>2. Ordered(importer, s) /\ FitsOn(importer, s, Last(stack))
      BY <1>1, <2>1, OrderedPush
  <2>3. ToSet(stack) = ToSet(s) \cup {Last(stack)}
      BY <1>1, <1>3, StackElements
  <2>4. QED
      BY <1>3, <2>1, <2>2, <2>3 DEF FitsOn
<1>4. QED
    BY <1>2, <1>3 DEF Base

\* The loop goes on beside the modules.
Beside ==
    /\ UNCHANGED <<graph, importer, module_state, pending_async_deps>>
    /\ \E s : Base(s) /\ (stack' = s \/ \E e : Idle(e) /\ stack' = Append(s, e))

LEMMA BesideKeepsOrder ==
    ASSUME ResumerInv, OrderInv, Beside
    PROVE  OrderInv'
<1>1. PICK s : Base(s) /\ (stack' = s \/ \E e : Idle(e) /\ stack' = Append(s, e))
    BY DEF Beside
<1>2. /\ IsSequence(s) /\ Ordered(importer, s) /\ ToSet(s) \subseteq ToSet(stack)
      /\ \A e \in ToSet(stack) : Loading(e) => e \in ToSet(s)
      /\ s # <<>> => ~Linking(Last(s))
    BY <1>1, BaseOf
<1>3. CASE stack' = s
  <2>1. Drained'
      BY <1>2, <1>3 DEF Drained, Linking, Loading
  <2>2. \A e \in ToSet(stack') : e \in ToSet(stack)
      BY <1>2, <1>3
  <2>3. QED
      BY <1>2, <1>3, <2>1, <2>2, OrderNext DEF Beside
<1>4. ASSUME NEW e, Idle(e), stack' = Append(s, e) PROVE OrderInv'
  <2>1. ~Importing(e) /\ ~Linking(e) /\ FitsOn(importer, s, e)
      BY <1>2, <1>4 DEF Idle, Importing, Linking, Loading, FitsOn
  <2>2. Ordered(importer, stack')
      BY <1>2, <1>4, <2>1, OrderedPush
  <2>3. ToSet(stack') = ToSet(s) \cup {e}
      BY <1>2, <1>4, StackElements
  <2>4. Last(stack') = e
      BY <1>2, <1>4, Stacked
  <2>5. Drained'
      BY <2>1, <2>4 DEF Drained, Linking, Loading, Last
  <2>6. QED
      BY <1>2, <2>1, <2>2, <2>3, <2>5, OrderNext DEF Beside
<1>5. QED
    BY <1>1, <1>3, <1>4

\* Nothing but a drain, or a body proper, has something put on it.
LEMMA Onto ==
    ASSUME UNCHANGED moduleVars,
           RunsJS \/ TopIs("drain") \/ stack = <<>>,
           stack' = stack \/ \E e : Idle(e) /\ stack' = Append(stack, e)
    PROVE  Beside
<1>1. Base(stack)
    BY DEF Base, RunsJS, TopIs, Top, Linking, Loading
<1>2. QED
    BY <1>1 DEF Beside, moduleVars

\* The activation on top goes on, or is replaced by one that imports nothing.
LEMMA Onward ==
    ASSUME UNCHANGED moduleVars, stack # <<>>, Last(stack).kind \notin {"drain", "module"},
           \/ stack' = Front(stack)
           \/ \E e : Idle(e) /\ stack' = Append(Front(stack), e)
    PROVE  Beside
BY DEF Beside, Base, Loading, moduleVars

\* The steps of generators are such steps.
LEMMA GeneratorsBeside ==
    ASSUME NEW g \in Gens, UNCHANGED moduleVars,
           \/ GenRunsOn(g) \/ GenAwaits(g) \/ \E k \in Kinds : asyncGenDispatch(g, k)
    PROVE  Beside
<1>1. /\ Idle(ResumeNext(g)) /\ Idle(AwaitReturn(g))
      /\ \A d, b : Idle(Body(g, d, b))
    BY DEF Idle, ResumeNext, AwaitReturn, Body
<1>2. ASSUME NEW q, NEW a, Complete(g, q, a, Front(stack))
      PROVE  \E e : Idle(e) /\ stack' = Append(Front(stack), e)
    BY <1>1, <1>2 DEF Complete
<1>3. ASSUME NEW x, NEW d, NEW b, Resume(g, x, d, b, Front(stack))
      PROVE  \E e : Idle(e) /\ stack' = Append(Front(stack), e)
    BY <1>1, <1>3 DEF Resume
<1>4. ASSUME NEW d, ThrowLands(g, d, Front(stack))
      PROVE  \E e : Idle(e) /\ stack' = Append(Front(stack), e)
    BY <1>3, <1>4 DEF ThrowLands
<1>5. CASE ServeCompleted(g) \/ ServeReturn(g) \/ ServeNext(g) \/ ServeThrow(g)
  <2>1. stack # <<>> /\ Last(stack).kind \notin {"drain", "module"}
      BY <1>5 DEF ServeCompleted, ServeReturn, ServeNext, ServeThrow, Serves, Serving, TopIs, Top
  <2>2. \E e : Idle(e) /\ stack' = Append(Front(stack), e)
      BY <1>1, <1>2, <1>3, <1>4, <1>5
         DEF ServeCompleted, ServeReturn, ServeNext, ServeThrow, Become, Pop
  <2>3. QED
      BY <2>1, <2>2, Onward
<1>6. CASE \/ ResumeNextReturns(g)
           \/ \E t \in BOOLEAN : AwaitReturnSettled(g, t)
           \/ \E h \in HostPromises : AwaitReturnPending(g, h)
  <2>1. stack # <<>> /\ Last(stack).kind \notin {"drain", "module"} /\ stack' = Front(stack)
      BY <1>6 DEF ResumeNextReturns, AwaitReturnSettled, AwaitReturnPending, TopIs, Top, Leave, Pop
  <2>2. QED
      BY <2>1, Onward
<1>7. CASE \/ \E rejected \in BOOLEAN : YieldToDrain(g, rejected) \/ YieldAfterAwait(g, rejected)
           \/ BodyReturns(g) \/ BodyThrows(g) \/ BodyRethrows(g) \/ GenAwaits(g)
  <2>1. AtBody(g)
      BY <1>7 DEF YieldToDrain, YieldAfterAwait, BodyReturns, BodyThrows, BodyRethrows, GenAwaits,
                  BodyAwaitsSettled, BodyAwaitsPending, Runs
  <2>2. stack # <<>> /\ Last(stack).kind \notin {"drain", "module"}
      BY <2>1 DEF AtBody, TopIs, Top
  <2>3. \/ stack' = Front(stack)
        \/ \E e : Idle(e) /\ stack' = Append(Front(stack), e)
    <3>1. CASE \/ \E rejected \in BOOLEAN : YieldToDrain(g, rejected)
               \/ GenAwaits(g)
        BY <3>1 DEF YieldToDrain, GenAwaits, BodyAwaitsSettled, BodyAwaitsPending, Leave, Pop
    <3>2. CASE \/ \E rejected \in BOOLEAN : YieldAfterAwait(g, rejected)
               \/ BodyReturns(g) \/ BodyThrows(g) \/ BodyRethrows(g)
        BY <1>1, <1>2, <3>2
           DEF YieldAfterAwait, BodyReturns, BodyThrows, BodyRethrows, Become, Pop
    <3>3. QED
        BY <1>7, <3>1, <3>2
  <2>4. QED
      BY <2>2, <2>3, Onward
<1>8. ASSUME NEW k \in Kinds, asyncGenDispatch(g, k) PROVE Beside
    BY <1>1, <1>8, Onto DEF asyncGenDispatch
<1>9. QED
    BY <1>5, <1>6, <1>7, <1>8 DEF GenRunsOn

\* So are the tasks that resume them.
LEMMA GenTasksBeside ==
    ASSUME UNCHANGED moduleVars, RunReturnTask \/ RunResumeGen \/ RunYieldTask
    PROVE  Beside
<1>1. TopIs("drain")
    BY DEF RunReturnTask, RunResumeGen, RunYieldTask, TakesTask, Draining
<1>2. \A g, d, b : Idle(ResumeNext(g)) /\ Idle(Body(g, d, b))
    BY DEF Idle, ResumeNext, Body
<1>3. \E e : Idle(e) /\ stack' = Append(stack, e)
    BY <1>2 DEF RunReturnTask, RunResumeGen, RunYieldTask, Complete, ThrowLands, ReturnLands,
                Resume, Push
<1>4. QED
    BY <1>1, <1>3, Onto

\* Tasks and jobs that run no script, and what the host and script do to the
\* promises.
LEMMA LoopBeside ==
    ASSUME UNCHANGED moduleVars,
           \/ RunReaction \/ ClearTermination
           \/ \E s \in {"fulfilled", "rejected"} : RunWasmJob(s)
           \/ \E h \in HostPromises : InstantiateWasm(h)
           \/ \E h \in HostPromises, s \in {"fulfilled", "rejected"} : SettleHost(h, s)
    PROVE  Beside
<1>1. stack' = stack /\ (RunsJS \/ TopIs("drain") \/ stack = <<>>)
    BY DEF RunReaction, ClearTermination, RunWasmJob, InstantiateWasm, SettleHost, TakesTask,
           Draining
<1>2. QED
    BY <1>1, Onto

\* So are the import() calls and awaits of a body, and their answers.
LEMMA ImportsBeside ==
    ASSUME RunResumeModule \/ ImportSettles \/ \E m \in Modules : DynamicImport(m)
    PROVE  Beside
<1>1. CASE RunResumeModule
  <2>1. Idle(Activation(Taken.who, 1, "body", FALSE))
      BY DEF Idle, Activation
  <2>2. TopIs("drain") /\ UNCHANGED moduleVars
      BY <1>1 DEF RunResumeModule, TakesTask, Draining
  <2>3. QED
      BY <1>1, <2>1, <2>2, Onto DEF RunResumeModule, Push
<1>2. CASE ImportSettles
    BY <1>2, Onward DEF ImportSettles, TopIs, Top, Leave, Pop
<1>3. ASSUME NEW m \in Modules, DynamicImport(m) PROVE Beside
  <2>1. Base(stack) /\ stack' = stack
      BY <1>3 DEF Base, DynamicImport, RunsJS, TopIs, Top, Linking, Loading
  <2>2. QED
      BY <1>3, <2>1 DEF Beside, DynamicImport
<1>4. QED
    BY <1>1, <1>2, <1>3

\* A drain begins on an empty stack and ends when nothing may run.
LEMMA DrainsKeepOrder ==
    ASSUME ResumerInv, OrderInv, UNCHANGED moduleVars, HostDrains \/ DrainEnds
    PROVE  OrderInv'
<1>1. /\ IsSequence(stack) /\ Ordered(importer, stack)
      /\ UNCHANGED <<graph, importer, module_state, pending_async_deps>>
    BY SequenceOver DEF ResumerInv, LoopTyped, OrderInv, moduleVars
<1>2. ~Importing(Drain) /\ ~Linking(Drain)
    BY DEF Importing, Linking, Loading, Drain
<1>3. CASE HostDrains
  <2>1. stack = <<>> /\ stack' = Append(stack, Drain)
      BY <1>3 DEF HostDrains, Push
  <2>2. FitsOn(importer, stack, Drain)
      BY <1>2, <2>1 DEF FitsOn, Drain, Loading
  <2>3. Ordered(importer, stack') /\ Last(stack') = Drain
        /\ ToSet(stack') = ToSet(stack) \cup {Drain}
      BY <1>1, <2>1, <2>2, OrderedPush, Stacked, StackElements
  <2>4. Drained'
      BY <1>2, <2>3 DEF Drained, Linking, Loading, Last
  <2>5. QED
      BY <1>1, <1>2, <2>3, <2>4, OrderNext
<1>4. CASE DrainEnds
  <2>1. /\ stack # <<>> /\ stack' = Front(stack) /\ UNCHANGED <<microtask_queue, termination>>
        /\ ~Loading(Last(stack))
      BY <1>4 DEF DrainEnds, TopIs, Top, Leave, Pop, jobVars, Loading
  <2>2. /\ stack = Append(Front(stack), Last(stack)) /\ IsSequence(Front(stack))
        /\ ToSet(stack) = ToSet(Front(stack)) \cup {Last(stack)}
      BY <1>1, <2>1, Stacked, StackElements
  <2>3. Ordered(importer, Front(stack))
      BY <1>1, <2>2, OrderedPush
  <2>4. ASSUME ~termination PROVE \A t \in ToSet(microtask_queue) : t.kind = "module_import"
    <3>1. Runnable = {}
        BY <1>4, <2>4 DEF DrainEnds
    <3>2. QED
        BY <3>1 DEF Runnable, ToSet
  <2>5. Drained'
      BY <2>1, <2>4 DEF Drained
  <2>6. /\ \A e \in ToSet(stack') : e \in ToSet(stack)
        /\ \A e \in ToSet(stack) : Loading(e) => e \in ToSet(stack')
      BY <2>1, <2>2
  <2>7. QED
      BY <1>1, <2>1, <2>3, <2>5, <2>6, OrderNext
<1>5. QED
    BY <1>3, <1>4
-----------------------------------------------------------------------------
(* Modules are loaded.                                                     *)

\* At depth 0 no module is being loaded, and at depth 1 only the one on top.
LEMMA LoadingCount ==
    ASSUME ResumerInv
    PROVE  /\ Depth = 0 => \A e \in ToSet(stack) : ~Loading(e)
           /\ stack # <<>> /\ Loading(Last(stack)) =>
                \A e \in ToSet(Front(stack)) : Loading(e) => Depth > 1
<1> DEFINE L == {i \in DOMAIN stack : stack[i].kind = "module" /\ stack[i].first}
<1>1. IsSequence(stack)
    BY SequenceOver DEF ResumerInv, LoopTyped
<1>2. DOMAIN stack = 1 .. Len(stack) /\ Len(stack) \in Nat
    BY <1>1, PushOnto
<1>3. IsFiniteSet(L) /\ Depth = Cardinality(L)
  <2>1. IsFiniteSet(1 .. Len(stack))
      BY <1>2, FS_Interval
  <2>2. IsFiniteSet(L)
      BY <1>2, <2>1, FS_Subset
  <2>3. QED
      BY <2>2 DEF Depth
<1>4. Cardinality(L) \in Nat
    BY <1>3, FS_CardinalityType
<1>5. \A i \in L : stack[i] \in ToSet(stack) /\ Loading(stack[i])
    BY DEF Loading, ToSet
<1>6. ASSUME Depth = 0, NEW e \in ToSet(stack), Loading(e) PROVE FALSE
  <2>1. L # {}
      BY <1>6 DEF Loading, ToSet
  <2> HIDE DEF L
  <2>2. L = {}
      BY <1>3, <1>6, FS_EmptySet
  <2>3. QED
      BY <2>1, <2>2
<1>7. ASSUME stack # <<>>, Loading(Last(stack)), NEW e \in ToSet(Front(stack)), Loading(e)
      PROVE  Depth > 1
  <2>1. /\ Len(stack) \in Nat \ {0}
        /\ DOMAIN Front(stack) = 1 .. (Len(stack) - 1)
        /\ \A i \in 1 .. (Len(stack) - 1) : Front(stack)[i] = stack[i]
      BY <1>1, <1>7, PopFrom
  <2>2. PICK k \in 1 .. (Len(stack) - 1) : Front(stack)[k] = e
      BY <1>7, <2>1 DEF ToSet
  <2>3. k \in 1 .. Len(stack) /\ Len(stack) \in 1 .. Len(stack) /\ k # Len(stack)
      BY <2>1, <2>2
  <2>4. k \in L /\ Len(stack) \in L
      BY <1>2, <1>7, <2>1, <2>2, <2>3 DEF Loading, Last
  <2> HIDE DEF L
  <2>5. CASE Cardinality(L) = 0
    <3>1. L = {}
        BY <1>3, <2>5, FS_EmptySet
    <3>2. QED
        BY <2>4, <3>1
  <2>6. CASE Cardinality(L) = 1
    <3>1. \E x : L = {x}
        BY <1>3, <2>6, FS_Singleton
    <3>2. QED
        BY <2>3, <2>4, <3>1
  <2>7. QED
      BY <1>3, <1>4, <2>5, <2>6
<1>8. QED
    BY <1>6, <1>7

\* An import() is taken up by the drain at the bottom of the stack.
LEMMA RunImportTaskKeepsOrder ==
    ASSUME ResumerInv, OrderInv, RunImportTask
    PROVE  OrderInv'
<1> DEFINE e == ImportJob(Taken.module, Taken.import)
<1>1. /\ TakesTask("module_import") /\ stack' = Append(stack, e)
      /\ UNCHANGED <<graph, importer, module_state, pending_async_deps>>
    BY DEF RunImportTask, Push, moduleVars
<1>2. Depth = 0 /\ TopIs("drain")
    BY <1>1, TaskTaken DEF TakesTask, Draining
<1>3. e.kind = "import"
    BY DEF ImportJob
<1> HIDE DEF e
<1>4. /\ IsSequence(stack) /\ stack \in Seq(Activations) /\ Ordered(importer, stack)
    BY SequenceOver DEF ResumerInv, LoopTyped, OrderInv
<1>5. stack # <<>> /\ Last(stack).kind = "drain"
    BY <1>2 DEF TopIs, Top
<1>6. /\ stack = Append(Front(stack), Last(stack)) /\ IsSequence(Front(stack))
      /\ ToSet(stack) = ToSet(Front(stack)) \cup {Last(stack)}
    BY <1>4, <1>5, Stacked, StackElements
<1>7. FitsOn(importer, Front(stack), Last(stack))
    BY <1>4, <1>6, OrderedPush
<1>8. Front(stack) = <<>>
  <2>1. SUFFICES ASSUME Front(stack) # <<>> PROVE FALSE
      OBVIOUS
  <2>2. Linking(Last(Front(stack)))
      BY <1>5, <1>7, <2>1 DEF FitsOn
  <2>3. Last(Front(stack)) \in ToSet(Front(stack))
      BY <1>6, <2>1, StackElements
  <2>4. QED
      BY <1>2, <1>6, <2>2, <2>3, LoadingCount DEF Linking
<1>9. Last(stack) \in Activations
    BY <1>4, <1>5, PopPlaces
<1>10. Last(stack) = Drain
    BY <1>5, <1>9 DEF Activations, Drain
<1>11. stack = <<Drain>>
  <2>1. Append(<<>>, Drain) = <<Drain>>
      OBVIOUS
  <2>2. QED
      BY <1>6, <1>8, <1>10, <2>1
<1>12. FitsOn(importer, stack, e)
    BY <1>3, <1>5, <1>11 DEF FitsOn, Loading, Linking, Drain
<1>13. /\ Ordered(importer, stack') /\ Last(stack') = e
       /\ ToSet(stack') = ToSet(stack) \cup {e}
    BY <1>1, <1>4, <1>12, OrderedPush, Stacked, StackElements
<1>14. Drained'
    BY <1>3, <1>13 DEF Drained, Linking, Loading, Last
<1>15. QED
    BY <1>1, <1>3, <1>13, <1>14, OrderNext DEF Importing, Loading

\* A module whose body is on the stack is being evaluated.
LEMMA BodiesAreOpen ==
    ASSUME ResumerInv, NEW e \in ToSet(stack), e.kind = "module"
    PROVE  /\ e \in Activations /\ e.module \in Modules /\ Open(e.module)
           /\ module_state[e.module] = IF e.first THEN "evaluating" ELSE "evaluating_async"
<1>1. stack \in Seq(Activations)
    BY DEF ResumerInv, LoopTyped
<1>2. e \in Activations
    BY <1>1, Elements
<1>3. e.module \in Modules /\ e \in ActsOf(e.module)
    BY <1>2, ActFields, Owners
<1>4. PICK m \in Modules : m = e.module
    BY <1>3
<1>5. PICK i \in DOMAIN stack : stack[i] = e
    BY DEF ToSet
<1>6. ~NoAct(stack, m)
    BY <1>3, <1>4, <1>5 DEF NoAct, Nowhere
<1>7. PICK x \in Activations :
        /\ OnStack(microtask_queue, waiters, stack, m, x)
        /\ Open(m)
        /\ module_state[m] = IF x.first THEN "evaluating" ELSE "evaluating_async"
    BY <1>6, ModTypes DEF ModPlace, ModPlaced, AtRest, InQueue, OnList
<1>8. x = e
    BY <1>3, <1>4, <1>5, <1>7 DEF OnStack, OneAct, Once
<1>9. QED
    BY <1>2, <1>4, <1>7, <1>8

\* realm.current_module is the innermost body, if there is one.
LEMMA CurrentIs ==
    ASSUME NEW s, IsSequence(s)
    PROVE  \/ CurrentModule(s) = None
           \/ \E e \in ToSet(s) : e.kind = "module" /\ CurrentModule(s) = e.module
<1> DEFINE B == {i \in DOMAIN s : s[i].kind = "module"}
           n == Len(s)
<1>1. n \in Nat /\ B \subseteq 1 .. n
    BY PushOnto
<1>2. \A i \in B : s[i] \in ToSet(s) /\ s[i].kind = "module"
    BY DEF ToSet
<1>3. CurrentModule(s) = IF B = {} THEN None
                         ELSE s[CHOOSE i \in B : \A j \in B : j <= i].module
    BY DEF CurrentModule
<1> HIDE DEF B, n
<1>4. ASSUME B # {} PROVE \E i \in B : \A j \in B : j <= i
  <2> DEFINE S == {k \in Nat : \E i \in B : k = n - i}
  <2>1. S \subseteq Nat /\ S # {}
    <3>1. PICK i \in B : i \in 1 .. n
        BY <1>1, <1>4
    <3>2. n - i \in S
        BY <1>1, <3>1
    <3>3. QED
        BY <3>2
  <2>2. PICK k \in S : \A j \in S : k <= j
      BY <2>1, LeastOf, Zenon
  <2>3. PICK i \in B : k = n - i
      BY <2>2
  <2>4. ASSUME NEW j \in B PROVE j <= i
    <3>1. n - j \in S
        BY <1>1
    <3>2. n - i <= n - j
        BY <2>2, <2>3, <3>1
    <3>3. i \in 1 .. n /\ j \in 1 .. n
        BY <1>1
    <3>4. QED
        BY <1>1, <3>2, <3>3
  <2>5. QED
      BY <2>4
<1>5. CASE B = {}
    BY <1>3, <1>5
<1>6. CASE B # {}
  <2> DEFINE k == CHOOSE i \in B : \A j \in B : j <= i
  <2>1. k \in B
      BY <1>4, <1>6
  <2>2. CurrentModule(s) = s[k].module
      BY <1>3, <1>6
  <2>3. QED
      BY <1>2, <2>1, <2>2
<1>7. QED
    BY <1>5, <1>6

\* Only the importers of the modules being loaded matter.
LEMMA OrderedImporter ==
    ASSUME NEW s, NEW f, NEW g, Ordered(f, s),
           \A e \in ToSet(s) : Loading(e) => g[e.module] = f[e.module]
    PROVE  Ordered(g, s)
BY DEF Ordered, FitsOn, ToSet

\* A module enters the cache above those that import it.
LEMMA StartLoadKeepsOrder ==
    ASSUME ResumerInv, OrderInv, NEW m \in Modules, StartLoad(m),
           \A u \in ToSet(stack) : Under(u, Activation(m, 1, "importing", TRUE)),
           stack # <<>> => Last(stack).kind # "drain" /\ ~Linking(Last(stack))
    PROVE  OrderInv'
<1> DEFINE e == Activation(m, 1, "importing", TRUE)
<1>1. /\ module_state[m] = "absent"
      /\ UNCHANGED <<graph, pending_async_deps>>
      /\ module_state \in [Modules -> States] /\ importer \in [Modules -> Modules \cup {None}]
      /\ \A d \in Modules : importer[d] \in Modules => module_state[importer[d]] # "absent"
    BY DEF StartLoad, ResumerInv, ModTyped, States, OrderInv
<1>2. IsSequence(stack) /\ Ordered(importer, stack)
    BY SequenceOver DEF ResumerInv, LoopTyped, OrderInv
<1>3. \A x \in ToSet(stack) : x.kind = "module" =>
        x.module \in Modules /\ x.module # m /\ module_state[x.module] # "absent"
    BY <1>1, BodiesAreOpen DEF Open
<1>4. \A x : Passed(x)' = Passed(x)
    BY <1>1 DEF Passed, Deps
<1>5. ASSUME NEW v \in {"errored", "evaluating"}, module_state' = [module_state EXCEPT ![m] = v],
             importer' = importer \/ importer' = [importer EXCEPT ![m] = CurrentModule(stack)]
      PROVE  /\ module_state'[m] = v /\ \A d \in Modules \ {m} : module_state'[d] = module_state[d]
             /\ importer' \in [Modules -> Modules \cup {None}]
             /\ \A d \in Modules \ {m} : importer'[d] = importer[d]
             /\ \A d \in Modules : importer'[d] \in Modules => module_state'[importer'[d]] # "absent"
             /\ \A x \in ToSet(stack) : Importing(x) => DepsLoaded(x)'
             /\ \A d \in Modules \ {m} : module_state'[d] = "evaluating" =>
                  \E x \in ToSet(stack) : Loading(x) /\ x.module = d
  <2>1. module_state'[m] = v /\ \A d \in Modules \ {m} : module_state'[d] = module_state[d]
      BY <1>1, <1>5
  <2>2. \/ CurrentModule(stack) = None
        \/ CurrentModule(stack) \in Modules /\ module_state[CurrentModule(stack)] # "absent"
    <3>1. \/ CurrentModule(stack) = None
          \/ \E x \in ToSet(stack) : x.kind = "module" /\ CurrentModule(stack) = x.module
        BY <1>2, CurrentIs, Zenon
    <3>2. QED
        BY <1>3, <3>1
  <2>3. /\ importer' \in [Modules -> Modules \cup {None}]
        /\ \A d \in Modules \ {m} : importer'[d] = importer[d]
        /\ importer'[m] = importer[m] \/ importer'[m] = CurrentModule(stack)
      BY <1>1, <1>5, <2>2
  <2>4. ASSUME NEW d \in Modules, importer'[d] \in Modules
        PROVE  module_state'[importer'[d]] # "absent"
    <3>1. module_state[importer'[d]] # "absent"
        BY <1>1, <2>2, <2>3, <2>4, NoneIsNoModule
    <3>2. QED
        BY <1>1, <2>1, <2>4, <3>1
  <2>5. ASSUME NEW x \in ToSet(stack), Importing(x) PROVE DepsLoaded(x)'
    <3>1. DepsLoaded(x) /\ x.module \in Modules
        BY <1>3, <2>5 DEF OrderInv, Importing, Loading
    <3>2. Deps(x.module) \in Seq(Modules)
        BY <3>1, ModTypes
    <3>3. \A i \in DOMAIN Deps(x.module) : Deps(x.module)[i] \in Modules
        BY <3>2, ElementOfSeq, LenProperties
    <3>4. Passed(x) \subseteq Modules
        BY <3>3 DEF Passed
    <3>5. \A y \in Passed(x) : y # m /\ module_state'[y] = module_state[y]
        BY <1>1, <2>1, <3>1, <3>4 DEF DepsLoaded
    <3>6. ASSUME NEW d \in Modules, module_state'[d] = "evaluating_async",
                 importer'[d] = x.module
          PROVE  d \in ToSet(pending_async_deps[x.module])
      <4>1. d # m
          BY <2>1, <3>6
      <4>2. QED
          BY <2>1, <2>3, <3>1, <3>6, <4>1 DEF DepsLoaded
    <3>7. QED
        BY <1>1, <1>4, <3>1, <3>5, <3>6 DEF DepsLoaded, ToSet
  <2>6. \A d \in Modules \ {m} : module_state'[d] = "evaluating" =>
          \E x \in ToSet(stack) : Loading(x) /\ x.module = d
      BY <2>1 DEF OrderInv
  <2>7. QED
      BY <2>1, <2>3, <2>4, <2>5, <2>6
<1>6. \A f, s : Ordered(f, s)' <=> Ordered(f, s)
    BY <1>1, OrderedSame
<1>7. ASSUME NEW f, NEW s, importer' = f, stack' = s, Ordered(f, s)
      PROVE  Ordered(importer, stack)'
    BY <1>6, <1>7
<1>8. ASSUME \A x \in ToSet(stack') : Importing(x) => DepsLoaded(x)',
             \A d \in Modules : module_state'[d] = "evaluating" =>
               \E x \in ToSet(stack') : Loading(x) /\ x.module = d
      PROVE  /\ \A x \in ToSet(stack)' : Importing(x)' => DepsLoaded(x)'
             /\ \A d \in Modules : module_state'[d] = "evaluating" =>
                  \E x \in ToSet(stack)' : Loading(x)' /\ x.module = d
    BY <1>8 DEF Importing, Loading, ToSet
<1>9. CASE /\ module_state' = [module_state EXCEPT ![m] = "errored"]
           /\ UNCHANGED <<stack, importer>>
  <2>1. Ordered(importer, stack)'
      BY <1>2, <1>7, <1>9
  <2>2. Drained'
      BY <1>9 DEF Drained, Linking, Loading
  <2>3. \A d \in Modules : module_state'[d] = "evaluating" =>
          \E x \in ToSet(stack') : Loading(x) /\ x.module = d
      BY <1>5, <1>9
  <2>4. \A x \in ToSet(stack') : Importing(x) => DepsLoaded(x)'
      BY <1>5, <1>9
  <2>5. QED
      BY <1>5, <1>8, <1>9, <2>1, <2>2, <2>3, <2>4 DEF OrderInv
<1>10. CASE /\ module_state' = [module_state EXCEPT ![m] = "evaluating"]
            /\ importer' = [importer EXCEPT ![m] = CurrentModule(stack)]
            /\ stack' = Append(stack, e)
  <2>1. /\ Loading(e) /\ ~Linking(e) /\ Importing(e)
        /\ e.kind = "module" /\ e.first /\ e.module = m /\ e.next = 1
      BY DEF Activation, Loading, Linking, Importing
  <2>2. \A u \in ToSet(stack) : Under(u, e)
      OBVIOUS
  <2> HIDE DEF e
  <2>3. importer'[m] = CurrentModule(stack)
      BY <1>1, <1>10
  <2>4. FitsOn(importer', stack, e)
      BY <2>1, <2>2, <2>3 DEF FitsOn
  <2>5. Ordered(importer', stack)
    <3>1. \A x \in ToSet(stack) : Loading(x) => importer'[x.module] = importer[x.module]
        BY <1>1, <1>3, <1>10 DEF Loading
    <3>2. \A f, g : Ordered(f, stack)
            /\ (\A x \in ToSet(stack) : Loading(x) => g[x.module] = f[x.module])
              => Ordered(g, stack)
        BY OrderedImporter
    <3>3. QED
        BY <1>2, <3>1, <3>2
  <2>6. /\ Ordered(importer', stack') /\ Last(stack') = e
        /\ ToSet(stack') = ToSet(stack) \cup {e}
      BY <1>2, <1>10, <2>4, <2>5, OrderedPush, Stacked, StackElements
  <2>7. Ordered(importer, stack)'
      BY <1>7, <2>6
  <2>8. Drained'
      BY <2>1, <2>6 DEF Drained, Linking, Loading, Last
  <2>9. DepsLoaded(e)'
    <3>1. Passed(e) = {}
      <4>1. Deps(m) \in Seq(Modules)
          BY ModTypes
      <4>2. DOMAIN Deps(m) \subseteq Nat \ {0}
          BY <4>1, LenProperties
      <4>3. QED
          BY <2>1, <4>2 DEF Passed
    <3>2. ASSUME NEW d \in Modules, module_state'[d] = "evaluating_async"
          PROVE  importer'[d] # m
      <4>1. d # m /\ importer'[d] = importer[d]
          BY <1>5, <1>10, <3>2
      <4>2. QED
          BY <1>1, <4>1
    <3>3. QED
        BY <1>4, <2>1, <3>1, <3>2 DEF DepsLoaded
  <2>10. \A x \in ToSet(stack') : Importing(x) => DepsLoaded(x)'
      BY <1>5, <1>10, <2>6, <2>9
  <2>11. \A d \in Modules : module_state'[d] = "evaluating" =>
           \E x \in ToSet(stack') : Loading(x) /\ x.module = d
      BY <1>5, <1>10, <2>1, <2>6
  <2>12. QED
      BY <1>5, <1>8, <1>10, <2>7, <2>8, <2>10, <2>11 DEF OrderInv
<1>11. QED
    BY <1>9, <1>10 DEF StartLoad, Push

\* What a module imports it reaches, and so do those that reach it.
LEMMA ReachesOn ==
    ASSUME ResumerInv, NEW m \in Modules
    PROVE  /\ m \in Reaches(m)
           /\ \A x \in Reaches(m) : \A y \in ToSet(Deps(x)) : y \in Reaches(m)
<1>1. ASSUME NEW x \in Reaches(m), NEW y \in ToSet(Deps(x)) PROVE y \in Reaches(m)
  <2>1. x \in Modules
      BY DEF Reaches
  <2>2. Deps(x) \in Seq(Modules)
      BY <2>1, ModTypes
  <2>3. y \in Modules
      BY <2>2, Elements
  <2>4. QED
      BY <2>3 DEF Reaches
<1>2. QED
    BY <1>1 DEF Reaches

\* The body on top and what is under it.
LEMMA BodyOnTop ==
    ASSUME ResumerInv, OrderInv, NEW m \in Modules, AtModule(m)
    PROVE  /\ stack # <<>> /\ Last(stack) = Top /\ Top \in Activations
           /\ Top.kind = "module" /\ Top.module = m
           /\ stack = Append(Front(stack), Top) /\ IsSequence(Front(stack))
           /\ ToSet(stack) = ToSet(Front(stack)) \cup {Top}
           /\ Ordered(importer, Front(stack)) /\ FitsOn(importer, Front(stack), Top)
           /\ \A e \in ToSet(Front(stack)) : e.kind = "module" => e.module # m
<1>1. IsSequence(stack) /\ stack \in Seq(Activations) /\ Ordered(importer, stack)
    BY SequenceOver DEF ResumerInv, LoopTyped, OrderInv
<1>2. /\ stack # <<>> /\ Last(stack) = Top /\ Top.kind = "module" /\ Top.module = m
    BY DEF AtModule, TopIs, Top
<1>3. /\ stack = Append(Front(stack), Top) /\ IsSequence(Front(stack))
      /\ ToSet(stack) = ToSet(Front(stack)) \cup {Top}
    BY <1>1, <1>2, Stacked, StackElements
<1>4. Ordered(importer, Front(stack)) /\ FitsOn(importer, Front(stack), Top)
    BY <1>1, <1>3, OrderedPush
<1>5. NoAct(Front(stack), m) /\ Top \in Activations
    BY ModOnTop DEF Freed, AtRest
<1>6. ASSUME NEW e \in ToSet(Front(stack)), e.kind = "module" PROVE e.module # m
  <2>1. e \in Activations
      BY <1>3, <1>6, BodiesAreOpen
  <2>2. PICK i \in DOMAIN Front(stack) : Front(stack)[i] = e
      BY <1>6 DEF ToSet
  <2>3. e \notin ActsOf(m)
      BY <1>5, <2>2 DEF NoAct, Nowhere
  <2>4. QED
      BY <1>6, <2>1, <2>3, Owners
<1>7. QED
    BY <1>2, <1>3, <1>4, <1>5, <1>6

\* The import that a body is at is one of its module's.
LEMMA NextDepIs ==
    ASSUME ResumerInv, NEW m \in Modules, AtModule(m), Top.next <= Len(Deps(m))
    PROVE  /\ Top.next \in DOMAIN Deps(m) /\ NextDep(m) = Deps(m)[Top.next]
           /\ NextDep(m) \in Modules /\ NextDep(m) \in ToSet(Deps(m))
<1>1. Deps(m) \in Seq(Modules) /\ Top \in Activations /\ Top.kind = "module"
    BY ModTypes, ModOnTop DEF AtModule, TopIs
<1>2. Len(Deps(m)) \in Nat /\ DOMAIN Deps(m) = 1 .. Len(Deps(m)) /\ Top.next \in Nat \ {0}
    BY <1>1, LenProperties, ActFields
<1>3. Top.next \in DOMAIN Deps(m)
    BY <1>2
<1>4. QED
    BY <1>1, <1>2, <1>3, ElementOfSeq DEF NextDep, ToSet

\* A module loads its next import, an import() job its module, and the host
\* its entry.
LEMMA LoadsKeepOrder ==
    ASSUME ResumerInv, OrderInv, NEW m \in Modules,
           LoadDep(m) \/ (ImportLoads /\ m = Top.module) \/ HostLoads(m)
    PROVE  OrderInv'
<1>1. CASE LoadDep(m)
  <2>1. AtModule(m) /\ Top.phase = "importing" /\ Top.next <= Len(Deps(m)) /\ StartLoad(NextDep(m))
      BY <1>1 DEF LoadDep, HasNextDep, InPhase
  <2>2. PICK d : d = NextDep(m)
      OBVIOUS
  <2>3. d \in Modules /\ d \in ToSet(Deps(m)) /\ StartLoad(d) /\ module_state[d] = "absent"
      BY <2>1, <2>2, NextDepIs DEF StartLoad
  <2>4. Loading(Top) /\ Importing(Top) /\ ~Linking(Top)
      BY <2>1, BodyOnTop DEF FitsOn, Loading, Importing, Linking
  <2> DEFINE e == Activation(d, 1, "importing", TRUE)
  <2>5. e.module = d
      BY DEF Activation
  <2> HIDE DEF e
  <2>6. ASSUME NEW u \in ToSet(stack), Importing(u), u.phase = "importing", m \in Reaches(u.module)
        PROVE  Under(u, e)
    <3>1. DepsLoaded(u) /\ u.module \in Modules
        BY <2>6, BodiesAreOpen DEF OrderInv, Importing, Loading
    <3>2. d \in Reaches(u.module)
        BY <2>3, <2>6, <3>1, ReachesOn
    <3>3. d \notin Passed(u)
        BY <2>3, <3>1 DEF DepsLoaded
    <3>4. QED
        BY <2>5, <2>6, <3>2, <3>3 DEF Under, Importing
  <2>7. ASSUME NEW u \in ToSet(stack) PROVE Under(u, e)
    <3>1. CASE u = Top
      <4>1. m \in Reaches(Top.module)
          BY <2>1, BodyOnTop, ReachesOn
      <4>2. QED
          BY <2>1, <2>4, <2>6, <3>1, <4>1
    <3>2. CASE u \in ToSet(Front(stack))
      <4>1. Under(u, Top) /\ Top.module = m
          BY <2>1, <2>4, <3>2, BodyOnTop DEF FitsOn
      <4>2. CASE u.kind \in {"drain", "import"}
          BY <4>2 DEF Under
      <4>3. CASE Loading(u) /\ u.phase = "importing" /\ m \in Reaches(u.module)
          BY <2>6, <4>3 DEF Importing
      <4>4. QED
          BY <4>1, <4>2, <4>3 DEF Under
    <3>3. QED
        BY <2>1, <3>1, <3>2, BodyOnTop
  <2>8. Last(stack).kind # "drain" /\ ~Linking(Last(stack))
      BY <2>1, <2>4, BodyOnTop
  <2>9. \A u \in ToSet(stack) : Under(u, Activation(d, 1, "importing", TRUE))
      BY <2>7 DEF e
  <2>10. QED
      BY <2>3, <2>8, <2>9, StartLoadKeepsOrder
<1>2. CASE ImportLoads /\ m = Top.module
  <2>1. stack # <<>> /\ Last(stack).kind = "import" /\ StartLoad(m)
      BY <1>2 DEF ImportLoads, TopIs, Top
  <2>2. IsSequence(stack) /\ Ordered(importer, stack)
      BY SequenceOver DEF ResumerInv, LoopTyped, OrderInv
  <2>3. /\ stack = Append(Front(stack), Last(stack)) /\ IsSequence(Front(stack))
        /\ ToSet(stack) = ToSet(Front(stack)) \cup {Last(stack)}
      BY <2>1, <2>2, Stacked, StackElements
  <2>4. FitsOn(importer, Front(stack), Last(stack))
      BY <2>2, <2>3, OrderedPush
  <2>5. Front(stack) = <<Drain>>
      BY <2>1, <2>4 DEF FitsOn
  <2>6. ToSet(Front(stack)) = {Drain}
      BY <2>5 DEF ToSet
  <2>7. \A u \in ToSet(stack) : Under(u, Activation(m, 1, "importing", TRUE))
    <3>1. Drain.kind = "drain"
        BY DEF Drain
    <3>2. \A u \in ToSet(stack) : u = Drain \/ u = Last(stack)
        BY <2>3, <2>6
    <3>3. \A u \in ToSet(stack) : u.kind \in {"drain", "import"}
        BY <2>1, <3>1, <3>2
    <3>4. QED
        BY <3>3 DEF Under
  <2>8. QED
      BY <2>1, <2>7, StartLoadKeepsOrder DEF Linking, Loading
<1>3. CASE HostLoads(m)
  <2>1. stack = <<>> /\ ToSet(stack) = {} /\ StartLoad(m)
      BY <1>3 DEF HostLoads, ToSet
  <2>2. QED
      BY <2>1, StartLoadKeepsOrder
<1>4. QED
    BY <1>1, <1>2, <1>3
-----------------------------------------------------------------------------
(* Modules go on, and end.                                                 *)

\* The body on top goes on as activation e, with a drain on it if it links.
LEMMA GoesOnKeepsOrder ==
    ASSUME ResumerInv, OrderInv, NEW m \in Modules, AtModule(m),
           NEW e, e.kind = "module", e.module = m, e.first = Top.first,
           ~e.first => e.phase = "body",
           Linking(e) => e.next > Len(Deps(m)),
           \/ stack' = Append(Front(stack), e) /\ ~Linking(e)
           \/ stack' = Append(Append(Front(stack), e), Drain) /\ Linking(e),
           UNCHANGED <<graph, importer, module_state>>,
           \A d \in Modules \ {m} : pending_async_deps'[d] = pending_async_deps[d],
           Importing(e) =>
             /\ Importing(Top) /\ UNCHANGED pending_async_deps
             /\ \A x \in Passed(e) \ Passed(Top) : module_state[x] \notin {"absent", "errored"}
    PROVE  OrderInv'
<1> DEFINE s == Front(stack)
           t == Append(s, e)
<1>1. /\ stack # <<>> /\ Last(stack) = Top /\ Top.kind = "module" /\ Top.module = m
      /\ IsSequence(s) /\ ToSet(stack) = ToSet(s) \cup {Top}
      /\ Ordered(importer, s) /\ FitsOn(importer, s, Top)
      /\ \A u \in ToSet(s) : u.kind = "module" => u.module # m
    BY BodyOnTop
<1>2. FitsOn(importer, s, e)
  <2>1. Loading(e) <=> Loading(Top)
      BY <1>1 DEF Loading
  <2>2. \A u : Under(u, Top) <=> Under(u, e)
      BY <1>1 DEF Under
  <2> HIDE DEF s
  <2>3. QED
      BY <1>1, <2>1, <2>2 DEF FitsOn
<1> HIDE DEF s
<1>3. /\ IsSequence(t) /\ t # <<>> /\ Last(t) = e /\ Ordered(importer, t)
      /\ ToSet(t) = ToSet(s) \cup {e}
  <2>1. IsSequence(t) /\ t # <<>> /\ Last(t) = e
      BY <1>1, Stacked
  <2>2. Ordered(importer, t)
      BY <1>1, <1>2, OrderedPush
  <2>3. ToSet(t) = ToSet(s) \cup {e}
      BY <1>1, StackElements
  <2>4. QED
      BY <2>1, <2>2, <2>3
<1> HIDE DEF t
<1>4. /\ Ordered(importer, stack') /\ Drained'
      /\ \A u \in ToSet(stack') : u \in ToSet(s) \/ u = e \/ ~Importing(u)
      /\ e \in ToSet(stack') /\ ToSet(s) \subseteq ToSet(stack')
  <2>1. CASE stack' = t /\ ~Linking(e)
    <3>1. Drained'
        BY <1>3, <2>1 DEF Drained, Linking, Loading, Last
    <3>2. QED
        BY <1>3, <2>1, <3>1
  <2>2. CASE stack' = Append(t, Drain) /\ Linking(e)
    <3>1. ~Loading(Drain) /\ Drain.kind = "drain"
        BY DEF Loading, Drain
    <3>2. FitsOn(importer, t, Drain)
        BY <1>3, <2>2, <3>1 DEF FitsOn, Linking, Drain
    <3>3. /\ Ordered(importer, stack') /\ Last(stack') = Drain
          /\ ToSet(stack') = ToSet(t) \cup {Drain}
        BY <1>3, <2>2, <3>2, OrderedPush, Stacked, StackElements
    <3>4. Drained'
        BY <3>1, <3>3 DEF Drained, Linking, Loading, Last
    <3>5. QED
        BY <1>3, <3>1, <3>3, <3>4 DEF Importing
  <2>3. QED
      BY <2>1, <2>2 DEF t, s
<1>5. Ordered(importer, stack)'
  <2> DEFINE f == importer'
             u == stack'
  <2>1. \A g, v : Ordered(g, v)' <=> Ordered(g, v)
      BY OrderedSame
  <2>2. Ordered(f, u)
      BY <1>4
  <2>3. QED
      BY <2>1, <2>2
<1>6. \A u : Passed(u)' = Passed(u)
    BY DEF Passed, Deps
<1>7. ASSUME NEW u \in ToSet(s), Importing(u) PROVE DepsLoaded(u)'
  <2>1. DepsLoaded(u) /\ u.module \in Modules \ {m}
      BY <1>1, <1>7, BodiesAreOpen DEF OrderInv, Importing, Loading
  <2>2. QED
      BY <1>6, <2>1 DEF DepsLoaded, ToSet
<1>8. ASSUME Importing(e) PROVE DepsLoaded(e)'
  <2>1. DepsLoaded(Top)
      BY <1>1, <1>8 DEF OrderInv
  <2>2. QED
      BY <1>1, <1>6, <1>8, <2>1 DEF DepsLoaded, ToSet
<1>9. \A u \in ToSet(stack') : Importing(u) => DepsLoaded(u)'
    BY <1>4, <1>7, <1>8
<1>10. \A u \in ToSet(stack)' : Importing(u)' => DepsLoaded(u)'
    BY <1>9 DEF Importing, Loading, ToSet
<1>11. \A d \in Modules : module_state'[d] = "evaluating" =>
         \E u \in ToSet(stack') : Loading(u) /\ u.module = d
  <2>1. \A d \in Modules : module_state'[d] = "evaluating" =>
          \E u \in ToSet(stack) : Loading(u) /\ u.module = d
      BY DEF OrderInv
  <2>2. Loading(Top) => Loading(e)
      BY <1>1 DEF Loading
  <2>3. QED
      BY <1>1, <1>4, <2>1, <2>2
<1>12. \A d \in Modules : module_state'[d] = "evaluating" =>
         \E u \in ToSet(stack)' : Loading(u)' /\ u.module = d
    BY <1>11 DEF Loading, ToSet
<1>13. QED
    BY <1>4, <1>5, <1>10, <1>12 DEF OrderInv

\* The steps by which a body goes on.
LEMMA BodiesGoOnInOrder ==
    ASSUME ResumerInv, OrderInv, NEW m \in Modules,
           ImportNext(m) \/ LinkDrains(m) \/ EnterBody(m)
    PROVE  OrderInv'
<1>1. AtModule(m)
    BY DEF ImportNext, HasNextDep, LinkDrains, EnterBody, InPhase
<1>2. /\ stack # <<>> /\ Last(stack) = Top /\ Top \in Activations
      /\ Top.kind = "module" /\ Top.module = m /\ FitsOn(importer, Front(stack), Top)
    BY <1>1, BodyOnTop
<1>3. /\ Top.next \in Nat \ {0} /\ Deps(m) \in Seq(Modules)
      /\ Len(Deps(m)) \in Nat /\ DOMAIN Deps(m) = 1 .. Len(Deps(m))
      /\ Top.first \in BOOLEAN
    BY <1>2, ActFields, ModTypes, LenProperties
<1>4. Top.phase # "body" => Top.first
    BY <1>2, <1>3 DEF FitsOn
<1>5. CASE ImportNext(m)
  <2> DEFINE e == [Top EXCEPT !.next = @ + 1]
  <2>1. /\ Top.phase = "importing" /\ Top.next <= Len(Deps(m)) /\ CacheHit(NextDep(m))
        /\ stack' = Append(Front(stack), e)
        /\ UNCHANGED <<graph, importer, module_state, pending_async_deps>>
      BY <1>5 DEF ImportNext, HasNextDep, InPhase, Become, Pop, moduleVars
  <2>2. /\ e.kind = "module" /\ e.module = m /\ e.first = Top.first
        /\ e.phase = Top.phase /\ e.next = Top.next + 1
    <3>1. Top \in [kind : {"module"}, module : Modules, next : Nat \ {0},
                   phase : {"importing", "linking", "body"}, first : BOOLEAN]
        BY <1>2 DEF Activations, Drain
    <3>2. QED
        BY <1>2, <3>1
  <2>3. NextDep(m) = Deps(m)[Top.next]
      BY DEF NextDep
  <2> HIDE DEF e
  <2>4. \A x \in Passed(e) \ Passed(Top) : x = NextDep(m)
    <3>1. \A i \in DOMAIN Deps(m) : i < Top.next + 1 => i < Top.next \/ i = Top.next
        BY <1>3
    <3>2. QED
        BY <1>2, <2>2, <2>3, <3>1 DEF Passed
  <2>5. Importing(Top) /\ ~Linking(e) /\ (~e.first => e.phase = "body")
      BY <1>2, <1>4, <2>1, <2>2 DEF Importing, Loading, Linking
  <2>6. \A x \in Passed(e) \ Passed(Top) : module_state[x] \notin {"absent", "errored"}
      BY <2>1, <2>4 DEF CacheHit
  <2>7. QED
      BY <1>1, <2>1, <2>2, <2>5, <2>6, GoesOnKeepsOrder
<1>6. CASE LinkDrains(m)
  <2> DEFINE e == [Top EXCEPT !.phase = "linking"]
  <2>1. /\ Top.phase = "importing" /\ Top.next > Len(Deps(m))
        /\ stack' = Append(Append(Front(stack), e), Drain)
        /\ UNCHANGED <<graph, importer, module_state, pending_async_deps>>
      BY <1>6 DEF LinkDrains, InPhase, Pop, moduleVars
  <2>2. /\ e.kind = "module" /\ e.module = m /\ e.first = Top.first
        /\ e.phase = "linking" /\ e.next = Top.next
    <3>1. Top \in [kind : {"module"}, module : Modules, next : Nat \ {0},
                   phase : {"importing", "linking", "body"}, first : BOOLEAN]
        BY <1>2 DEF Activations, Drain
    <3>2. QED
        BY <1>2, <3>1
  <2> HIDE DEF e
  <2>3. Importing(Top) /\ Linking(e) /\ e.first
      BY <1>2, <1>4, <2>1, <2>2 DEF Importing, Loading, Linking
  <2>4. Passed(e) = Passed(Top)
      BY <1>2, <2>2 DEF Passed
  <2>5. QED
      BY <1>1, <2>1, <2>2, <2>3, <2>4, GoesOnKeepsOrder
<1>7. CASE EnterBody(m)
  <2> DEFINE e == [Top EXCEPT !.phase = "body"]
  <2>1. /\ stack' = Append(Front(stack), e) /\ pending_async_deps' = Unlinked
        /\ UNCHANGED <<graph, importer, module_state>>
      BY <1>7 DEF EnterBody, Become, Pop
  <2>2. /\ e.kind = "module" /\ e.module = m /\ e.first = Top.first /\ e.phase = "body"
    <3>1. Top \in [kind : {"module"}, module : Modules, next : Nat \ {0},
                   phase : {"importing", "linking", "body"}, first : BOOLEAN]
        BY <1>2 DEF Activations, Drain
    <3>2. QED
        BY <1>2, <3>1
  <2> HIDE DEF e
  <2>3. ~Importing(e) /\ ~Linking(e)
      BY <2>2 DEF Importing, Linking
  <2>4. \A d \in Modules \ {m} : pending_async_deps'[d] = pending_async_deps[d]
      BY <1>2, <2>1 DEF Unlinked, ResumerInv, ModTyped
  <2>5. QED
      BY <1>1, <2>1, <2>2, <2>3, <2>4, GoesOnKeepsOrder
<1>8. QED
    BY <1>5, <1>6, <1>7

\* The end or the suspension of a body leaves the others as they were, and
\* tells the importer on the stack of an async module.
Ended(m) ==
    \/ ~Top.first /\ UNCHANGED <<module_state, pending_async_deps>>
    \/ /\ Top.first
       /\ \E st \in [Modules -> States] : \E q :
            /\ module_state' = Validated(st, q)
            /\ \A d \in Modules \ {m} : st[d] = module_state[d]
            /\ \/ st[m] = "evaluating_async" /\ pending_async_deps' = Recorded(m)
               \/ st[m] \in {"evaluated", "errored"} /\ pending_async_deps' = Unlinked

\* An async module that suspends in its import stays with its importer.
LEMMA LoadReturnsEnds ==
    ASSUME ResumerInv, NEW m \in Modules, AtModule(m), AsyncLoadReturns(m)
    PROVE  Ended(m)
<1> DEFINE st == [module_state EXCEPT ![m] = "evaluating_async"]
<1>1. CASE Top.first
  <2>1. /\ st \in [Modules -> States] /\ st[m] = "evaluating_async"
        /\ \A d \in Modules \ {m} : st[d] = module_state[d]
      BY DEF States, ResumerInv, ModTyped
  <2>2. /\ module_state' = Validated(st, pending_indirect_export_validation)
        /\ pending_async_deps' = Recorded(m)
      BY <1>1 DEF AsyncLoadReturns, LoadReturns
  <2> HIDE DEF st
  <2>3. QED
      BY <1>1, <2>1, <2>2 DEF Ended
<1>2. CASE ~Top.first
    BY <1>2 DEF AsyncLoadReturns, Ended
<1>3. QED
    BY <1>1, <1>2

\* A body that finishes or throws ends the import of its module.
LEMMA BodyEndsEnds ==
    ASSUME ResumerInv, ImportInv, NEW m \in Modules, AtModule(m),
           NEW ok \in BOOLEAN, BodyEnds(m, ok)
    PROVE  Ended(m) /\ stack' = Front(stack) /\ UNCHANGED <<graph, importer>>
<1>1. stack' = Front(stack) /\ UNCHANGED <<graph, importer>>
    BY DEF BodyEnds, Leave, Pop
<1>2. CASE IsAsync(m)
    BY <1>1, <1>2, LoadReturnsEnds DEF BodyEnds
<1>3. CASE ~IsAsync(m)
  <2> DEFINE st == [module_state EXCEPT ![m] = IF ok THEN "evaluated" ELSE "errored"]
             q == IF ok THEN Append(pending_indirect_export_validation, m)
                        ELSE pending_indirect_export_validation
  <2>1. module_state' = Validated(st, q) /\ pending_async_deps' = Unlinked
      BY <1>3 DEF BodyEnds, LoadReturns
  <2>2. /\ st \in [Modules -> States] /\ st[m] \in {"evaluated", "errored"}
        /\ \A d \in Modules \ {m} : st[d] = module_state[d]
      BY DEF ResumerInv, ModTyped, States
  <2> HIDE DEF st, q
  <2>3. Top.first
      BY <1>3, ModOnTop DEF ImportInv
  <2>4. QED
      BY <1>1, <2>1, <2>2, <2>3 DEF Ended
<1>4. QED
    BY <1>2, <1>3

\* An import that ends leaves its module evaluated, in error, or awaiting
\* on the list of its importer.
LEMMA EndKeepsOrder ==
    ASSUME ResumerInv, OrderInv, NEW m \in Modules, AtModule(m), Ended(m),
           stack' = Front(stack), UNCHANGED <<graph, importer>>
    PROVE  OrderInv'
<1> DEFINE s == Front(stack)
<1>1. /\ stack # <<>> /\ Last(stack) = Top /\ Top.kind = "module" /\ Top.module = m
      /\ IsSequence(s) /\ ToSet(stack) = ToSet(s) \cup {Top}
      /\ Ordered(importer, s) /\ FitsOn(importer, s, Top)
      /\ \A u \in ToSet(s) : u.kind = "module" => u.module # m
    BY BodyOnTop
<1>2. stack' = s
    OBVIOUS
<1>3. CASE ~Top.first /\ UNCHANGED <<module_state, pending_async_deps>>
  <2>1. Base(s)
      BY <1>1, <1>3 DEF Base, Loading
  <2>2. QED
      BY <1>2, <1>3, <2>1, BesideKeepsOrder DEF Beside
<1>4. ASSUME Top.first, NEW st \in [Modules -> States], NEW q,
             module_state' = Validated(st, q),
             \A d \in Modules \ {m} : st[d] = module_state[d],
             \/ st[m] = "evaluating_async" /\ pending_async_deps' = Recorded(m)
             \/ st[m] \in {"evaluated", "errored"} /\ pending_async_deps' = Unlinked
      PROVE  OrderInv'
  <2>1. /\ module_state' \in [Modules -> States]
        /\ \A d \in Modules : \/ module_state'[d] = st[d]
                              \/ st[d] = "evaluated" /\ module_state'[d] = "errored"
      BY <1>4, ValidatedStates
  <2>2. /\ Loading(Top) /\ importer[m] = CurrentModule(s)
        /\ \A u \in ToSet(s) : Under(u, Top)
      BY <1>1, <1>4 DEF FitsOn, Loading
  <2>3. ASSUME NEW u \in ToSet(s), Importing(u)
        PROVE  /\ \A x \in Passed(u) : module_state'[x] \notin {"absent", "errored"}
               /\ \A d \in Modules :
                    module_state'[d] = "evaluating_async" /\ importer[d] = u.module
                       => d \in ToSet(pending_async_deps'[u.module])
    <3>1. DepsLoaded(u) /\ u.module \in Modules \ {m}
        BY <1>1, <2>3, BodiesAreOpen DEF OrderInv, Importing, Loading
    <3>2. module_state' = st
        BY <1>1, <1>4, <2>2, <2>3, LoadingCount DEF Validated, Importing
    <3>3. m \notin Passed(u)
        BY <1>1, <2>2, <2>3 DEF Under, Importing, Loading
    <3>4. Passed(u) \subseteq Modules
      <4>1. Deps(u.module) \in Seq(Modules)
          BY <3>1, ModTypes
      <4>2. \A i \in DOMAIN Deps(u.module) : Deps(u.module)[i] \in Modules
          BY <4>1, ElementOfSeq, LenProperties
      <4>3. QED
          BY <4>2 DEF Passed
    <3>5. \A x \in Passed(u) : module_state'[x] \notin {"absent", "errored"}
        BY <1>4, <3>1, <3>2, <3>3, <3>4 DEF DepsLoaded
    <3>6. /\ Unlinked \in [Modules -> Seq(Modules)]
          /\ Unlinked[u.module] = pending_async_deps[u.module]
        BY <1>1, <3>1, ListTypes DEF Unlinked, ResumerInv, ModTyped
    <3>7. /\ Recorded(m)[u.module] =
               IF CurrentModule(s) = u.module THEN Append(Unlinked[u.module], m)
                                              ELSE Unlinked[u.module]
      <4>1. u.module # None
          BY <3>1, NoneIsNoModule
      <4>2. QED
          BY <3>1, <3>6, <4>1 DEF Recorded, Pop
    <3>8. /\ ToSet(pending_async_deps[u.module]) \subseteq ToSet(pending_async_deps'[u.module])
          /\ st[m] = "evaluating_async" /\ CurrentModule(s) = u.module
               => m \in ToSet(pending_async_deps'[u.module])
      <4>1. \A l \in Seq(Modules) : ToSet(Append(l, m)) = ToSet(l) \cup {m}
          BY Elements
      <4>2. ToSet(Append(Unlinked[u.module], m)) = ToSet(Unlinked[u.module]) \cup {m}
          BY <3>1, <3>6, <4>1
      <4> HIDE DEF s
      <4>3. QED
          BY <1>4, <3>6, <3>7, <4>2
    <3>9. ASSUME NEW d \in Modules, module_state'[d] = "evaluating_async",
                 importer[d] = u.module
          PROVE  d \in ToSet(pending_async_deps'[u.module])
      <4>1. CASE d = m
          BY <2>2, <3>2, <3>8, <3>9, <4>1
      <4>2. CASE d # m
          BY <1>4, <3>1, <3>2, <3>8, <3>9, <4>2 DEF DepsLoaded
      <4>3. QED
          BY <4>1, <4>2
    <3>10. QED
        BY <3>5, <3>9
  <2>4. \A u : Passed(u)' = Passed(u)
      BY DEF Passed, Deps
  <2>5. \A u \in ToSet(stack)' : Importing(u)' => DepsLoaded(u)'
    <3>1. ASSUME NEW u \in ToSet(s), Importing(u) PROVE DepsLoaded(u)'
        BY <2>3, <2>4, <3>1 DEF DepsLoaded, ToSet
    <3>2. QED
        BY <1>2, <3>1 DEF Importing, Loading, ToSet
  <2>6. \A d \in Modules : importer[d] \in Modules => module_state'[importer[d]] # "absent"
    <3>1. ASSUME NEW c \in Modules, module_state[c] # "absent"
          PROVE  module_state'[c] # "absent"
        BY <1>4, <2>1, <3>1
    <3>2. QED
        BY <3>1 DEF OrderInv
  <2>7. Drained'
      BY <1>1, <1>2 DEF FitsOn, Drained, Linking, Loading, Last
  <2>8. Ordered(importer, stack)'
    <3> DEFINE f == importer'
               u == stack'
    <3>1. \A g, v : Ordered(g, v)' <=> Ordered(g, v)
        BY OrderedSame
    <3>2. Ordered(f, u)
        BY <1>1, <1>2
    <3>3. QED
        BY <3>1, <3>2
  <2>9. \A d \in Modules : module_state'[d] = "evaluating" =>
          \E u \in ToSet(s) : Loading(u) /\ u.module = d
    <3>1. ASSUME NEW d \in Modules, module_state'[d] = "evaluating"
          PROVE  d # m /\ module_state[d] = "evaluating"
        BY <1>4, <2>1, <3>1
    <3>2. QED
        BY <1>1, <3>1 DEF OrderInv
  <2>10. \A d \in Modules : module_state'[d] = "evaluating" =>
           \E u \in ToSet(stack)' : Loading(u)' /\ u.module = d
      BY <1>2, <2>9 DEF Loading, ToSet
  <2>11. QED
      BY <2>5, <2>6, <2>7, <2>8, <2>10 DEF OrderInv
<1>5. QED
    BY <1>3, <1>4 DEF Ended

\* Both endings keep the order.
LEMMA EndsKeepOrder ==
    ASSUME ResumerInv, ImportInv, OrderInv, NEW m \in Modules,
           \/ ImportThrows(m) \/ LinkThrows(m) \/ BodyCompletes(m) \/ ModuleThrows(m)
           \/ \E p \in Awaitable : ModuleAwaits(m, p)
    PROVE  OrderInv'
<1>1. AtModule(m)
    BY DEF ImportThrows, LinkThrows, BodyCompletes, ModuleThrows, ModuleAwaits, InPhase
<1>2. CASE ImportThrows(m) \/ LinkThrows(m) \/ BodyCompletes(m) \/ ModuleThrows(m)
  <2>1. \E ok \in BOOLEAN : BodyEnds(m, ok)
      BY <1>2 DEF ImportThrows, LinkThrows, BodyCompletes, ModuleThrows
  <2>2. QED
      BY <1>1, <2>1, BodyEndsEnds, EndKeepsOrder
<1>3. CASE \E p \in Awaitable : ModuleAwaits(m, p)
  <2>1. AsyncLoadReturns(m) /\ stack' = Front(stack) /\ UNCHANGED <<graph, importer>>
      BY <1>3 DEF ModuleAwaits, Leave, Pop
  <2>2. QED
      BY <1>1, <2>1, LoadReturnsEnds, EndKeepsOrder
<1>4. QED
    BY <1>2, <1>3

\* Every step keeps the order.
LEMMA OrderKeptByAll ==
    ASSUME ResumerInv, ImportInv, OrderInv, [Next]_vars
    PROVE  OrderInv'
<1>1. CASE Proceed
  <2>1. CASE GenSteps /\ UNCHANGED moduleVars
      BY <2>1, GeneratorsBeside, GenTasksBeside, BesideKeepsOrder DEF GenSteps
  <2>2. CASE ModuleSteps
    <3>1. ASSUME NEW m \in Modules,
                 \/ ImportNext(m) \/ LoadDep(m) \/ ImportThrows(m)
                 \/ LinkDrains(m) \/ LinkThrows(m) \/ EnterBody(m)
                 \/ BodyCompletes(m) \/ ModuleThrows(m)
          PROVE  OrderInv'
        BY <3>1, LoadsKeepOrder, BodiesGoOnInOrder, EndsKeepOrder
    <3>2. CASE ImportLoads
      <4>1. stack # <<>> /\ Top.kind = "import" /\ stack \in Seq(Activations)
          BY <3>2 DEF ImportLoads, TopIs, ResumerInv, LoopTyped
      <4>2. Top \in Activations
          BY <4>1, PopPlaces DEF Top
      <4>3. Top.module \in Modules
          BY <4>1, <4>2, ActFields
      <4>4. QED
          BY <3>2, <4>3, LoadsKeepOrder
    <3>3. QED
        BY <2>2, <3>1, <3>2, ImportsBeside, BesideKeepsOrder, RunImportTaskKeepsOrder
           DEF ModuleSteps
  <2>3. CASE /\ UNCHANGED moduleVars
             /\ RunReaction \/ \E s \in {"fulfilled", "rejected"} : RunWasmJob(s)
      BY <2>3, LoopBeside, BesideKeepsOrder
  <2>4. CASE DrainEnds /\ UNCHANGED moduleVars
      BY <2>4, DrainsKeepOrder
  <2>5. QED
      BY <1>1, <2>1, <2>2, <2>3, <2>4 DEF Proceed
<1>2. CASE Script
  <2>1. CASE /\ UNCHANGED moduleVars
             /\ \E g \in Gens : GenAwaits(g) \/ \E k \in Kinds : asyncGenDispatch(g, k)
      BY <2>1, GeneratorsBeside, BesideKeepsOrder
  <2>2. ASSUME NEW m \in Modules,
               DynamicImport(m) \/ HostLoads(m) \/ \E p \in Awaitable : ModuleAwaits(m, p)
        PROVE  OrderInv'
      BY <2>2, ImportsBeside, BesideKeepsOrder, LoadsKeepOrder, EndsKeepOrder
  <2>3. CASE UNCHANGED moduleVars /\ \E h \in HostPromises : InstantiateWasm(h)
      BY <2>3, LoopBeside, BesideKeepsOrder
  <2>4. QED
      BY <1>2, <2>1, <2>2, <2>3 DEF Script, Kinds
<1>3. CASE \E h \in HostPromises : HostSettles(h)
    BY <1>3, LoopBeside, BesideKeepsOrder DEF HostSettles
<1>4. CASE HostGoesOn
    BY <1>4, DrainsKeepOrder, LoopBeside, BesideKeepsOrder DEF HostGoesOn
<1>5. ASSUME UNCHANGED <<stack, moduleVars>>, Drained' PROVE OrderInv'
  <2>1. Ordered(importer, stack') /\ ToSet(stack') = ToSet(stack)
      BY <1>5 DEF OrderInv
  <2>2. QED
      BY <1>5, <2>1, OrderNext DEF moduleVars
<1>6. CASE Terminate /\ UNCHANGED <<genVars, moduleVars>>
    BY <1>5, <1>6 DEF Terminate, Drained
<1>7. CASE UNCHANGED vars
  <2>1. UNCHANGED <<stack, termination, microtask_queue, moduleVars>>
      BY <1>7 DEF vars, loopVars, jobVars
  <2>2. Drained'
      BY <2>1 DEF OrderInv, Drained, Linking, Loading, ToSet
  <2>3. QED
      BY <1>5, <2>1, <2>2
<1>8. QED
    BY <1>1, <1>2, <1>3, <1>4, <1>6, <1>7 DEF Next

\* The activations of one evaluation are on the stack in the order of the
\* imports that led to them, an import() and its drain at the bottom; what
\* each has imported is loaded, and on its list if it awaits; and a module
\* comes out of the drain of its import block with no task left to run.
THEOREM OrderInvariance == Spec => []OrderInv
<1>1. Init => OrderInv
  <2> SUFFICES ASSUME Init PROVE OrderInv
      OBVIOUS
  <2>1. /\ stack = <<>> /\ importer = [m \in Modules |-> None]
        /\ \A m \in Modules : module_state[m] = "absent"
      BY DEF Init, LoopInit, ModuleInit
  <2>2. DOMAIN stack = {} /\ ToSet(stack) = {}
      BY <2>1 DEF ToSet
  <2>3. QED
      BY <2>1, <2>2, NoneIsNoModule DEF OrderInv, Ordered, Drained
<1>2. ResumerInv /\ ImportInv /\ OrderInv /\ [Next]_vars => OrderInv'
    BY OrderKeptByAll
<1>3. QED
    BY <1>1, <1>2, ResumerInvariance, ImportInvariance, PTL DEF Spec

-----------------------------------------------------------------------------
(* A body begins when its imports are evaluated.                           *)

\* Only the step into a body begins one.
LEMMA BodiesBegin ==
    ASSUME [Next]_vars, NEW m \in ready' \ ready
    PROVE  m \in Modules /\ EnterBody(m)
<1>1. ready' # ready
    OBVIOUS
<1>2. ASSUME NEW d, StartLoad(d) PROVE FALSE
    BY <1>1, <1>2 DEF StartLoad
<1>3. ~UNCHANGED moduleVars
    BY <1>1 DEF moduleVars
<1>4. ModuleSteps
    BY <1>1, <1>2, <1>3
       DEF Next, Proceed, Script, HostSettles, HostGoesOn, vars, DynamicImport, ModuleAwaits, HostLoads
<1>5. PICK d \in Modules : EnterBody(d)
    BY <1>1, <1>2, <1>3, <1>4
       DEF ModuleSteps, ImportNext, LoadDep, ImportThrows, LinkDrains, LinkThrows, BodyCompletes,
           ModuleThrows, BodyEnds, RunResumeModule, RunImportTask, ImportLoads, ImportSettles
<1>6. m = d
    BY <1>5 DEF EnterBody
<1>7. QED
    BY <1>5, <1>6

\* An import of a module that comes out of its drain: evaluated, or awaiting
\* what the drain could not bring about, or of its own cycle.
LEMMA BodyMayBegin ==
    ASSUME ResumerInv, OrderInv, NEW m \in Modules, EnterBody(m),
           NEW d \in ToSet(Deps(m)), m \notin Reaches(d)
    PROVE  \/ module_state[d] = "evaluated"
           \/ /\ module_state[d] = "evaluating_async"
              /\ promise_state[Evaluation(d)] = "pending" => Held(d)
              /\ promise_state[Evaluation(d)] = "rejected" => importer[d] # m
<1>1. InPhase(m, "linking") /\ ~DepRejected(m) /\ ~termination
  <2>1. ToSet(Deps(m)) # {}
      OBVIOUS
  <2>2. Deps(m) # <<>>
      BY <2>1 DEF ToSet
  <2>3. QED
      BY <2>2 DEF EnterBody
<1>2. AtModule(m) /\ Top.phase = "linking"
    BY <1>1 DEF InPhase
<1>3. /\ stack # <<>> /\ Last(stack) = Top /\ Top \in Activations
      /\ Top.kind = "module" /\ Top.module = m
      /\ ToSet(stack) = ToSet(Front(stack)) \cup {Top}
      /\ FitsOn(importer, Front(stack), Top)
    BY <1>2, BodyOnTop
<1>4. Deps(m) \in Seq(Modules) /\ Top.next \in Nat \ {0} /\ Top.first \in BOOLEAN
    BY <1>3, ModTypes, ActFields
<1>5. /\ Loading(Top) /\ Linking(Top) /\ Importing(Top)
      /\ Top.next > Len(Deps(m))
      /\ \A u \in ToSet(Front(stack)) : Under(u, Top)
    BY <1>2, <1>3, <1>4 DEF FitsOn, Loading, Linking, Importing
<1>6. d \in Modules /\ d # m
    BY <1>4, Elements, ReachesOn
<1>7. d \in Passed(Top) /\ DepsLoaded(Top)
  <2>1. PICK i \in DOMAIN Deps(m) : Deps(m)[i] = d
      BY DEF ToSet
  <2>2. i < Top.next
    <3>1. Len(Deps(m)) \in Nat /\ i \in 1 .. Len(Deps(m))
        BY <1>4, <2>1, LenProperties
    <3>2. QED
        BY <1>4, <1>5, <3>1
  <2>3. QED
      BY <1>3, <1>5, <2>1, <2>2 DEF Passed, OrderInv
<1>8. module_state[d] \in {"evaluating", "evaluating_async", "evaluated"}
    BY <1>6, <1>7, ModTypes DEF DepsLoaded
<1>9. ASSUME NEW e \in ToSet(stack), e.kind = "module", e.module = d PROVE FALSE
  <2>1. e \in ToSet(Front(stack))
      BY <1>3, <1>6, <1>9
  <2>2. m \in Reaches(d)
      BY <1>3, <1>5, <1>9, <2>1 DEF Under
  <2>3. QED
      BY <2>2
<1>10. NoAct(stack, d)
  <2>1. ASSUME NEW i \in DOMAIN stack, stack[i] \in ActsOf(d) PROVE FALSE
    <3>1. stack[i] \in Activations /\ stack[i] \in ToSet(stack)
        BY <2>1 DEF ActsOf, ToSet
    <3>2. stack[i].kind = "module" /\ stack[i].module = d
      <4>1. d \notin Gens
          BY <1>6, CoroutinesAreDistinct
      <4>2. QED
          BY <2>1, <3>1, <4>1, Owners, ActFields
    <3>3. QED
        BY <1>9, <3>1, <3>2
  <2>2. QED
      BY <2>1 DEF NoAct, Nowhere
<1>11. ASSUME Open(d) PROVE module_state[d] = "evaluating_async" /\ Held(d)
  <2>1. ASSUME NEW t \in Jobs, InQueue(microtask_queue, waiters, stack, d, t) PROVE FALSE
    <3>1. PICK i \in DOMAIN microtask_queue : microtask_queue[i] = t /\ t \in TasksOf(d)
        BY <2>1 DEF InQueue, OneTask, Once
    <3>2. t.kind # "module_import" /\ t \in ToSet(microtask_queue)
        BY <3>1 DEF TasksOf, ToSet
    <3>3. QED
        BY <1>1, <1>3, <1>5, <3>2 DEF OrderInv, Drained
  <2>2. ASSUME NEW e, OnStack(microtask_queue, waiters, stack, d, e) PROVE FALSE
      BY <1>10, <2>2 DEF OnStack, OneAct, Once, NoAct, Nowhere
  <2>3. PICK p \in Hosts \cup ImportPromises :
          OnList(microtask_queue, waiters, stack, d, p) /\ module_state[d] = "evaluating_async"
      BY <1>6, <1>11, <2>1, <2>2, ModTypes DEF ModPlace, ModPlaced
  <2>4. p \in Promises /\ d \in ToSet(waiters[p])
      BY <2>3 DEF OnList, OneWait, Once, ToSet
  <2>5. waiters \in [Promises -> Seq(Coroutines)]
      BY DEF ResumerInv, LoopTyped, PromisesTyped
  <2>6. waiters[p] \in Seq(Coroutines)
      BY <2>4, <2>5
  <2>7. Contains(waiters[p], d)
      BY <2>4, <2>6, Elements
  <2>8. Held(d)
      BY <2>7 DEF Held, Hosts, ImportPromises
  <2>9. QED
      BY <2>3, <2>8
<1>12. CASE module_state[d] = "evaluating"
    BY <1>6, <1>9, <1>12 DEF OrderInv, Loading
<1>13. CASE module_state[d] = "evaluating_async"
  <2>1. promise_state[Evaluation(d)] = "pending" => Held(d)
      BY <1>11, <1>13 DEF Open, Settled
  <2>2. ASSUME importer[d] = m, promise_state[Evaluation(d)] = "rejected" PROVE FALSE
    <3>1. d \in ToSet(pending_async_deps[m])
        BY <1>3, <1>6, <1>7, <1>13, <2>2 DEF DepsLoaded
    <3>2. DepRejected(m)
        BY <2>2, <3>1 DEF DepRejected, ToSet
    <3>3. QED
        BY <1>1, <3>2
  <2>3. QED
      BY <1>13, <2>1, <2>2
<1>14. QED
    BY <1>8, <1>12, <1>13

\* A body begins when the modules it imports are evaluated, whatever drains,
\* awaits, failures and import()s came between, and however the graph is
\* tangled: only a module of its own cycle may still be at its imports, only
\* one held up by the host or an import() may still await, and the importer
\* that first asked for a module that rejected does not run.
THEOREM BodiesWaitForImports == Spec => BodyAfterDeps
<1>1. ResumerInv /\ OrderInv /\ [Next]_vars =>
        [\A m \in ready' \ ready : \A d \in ToSet(Deps(m)) :
           m \notin Reaches(d) =>
              \/ module_state[d] = "evaluated"
              \/ /\ module_state[d] = "evaluating_async"
                 /\ promise_state[Evaluation(d)] = "pending" => Held(d)
                 /\ promise_state[Evaluation(d)] = "rejected" => importer[d] # m]_vars
    BY BodiesBegin, BodyMayBegin
<1>2. QED
    BY <1>1, ResumerInvariance, OrderInvariance, PTL DEF Spec, BodyAfterDeps
===============================================================================
