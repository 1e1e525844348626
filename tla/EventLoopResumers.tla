---------------------------- MODULE EventLoopResumers ---------------------------
(***************************************************************************)
(* Proofs about who wakes whom in the event loop, for every set of         *)
(* generators, modules and host promises, every module graph and any       *)
(* number of requests: a coroutine that runs or waits is in one place, an  *)
(* activation on the stack, the list of a promise or a task of the queue,  *)
(* and each step moves it from one place to the next.                      *)
(***************************************************************************)
EXTENDS EventLoop, FiniteSetTheorems, SequenceTheorems, WellFoundedInduction, TLAPS

-----------------------------------------------------------------------------
(* How often a sequence holds an element of a set.                         *)

Nowhere(s, E) == \A i \in DOMAIN s : s[i] \notin E
Once(s, E, e) ==
    \E k \in DOMAIN s :
        /\ s[k] = e /\ e \in E
        /\ \A i \in DOMAIN s : s[i] \in E => i = k

LEMMA AppendPlaces ==
    ASSUME NEW S, NEW s \in Seq(S), NEW e \in S, NEW E
    PROVE  /\ Append(s, e) \in Seq(S)
           /\ Nowhere(s, E) /\ e \notin E => Nowhere(Append(s, e), E)
           /\ Nowhere(s, E) /\ e \in E => Once(Append(s, e), E, e)
           /\ \A x : Once(s, E, x) /\ e \notin E => Once(Append(s, e), E, x)
<1>1. /\ Append(s, e) \in Seq(S)
      /\ Len(Append(s, e)) = Len(s) + 1
      /\ \A i \in 1 .. Len(s) : Append(s, e)[i] = s[i]
      /\ Append(s, e)[Len(s) + 1] = e
    BY AppendProperties
<1>2. /\ Len(s) \in Nat /\ DOMAIN s = 1 .. Len(s)
      /\ DOMAIN Append(s, e) = 1 .. (Len(s) + 1)
    BY <1>1, LenProperties
<1> DEFINE t == Append(s, e)
<1> HIDE DEF t
<1>3. \A i \in DOMAIN t :
        \/ i \in DOMAIN s /\ t[i] = s[i]
        \/ i = Len(s) + 1 /\ t[i] = e
    BY <1>1, <1>2 DEF t
<1>4. \A i \in DOMAIN s : i \in DOMAIN t /\ t[i] = s[i]
    BY <1>1, <1>2 DEF t
<1>5. ASSUME Nowhere(s, E), e \in E PROVE Once(t, E, e)
    BY <1>1, <1>2, <1>3, <1>5 DEF Nowhere, Once, t
<1>6. ASSUME NEW x, Once(s, E, x), e \notin E PROVE Once(t, E, x)
    BY <1>3, <1>4, <1>6 DEF Once
<1>7. QED
    BY <1>1, <1>3, <1>5, <1>6 DEF Nowhere, t

LEMMA RemoveElements ==
    ASSUME NEW S, NEW s \in Seq(S), NEW k \in DOMAIN s
    PROVE  /\ RemoveAt(s, k) \in Seq(S)
           /\ Len(s) \in Nat \ {0} /\ DOMAIN s = 1 .. Len(s)
           /\ DOMAIN RemoveAt(s, k) = 1 .. (Len(s) - 1)
           /\ \A i \in 1 .. (Len(s) - 1) :
                RemoveAt(s, k)[i] = IF i < k THEN s[i] ELSE s[i + 1]
<1>1. /\ Len(s) \in Nat /\ DOMAIN s = 1 .. Len(s) /\ k \in 1 .. Len(s)
      /\ Len(s) \in Nat \ {0}
    BY LenProperties
<1>2. \A i \in 1 .. Len(s) : s[i] \in S
    BY ElementOfSeq
<1> DEFINE a == SubSeq(s, 1, k - 1)
           b == SubSeq(s, k + 1, Len(s))
<1>3. /\ a \in Seq(S) /\ Len(a) = k - 1
      /\ \A i \in 1 .. (k - 1) : a[i] = s[i]
  <2>1. \A i \in 1 .. k - 1 : s[i] \in S
      BY <1>1, <1>2
  <2>2. /\ a \in Seq(S) /\ Len(a) = IF 1 <= k - 1 THEN k - 1 - 1 + 1 ELSE 0
        /\ \A i \in 1 .. k - 1 - 1 + 1 : a[i] = s[1 + i - 1]
      BY <1>1, <2>1, SubSeqProperties
  <2>3. QED
      BY <1>1, <2>2
<1>4. /\ b \in Seq(S) /\ Len(b) = Len(s) - k
      /\ \A i \in 1 .. (Len(s) - k) : b[i] = s[k + i]
  <2>1. \A i \in k + 1 .. Len(s) : s[i] \in S
      BY <1>1, <1>2
  <2>2. /\ b \in Seq(S) /\ Len(b) = IF k + 1 <= Len(s) THEN Len(s) - (k + 1) + 1 ELSE 0
        /\ \A i \in 1 .. Len(s) - (k + 1) + 1 : b[i] = s[k + 1 + i - 1]
      BY <1>1, <2>1, SubSeqProperties
  <2>3. QED
      BY SMTT(30), <1>1, <2>2
<1> HIDE DEF a, b
<1>5. /\ a \o b \in Seq(S)
      /\ Len(a \o b) = Len(a) + Len(b)
      /\ \A i \in 1 .. Len(a) + Len(b) :
           (a \o b)[i] = IF i <= Len(a) THEN a[i] ELSE b[i - Len(a)]
    BY <1>3, <1>4, ConcatProperties, Zenon
<1>6. RemoveAt(s, k) = a \o b
    BY DEF RemoveAt, a, b
<1>7. DOMAIN RemoveAt(s, k) = 1 .. (Len(s) - 1)
  <2>1. DOMAIN (a \o b) = 1 .. Len(a \o b)
      BY <1>5, LenProperties
  <2>2. Len(a \o b) = Len(s) - 1
      BY <1>1, <1>3, <1>4, <1>5
  <2>3. QED
      BY <1>6, <2>1, <2>2
<1>8. ASSUME NEW i \in 1 .. (Len(s) - 1)
      PROVE  RemoveAt(s, k)[i] = IF i < k THEN s[i] ELSE s[i + 1]
  <2>1. (a \o b)[i] = IF i <= k - 1 THEN a[i] ELSE b[i - (k - 1)]
      BY SMTT(30), <1>1, <1>3, <1>4, <1>5
  <2>2. CASE i < k
      BY <1>1, <1>3, <1>6, <2>1, <2>2
  <2>3. CASE ~(i < k)
    <3>1. i - (k - 1) \in 1 .. (Len(s) - k) /\ k + (i - (k - 1)) = i + 1
        BY <1>1, <2>3
    <3>2. b[i - (k - 1)] = s[i + 1]
        BY <1>4, <3>1
    <3>3. ~(i <= k - 1)
        BY <1>1, <2>3
    <3>4. QED
        BY <1>6, <2>1, <2>3, <3>2, <3>3
  <2>4. QED
      BY <2>2, <2>3
<1>9. QED
    BY <1>1, <1>5, <1>6, <1>7, <1>8

LEMMA RemovePlaces ==
    ASSUME NEW S, NEW s \in Seq(S), NEW k \in DOMAIN s, NEW E
    PROVE  /\ RemoveAt(s, k) \in Seq(S)
           /\ s[k] \in S
           /\ \A i \in DOMAIN RemoveAt(s, k) : \E j \in DOMAIN s : j # k /\ RemoveAt(s, k)[i] = s[j]
           /\ \A j \in DOMAIN s \ {k} : \E i \in DOMAIN RemoveAt(s, k) : RemoveAt(s, k)[i] = s[j]
           /\ Nowhere(s, E) => Nowhere(RemoveAt(s, k), E)
           /\ \A x : /\ Once(s, E, x) /\ s[k] \notin E => Once(RemoveAt(s, k), E, x)
                     /\ Once(s, E, x) /\ s[k] \in E => x = s[k] /\ Nowhere(RemoveAt(s, k), E)
<1> DEFINE t == RemoveAt(s, k)
<1>1. /\ t \in Seq(S)
      /\ Len(s) \in Nat \ {0} /\ DOMAIN s = 1 .. Len(s)
      /\ DOMAIN t = 1 .. (Len(s) - 1)
      /\ \A i \in 1 .. (Len(s) - 1) : t[i] = IF i < k THEN s[i] ELSE s[i + 1]
    BY RemoveElements
<1> HIDE DEF t
<1>2. s[k] \in S
    BY <1>1, ElementOfSeq
<1> DEFINE from(i) == IF i < k THEN i ELSE i + 1
           to(j) == IF j < k THEN j ELSE j - 1
<1>3. \A i \in DOMAIN t : from(i) \in DOMAIN s \ {k} /\ t[i] = s[from(i)] /\ to(from(i)) = i
    BY <1>1
<1>4. \A j \in DOMAIN s \ {k} : to(j) \in DOMAIN t /\ t[to(j)] = s[j]
    BY <1>1
<1> HIDE DEF from, to
<1>5. ASSUME Nowhere(s, E) PROVE Nowhere(t, E)
    BY <1>3, <1>5 DEF Nowhere
<1>6. ASSUME NEW x, Once(s, E, x), s[k] \notin E PROVE Once(t, E, x)
  <2>1. PICK j \in DOMAIN s : /\ s[j] = x /\ x \in E
                              /\ \A i \in DOMAIN s : s[i] \in E => i = j
      BY <1>6 DEF Once
  <2>2. j # k
      BY <1>6, <2>1
  <2>3. to(j) \in DOMAIN t /\ t[to(j)] = x
      BY <1>4, <2>1, <2>2
  <2>4. ASSUME NEW i \in DOMAIN t, t[i] \in E PROVE i = to(j)
      BY <1>3, <2>1, <2>4
  <2>5. QED
      BY <2>1, <2>3, <2>4 DEF Once
<1>7. ASSUME NEW x, Once(s, E, x), s[k] \in E PROVE x = s[k] /\ Nowhere(t, E)
    BY <1>3, <1>7 DEF Once, Nowhere
<1>8. QED
    BY <1>1, <1>2, <1>3, <1>4, <1>5, <1>6, <1>7 DEF t

\* Front takes off the last element.
LEMMA FrontPlaces ==
    ASSUME NEW S, NEW s \in Seq(S), s # <<>>, NEW E
    PROVE  /\ Front(s) \in Seq(S)
           /\ Last(s) \in S
           /\ \A i \in DOMAIN Front(s) : i \in DOMAIN s /\ Front(s)[i] = s[i] /\ i # Len(s)
           /\ \A i \in DOMAIN s : i = Len(s) \/ i \in DOMAIN Front(s)
           /\ Nowhere(s, E) => Nowhere(Front(s), E) /\ Last(s) \notin E
           /\ \A x : /\ Once(s, E, x) /\ Last(s) \notin E => Once(Front(s), E, x)
                     /\ Once(s, E, x) /\ Last(s) \in E => x = Last(s) /\ Nowhere(Front(s), E)
<1>1. /\ Len(s) \in Nat \ {0} /\ DOMAIN s = 1 .. Len(s)
      /\ Len(s) \in DOMAIN s
    BY EmptySeq, LenProperties
<1>2. Last(s) \in S
    BY <1>1, ElementOfSeq DEF Last
<1>3. \A i \in 1 .. (Len(s) - 1) : s[i] \in S
    BY <1>1, ElementOfSeq
<1>4. /\ Front(s) \in Seq(S)
      /\ Len(Front(s)) = Len(s) - 1
      /\ \A i \in 1 .. (Len(s) - 1) : Front(s)[i] = s[i]
  <2>1. /\ SubSeq(s, 1, Len(s) - 1) \in Seq(S)
        /\ Len(SubSeq(s, 1, Len(s) - 1)) =
               IF 1 <= Len(s) - 1 THEN Len(s) - 1 - 1 + 1 ELSE 0
        /\ \A i \in 1 .. Len(s) - 1 - 1 + 1 : SubSeq(s, 1, Len(s) - 1)[i] = s[1 + i - 1]
      BY <1>1, <1>3, SubSeqProperties
  <2>2. QED
      BY <1>1, <2>1 DEF Front
<1>5. DOMAIN Front(s) = 1 .. (Len(s) - 1)
    BY <1>1, <1>4, LenProperties
<1> DEFINE t == Front(s)
<1> HIDE DEF t
<1>6. /\ \A i \in DOMAIN t : i \in DOMAIN s /\ t[i] = s[i] /\ i # Len(s)
      /\ \A i \in DOMAIN s : i = Len(s) \/ i \in DOMAIN t
    BY <1>1, <1>4, <1>5 DEF t
<1>7. ASSUME NEW x, Once(s, E, x), Last(s) \notin E PROVE Once(t, E, x)
    BY <1>6, <1>7 DEF Once, Last
<1>8. ASSUME NEW x, Once(s, E, x), Last(s) \in E PROVE x = Last(s) /\ Nowhere(t, E)
    BY <1>1, <1>6, <1>8 DEF Once, Last, Nowhere
<1>9. Nowhere(s, E) => Nowhere(t, E) /\ Last(s) \notin E
    BY <1>1, <1>6 DEF Nowhere, Last
<1>10. QED
    BY <1>2, <1>4, <1>6, <1>7, <1>8, <1>9 DEF t

LEMMA ConcatPlaces ==
    ASSUME NEW S, NEW s \in Seq(S), NEW t \in Seq(S), NEW E
    PROVE  /\ s \o t \in Seq(S)
           /\ Nowhere(s, E) /\ Nowhere(t, E) => Nowhere(s \o t, E)
           /\ \A x : /\ Once(s, E, x) /\ Nowhere(t, E) => Once(s \o t, E, x)
                     /\ Nowhere(s, E) /\ Once(t, E, x) => Once(s \o t, E, x)
<1> DEFINE u == s \o t
<1>1. /\ u \in Seq(S) /\ Len(u) = Len(s) + Len(t)
      /\ \A i \in 1 .. Len(s) + Len(t) : u[i] = IF i <= Len(s) THEN s[i] ELSE t[i - Len(s)]
    BY ConcatProperties
<1>2. /\ Len(s) \in Nat /\ DOMAIN s = 1 .. Len(s)
      /\ Len(t) \in Nat /\ DOMAIN t = 1 .. Len(t)
      /\ DOMAIN u = 1 .. (Len(s) + Len(t))
    BY <1>1, LenProperties
<1> HIDE DEF u
<1>3. \A i \in DOMAIN u :
        \/ i \in DOMAIN s /\ u[i] = s[i]
        \/ i - Len(s) \in DOMAIN t /\ u[i] = t[i - Len(s)]
    BY <1>1, <1>2
<1>4. /\ \A i \in DOMAIN s : i \in DOMAIN u /\ u[i] = s[i]
      /\ \A i \in DOMAIN t : i + Len(s) \in DOMAIN u /\ u[i + Len(s)] = t[i]
    BY <1>1, <1>2
<1>5. ASSUME NEW x, Once(s, E, x), Nowhere(t, E) PROVE Once(u, E, x)
    BY <1>3, <1>4, <1>5 DEF Once, Nowhere
<1>6. ASSUME NEW x, Nowhere(s, E), Once(t, E, x) PROVE Once(u, E, x)
  <2>1. PICK k \in DOMAIN t : /\ t[k] = x /\ x \in E
                              /\ \A i \in DOMAIN t : t[i] \in E => i = k
      BY <1>6 DEF Once
  <2>2. k + Len(s) \in DOMAIN u /\ u[k + Len(s)] = x
      BY <1>4, <2>1
  <2>3. ASSUME NEW i \in DOMAIN u, u[i] \in E PROVE i = k + Len(s)
    <3>1. i - Len(s) \in DOMAIN t /\ u[i] = t[i - Len(s)]
        BY <1>3, <1>6, <2>3 DEF Nowhere
    <3>2. i - Len(s) = k
        BY <2>1, <2>3, <3>1
    <3>3. QED
        BY <1>2, <3>2
  <2>4. QED
      BY <2>1, <2>2, <2>3 DEF Once
<1>7. QED
    BY <1>1, <1>3, <1>5, <1>6 DEF Nowhere, u

-----------------------------------------------------------------------------
(* What the queue, the lists and the stack hold.                           *)

Hosts == {"host"} \X HostPromises
ImportPromises == {"import"} \X Imports

\* Only import() promises follow another promise.
Jobs == {t \in Tasks : t.kind = "promise_reaction" => t.promise \in ImportPromises}

Activations ==
    {Drain}
    \cup [kind : {"gen_body"}, gen : Gens, driver : Drivers, return_completion : BOOLEAN]
    \cup [kind : {"resume_next", "await_return"}, gen : Gens]
    \cup [kind : {"module"}, module : Modules, next : Nat \ {0},
          phase : {"importing", "linking", "body"}, first : BOOLEAN]
    \cup [kind : {"import"}, module : Modules, import : Imports]

SettledAreClear ==
    \A p \in Promises : Settled(p) => waiters[p] = <<>> /\ reactions[p] = <<>>

PromisesTyped ==
    /\ promise_state \in [Promises -> {"pending", "fulfilled", "rejected"}]
    /\ waiters \in [Promises -> Seq(Coroutines)]
    /\ reactions \in [Promises -> Seq(ImportPromises)]
    /\ awaiting_return_completion \subseteq Gens
    /\ SettledAreClear

\* Where a coroutine is: in a task of a queue q, on the list of a promise in
\* w, or on a stack s.
TasksOf(c) ==
    {t \in Jobs : /\ t.kind \in {"async_resume", "async_gen_yield",
                                 "async_gen_return_after_await"}
                  /\ t.who = c}

ActsOf(c) ==
    {e \in Activations : \/ e.kind \in {"gen_body", "await_return"} /\ e.gen = c
                         \/ e.kind = "module" /\ e.module = c}

NoTask(q, c) == Nowhere(q, TasksOf(c))
OneTask(q, c, t) == Once(q, TasksOf(c), t)

NoWait(w, c) == \A p \in Promises : Nowhere(w[p], {c})
OneWait(w, c, p) ==
    /\ p \in Promises /\ Once(w[p], {c}, c)
    /\ \A r \in Promises \ {p} : Nowhere(w[r], {c})

NoAct(s, c) == Nowhere(s, ActsOf(c))
OneAct(s, c, e) == Once(s, ActsOf(c), e)

\* c stays where it is, or is woken: its place on a list becomes a task.
Follows(q, w, f, q2, w2, f2, c) ==
    /\ NoWait(w, c) => /\ NoWait(w2, c)
                       /\ NoTask(q, c) => NoTask(q2, c)
                       /\ \A t : OneTask(q, c, t) => OneTask(q2, c, t)
    /\ NoTask(q, c) => \A p : OneWait(w, c, p) =>
         \/ NoTask(q2, c) /\ OneWait(w2, c, p) /\ (c \in f2 <=> c \in f)
         \/ /\ NoWait(w2, c)
            /\ \E b \in BOOLEAN :
                 OneTask(q2, c, IF c \in f THEN ReturnTask(c, b) ELSE ResumeTask(c, b))

Stays(s, s2, c) ==
    /\ NoAct(s, c) => NoAct(s2, c)
    /\ \A e : OneAct(s, c, e) => OneAct(s2, c, e)

-----------------------------------------------------------------------------
LEMMA TaskTypes ==
    /\ \A c \in Coroutines, b \in BOOLEAN : ResumeTask(c, b) \in Jobs
    /\ \A g \in Gens, b \in BOOLEAN : ReturnTask(g, b) \in Jobs
    /\ \A g \in Gens, r \in Requests, b \in BOOLEAN : YieldTask(g, r, b) \in Jobs
    /\ \A p \in ImportPromises, b \in BOOLEAN : ReactionTask(p, b) \in Jobs
    /\ \A m \in Modules, i \in Imports : ImportTask(m, i) \in Jobs
    /\ ImportPromises \subseteq Promises /\ Hosts \subseteq Promises
<1>1. ImportPromises \subseteq Promises /\ Hosts \subseteq Promises
    BY DEF ImportPromises, Hosts, Promises
<1>2. ASSUME NEW t \in Tasks, t.kind # "promise_reaction" PROVE t \in Jobs
    BY <1>2 DEF Jobs
<1>3. /\ \A c \in Coroutines, b \in BOOLEAN : ResumeTask(c, b) \in Tasks
      /\ \A g \in Gens, b \in BOOLEAN : ReturnTask(g, b) \in Tasks
      /\ \A g \in Gens, r \in Requests, b \in BOOLEAN : YieldTask(g, r, b) \in Tasks
      /\ \A p \in Promises, b \in BOOLEAN : ReactionTask(p, b) \in Tasks
      /\ \A m \in Modules, i \in Imports : ImportTask(m, i) \in Tasks
    BY DEF Tasks
<1>4. /\ \A c, b : ResumeTask(c, b).kind # "promise_reaction"
      /\ \A c, b : ReturnTask(c, b).kind # "promise_reaction"
      /\ \A c, r, b : YieldTask(c, r, b).kind # "promise_reaction"
      /\ \A m, i : ImportTask(m, i).kind # "promise_reaction"
      /\ \A p, b : ReactionTask(p, b).promise = p
    BY DEF ResumeTask, ReturnTask, YieldTask, ReactionTask, ImportTask
<1>5. \A p \in ImportPromises, b \in BOOLEAN : ReactionTask(p, b) \in Jobs
    BY <1>1, <1>3, <1>4 DEF Jobs
<1>6. QED
    BY <1>1, <1>2, <1>3, <1>4, <1>5

LEMMA JobFields ==
    ASSUME NEW t \in Jobs
    PROVE  /\ t.kind \in {"async_resume", "async_gen_return_after_await", "async_gen_yield",
                          "promise_reaction", "module_import"}
           /\ t.kind = "async_resume" => t.who \in Coroutines /\ t.throws \in BOOLEAN
           /\ t.kind = "async_gen_return_after_await" => t.who \in Gens /\ t.throws \in BOOLEAN
           /\ t.kind = "async_gen_yield" =>
                t.who \in Gens /\ t.request \in Requests /\ t.reject \in BOOLEAN
           /\ t.kind = "promise_reaction" => t.promise \in ImportPromises /\ t.throws \in BOOLEAN
           /\ t.kind = "module_import" => t.module \in Modules /\ t.import \in Imports
<1>1. \/ \E c \in Coroutines, b \in BOOLEAN : t = ResumeTask(c, b)
      \/ \E g \in Gens, b \in BOOLEAN : t = ReturnTask(g, b)
      \/ \E g \in Gens, r \in Requests, b \in BOOLEAN : t = YieldTask(g, r, b)
      \/ \E p \in Promises, b \in BOOLEAN : t = ReactionTask(p, b)
      \/ \E m \in Modules, i \in Imports : t = ImportTask(m, i)
    BY DEF Jobs, Tasks
<1>2. t.kind = "promise_reaction" => t.promise \in ImportPromises
    BY DEF Jobs
<1>3. QED
    BY <1>1, <1>2 DEF ResumeTask, ReturnTask, YieldTask, ReactionTask, ImportTask

\* Which coroutines a task wakes.
LEMMA TaskOwners ==
    /\ \A c : \A d \in Coroutines, b \in BOOLEAN : ResumeTask(d, b) \in TasksOf(c) <=> d = c
    /\ \A c : \A d \in Gens, b \in BOOLEAN : ReturnTask(d, b) \in TasksOf(c) <=> d = c
    /\ \A c : \A d \in Gens, r \in Requests, b \in BOOLEAN :
         YieldTask(d, r, b) \in TasksOf(c) <=> d = c
    /\ \A c, p, b : ReactionTask(p, b) \notin TasksOf(c)
    /\ \A c, m, i : ImportTask(m, i) \notin TasksOf(c)
<1>1. ASSUME NEW c, NEW d \in Coroutines, NEW b \in BOOLEAN
      PROVE  ResumeTask(d, b) \in TasksOf(c) <=> d = c
    BY TaskTypes DEF TasksOf, ResumeTask
<1>2. ASSUME NEW c, NEW d \in Gens, NEW b \in BOOLEAN
      PROVE  ReturnTask(d, b) \in TasksOf(c) <=> d = c
    BY TaskTypes DEF TasksOf, ReturnTask
<1>3. ASSUME NEW c, NEW d \in Gens, NEW r \in Requests, NEW b \in BOOLEAN
      PROVE  YieldTask(d, r, b) \in TasksOf(c) <=> d = c
    BY TaskTypes DEF TasksOf, YieldTask
<1>4. \A c, p, b : ReactionTask(p, b) \notin TasksOf(c)
    BY DEF TasksOf, ReactionTask
<1>5. \A c, m, i : ImportTask(m, i) \notin TasksOf(c)
    BY DEF TasksOf, ImportTask
<1>6. QED
    BY <1>1, <1>2, <1>3, <1>4, <1>5

LEMMA ActOwners ==
    /\ Drain \in Activations
    /\ \A g \in Gens, d \in Drivers, b \in BOOLEAN : Body(g, d, b) \in Activations
    /\ \A g \in Gens : ResumeNext(g) \in Activations /\ AwaitReturn(g) \in Activations
    /\ \A m \in Modules, n \in Nat \ {0}, x \in {"importing", "linking", "body"}, b \in BOOLEAN :
         Activation(m, n, x, b) \in Activations
    /\ \A m \in Modules, i \in Imports : ImportJob(m, i) \in Activations
    /\ \A c : Drain \notin ActsOf(c)
    /\ \A c, g : ResumeNext(g) \notin ActsOf(c)
    /\ \A c, m, i : ImportJob(m, i) \notin ActsOf(c)
    /\ \A c : \A g \in Gens, d \in Drivers, b \in BOOLEAN : Body(g, d, b) \in ActsOf(c) <=> g = c
    /\ \A c : \A g \in Gens : AwaitReturn(g) \in ActsOf(c) <=> g = c
    /\ \A c : \A m \in Modules, n \in Nat \ {0}, x \in {"importing", "linking", "body"}, b \in BOOLEAN :
         Activation(m, n, x, b) \in ActsOf(c) <=> m = c
BY DEF Activations, ActsOf, Drain, Body, ResumeNext, AwaitReturn, Activation, ImportJob

LEMMA ActFields ==
    ASSUME NEW e \in Activations
    PROVE  /\ e.kind \in {"drain", "gen_body", "resume_next", "await_return", "module", "import"}
           /\ e.kind = "gen_body" =>
                e.gen \in Gens /\ e.driver \in Drivers /\ e.return_completion \in BOOLEAN
           /\ e.kind \in {"resume_next", "await_return"} => e.gen \in Gens
           /\ e.kind = "module" =>
                /\ e.module \in Modules /\ e.next \in Nat \ {0} /\ e.first \in BOOLEAN
                /\ e.phase \in {"importing", "linking", "body"}
           /\ e.kind = "import" => e.module \in Modules /\ e.import \in Imports
BY DEF Activations, Drain

\* A list of the coroutines of one promise becomes a list of their tasks.
LEMMA WokenTasks ==
    ASSUME NEW W \in Seq(Coroutines), NEW b \in BOOLEAN, awaiting_return_completion \subseteq Gens
    PROVE  /\ [i \in DOMAIN W |-> WakeTask(W[i], b)] \in Seq(Jobs)
           /\ \A c \in Coroutines :
                /\ Nowhere(W, {c}) =>
                     NoTask([i \in DOMAIN W |-> WakeTask(W[i], b)], c)
                /\ Once(W, {c}, c) =>
                     OneTask([i \in DOMAIN W |-> WakeTask(W[i], b)], c, WakeTask(c, b))
<1> DEFINE a == [i \in DOMAIN W |-> WakeTask(W[i], b)]
<1>1. /\ Len(W) \in Nat /\ DOMAIN W = 1 .. Len(W)
      /\ \A i \in DOMAIN W : W[i] \in Coroutines
    BY LenProperties, ElementOfSeq
<1>2. \A d \in Coroutines : /\ WakeTask(d, b) \in Jobs
                            /\ \A c \in Coroutines : WakeTask(d, b) \in TasksOf(c) <=> d = c
    BY TaskTypes, TaskOwners DEF WakeTask
<1>3. DOMAIN a = DOMAIN W /\ \A i \in DOMAIN W : a[i] = WakeTask(W[i], b)
    OBVIOUS
<1>4. a \in [1 .. Len(W) -> Jobs]
    BY <1>1, <1>2
<1>5. a \in Seq(Jobs)
    BY <1>1, <1>4, SeqDef
<1> HIDE DEF a
<1>6. ASSUME NEW c \in Coroutines
      PROVE  /\ Nowhere(W, {c}) => Nowhere(a, TasksOf(c))
             /\ Once(W, {c}, c) => Once(a, TasksOf(c), WakeTask(c, b))
  <2>1. \A i \in DOMAIN a : a[i] \in TasksOf(c) <=> W[i] = c
      BY <1>1, <1>2, <1>3
  <2>2. Nowhere(W, {c}) => Nowhere(a, TasksOf(c))
      BY <1>3, <2>1 DEF Nowhere
  <2>3. ASSUME Once(W, {c}, c) PROVE Once(a, TasksOf(c), WakeTask(c, b))
    <3>1. PICK k \in DOMAIN W : W[k] = c /\ \A i \in DOMAIN W : W[i] = c => i = k
        BY <2>3 DEF Once
    <3>2. a[k] = WakeTask(c, b) /\ WakeTask(c, b) \in TasksOf(c)
        BY <1>2, <1>3, <3>1
    <3>3. QED
        BY <1>3, <2>1, <3>1, <3>2 DEF Once
  <2>4. QED
      BY <2>2, <2>3
<1>7. QED
    BY <1>5, <1>6 DEF a, NoTask, OneTask

LEMMA ReactionTasks ==
    ASSUME NEW R \in Seq(ImportPromises), NEW b \in BOOLEAN
    PROVE  /\ [i \in DOMAIN R |-> ReactionTask(R[i], b)] \in Seq(Jobs)
           /\ \A c : NoTask([i \in DOMAIN R |-> ReactionTask(R[i], b)], c)
<1>1. /\ Len(R) \in Nat /\ DOMAIN R = 1 .. Len(R)
      /\ \A i \in DOMAIN R : R[i] \in ImportPromises
    BY LenProperties, ElementOfSeq
<1>2. [i \in DOMAIN R |-> ReactionTask(R[i], b)] \in [1 .. Len(R) -> Jobs]
    BY <1>1, TaskTypes
<1>3. [i \in DOMAIN R |-> ReactionTask(R[i], b)] \in Seq(Jobs)
    BY <1>1, <1>2, SeqDef
<1>4. QED
    BY <1>3, TaskOwners DEF NoTask, Nowhere

-----------------------------------------------------------------------------
(* What the operations of the event loop do to the places.                 *)

LEMMA SamePlaces ==
    ASSUME NEW q, NEW w, NEW f, NEW c
    PROVE  Follows(q, w, f, q, w, f, c)
BY DEF Follows

LEMMA EnqueuePlaces ==
    ASSUME NEW q \in Seq(Jobs), NEW t \in Jobs, NEW w, NEW f
    PROVE  /\ Append(q, t) \in Seq(Jobs)
           /\ \A c : t \notin TasksOf(c) => Follows(q, w, f, Append(q, t), w, f, c)
           /\ \A c : t \in TasksOf(c) /\ NoTask(q, c) => OneTask(Append(q, t), c, t)
<1>1. Append(q, t) \in Seq(Jobs)
    BY AppendPlaces
<1>2. ASSUME NEW c
      PROVE  /\ NoTask(q, c) /\ t \notin TasksOf(c) => NoTask(Append(q, t), c)
             /\ NoTask(q, c) /\ t \in TasksOf(c) => OneTask(Append(q, t), c, t)
             /\ \A x : OneTask(q, c, x) /\ t \notin TasksOf(c) => OneTask(Append(q, t), c, x)
    BY AppendPlaces DEF NoTask, OneTask
<1>3. QED
    BY <1>1, <1>2 DEF Follows

LEMMA TakePlaces ==
    ASSUME NEW q \in Seq(Jobs), NEW k \in DOMAIN q, NEW w, NEW f
    PROVE  /\ RemoveAt(q, k) \in Seq(Jobs) /\ q[k] \in Jobs
           /\ \A c : q[k] \notin TasksOf(c) => Follows(q, w, f, RemoveAt(q, k), w, f, c)
           /\ \A c : q[k] \in TasksOf(c) => ~NoTask(q, c)
           /\ \A c, t : q[k] \in TasksOf(c) /\ OneTask(q, c, t)
                           => t = q[k] /\ NoTask(RemoveAt(q, k), c)
<1>1. RemoveAt(q, k) \in Seq(Jobs) /\ q[k] \in Jobs
    BY RemovePlaces
<1>2. ASSUME NEW c
      PROVE  /\ NoTask(q, c) => NoTask(RemoveAt(q, k), c)
             /\ \A x : /\ OneTask(q, c, x) /\ q[k] \notin TasksOf(c) => OneTask(RemoveAt(q, k), c, x)
                       /\ OneTask(q, c, x) /\ q[k] \in TasksOf(c)
                            => x = q[k] /\ NoTask(RemoveAt(q, k), c)
    BY RemovePlaces DEF NoTask, OneTask
<1>3. \A c : q[k] \in TasksOf(c) => ~NoTask(q, c)
    BY DEF NoTask, Nowhere
<1>4. QED
    BY <1>1, <1>2, <1>3 DEF Follows

\* A coroutine joins the list of a promise.
LEMMA JoinPlaces ==
    ASSUME NEW w \in [Promises -> Seq(Coroutines)], NEW p \in Promises, NEW d \in Coroutines,
           NEW w2, w2 = [w EXCEPT ![p] = Append(@, d)]
    PROVE  /\ w2 \in [Promises -> Seq(Coroutines)]
           /\ \A q, f, f2, c : c # d /\ (c \in f2 <=> c \in f) => Follows(q, w, f, q, w2, f2, c)
           /\ NoWait(w, d) => OneWait(w2, d, p)
<1>1. w[p] \in Seq(Coroutines)
    OBVIOUS
<1>2. /\ w2[p] = Append(w[p], d)
      /\ \A r \in Promises \ {p} : w2[r] = w[r]
      /\ Append(w[p], d) \in Seq(Coroutines)
    BY <1>1, AppendProperties
<1>3. w2 \in [Promises -> Seq(Coroutines)]
    BY <1>2
<1>4. ASSUME NEW c
      PROVE  /\ c # d /\ Nowhere(w[p], {c}) => Nowhere(w2[p], {c})
             /\ c # d /\ Once(w[p], {c}, c) => Once(w2[p], {c}, c)
             /\ c = d /\ Nowhere(w[p], {c}) => Once(w2[p], {c}, c)
  <2>1. \A E : /\ Nowhere(w[p], E) /\ d \notin E => Nowhere(w2[p], E)
               /\ Nowhere(w[p], E) /\ d \in E => Once(w2[p], E, d)
               /\ \A x : Once(w[p], E, x) /\ d \notin E => Once(w2[p], E, x)
      BY <1>1, <1>2, AppendPlaces
  <2>2. d \in {c} <=> c = d
      OBVIOUS
  <2>3. QED
      BY <2>1, <2>2
<1>5. ASSUME NEW c, c # d PROVE NoWait(w, c) => NoWait(w2, c)
    BY <1>2, <1>4, <1>5 DEF NoWait
<1>6. ASSUME NEW c, c # d, NEW r PROVE OneWait(w, c, r) => OneWait(w2, c, r)
    BY <1>2, <1>4, <1>6 DEF OneWait
<1>7. NoWait(w, d) => OneWait(w2, d, p)
    BY <1>2, <1>4 DEF NoWait, OneWait
<1>8. QED
    BY <1>3, <1>5, <1>6, <1>7 DEF Follows

\* settlePromiseInternal wakes those on the list of the promise.
LEMMA SettlePlaces ==
    ASSUME PromisesTyped, NEW q \in Seq(Jobs), NEW p \in Promises,
           NEW s \in {"fulfilled", "rejected"}, settlePromise(q, p, s)
    PROVE  /\ PromisesTyped'
           /\ microtask_queue' \in Seq(Jobs)
           /\ \A r \in Promises \ {p} : promise_state'[r] = promise_state[r]
           /\ Settled(p)'
           /\ \A c \in Coroutines :
                Follows(q, waiters, awaiting_return_completion,
                        microtask_queue', waiters', awaiting_return_completion', c)
<1>1. CASE Settled(p)
  <2>1. microtask_queue' = q /\ UNCHANGED promiseVars
      BY <1>1 DEF settlePromise
  <2>2. PromisesTyped' /\ Settled(p)' /\ \A r \in Promises : promise_state'[r] = promise_state[r]
      BY <1>1, <2>1 DEF promiseVars, PromisesTyped, SettledAreClear, Settled
  <2>3. QED
      BY <2>1, <2>2, SamePlaces DEF promiseVars
<1>2. CASE ~Settled(p)
  <2> DEFINE t == s = "rejected"
             W == waiters[p]
             R == reactions[p]
             a == [i \in DOMAIN W |-> WakeTask(W[i], t)]
             b == [i \in DOMAIN R |-> ReactionTask(R[i], t)]
  <2>1. /\ promise_state' = [promise_state EXCEPT ![p] = s]
        /\ waiters' = [waiters EXCEPT ![p] = <<>>]
        /\ reactions' = [reactions EXCEPT ![p] = <<>>]
        /\ awaiting_return_completion' = awaiting_return_completion \ ToSet(W)
        /\ microtask_queue' = q \o a \o b
      BY <1>2 DEF settlePromise
  <2>2. W \in Seq(Coroutines) /\ R \in Seq(ImportPromises) /\ t \in BOOLEAN
      BY DEF PromisesTyped
  <2>3. /\ a \in Seq(Jobs)
        /\ \A c \in Coroutines : /\ Nowhere(W, {c}) => NoTask(a, c)
                                 /\ Once(W, {c}, c) => OneTask(a, c, WakeTask(c, t))
      BY <2>2, WokenTasks DEF PromisesTyped
  <2>4. b \in Seq(Jobs) /\ \A c : NoTask(b, c)
      BY <2>2, ReactionTasks
  <2> HIDE DEF a, b
  <2>5. /\ q \o a \in Seq(Jobs)
        /\ \A c : /\ NoTask(q, c) /\ NoTask(a, c) => NoTask(q \o a, c)
                  /\ \A x : /\ OneTask(q, c, x) /\ NoTask(a, c) => OneTask(q \o a, c, x)
                            /\ NoTask(q, c) /\ OneTask(a, c, x) => OneTask(q \o a, c, x)
      BY <2>3, ConcatPlaces DEF NoTask, OneTask
  <2>6. /\ (q \o a) \o b \in Seq(Jobs)
        /\ \A c : /\ NoTask(q \o a, c) => NoTask((q \o a) \o b, c)
                  /\ \A x : OneTask(q \o a, c, x) => OneTask((q \o a) \o b, c, x)
      BY <2>4, <2>5, ConcatPlaces DEF NoTask, OneTask
  <2>7. /\ waiters \in [Promises -> Seq(Coroutines)]
        /\ waiters'[p] = <<>> /\ \A r \in Promises \ {p} : waiters'[r] = waiters[r]
        /\ \A S : <<>> \in Seq(S)
        /\ \A E : Nowhere(<<>>, E)
    <3>1. \A S : <<>> \in Seq(S)
        BY EmptySeq
    <3>2. DOMAIN <<>> = {}
        BY EmptySeq, LenProperties
    <3>3. QED
        BY <2>1, <3>1, <3>2 DEF PromisesTyped, Nowhere
  <2>8. PromisesTyped'
      BY <2>1, <2>7 DEF PromisesTyped, SettledAreClear, Settled
  <2>9. Settled(p)' /\ \A r \in Promises \ {p} : promise_state'[r] = promise_state[r]
      BY <2>1 DEF PromisesTyped, Settled
  <2>10. ASSUME NEW c \in Coroutines
         PROVE  Follows(q, waiters, awaiting_return_completion,
                        microtask_queue', waiters', awaiting_return_completion', c)
    <3>1. ASSUME NoWait(waiters, c)
          PROVE  /\ NoWait(waiters', c)
                 /\ NoTask(q, c) => NoTask(microtask_queue', c)
                 /\ \A x : OneTask(q, c, x) => OneTask(microtask_queue', c, x)
      <4>1. Nowhere(W, {c}) /\ NoTask(a, c)
          BY <2>3, <3>1 DEF NoWait
      <4>2. NoWait(waiters', c)
          BY <2>7, <3>1 DEF NoWait
      <4>3. QED
          BY <2>1, <2>5, <2>6, <4>1, <4>2
    <3>2. ASSUME NoTask(q, c), OneWait(waiters, c, p)
          PROVE  /\ NoWait(waiters', c)
                 /\ OneTask(microtask_queue', c, WakeTask(c, t))
      <4>1. OneTask(a, c, WakeTask(c, t))
          BY <2>3, <3>2 DEF OneWait
      <4>2. NoWait(waiters', c)
          BY <2>7, <3>2 DEF NoWait, OneWait
      <4>3. QED
          BY <2>1, <2>5, <2>6, <3>2, <4>1, <4>2
    <3>3. ASSUME NoTask(q, c), NEW r, r # p, OneWait(waiters, c, r)
          PROVE  /\ NoTask(microtask_queue', c) /\ OneWait(waiters', c, r)
                 /\ c \in awaiting_return_completion' <=> c \in awaiting_return_completion
      <4>1. Nowhere(W, {c}) /\ NoTask(a, c)
          BY <2>3, <3>3 DEF OneWait
      <4>2. OneWait(waiters', c, r)
          BY <2>7, <3>3 DEF OneWait
      <4>3. c \notin ToSet(W)
          BY <4>1 DEF Nowhere, ToSet
      <4>4. QED
          BY <2>1, <2>5, <2>6, <3>3, <4>1, <4>2, <4>3
    <3>4. t \in BOOLEAN /\ WakeTask(c, t) =
              IF c \in awaiting_return_completion THEN ReturnTask(c, t) ELSE ResumeTask(c, t)
        BY DEF WakeTask
    <3> HIDE DEF t
    <3>5. QED
        BY <3>1, <3>2, <3>3, <3>4 DEF Follows
  <2>11. QED
      BY <2>1, <2>6, <2>8, <2>9, <2>10
<1>3. QED
    BY <1>1, <1>2

\* Two operations in a row.
LEMMA FollowsOn ==
    ASSUME NEW c, NEW q, NEW w, NEW f, NEW q2, NEW w2, NEW f2, NEW q3, NEW w3, NEW f3,
           Follows(q, w, f, q2, w2, f2, c), Follows(q2, w2, f2, q3, w3, f3, c)
    PROVE  Follows(q, w, f, q3, w3, f3, c)
<1>1. ASSUME NoWait(w, c)
      PROVE  /\ NoWait(w3, c)
             /\ NoTask(q, c) => NoTask(q3, c)
             /\ \A t : OneTask(q, c, t) => OneTask(q3, c, t)
    BY <1>1 DEF Follows
<1>2. ASSUME NoTask(q, c), NEW p, OneWait(w, c, p)
      PROVE  \/ NoTask(q3, c) /\ OneWait(w3, c, p) /\ (c \in f3 <=> c \in f)
             \/ /\ NoWait(w3, c)
                /\ \E b \in BOOLEAN :
                     OneTask(q3, c, IF c \in f THEN ReturnTask(c, b) ELSE ResumeTask(c, b))
  <2>1. CASE NoTask(q2, c) /\ OneWait(w2, c, p) /\ (c \in f2 <=> c \in f)
      BY <2>1 DEF Follows
  <2>2. ASSUME NoWait(w2, c), NEW t, OneTask(q2, c, t)
        PROVE  NoWait(w3, c) /\ OneTask(q3, c, t)
      BY <2>2 DEF Follows
  <2>3. QED
      BY <1>2, <2>1, <2>2 DEF Follows
<1>3. QED
    BY <1>1, <1>2 DEF Follows

LEMMA PushPlaces ==
    ASSUME NEW s \in Seq(Activations), NEW e \in Activations
    PROVE  /\ Append(s, e) \in Seq(Activations)
           /\ \A c : e \notin ActsOf(c) => Stays(s, Append(s, e), c)
           /\ \A c : e \in ActsOf(c) /\ NoAct(s, c) => OneAct(Append(s, e), c, e)
<1>1. Append(s, e) \in Seq(Activations)
    BY AppendPlaces
<1>2. ASSUME NEW c
      PROVE  /\ NoAct(s, c) /\ e \notin ActsOf(c) => NoAct(Append(s, e), c)
             /\ NoAct(s, c) /\ e \in ActsOf(c) => OneAct(Append(s, e), c, e)
             /\ \A x : OneAct(s, c, x) /\ e \notin ActsOf(c) => OneAct(Append(s, e), c, x)
    BY AppendPlaces DEF NoAct, OneAct
<1>3. QED
    BY <1>1, <1>2 DEF Stays

LEMMA PopPlaces ==
    ASSUME NEW s \in Seq(Activations), s # <<>>
    PROVE  /\ Front(s) \in Seq(Activations) /\ Last(s) \in Activations
           /\ \A c : Last(s) \notin ActsOf(c) => Stays(s, Front(s), c)
           /\ \A c : Last(s) \in ActsOf(c) => ~NoAct(s, c)
           /\ \A c, e : Last(s) \in ActsOf(c) /\ OneAct(s, c, e)
                           => e = Last(s) /\ NoAct(Front(s), c)
<1>1. Front(s) \in Seq(Activations) /\ Last(s) \in Activations
    BY FrontPlaces
<1>2. ASSUME NEW c
      PROVE  /\ NoAct(s, c) => NoAct(Front(s), c) /\ Last(s) \notin ActsOf(c)
             /\ \A x : /\ OneAct(s, c, x) /\ Last(s) \notin ActsOf(c) => OneAct(Front(s), c, x)
                       /\ OneAct(s, c, x) /\ Last(s) \in ActsOf(c)
                            => x = Last(s) /\ NoAct(Front(s), c)
    BY FrontPlaces DEF NoAct, OneAct
<1>3. QED
    BY <1>1, <1>2 DEF Stays

LEMMA StaysOn ==
    ASSUME NEW s, NEW s2, NEW s3, NEW c, Stays(s, s2, c), Stays(s2, s3, c)
    PROVE  Stays(s, s3, c)
BY DEF Stays

-----------------------------------------------------------------------------
(* The invariant.                                                          *)

AtRest(q, w, s, c) == NoTask(q, c) /\ NoWait(w, c) /\ NoAct(s, c)
InQueue(q, w, s, c, t) == OneTask(q, c, t) /\ NoWait(w, c) /\ NoAct(s, c)
OnList(q, w, s, c, p) == NoTask(q, c) /\ OneWait(w, c, p) /\ NoAct(s, c)
OnStack(q, w, s, c, e) == NoTask(q, c) /\ NoWait(w, c) /\ OneAct(s, c, e)

\* What a task finds when it wakes generator x.
TaskFits(x, t) ==
    /\ t.kind = "async_resume" => x.state = "suspended" /\ x.queue # <<>>
    /\ t.kind = "async_gen_return_after_await" => x.queue # <<>>
    /\ t.kind = "async_gen_yield" =>
         x.state = IF t.reject THEN "completed" ELSE "suspended"

\* A generator that runs or waits is in one place, and has the request it
\* works for at the head of its queue, unless that is in the task of a yield.
GenPlaced(q, w, f, s, x, g) ==
    \/ /\ x.async_state \notin {"executing", "suspended_await"}
       /\ AtRest(q, w, s, g)
    \/ /\ x.async_state = "executing" /\ x.queue # <<>>
       /\ \E e \in Activations : e.kind = "gen_body" /\ OnStack(q, w, s, g, e)
    \/ /\ x.async_state = "suspended_await" /\ x.queue # <<>>
       /\ \E e \in Activations : e.kind = "await_return" /\ OnStack(q, w, s, g, e)
    \/ /\ x.async_state = "suspended_await"
       /\ \E t \in Jobs : InQueue(q, w, s, g, t) /\ TaskFits(x, t)
    \/ /\ x.async_state = "suspended_await" /\ x.queue # <<>>
       /\ g \notin f => x.state = "suspended"
       /\ \E p \in Hosts : OnList(q, w, s, g, p)

Open(m) ==
    module_state[m] \in {"evaluating", "evaluating_async"} /\ ~Settled(Evaluation(m))

\* So is a module whose evaluation is open: o says whether it is, x its state.
ModPlaced(q, w, s, o, x, m) ==
    \/ ~o /\ AtRest(q, w, s, m)
    \/ /\ o
       /\ \E e \in Activations :
            /\ OnStack(q, w, s, m, e)
            /\ x = IF e.first THEN "evaluating" ELSE "evaluating_async"
    \/ /\ o /\ x = "evaluating_async"
       /\ \E t \in Jobs : InQueue(q, w, s, m, t)
    \/ /\ o /\ x = "evaluating_async"
       /\ \E p \in Hosts \cup ImportPromises : OnList(q, w, s, m, p)

LoopTyped ==
    /\ PromisesTyped
    /\ microtask_queue \in Seq(Jobs)
    /\ wasm_instantiation_jobs \in Seq(Hosts)
    /\ termination \in BOOLEAN
    /\ stack \in Seq(Activations)

Agree(x) ==
    <<x.async_state, x.state>> \in
        ({"suspended_start"} \X {"initial"})
            \cup ({"suspended_yield"} \X {"suspended"})
            \cup ({"executing"} \X {"executing"})
            \cup ({"completed"} \X {"completed"})
            \cup ({"suspended_await"} \X {"initial", "suspended", "completed"})

RequestRecords == [kind : Kinds, gen : Gens, answer : Answers \cup {"open"}]

GenTyped ==
    /\ gen \in [Gens -> GenRecords]
    /\ \A g \in Gens : Agree(gen[g])
    /\ request \in Seq(RequestRecords)

ModTyped ==
    /\ graph.deps \in [Modules -> Seq(Modules)]
    /\ module_state \in [Modules -> {"absent", "evaluating", "evaluating_async",
                                     "evaluated", "errored"}]
    /\ pending_async_deps \in [Modules -> Seq(Modules)]
    /\ imports \in Seq(Modules) /\ Len(imports) <= MaxImports
    /\ \A m \in Modules : module_state[m] = "absent" => ~Settled(Evaluation(m))

GensPlaced ==
    \A g \in Gens :
        GenPlaced(microtask_queue, waiters, awaiting_return_completion, stack, gen[g], g)

ModsPlaced ==
    \A m \in Modules :
        ModPlaced(microtask_queue, waiters, stack, Open(m), module_state[m], m)

ResumerInv == LoopTyped /\ GenTyped /\ ModTyped /\ GensPlaced /\ ModsPlaced

-----------------------------------------------------------------------------
LEMMA PlacesMove ==
    ASSUME NEW c, NEW q, NEW w, NEW f, NEW s, NEW q2, NEW w2, NEW f2, NEW s2,
           Follows(q, w, f, q2, w2, f2, c), Stays(s, s2, c)
    PROVE  /\ AtRest(q, w, s, c) => AtRest(q2, w2, s2, c)
           /\ \A e : OnStack(q, w, s, c, e) => OnStack(q2, w2, s2, c, e)
           /\ \A t : InQueue(q, w, s, c, t) => InQueue(q2, w2, s2, c, t)
           /\ \A p : OnList(q, w, s, c, p) =>
                \/ OnList(q2, w2, s2, c, p) /\ (c \in f2 <=> c \in f)
                \/ \E b \in BOOLEAN :
                     InQueue(q2, w2, s2, c, IF c \in f THEN ReturnTask(c, b) ELSE ResumeTask(c, b))
BY DEF Follows, Stays, AtRest, OnStack, InQueue, OnList

LEMMA GenMoves ==
    ASSUME NEW g \in Gens, NEW x, NEW q, NEW w, NEW f, NEW s, NEW q2, NEW w2, NEW f2, NEW s2,
           Follows(q, w, f, q2, w2, f2, g), Stays(s, s2, g),
           GenPlaced(q, w, f, s, x, g)
    PROVE  GenPlaced(q2, w2, f2, s2, x, g)
<1>1. ASSUME NEW b \in BOOLEAN, x.queue # <<>>, g \notin f => x.state = "suspended"
      PROVE  /\ IF g \in f THEN ReturnTask(g, b) \in Jobs /\ TaskFits(x, ReturnTask(g, b))
                           ELSE ResumeTask(g, b) \in Jobs /\ TaskFits(x, ResumeTask(g, b))
    BY <1>1, TaskTypes DEF TaskFits, ReturnTask, ResumeTask, Coroutines
<1>2. CASE /\ x.async_state = "suspended_await" /\ x.queue # <<>>
           /\ g \notin f => x.state = "suspended"
           /\ \E p \in Hosts : OnList(q, w, s, g, p)
    BY <1>1, <1>2, PlacesMove DEF GenPlaced
<1>3. CASE x.async_state \notin {"executing", "suspended_await"} /\ AtRest(q, w, s, g)
    BY <1>3, PlacesMove DEF GenPlaced
<1>4. CASE /\ x.async_state = "executing" /\ x.queue # <<>>
           /\ \E e \in Activations : e.kind = "gen_body" /\ OnStack(q, w, s, g, e)
    BY <1>4, PlacesMove DEF GenPlaced
<1>5. CASE /\ x.async_state = "suspended_await" /\ x.queue # <<>>
           /\ \E e \in Activations : e.kind = "await_return" /\ OnStack(q, w, s, g, e)
    BY <1>5, PlacesMove DEF GenPlaced
<1>6. CASE /\ x.async_state = "suspended_await"
           /\ \E t \in Jobs : InQueue(q, w, s, g, t) /\ TaskFits(x, t)
    BY <1>6, PlacesMove DEF GenPlaced
<1>7. QED
    BY <1>2, <1>3, <1>4, <1>5, <1>6 DEF GenPlaced

LEMMA ModMoves ==
    ASSUME NEW m \in Modules, NEW o \in BOOLEAN, NEW x, NEW y, o => y = x,
           NEW q, NEW w, NEW f, NEW s, NEW q2, NEW w2, NEW f2, NEW s2,
           Follows(q, w, f, q2, w2, f2, m), Stays(s, s2, m), f \subseteq Gens,
           ModPlaced(q, w, s, o, x, m)
    PROVE  ModPlaced(q2, w2, s2, o, y, m)
<1>1. m \notin f /\ \A b \in BOOLEAN : ResumeTask(m, b) \in Jobs
    BY TaskTypes, CoroutinesAreDistinct DEF Coroutines
<1>2. CASE /\ o /\ x = "evaluating_async"
           /\ \E p \in Hosts \cup ImportPromises : OnList(q, w, s, m, p)
    BY <1>1, <1>2, PlacesMove DEF ModPlaced
<1>3. CASE ~o /\ AtRest(q, w, s, m)
    BY <1>3, PlacesMove DEF ModPlaced
<1>4. CASE /\ o
           /\ \E e \in Activations :
                /\ OnStack(q, w, s, m, e)
                /\ x = IF e.first THEN "evaluating" ELSE "evaluating_async"
    BY <1>4, PlacesMove DEF ModPlaced
<1>5. CASE /\ o /\ x = "evaluating_async"
           /\ \E t \in Jobs : InQueue(q, w, s, m, t)
    BY <1>5, PlacesMove DEF ModPlaced
<1>6. QED
    BY <1>2, <1>3, <1>4, <1>5 DEF ModPlaced
-----------------------------------------------------------------------------
(* Steps.                                                                  *)

\* A step leaves c where it is, or wakes it.
Carries(c) ==
    /\ Follows(microtask_queue, waiters, awaiting_return_completion,
               microtask_queue', waiters', awaiting_return_completion', c)
    /\ Stays(stack, stack', c)

\* A step has taken c out of the queue, leaving q, or off the stack, leaving s.
Freed(c, q, s) ==
    /\ q \in Seq(Jobs) /\ s \in Seq(Activations)
    /\ AtRest(q, waiters, s, c)
    /\ \A d \in Coroutines \ {c} :
         /\ Follows(microtask_queue, waiters, awaiting_return_completion,
                    q, waiters, awaiting_return_completion, d)
         /\ Stays(stack, s, d)

GenPlace(g) ==
    GenPlaced(microtask_queue, waiters, awaiting_return_completion, stack, gen[g], g)
ModPlace(m) ==
    ModPlaced(microtask_queue, waiters, stack, Open(m), module_state[m], m)

\* Each coroutine stays, is woken, or has a place of its own.
LEMMA Steps ==
    ASSUME ResumerInv, LoopTyped', GenTyped', ModTyped',
           \A g \in Gens : (gen'[g] = gen[g] /\ Carries(g)) \/ GenPlace(g)',
           \A m \in Modules :
             \/ /\ Carries(m) /\ (Open(m)' <=> Open(m))
                /\ Open(m) => module_state'[m] = module_state[m]
             \/ ModPlace(m)'
    PROVE  ResumerInv'
<1>1. ASSUME NEW g \in Gens PROVE GenPlace(g)'
  <2>1. CASE gen'[g] = gen[g] /\ Carries(g)
    <3>1. GenPlaced(microtask_queue, waiters, awaiting_return_completion, stack, gen[g], g)
        BY DEF ResumerInv, GensPlaced
    <3>2. GenPlaced(microtask_queue', waiters', awaiting_return_completion', stack', gen[g], g)
        BY <2>1, <3>1, GenMoves DEF Carries
    <3>3. QED
        BY <2>1, <3>2 DEF GenPlace
  <2>2. QED
      BY <2>1
<1>2. ASSUME NEW m \in Modules PROVE ModPlace(m)'
  <2>1. CASE /\ Carries(m) /\ (Open(m)' <=> Open(m))
             /\ Open(m) => module_state'[m] = module_state[m]
    <3>1. ModPlaced(microtask_queue, waiters, stack, Open(m), module_state[m], m)
        BY DEF ResumerInv, ModsPlaced
    <3>2. Open(m) \in BOOLEAN /\ awaiting_return_completion \subseteq Gens
        BY DEF Open, ResumerInv, LoopTyped, PromisesTyped
    <3>3. ModPlaced(microtask_queue', waiters', stack', Open(m), module_state'[m], m)
        BY <2>1, <3>1, <3>2, ModMoves DEF Carries
    <3>4. Open(m)' = Open(m)
        BY <2>1 DEF Open
    <3>5. QED
        BY <3>3, <3>4 DEF ModPlace
  <2>2. QED
      BY <2>1
<1>3. QED
    BY <1>1, <1>2 DEF ResumerInv, GensPlaced, ModsPlaced, GenPlace, ModPlace

\* A step of one generator.
LEMMA GenStep ==
    ASSUME ResumerInv, NEW g \in Gens, NEW x \in GenRecords, Agree(x),
           gen' = [gen EXCEPT ![g] = x],
           PromisesTyped', microtask_queue' \in Seq(Jobs), stack' \in Seq(Activations),
           request' \in Seq(RequestRecords),
           UNCHANGED <<wasm_instantiation_jobs, termination, moduleVars>>,
           \A m \in Modules : promise_state'[Evaluation(m)] = promise_state[Evaluation(m)],
           \A c \in Coroutines \ {g} : Carries(c),
           GenPlaced(microtask_queue', waiters', awaiting_return_completion', stack', x, g)
    PROVE  ResumerInv'
<1>1. /\ gen' \in [Gens -> GenRecords] /\ gen'[g] = x
      /\ \A h \in Gens \ {g} : gen'[h] = gen[h]
    BY DEF ResumerInv, GenTyped
<1>2. GenTyped'
    BY <1>1 DEF ResumerInv, GenTyped
<1>3. LoopTyped'
    BY DEF ResumerInv, LoopTyped
<1>4. \A m \in Modules : /\ module_state'[m] = module_state[m]
                         /\ Settled(Evaluation(m))' <=> Settled(Evaluation(m))
    BY DEF moduleVars, Settled, Evaluation
<1>5. ModTyped'
    BY <1>4 DEF ResumerInv, ModTyped, moduleVars
<1>6. \A m \in Modules : Carries(m) /\ (Open(m)' <=> Open(m))
    BY <1>4, CoroutinesAreDistinct DEF Coroutines, Open
<1>7. ASSUME NEW h \in Gens PROVE (gen'[h] = gen[h] /\ Carries(h)) \/ GenPlace(h)'
  <2>1. CASE h = g
      BY <1>1, <2>1 DEF GenPlace
  <2>2. CASE h # g
      BY <1>1, <2>2 DEF Coroutines
  <2>3. QED
      BY <2>1, <2>2
<1>8. QED
    BY <1>2, <1>3, <1>4, <1>5, <1>6, <1>7, Steps

\* A step that moves nobody, unless it wakes some.
LEMMA QuietStep ==
    ASSUME ResumerInv, UNCHANGED genVars,
           LoopTyped', ModTyped',
           \A m \in Modules : /\ Open(m)' <=> Open(m)
                              /\ Open(m) => module_state'[m] = module_state[m],
           \A c \in Coroutines : Carries(c)
    PROVE  ResumerInv'
<1>1. GenTyped' /\ \A g \in Gens : gen'[g] = gen[g]
    BY DEF genVars, ResumerInv, GenTyped
<1>2. QED
    BY <1>1, Steps DEF Coroutines

\* A step of one module.
LEMMA ModStep ==
    ASSUME ResumerInv, NEW m \in Modules, UNCHANGED genVars,
           LoopTyped', ModTyped',
           \A d \in Modules \ {m} : /\ Open(d)' <=> Open(d)
                                    /\ Open(d) => module_state'[d] = module_state[d],
           \A c \in Coroutines \ {m} : Carries(c),
           ModPlace(m)'
    PROVE  ResumerInv'
<1>1. GenTyped' /\ \A g \in Gens : gen'[g] = gen[g] /\ Carries(g)
    BY CoroutinesAreDistinct DEF genVars, ResumerInv, GenTyped, Coroutines
<1>2. QED
    BY <1>1, Steps DEF Coroutines

-----------------------------------------------------------------------------
(* From one place to the next.                                             *)

LEMMA Owners ==
    /\ \A e \in Activations : \A c : e \in ActsOf(c) <=>
         \/ e.kind \in {"gen_body", "await_return"} /\ e.gen = c
         \/ e.kind = "module" /\ e.module = c
    /\ \A t \in Jobs : \A c : t \in TasksOf(c) <=>
         /\ t.kind \in {"async_resume", "async_gen_yield", "async_gen_return_after_await"}
         /\ t.who = c
    /\ \A e, c, d : e \in ActsOf(c) /\ e \in ActsOf(d) => c = d
    /\ \A t, c, d : t \in TasksOf(c) /\ t \in TasksOf(d) => c = d
BY DEF ActsOf, TasksOf

LEMMA FreedToStack ==
    ASSUME NEW c \in Coroutines, NEW q, NEW s, Freed(c, q, s), NEW e \in ActsOf(c),
           UNCHANGED <<waiters, awaiting_return_completion>>,
           microtask_queue' = q,
           stack' = Append(s, e) \/ stack' = Append(Append(s, e), Drain)
    PROVE  /\ microtask_queue' \in Seq(Jobs) /\ stack' \in Seq(Activations)
           /\ OnStack(microtask_queue', waiters', stack', c, e)
           /\ \A d \in Coroutines \ {c} : Carries(d)
<1> DEFINE t == Append(s, e)
<1>1. e \in Activations /\ q \in Seq(Jobs) /\ s \in Seq(Activations)
    BY DEF ActsOf, Freed
<1>2. /\ t \in Seq(Activations)
      /\ \A d : e \notin ActsOf(d) => Stays(s, t, d)
      /\ \A d : e \in ActsOf(d) /\ NoAct(s, d) => OneAct(t, d, e)
    BY <1>1, PushPlaces
<1> HIDE DEF t
<1>3. /\ Append(t, Drain) \in Seq(Activations)
      /\ \A d : Stays(t, Append(t, Drain), d)
    BY <1>2, PushPlaces, ActOwners
<1>4. /\ stack' \in Seq(Activations)
      /\ \A d : Stays(t, stack', d)
    BY <1>2, <1>3 DEF t, Stays
<1>5. OnStack(microtask_queue', waiters', stack', c, e)
    BY <1>2, <1>4 DEF Freed, AtRest, OnStack, Stays
<1>6. ASSUME NEW d \in Coroutines \ {c} PROVE Carries(d)
  <2>1. Stays(s, t, d)
      BY <1>2, Owners
  <2>2. Stays(stack, stack', d)
      BY <1>4, <2>1, StaysOn DEF Freed
  <2>3. QED
      BY <2>2 DEF Freed, Carries
<1>7. QED
    BY <1>1, <1>4, <1>5, <1>6

LEMMA FreedToQueue ==
    ASSUME NEW c \in Coroutines, NEW q, NEW s, Freed(c, q, s), NEW t \in TasksOf(c),
           UNCHANGED <<waiters, awaiting_return_completion>>,
           microtask_queue' = Append(q, t), stack' = s
    PROVE  /\ microtask_queue' \in Seq(Jobs) /\ stack' \in Seq(Activations)
           /\ InQueue(microtask_queue', waiters', stack', c, t)
           /\ \A d \in Coroutines \ {c} : Carries(d)
<1>1. t \in Jobs /\ q \in Seq(Jobs) /\ s \in Seq(Activations)
    BY DEF TasksOf, Freed
<1>2. /\ Append(q, t) \in Seq(Jobs)
      /\ \A w, f, d : t \notin TasksOf(d) => Follows(q, w, f, Append(q, t), w, f, d)
      /\ \A d : t \in TasksOf(d) /\ NoTask(q, d) => OneTask(Append(q, t), d, t)
    BY <1>1, EnqueuePlaces
<1>3. InQueue(microtask_queue', waiters', stack', c, t)
    BY <1>2 DEF Freed, AtRest, InQueue
<1>4. ASSUME NEW d \in Coroutines \ {c} PROVE Carries(d)
  <2>1. Follows(q, waiters, awaiting_return_completion,
                microtask_queue', waiters', awaiting_return_completion', d)
      BY <1>2, Owners
  <2>2. Follows(microtask_queue, waiters, awaiting_return_completion,
                microtask_queue', waiters', awaiting_return_completion', d)
      BY <2>1, FollowsOn DEF Freed
  <2>3. QED
      BY <2>2 DEF Freed, Carries
<1>5. QED
    BY <1>1, <1>2, <1>3, <1>4

LEMMA FreedToList ==
    ASSUME NEW c \in Coroutines, NEW q, NEW s, Freed(c, q, s), NEW p \in Promises,
           PromisesTyped, ~Settled(p),
           waiters' = [waiters EXCEPT ![p] = Append(@, c)],
           UNCHANGED <<promise_state, reactions>>,
           \/ UNCHANGED awaiting_return_completion
           \/ c \in Gens /\ awaiting_return_completion' = awaiting_return_completion \cup {c},
           microtask_queue' = q, stack' = s
    PROVE  /\ PromisesTyped'
           /\ microtask_queue' \in Seq(Jobs) /\ stack' \in Seq(Activations)
           /\ OnList(microtask_queue', waiters', stack', c, p)
           /\ \A d \in Coroutines \ {c} : Carries(d)
<1>1. waiters \in [Promises -> Seq(Coroutines)]
    BY DEF PromisesTyped
<1>2. /\ waiters' \in [Promises -> Seq(Coroutines)]
      /\ \A k, f, f2, d : d # c /\ (d \in f2 <=> d \in f) => Follows(k, waiters, f, k, waiters', f2, d)
      /\ NoWait(waiters, c) => OneWait(waiters', c, p)
  <2>1. \A w \in [Promises -> Seq(Coroutines)] : \A w2 : w2 = [w EXCEPT ![p] = Append(@, c)] =>
           /\ w2 \in [Promises -> Seq(Coroutines)]
           /\ \A k, f, f2, d : d # c /\ (d \in f2 <=> d \in f) => Follows(k, w, f, k, w2, f2, d)
           /\ NoWait(w, c) => OneWait(w2, c, p)
      BY JoinPlaces
  <2>2. QED
      BY <1>1, <2>1, Zenon
<1>3. \A r \in Promises \ {p} : waiters'[r] = waiters[r]
    BY <1>1
<1>4. PromisesTyped'
    BY <1>2, <1>3 DEF PromisesTyped, SettledAreClear, Settled
<1>5. OnList(microtask_queue', waiters', stack', c, p)
    BY <1>2 DEF Freed, AtRest, OnList
<1>6. ASSUME NEW d \in Coroutines \ {c} PROVE Carries(d)
  <2>1. Follows(q, waiters, awaiting_return_completion,
                microtask_queue', waiters', awaiting_return_completion', d)
      BY <1>2
  <2>2. Follows(microtask_queue, waiters, awaiting_return_completion,
                microtask_queue', waiters', awaiting_return_completion', d)
      BY <2>1, FollowsOn DEF Freed
  <2>3. QED
      BY <2>2 DEF Freed, Carries
<1>7. QED
    BY <1>4, <1>5, <1>6 DEF Freed

\* The coroutine is done with, or about to be, and a promise is settled.
LEMMA FreedSettles ==
    ASSUME NEW c \in Coroutines, NEW q, NEW s, Freed(c, q, s), NEW p \in Promises,
           PromisesTyped, NEW v \in {"fulfilled", "rejected"}, settlePromise(q, p, v),
           \/ stack' = s
           \/ \E e \in Activations : (\A d : e \notin ActsOf(d)) /\ stack' = Append(s, e)
    PROVE  /\ PromisesTyped'
           /\ microtask_queue' \in Seq(Jobs) /\ stack' \in Seq(Activations)
           /\ Settled(p)' /\ \A r \in Promises \ {p} : promise_state'[r] = promise_state[r]
           /\ AtRest(microtask_queue', waiters', stack', c)
           /\ \A d \in Coroutines \ {c} : Carries(d)
<1>1. q \in Seq(Jobs) /\ s \in Seq(Activations)
    BY DEF Freed
<1>2. /\ PromisesTyped'
      /\ microtask_queue' \in Seq(Jobs)
      /\ \A r \in Promises \ {p} : promise_state'[r] = promise_state[r]
      /\ Settled(p)'
      /\ \A d \in Coroutines :
           Follows(q, waiters, awaiting_return_completion,
                   microtask_queue', waiters', awaiting_return_completion', d)
    BY <1>1, SettlePlaces
<1>3. /\ stack' \in Seq(Activations)
      /\ \A d : Stays(s, stack', d)
    BY <1>1, PushPlaces DEF Stays
<1>4. AtRest(microtask_queue', waiters', stack', c)
    BY <1>2, <1>3, PlacesMove DEF Freed
<1>5. ASSUME NEW d \in Coroutines \ {c} PROVE Carries(d)
    BY <1>2, <1>3, FollowsOn, StaysOn DEF Freed, Carries
<1>6. QED
    BY <1>2, <1>3, <1>4, <1>5
-----------------------------------------------------------------------------
(* Who acts.                                                               *)

LEMMA GenTypes ==
    ASSUME ResumerInv, NEW g \in Gens
    PROVE  /\ gen[g] \in GenRecords /\ Agree(gen[g])
           /\ GenPlace(g)
           /\ gen[g].queue \in Seq(Requests)
           /\ gen[g].queue # <<>> =>
                HeadOf(g) \in Requests /\ Tail(gen[g].queue) \in Seq(Requests)
<1>1. gen[g] \in GenRecords /\ Agree(gen[g]) /\ GenPlace(g)
    BY DEF ResumerInv, GenTyped, GensPlaced, GenPlace
<1>2. gen[g].queue \in Seq(Requests)
    BY <1>1 DEF GenRecords
<1>3. gen[g].queue # <<>> => HeadOf(g) \in Requests /\ Tail(gen[g].queue) \in Seq(Requests)
    BY <1>2, HeadTailProperties DEF HeadOf
<1>4. QED
    BY <1>1, <1>2, <1>3

\* Serving a queue does not disturb the generator, which is at rest.
LEMMA ServerOnTop ==
    ASSUME ResumerInv, NEW g \in Gens, Serving(g)
    PROVE  /\ Freed(g, microtask_queue, Front(stack))
           /\ gen[g].queue # <<>>
<1>1. stack \in Seq(Activations) /\ microtask_queue \in Seq(Jobs)
    BY DEF ResumerInv, LoopTyped
<1>2. stack # <<>> /\ Last(stack).kind = "resume_next"
    BY DEF Serving, TopIs, Top
<1>3. /\ Front(stack) \in Seq(Activations) /\ Last(stack) \in Activations
      /\ \A c : Last(stack) \notin ActsOf(c) => Stays(stack, Front(stack), c)
    BY <1>1, <1>2, PopPlaces
<1>4. \A c : Stays(stack, Front(stack), c)
    BY <1>2, <1>3, Owners
<1>5. AtRest(microtask_queue, waiters, stack, g)
    BY GenTypes DEF GenPlace, GenPlaced, Serving
<1>6. AtRest(microtask_queue, waiters, Front(stack), g)
    BY <1>4, <1>5 DEF AtRest, Stays
<1>7. QED
    BY <1>1, <1>3, <1>4, <1>6, SamePlaces DEF Freed, Serving, Queued

\* A body on top of the stack, or the wait for a returned value.
LEMMA GenOnTop ==
    ASSUME ResumerInv, NEW g \in Gens, AtBody(g) \/ (TopIs("await_return") /\ Top.gen = g)
    PROVE  /\ Freed(g, microtask_queue, Front(stack))
           /\ gen[g].queue # <<>>
           /\ Top \in Activations
           /\ AtBody(g) => gen[g].async_state = "executing"
           /\ ~AtBody(g) => gen[g].async_state = "suspended_await"
<1>1. stack \in Seq(Activations) /\ microtask_queue \in Seq(Jobs)
    BY DEF ResumerInv, LoopTyped
<1>2. /\ stack # <<>> /\ Last(stack).kind \in {"gen_body", "await_return"}
      /\ Last(stack).gen = g
      /\ AtBody(g) <=> Last(stack).kind = "gen_body"
    BY DEF AtBody, TopIs, Top
<1>3. /\ Front(stack) \in Seq(Activations) /\ Last(stack) \in Activations
      /\ \A c : Last(stack) \notin ActsOf(c) => Stays(stack, Front(stack), c)
      /\ \A c : Last(stack) \in ActsOf(c) => ~NoAct(stack, c)
      /\ \A c, e : Last(stack) \in ActsOf(c) /\ OneAct(stack, c, e)
                      => e = Last(stack) /\ NoAct(Front(stack), c)
    BY <1>1, <1>2, PopPlaces
<1>4. \A c : Last(stack) \in ActsOf(c) <=> c = g
    BY <1>2, <1>3, Owners
<1>5. PICK e \in Activations :
        /\ OnStack(microtask_queue, waiters, stack, g, e)
        /\ gen[g].queue # <<>>
        /\ \/ gen[g].async_state = "executing" /\ e.kind = "gen_body"
           \/ gen[g].async_state = "suspended_await" /\ e.kind = "await_return"
    BY <1>3, <1>4, GenTypes DEF GenPlace, GenPlaced, AtRest, InQueue, OnList
<1>6. e = Last(stack) /\ AtRest(microtask_queue, waiters, Front(stack), g)
    BY <1>3, <1>4, <1>5 DEF OnStack, AtRest
<1>7. \A d \in Coroutines \ {g} : Stays(stack, Front(stack), d)
    BY <1>3, <1>4
<1>8. Freed(g, microtask_queue, Front(stack))
    BY <1>1, <1>3, <1>6, <1>7, SamePlaces DEF Freed
<1>9. QED
    BY <1>2, <1>3, <1>5, <1>6, <1>8 DEF Top

\* The least of a set of naturals.
LEMMA LeastOf ==
    ASSUME NEW S, S \subseteq Nat, S # {}
    PROVE  LET k == CHOOSE i \in S : \A j \in S : i <= j
           IN  k \in S /\ \A j \in S : k <= j
<1>1. PICK i \in S : \A j \in Nat : j \in S => ~(j < i)
  <2>1. IsWellFoundedOn(OpToRel(<, Nat), Nat)
      BY NatLessThanWellFounded
  <2>2. \A T : T \subseteq Nat /\ T # {} => \E x \in T : \A y \in T : ~(<<y, x>> \in OpToRel(<, Nat))
      BY <2>1, WFMin, Zenon
  <2>3. PICK x \in S : \A y \in S : ~(<<y, x>> \in OpToRel(<, Nat))
      BY <2>2
  <2>4. \A y \in S : ~(y < x)
      BY <2>3 DEF OpToRel
  <2>5. QED
      BY <2>4
<1>2. i \in S /\ \A j \in S : i <= j
    BY <1>1
<1>3. QED
    BY <1>2
LEMMA TaskTaken ==
    ASSUME ResumerInv, NEW k, TakesTask(k)
    PROVE  /\ Taken \in Jobs /\ Taken.kind = k
           /\ Rest \in Seq(Jobs)
           /\ \A c : Taken \notin TasksOf(c) =>
                Follows(microtask_queue, waiters, awaiting_return_completion,
                        Rest, waiters, awaiting_return_completion, c)
           /\ \A c : Taken \in TasksOf(c) => ~NoTask(microtask_queue, c)
           /\ \A c, t : Taken \in TasksOf(c) /\ OneTask(microtask_queue, c, t)
                           => t = Taken /\ NoTask(Rest, c)
           /\ k = "module_import" => Depth = 0
<1>1. microtask_queue \in Seq(Jobs)
    BY DEF ResumerInv, LoopTyped
<1>2. DOMAIN microtask_queue = 1 .. Len(microtask_queue) /\ Len(microtask_queue) \in Nat
    BY <1>1, LenProperties
<1>3. Runnable \subseteq Nat /\ Runnable # {} /\ Taken.kind = k
    BY <1>2 DEF Runnable, TakesTask
<1>4. NextTask \in Runnable
    BY <1>3, LeastOf, Zenon DEF NextTask
<1>5. /\ NextTask \in DOMAIN microtask_queue
      /\ Depth = 0 \/ Taken.kind # "module_import"
    BY <1>4 DEF Runnable, Taken
<1>6. \A n \in DOMAIN microtask_queue :
        /\ RemoveAt(microtask_queue, n) \in Seq(Jobs) /\ microtask_queue[n] \in Jobs
        /\ \A w, f, c : microtask_queue[n] \notin TasksOf(c) =>
             Follows(microtask_queue, w, f, RemoveAt(microtask_queue, n), w, f, c)
        /\ \A c : microtask_queue[n] \in TasksOf(c) => ~NoTask(microtask_queue, c)
        /\ \A c, t : microtask_queue[n] \in TasksOf(c) /\ OneTask(microtask_queue, c, t)
                        => t = microtask_queue[n] /\ NoTask(RemoveAt(microtask_queue, n), c)
    BY <1>1, TakePlaces
<1>7. QED
    BY <1>3, <1>5, <1>6, Zenon DEF Taken, Rest

\* The generator a task wakes.
LEMMA GenTaken ==
    ASSUME ResumerInv, NEW k, TakesTask(k), NEW g \in Gens, Taken.who = g,
           k \in {"async_resume", "async_gen_yield", "async_gen_return_after_await"}
    PROVE  /\ Freed(g, Rest, stack)
           /\ gen[g].async_state = "suspended_await"
           /\ TaskFits(gen[g], Taken)
<1>1. Taken \in Jobs /\ Taken.kind = k /\ Rest \in Seq(Jobs) /\ stack \in Seq(Activations)
    BY TaskTaken DEF ResumerInv, LoopTyped
<1>2. \A c : Taken \in TasksOf(c) <=> c = g
    BY <1>1, Owners
<1>3. PICK t \in Jobs : /\ InQueue(microtask_queue, waiters, stack, g, t)
                        /\ gen[g].async_state = "suspended_await"
                        /\ TaskFits(gen[g], t)
    BY <1>2, TaskTaken, GenTypes DEF GenPlace, GenPlaced, AtRest, OnStack, OnList
<1>4. t = Taken /\ AtRest(Rest, waiters, stack, g)
    BY <1>2, <1>3, TaskTaken DEF InQueue, AtRest
<1>5. \A d \in Coroutines \ {g} :
        Follows(microtask_queue, waiters, awaiting_return_completion,
                Rest, waiters, awaiting_return_completion, d)
    BY <1>2, TaskTaken
<1>6. \A d : Stays(stack, stack, d)
    BY DEF Stays
<1>7. QED
    BY <1>1, <1>3, <1>4, <1>5, <1>6 DEF Freed

LEMMA ModTypes ==
    ASSUME ResumerInv, NEW m \in Modules
    PROVE  /\ ModPlace(m)
           /\ Deps(m) \in Seq(Modules)
           /\ module_state[m] \in {"absent", "evaluating", "evaluating_async",
                                   "evaluated", "errored"}
           /\ module_state[m] = "absent" => ~Settled(Evaluation(m))
           /\ Evaluation(m) \in Promises
BY DEF ResumerInv, ModTyped, ModsPlaced, ModPlace, Deps, Evaluation, Promises

\* A body on top of the stack.
LEMMA ModOnTop ==
    ASSUME ResumerInv, NEW m \in Modules, AtModule(m)
    PROVE  /\ Freed(m, microtask_queue, Front(stack))
           /\ Open(m)
           /\ Top \in Activations
           /\ module_state[m] = IF Top.first THEN "evaluating" ELSE "evaluating_async"
<1>1. stack \in Seq(Activations) /\ microtask_queue \in Seq(Jobs)
    BY DEF ResumerInv, LoopTyped
<1>2. /\ stack # <<>> /\ Last(stack).kind = "module"
      /\ Last(stack).module = m
    BY DEF AtModule, TopIs, Top
<1>3. /\ Front(stack) \in Seq(Activations) /\ Last(stack) \in Activations
      /\ \A c : Last(stack) \notin ActsOf(c) => Stays(stack, Front(stack), c)
      /\ \A c : Last(stack) \in ActsOf(c) => ~NoAct(stack, c)
      /\ \A c, e : Last(stack) \in ActsOf(c) /\ OneAct(stack, c, e)
                      => e = Last(stack) /\ NoAct(Front(stack), c)
    BY <1>1, <1>2, PopPlaces
<1>4. \A c : Last(stack) \in ActsOf(c) <=> c = m
    BY <1>2, <1>3, Owners
<1>5. PICK e \in Activations :
        /\ OnStack(microtask_queue, waiters, stack, m, e)
        /\ Open(m)
        /\ module_state[m] = IF e.first THEN "evaluating" ELSE "evaluating_async"
    BY <1>3, <1>4, ModTypes DEF ModPlace, ModPlaced, AtRest, InQueue, OnList
<1>6. e = Last(stack) /\ AtRest(microtask_queue, waiters, Front(stack), m)
    BY <1>3, <1>4, <1>5 DEF OnStack, AtRest
<1>7. \A d \in Coroutines \ {m} : Stays(stack, Front(stack), d)
    BY <1>3, <1>4
<1>8. Freed(m, microtask_queue, Front(stack))
    BY <1>1, <1>3, <1>6, <1>7, SamePlaces DEF Freed
<1>9. QED
    BY <1>3, <1>5, <1>6, <1>8 DEF Top

\* The module a task wakes.
LEMMA ModTaken ==
    ASSUME ResumerInv, NEW m \in Modules, TakesTask("async_resume"), Taken.who = m
    PROVE  /\ Freed(m, Rest, stack)
           /\ Open(m) /\ module_state[m] = "evaluating_async"
<1>1. Taken \in Jobs /\ Taken.kind = "async_resume" /\ Rest \in Seq(Jobs)
      /\ stack \in Seq(Activations)
    BY TaskTaken DEF ResumerInv, LoopTyped
<1>2. \A c : Taken \in TasksOf(c) <=> c = m
    BY <1>1, Owners
<1>3. PICK t \in Jobs : /\ InQueue(microtask_queue, waiters, stack, m, t)
                        /\ Open(m) /\ module_state[m] = "evaluating_async"
    BY <1>2, TaskTaken, ModTypes DEF ModPlace, ModPlaced, AtRest, OnStack, OnList
<1>4. AtRest(Rest, waiters, stack, m)
    BY <1>2, <1>3, TaskTaken DEF InQueue, AtRest
<1>5. \A d \in Coroutines \ {m} :
        Follows(microtask_queue, waiters, awaiting_return_completion,
                Rest, waiters, awaiting_return_completion, d)
    BY <1>2, TaskTaken
<1>6. \A d : Stays(stack, stack, d)
    BY DEF Stays
<1>7. QED
    BY <1>1, <1>3, <1>4, <1>5, <1>6 DEF Freed
-----------------------------------------------------------------------------
(* The steps of the generators.                                            *)

Unwindings == {"none", "return", "throw"}

LEMMA RecordTypes ==
    ASSUME NEW x \in GenRecords
    PROVE  /\ Resumed(x) \in GenRecords /\ Resumed(x).queue = x.queue
           /\ Resumed(x).state = "executing" /\ Resumed(x).async_state = "executing"
           /\ \A s \in {"initial", "suspended", "executing", "completed"} :
                [x EXCEPT !.state = s] \in GenRecords
           /\ \A s \in {"suspended_start", "suspended_yield", "executing",
                        "suspended_await", "completed"} :
                [x EXCEPT !.async_state = s] \in GenRecords
           /\ \A q \in Seq(Requests) : [x EXCEPT !.queue = q] \in GenRecords
           /\ \A b \in BOOLEAN : /\ [x EXCEPT !.pending_return_completion = b] \in GenRecords
                                 /\ [x EXCEPT !.disturbed = b] \in GenRecords
           /\ \A u \in Unwindings : [x EXCEPT !.unwinding = u] \in GenRecords
           /\ x.pending_return_completion \in BOOLEAN /\ x.disturbed \in BOOLEAN
           /\ x.unwinding \in Unwindings
BY DEF GenRecords, Resumed, Unwindings

\* settleAsyncGenRequest and rejectAsyncGenRequest keep the requests typed.
LEMMA AnswerTypes ==
    ASSUME NEW r \in Requests, NEW a \in Answers, NEW q, answer(q, r, a),
           request \in Seq(RequestRecords)
    PROVE  /\ request' \in Seq(RequestRecords)
           /\ <<"request", r>> \in Promises
           /\ settlePromise(q, <<"request", r>>, IF a = "reject" THEN "rejected" ELSE "fulfilled")
           /\ \A m \in Modules : Evaluation(m) \in Promises \ {<<"request", r>>}
<1>1. DOMAIN request = 1 .. Len(request) /\ \A i \in DOMAIN request : request[i] \in RequestRecords
    BY LenProperties, ElementOfSeq
<1>2. [request EXCEPT ![r].answer = a] \in Seq(RequestRecords)
  <2>1. request \in [1 .. Len(request) -> RequestRecords] /\ Len(request) \in Nat
      BY LenProperties
  <2>2. \A e \in RequestRecords : [e EXCEPT !.answer = a] \in RequestRecords
      BY DEF RequestRecords
  <2>3. [request EXCEPT ![r].answer = a] \in [1 .. Len(request) -> RequestRecords]
      BY <2>1, <2>2
  <2>4. QED
      BY <2>1, <2>3, SeqDef
<1>3. request' \in Seq(RequestRecords)
    BY <1>2 DEF answer
<1>4. <<"request", r>> \in Promises /\ \A m \in Modules : Evaluation(m) \in Promises \ {<<"request", r>>}
    BY DEF Promises, Evaluation
<1>5. QED
    BY <1>3, <1>4 DEF answer

\* A generator that closes is at rest.
LEMMA CompleteStep ==
    ASSUME ResumerInv, NEW g \in Gens, NEW q, NEW s, Freed(g, q, s), gen[g].queue # <<>>,
           NEW a \in Answers, Complete(g, q, a, s),
           UNCHANGED <<wasm_instantiation_jobs, termination, moduleVars>>
    PROVE  ResumerInv'
<1> DEFINE x == [NewGen EXCEPT !.state = "completed", !.async_state = "completed",
                               !.queue = Tail(gen[g].queue)]
           v == IF a = "reject" THEN "rejected" ELSE "fulfilled"
<1>1. gen' = [gen EXCEPT ![g] = x] /\ stack' = Append(s, ResumeNext(g))
      /\ answer(q, HeadOf(g), a)
    BY DEF Complete
<1>2. /\ x \in GenRecords /\ Agree(x)
      /\ x.async_state = "completed"
    BY GenTypes DEF NewGen, GenRecords, Agree
<1> HIDE DEF x
<1>3. request \in Seq(RequestRecords) /\ PromisesTyped
    BY DEF ResumerInv, GenTyped, LoopTyped
<1>4. /\ request' \in Seq(RequestRecords)
      /\ <<"request", HeadOf(g)>> \in Promises
      /\ settlePromise(q, <<"request", HeadOf(g)>>, v)
      /\ \A m \in Modules : Evaluation(m) \in Promises \ {<<"request", HeadOf(g)>>}
    BY <1>1, <1>3, GenTypes, AnswerTypes
<1>5. v \in {"fulfilled", "rejected"}
    OBVIOUS
<1> HIDE DEF v
<1>6. g \in Coroutines /\ ResumeNext(g) \in Activations /\ \A d : ResumeNext(g) \notin ActsOf(d)
    BY ActOwners DEF Coroutines
<1>7. /\ PromisesTyped'
      /\ microtask_queue' \in Seq(Jobs) /\ stack' \in Seq(Activations)
      /\ \A r \in Promises \ {<<"request", HeadOf(g)>>} : promise_state'[r] = promise_state[r]
      /\ AtRest(microtask_queue', waiters', stack', g)
      /\ \A d \in Coroutines \ {g} : Carries(d)
    BY <1>1, <1>3, <1>4, <1>5, <1>6, FreedSettles
<1>8. GenPlaced(microtask_queue', waiters', awaiting_return_completion', stack', x, g)
    BY <1>2, <1>7 DEF GenPlaced
<1>9. QED
    BY <1>1, <1>2, <1>4, <1>7, <1>8, GenStep

\* A body goes on, on top of the stack.
LEMMA ResumeStep ==
    ASSUME ResumerInv, NEW g \in Gens, NEW q, NEW s, Freed(g, q, s),
           NEW x \in GenRecords, x.queue # <<>>,
           x.state = "executing", x.async_state = "executing",
           NEW d \in Drivers, NEW b \in BOOLEAN, Resume(g, x, d, b, s), microtask_queue' = q,
           UNCHANGED <<wasm_instantiation_jobs, termination, moduleVars>>
    PROVE  ResumerInv'
<1>1. gen' = [gen EXCEPT ![g] = x] /\ stack' = Append(s, Body(g, d, b))
      /\ UNCHANGED promiseVars /\ request' = request
    BY DEF Resume
<1>2. Body(g, d, b) \in ActsOf(g) /\ Body(g, d, b) \in Activations
      /\ Body(g, d, b).kind = "gen_body" /\ g \in Coroutines
    BY ActOwners DEF Body, Coroutines
<1>3. /\ microtask_queue' \in Seq(Jobs) /\ stack' \in Seq(Activations)
      /\ OnStack(microtask_queue', waiters', stack', g, Body(g, d, b))
      /\ \A c \in Coroutines \ {g} : Carries(c)
    BY <1>1, <1>2, FreedToStack DEF promiseVars
<1>4. GenPlaced(microtask_queue', waiters', awaiting_return_completion', stack', x, g)
    BY <1>2, <1>3 DEF GenPlaced
<1>5. PromisesTyped' /\ request' \in Seq(RequestRecords)
    BY <1>1 DEF promiseVars, ResumerInv, LoopTyped, GenTyped, PromisesTyped, SettledAreClear, Settled
<1>6. Agree(x)
    BY DEF Agree
<1>7. \A m \in Modules : promise_state'[Evaluation(m)] = promise_state[Evaluation(m)]
    BY <1>1 DEF promiseVars
<1>8. QED
    BY <1>1, <1>3, <1>4, <1>5, <1>6, <1>7, GenStep

LEMMA ThrowStep ==
    ASSUME ResumerInv, NEW g \in Gens, NEW q, NEW s, Freed(g, q, s), gen[g].queue # <<>>,
           NEW d \in Drivers, ThrowLands(g, d, s), microtask_queue' = q,
           UNCHANGED <<wasm_instantiation_jobs, termination, moduleVars>>
    PROVE  ResumerInv'
<1>1. PICK u \in IF gen[g].unwinding = "none" THEN {"none", "throw"} ELSE {gen[g].unwinding} :
        Resume(g, [Resumed(gen[g]) EXCEPT
                      !.unwinding = u,
                      !.disturbed = @ \/ gen[g].unwinding = "return"],
               d, FALSE, s)
    BY DEF ThrowLands
<1> DEFINE x == [Resumed(gen[g]) EXCEPT
                    !.unwinding = u,
                    !.disturbed = @ \/ gen[g].unwinding = "return"]
<1>2. gen[g] \in GenRecords
    BY GenTypes
<1>3. u \in Unwindings
    BY <1>2, RecordTypes DEF Unwindings
<1>4. /\ x \in GenRecords /\ x.queue = gen[g].queue
      /\ x.state = "executing" /\ x.async_state = "executing"
    BY <1>2, <1>3 DEF Resumed, GenRecords, Unwindings
<1> HIDE DEF x
<1>5. Resume(g, x, d, FALSE, s)
    BY <1>1 DEF x
<1>6. QED
    BY <1>4, <1>5, ResumeStep
\* A generator is parked behind a task.
LEMMA ParkStep ==
    ASSUME ResumerInv, NEW g \in Gens, NEW q, NEW s, Freed(g, q, s),
           NEW x \in GenRecords, Agree(x), x.async_state = "suspended_await",
           NEW t \in TasksOf(g), TaskFits(x, t),
           gen' = [gen EXCEPT ![g] = x], microtask_queue' = Append(q, t), stack' = s,
           UNCHANGED <<promiseVars, request, wasm_instantiation_jobs, termination, moduleVars>>
    PROVE  ResumerInv'
<1>1. g \in Coroutines /\ t \in Jobs
    BY DEF Coroutines, TasksOf
<1>2. /\ microtask_queue' \in Seq(Jobs) /\ stack' \in Seq(Activations)
      /\ InQueue(microtask_queue', waiters', stack', g, t)
      /\ \A d \in Coroutines \ {g} : Carries(d)
    BY <1>1, FreedToQueue DEF promiseVars
<1>3. GenPlaced(microtask_queue', waiters', awaiting_return_completion', stack', x, g)
    BY <1>1, <1>2 DEF GenPlaced
<1>4. PromisesTyped' /\ request' \in Seq(RequestRecords)
    BY DEF promiseVars, ResumerInv, LoopTyped, GenTyped, PromisesTyped, SettledAreClear, Settled
<1>5. \A m \in Modules : promise_state'[Evaluation(m)] = promise_state[Evaluation(m)]
    BY DEF promiseVars
<1>6. QED
    BY <1>2, <1>3, <1>4, <1>5, GenStep

\* A generator waits for the host.
LEMMA WaitStep ==
    ASSUME ResumerInv, NEW g \in Gens, NEW q, NEW s, Freed(g, q, s),
           NEW x \in GenRecords, Agree(x), x.async_state = "suspended_await", x.queue # <<>>,
           NEW h \in HostPromises, ~Settled(<<"host", h>>),
           waiters' = [waiters EXCEPT ![<<"host", h>>] = Append(@, g)],
           \/ UNCHANGED awaiting_return_completion /\ x.state = "suspended"
           \/ awaiting_return_completion' = awaiting_return_completion \cup {g},
           gen' = [gen EXCEPT ![g] = x], microtask_queue' = q, stack' = s,
           UNCHANGED <<promise_state, reactions, request, wasm_instantiation_jobs,
                       termination, moduleVars>>
    PROVE  ResumerInv'
<1>1. g \in Coroutines /\ <<"host", h>> \in Hosts /\ <<"host", h>> \in Promises /\ PromisesTyped
    BY DEF Coroutines, Hosts, Promises, ResumerInv, LoopTyped
<1>2. /\ PromisesTyped'
      /\ microtask_queue' \in Seq(Jobs) /\ stack' \in Seq(Activations)
      /\ OnList(microtask_queue', waiters', stack', g, <<"host", h>>)
      /\ \A d \in Coroutines \ {g} : Carries(d)
    BY <1>1, FreedToList
<1>3. GenPlaced(microtask_queue', waiters', awaiting_return_completion', stack', x, g)
    BY <1>1, <1>2 DEF GenPlaced
<1>4. request' \in Seq(RequestRecords)
    BY DEF ResumerInv, GenTyped
<1>5. QED
    BY <1>2, <1>3, <1>4, GenStep

\* A request of the generator is answered and its queue served again.
LEMMA AnswerStep ==
    ASSUME ResumerInv, NEW g \in Gens, NEW q, NEW s, Freed(g, q, s),
           NEW x \in GenRecords, Agree(x),
           x.async_state \notin {"executing", "suspended_await"},
           NEW r \in Requests, NEW a \in Answers, answer(q, r, a),
           gen' = [gen EXCEPT ![g] = x], stack' = Append(s, ResumeNext(g)),
           UNCHANGED <<wasm_instantiation_jobs, termination, moduleVars>>
    PROVE  ResumerInv'
<1> DEFINE v == IF a = "reject" THEN "rejected" ELSE "fulfilled"
<1>1. request \in Seq(RequestRecords) /\ PromisesTyped
    BY DEF ResumerInv, GenTyped, LoopTyped
<1>2. /\ request' \in Seq(RequestRecords)
      /\ <<"request", r>> \in Promises
      /\ settlePromise(q, <<"request", r>>, v)
      /\ \A m \in Modules : Evaluation(m) \in Promises \ {<<"request", r>>}
    BY <1>1, AnswerTypes
<1>3. v \in {"fulfilled", "rejected"}
    OBVIOUS
<1> HIDE DEF v
<1>4. g \in Coroutines /\ ResumeNext(g) \in Activations /\ \A d : ResumeNext(g) \notin ActsOf(d)
    BY ActOwners DEF Coroutines
<1>5. /\ PromisesTyped'
      /\ microtask_queue' \in Seq(Jobs) /\ stack' \in Seq(Activations)
      /\ \A p \in Promises \ {<<"request", r>>} : promise_state'[p] = promise_state[p]
      /\ AtRest(microtask_queue', waiters', stack', g)
      /\ \A d \in Coroutines \ {g} : Carries(d)
    BY <1>1, <1>2, <1>3, <1>4, FreedSettles
<1>6. GenPlaced(microtask_queue', waiters', awaiting_return_completion', stack', x, g)
    BY <1>5 DEF GenPlaced
<1>7. QED
    BY <1>2, <1>5, <1>6, GenStep

\* asyncGenDispatch adds a request and leaves everyone in place.
LEMMA DispatchKeepsPlaces ==
    ASSUME ResumerInv, NEW g \in Gens, NEW k \in Kinds, asyncGenDispatch(g, k),
           UNCHANGED moduleVars
    PROVE  ResumerInv'
<1> DEFINE n == Len(request) + 1
           x == [gen[g] EXCEPT !.queue = Append(@, n)]
<1>1. /\ Len(request) < MaxRequests
      /\ request' = Append(request, [kind |-> k, gen |-> g, answer |-> "open"])
      /\ gen' = [gen EXCEPT ![g] = x]
      /\ stack' = stack \/ stack' = Append(stack, ResumeNext(g))
      /\ UNCHANGED <<promiseVars, jobVars, termination>>
    BY DEF asyncGenDispatch
<1>2. request \in Seq(RequestRecords) /\ Len(request) \in Nat
    BY LenProperties DEF ResumerInv, GenTyped
<1>3. n \in Requests
    BY <1>1, <1>2, BoundsAssumption DEF Requests
<1> HIDE DEF n
<1>4. Append(gen[g].queue, n) \in Seq(Requests) /\ Append(gen[g].queue, n) # <<>>
    BY <1>3, GenTypes, AppendProperties
<1>5. gen[g] \in GenRecords /\ Agree(gen[g]) /\ GenPlace(g)
    BY GenTypes
<1>6. /\ x \in GenRecords /\ Agree(x) /\ x.queue # <<>>
      /\ x.async_state = gen[g].async_state /\ x.state = gen[g].state
    BY <1>4, <1>5 DEF GenRecords, Agree
<1> HIDE DEF x
<1>7. \A t : TaskFits(gen[g], t) => TaskFits(x, t)
    BY <1>6 DEF TaskFits
<1>8. GenPlaced(microtask_queue, waiters, awaiting_return_completion, stack, x, g)
    BY <1>5, <1>6, <1>7 DEF GenPlace, GenPlaced
<1>9. stack \in Seq(Activations) /\ microtask_queue \in Seq(Jobs) /\ PromisesTyped
    BY DEF ResumerInv, LoopTyped
<1>10. /\ stack' \in Seq(Activations)
       /\ \A c : Stays(stack, stack', c)
  <2>1. ResumeNext(g) \in Activations /\ \A c : ResumeNext(g) \notin ActsOf(c)
      BY ActOwners
  <2>2. /\ Append(stack, ResumeNext(g)) \in Seq(Activations)
        /\ \A c : Stays(stack, Append(stack, ResumeNext(g)), c)
      BY <1>9, <2>1, PushPlaces
  <2>3. \A c : Stays(stack, stack, c)
      BY DEF Stays
  <2>4. QED
      BY <1>1, <1>9, <2>2, <2>3
<1>11. \A c : Carries(c)
    BY <1>1, <1>10, SamePlaces DEF Carries, promiseVars, jobVars
<1>12. GenPlaced(microtask_queue', waiters', awaiting_return_completion', stack', x, g)
    BY <1>8, <1>11, GenMoves DEF Carries
<1>13. [kind |-> k, gen |-> g, answer |-> "open"] \in RequestRecords
    BY DEF RequestRecords
<1>14. request' \in Seq(RequestRecords)
    BY <1>1, <1>2, <1>13, AppendProperties
<1>15. /\ PromisesTyped' /\ microtask_queue' \in Seq(Jobs)
       /\ UNCHANGED <<wasm_instantiation_jobs, termination>>
       /\ \A m \in Modules : promise_state'[Evaluation(m)] = promise_state[Evaluation(m)]
    BY <1>1, <1>9 DEF promiseVars, jobVars, PromisesTyped, SettledAreClear, Settled
<1>16. QED
    BY <1>1, <1>6, <1>10, <1>11, <1>12, <1>14, <1>15, GenStep

\* asyncGeneratorResumeNext.
LEMMA DrainKeepsPlaces ==
    ASSUME ResumerInv, NEW g \in Gens,
           ServeCompleted(g) \/ ServeReturn(g) \/ ServeNext(g) \/ ServeThrow(g),
           UNCHANGED <<wasm_instantiation_jobs, termination, moduleVars>>
    PROVE  ResumerInv'
<1>1. Serving(g)
    BY DEF ServeCompleted, ServeReturn, ServeNext, ServeThrow, Serves
<1>2. /\ Freed(g, microtask_queue, Front(stack))
      /\ gen[g].queue # <<>> /\ gen[g] \in GenRecords /\ Agree(gen[g])
    BY <1>1, ServerOnTop, GenTypes
<1>3. CASE ServeCompleted(g)
    BY <1>2, <1>3, CompleteStep DEF ServeCompleted, Pop, Answers
<1>4. CASE ServeReturn(g)
  <2>1. /\ gen' = [gen EXCEPT ![g] = Parked(g)]
        /\ stack' = Append(Front(stack), AwaitReturn(g))
        /\ UNCHANGED <<promiseVars, microtask_queue, request>>
      BY <1>4 DEF ServeReturn, Become, Pop
  <2>2. AwaitReturn(g) \in ActsOf(g) /\ AwaitReturn(g).kind = "await_return" /\ g \in Coroutines
        /\ AwaitReturn(g) \in Activations
      BY ActOwners DEF AwaitReturn, Coroutines
  <2>3. /\ microtask_queue' \in Seq(Jobs) /\ stack' \in Seq(Activations)
        /\ OnStack(microtask_queue', waiters', stack', g, AwaitReturn(g))
        /\ \A c \in Coroutines \ {g} : Carries(c)
      BY <1>2, <2>1, <2>2, FreedToStack DEF promiseVars
  <2>4. /\ Parked(g) \in GenRecords /\ Parked(g).queue = gen[g].queue
        /\ Parked(g).async_state = "suspended_await" /\ Parked(g).state = gen[g].state
      BY <1>2 DEF Parked, GenRecords
  <2>5. gen[g].async_state \notin {"executing", "suspended_await"}
      BY <1>1 DEF Serving
  <2>6. Agree(Parked(g))
      BY <1>2, <2>4, <2>5 DEF Agree
  <2>7. GenPlaced(microtask_queue', waiters', awaiting_return_completion', stack', Parked(g), g)
      BY <1>2, <2>2, <2>3, <2>4 DEF GenPlaced
  <2>8. PromisesTyped' /\ request' \in Seq(RequestRecords)
      BY <2>1 DEF promiseVars, ResumerInv, LoopTyped, GenTyped, PromisesTyped, SettledAreClear, Settled
  <2>9. \A m \in Modules : promise_state'[Evaluation(m)] = promise_state[Evaluation(m)]
      BY <2>1 DEF promiseVars
  <2>10. QED
      BY <2>1, <2>3, <2>4, <2>6, <2>7, <2>8, <2>9, GenStep
<1>5. CASE ServeNext(g)
  <2> DEFINE x == [Resumed(gen[g]) EXCEPT !.pending_return_completion = FALSE]
  <2>1. Resume(g, x, "drain", RemembersReturn(g), Front(stack)) /\ microtask_queue' = microtask_queue
      BY <1>5 DEF ServeNext, Pop
  <2>2. /\ x \in GenRecords /\ x.queue = gen[g].queue
        /\ x.state = "executing" /\ x.async_state = "executing"
      BY <1>2 DEF Resumed, GenRecords
  <2>3. RemembersReturn(g) \in BOOLEAN
      BY <1>2, RecordTypes DEF RemembersReturn
  <2> HIDE DEF x
  <2>4. QED
      BY <1>2, <2>1, <2>2, <2>3, ResumeStep DEF Drivers
<1>6. CASE ServeThrow(g)
    BY <1>2, <1>6, CompleteStep, ThrowStep DEF ServeThrow, Pop, Answers, Drivers
<1>7. QED
    BY <1>3, <1>4, <1>5, <1>6
\* awaitForReturnCompletion.
LEMMA AwaitReturnKeepsPlaces ==
    ASSUME ResumerInv, NEW g \in Gens,
           \/ \E t \in BOOLEAN : AwaitReturnSettled(g, t)
           \/ \E h \in HostPromises : AwaitReturnPending(g, h),
           UNCHANGED <<wasm_instantiation_jobs, termination, moduleVars>>
    PROVE  ResumerInv'
<1>1. TopIs("await_return") /\ Top.gen = g /\ ~AtBody(g)
    BY DEF AwaitReturnSettled, AwaitReturnPending, AtBody, TopIs
<1>2. /\ Freed(g, microtask_queue, Front(stack))
      /\ gen[g].queue # <<>> /\ gen[g] \in GenRecords /\ Agree(gen[g])
      /\ gen[g].async_state = "suspended_await"
    BY <1>1, GenOnTop, GenTypes
<1>3. gen' = [gen EXCEPT ![g] = gen[g]] /\ request' = request /\ stack' = Front(stack)
  <2>1. gen = [gen EXCEPT ![g] = gen[g]]
      BY DEF ResumerInv, GenTyped
  <2>2. QED
      BY <2>1 DEF AwaitReturnSettled, AwaitReturnPending, genVars, Leave, Pop
<1>4. ASSUME NEW t \in BOOLEAN, AwaitReturnSettled(g, t) PROVE ResumerInv'
  <2>1. microtask_queue' = Append(microtask_queue, ReturnTask(g, t)) /\ UNCHANGED promiseVars
      BY <1>4 DEF AwaitReturnSettled, enqueue
  <2>2. ReturnTask(g, t) \in TasksOf(g)
      BY TaskOwners
  <2>3. TaskFits(gen[g], ReturnTask(g, t))
      BY <1>2 DEF TaskFits, ReturnTask
  <2>4. QED
      BY <1>2, <1>3, <2>1, <2>2, <2>3, ParkStep
<1>5. ASSUME NEW h \in HostPromises, AwaitReturnPending(g, h) PROVE ResumerInv'
  <2>1. /\ ~Settled(<<"host", h>>)
        /\ waiters' = [waiters EXCEPT ![<<"host", h>>] = Append(@, g)]
        /\ awaiting_return_completion' = awaiting_return_completion \cup {g}
        /\ UNCHANGED <<promise_state, reactions, microtask_queue>>
      BY <1>5 DEF AwaitReturnPending
  <2>2. QED
      BY <1>2, <1>3, <2>1, WaitStep
<1>6. QED
    BY <1>4, <1>5

\* A body that leaves the stack.
LEMMA BodyKeepsPlaces ==
    ASSUME ResumerInv, NEW g \in Gens,
           \/ \E rejected \in BOOLEAN : YieldToDrain(g, rejected) \/ YieldAfterAwait(g, rejected)
           \/ BodyReturns(g) \/ BodyThrows(g) \/ BodyRethrows(g)
           \/ GenAwaits(g),
           UNCHANGED <<wasm_instantiation_jobs, termination, moduleVars>>
    PROVE  ResumerInv'
<1>1. AtBody(g)
    BY DEF YieldToDrain, YieldAfterAwait, BodyReturns, BodyThrows, BodyRethrows, GenAwaits,
           BodyAwaitsSettled, BodyAwaitsPending, Runs
<1>2. /\ Freed(g, microtask_queue, Front(stack))
      /\ gen[g].queue # <<>> /\ gen[g] \in GenRecords
      /\ Top \in Activations /\ Top.kind = "gen_body" /\ Top.return_completion \in BOOLEAN
      /\ HeadOf(g) \in Requests /\ Tail(gen[g].queue) \in Seq(Requests)
    BY <1>1, GenOnTop, GenTypes, ActFields DEF AtBody, TopIs
<1>3. \A s \in {"suspended_await", "suspended_yield"} :
        /\ SuspendedAs(g, s) \in GenRecords /\ SuspendedAs(g, s).queue = gen[g].queue
        /\ SuspendedAs(g, s).state = "suspended" /\ SuspendedAs(g, s).async_state = s
  <2>1. StashReturn(g) \in BOOLEAN
      BY <1>2, RecordTypes DEF StashReturn
  <2>2. QED
      BY <1>2, <2>1 DEF SuspendedAs, GenRecords
<1>4. ASSUME NEW a \in Answers, Complete(g, microtask_queue, a, Pop) PROVE ResumerInv'
    BY <1>2, <1>4, CompleteStep DEF Pop
<1>5. ASSUME NEW rejected \in BOOLEAN, YieldToDrain(g, rejected) PROVE ResumerInv'
  <2> DEFINE x == [SuspendedAs(g, YieldParks(g)) EXCEPT
                      !.state = IF rejected THEN "completed" ELSE @,
                      !.queue = Popped(g)]
             t == YieldTask(g, HeadOf(g), rejected)
  <2>1. /\ gen' = [gen EXCEPT ![g] = x] /\ stack' = Front(stack)
        /\ microtask_queue' = Append(microtask_queue, t)
        /\ UNCHANGED <<promiseVars, request>>
      BY <1>5 DEF YieldToDrain, Leave, Pop, enqueue
  <2>2. /\ x \in GenRecords /\ x.async_state = "suspended_await"
        /\ x.state = IF rejected THEN "completed" ELSE "suspended"
      BY <1>2, <1>3 DEF YieldParks, Popped, GenRecords
  <2>3. Agree(x) /\ TaskFits(x, t)
      BY <2>2 DEF Agree, TaskFits, YieldTask
  <2>4. t \in TasksOf(g)
      BY <1>2, TaskOwners
  <2> HIDE DEF x, t
  <2>5. QED
      BY <1>2, <2>1, <2>2, <2>3, <2>4, ParkStep
<1>6. ASSUME NEW rejected \in BOOLEAN, YieldAfterAwait(g, rejected) PROVE ResumerInv'
  <2>1. CASE Complete(g, microtask_queue, "reject", Pop)
      BY <1>4, <2>1 DEF Answers
  <2> DEFINE x == [SuspendedAs(g, "suspended_yield") EXCEPT !.queue = Popped(g)]
  <2>2. CASE /\ gen' = [gen EXCEPT ![g] = x]
             /\ answer(microtask_queue, HeadOf(g), "yield")
             /\ Become(ResumeNext(g))
    <3>1. /\ x \in GenRecords /\ x.async_state = "suspended_yield"
          /\ x.state = "suspended"
        BY <1>2, <1>3 DEF Popped, GenRecords
    <3> HIDE DEF x
    <3>2. Agree(x)
        BY <3>1 DEF Agree
    <3>3. stack' = Append(Front(stack), ResumeNext(g))
        BY <2>2 DEF Become, Pop
    <3>4. QED
        BY <1>2, <2>2, <3>1, <3>2, <3>3, AnswerStep DEF Answers
  <2>3. QED
      BY <1>6, <2>1, <2>2 DEF YieldAfterAwait
<1>7. CASE GenAwaits(g)
  <2>1. /\ Suspended(g) \in GenRecords /\ Suspended(g).queue = gen[g].queue
        /\ Suspended(g).state = "suspended" /\ Suspended(g).async_state = "suspended_await"
    <3> DEFINE y == SuspendedAs(g, "suspended_await")
               b == y.disturbed \/ gen[g].unwinding = "return"
    <3>1. y \in GenRecords /\ b \in BOOLEAN
        BY <1>3
    <3>2. Suspended(g) = [y EXCEPT !.disturbed = b]
        BY DEF Suspended
    <3>3. y.queue = gen[g].queue /\ y.state = "suspended" /\ y.async_state = "suspended_await"
        BY <1>3
    <3> HIDE DEF b, y
    <3>4. [y EXCEPT !.disturbed = b] \in GenRecords
        BY <3>1, RecordTypes
    <3>5. QED
        BY <3>1, <3>2, <3>3, <3>4 DEF GenRecords
  <2>2. Agree(Suspended(g))
      BY <2>1 DEF Agree
  <2>3. gen' = [gen EXCEPT ![g] = Suspended(g)] /\ stack' = Front(stack) /\ request' = request
      BY <1>7 DEF GenAwaits, BodyAwaitsSettled, BodyAwaitsPending, Leave, Pop
  <2>4. ASSUME NEW t \in BOOLEAN, BodyAwaitsSettled(g, t) PROVE ResumerInv'
    <3>1. microtask_queue' = Append(microtask_queue, ResumeTask(g, t)) /\ UNCHANGED promiseVars
        BY <2>4 DEF BodyAwaitsSettled, enqueue
    <3>2. ResumeTask(g, t) \in TasksOf(g)
        BY TaskOwners DEF Coroutines
    <3>3. TaskFits(Suspended(g), ResumeTask(g, t))
        BY <1>2, <2>1 DEF TaskFits, ResumeTask
    <3>4. QED
        BY <1>2, <2>1, <2>2, <2>3, <3>1, <3>2, <3>3, ParkStep
  <2>5. ASSUME NEW h \in HostPromises, BodyAwaitsPending(g, h) PROVE ResumerInv'
    <3>1. /\ ~Settled(<<"host", h>>)
          /\ waiters' = [waiters EXCEPT ![<<"host", h>>] = Append(@, g)]
          /\ UNCHANGED <<promise_state, reactions, awaiting_return_completion, microtask_queue>>
        BY <2>5 DEF BodyAwaitsPending, awaitPromise
    <3>2. QED
        BY <1>2, <2>1, <2>2, <2>3, <3>1, WaitStep
  <2>6. QED
      BY <1>7, <2>4, <2>5 DEF GenAwaits
<1>8. CASE BodyReturns(g) \/ BodyThrows(g) \/ BodyRethrows(g)
    BY <1>4, <1>8 DEF BodyReturns, BodyThrows, BodyRethrows, Answers
<1>9. QED
    BY <1>5, <1>6, <1>7, <1>8

\* A task that wakes a generator.
LEMMA GenTaskKeepsPlaces ==
    ASSUME ResumerInv, RunReturnTask \/ RunResumeGen \/ RunYieldTask,
           UNCHANGED <<wasm_instantiation_jobs, termination, moduleVars>>
    PROVE  ResumerInv'
<1> DEFINE g == Taken.who
<1>1. CASE RunReturnTask
  <2>1. TakesTask("async_gen_return_after_await") /\ g \in Gens
      BY <1>1, TaskTaken, JobFields DEF RunReturnTask
  <2>2. Freed(g, Rest, stack) /\ TaskFits(gen[g], Taken) /\ gen[g] \in GenRecords
      BY <2>1, GenTaken, GenTypes
  <2>3. gen[g].queue # <<>>
      BY <2>1, <2>2, TaskTaken DEF TaskFits
  <2>4. \/ \E a \in Answers : Complete(g, Rest, a, stack)
        \/ ThrowLands(g, "drain", stack) /\ microtask_queue' = Rest
        \/ ReturnLands(g, stack) /\ microtask_queue' = Rest
      BY <1>1 DEF RunReturnTask, Answers
  <2> DEFINE x == [Resumed(gen[g]) EXCEPT !.unwinding = "return", !.disturbed = FALSE]
  <2>5. /\ x \in GenRecords /\ x.queue = gen[g].queue
        /\ x.state = "executing" /\ x.async_state = "executing"
      BY <2>2 DEF Resumed, GenRecords
  <2>6. ReturnLands(g, stack) => Resume(g, x, "drain", TRUE, stack)
      BY DEF ReturnLands
  <2> HIDE DEF x, g
  <2>7. CASE ReturnLands(g, stack) /\ microtask_queue' = Rest
      BY <2>1, <2>2, <2>3, <2>5, <2>6, <2>7, ResumeStep DEF Drivers
  <2>8. CASE ThrowLands(g, "drain", stack) /\ microtask_queue' = Rest
      BY <2>1, <2>2, <2>3, <2>8, ThrowStep DEF Drivers
  <2>9. CASE \E a \in Answers : Complete(g, Rest, a, stack)
      BY <2>1, <2>2, <2>3, <2>9, CompleteStep
  <2>10. QED
      BY <2>4, <2>7, <2>8, <2>9
<1>2. CASE RunResumeGen
  <2>1. TakesTask("async_resume") /\ g \in Gens
      BY <1>2 DEF RunResumeGen
  <2>2. Freed(g, Rest, stack) /\ TaskFits(gen[g], Taken) /\ gen[g] \in GenRecords
      BY <2>1, GenTaken, GenTypes
  <2>3. gen[g].queue # <<>>
      BY <2>1, <2>2, TaskTaken DEF TaskFits
  <2>4. \/ Resume(g, Resumed(gen[g]), "settle", FALSE, stack) /\ microtask_queue' = Rest
        \/ ThrowLands(g, "settle", stack) /\ microtask_queue' = Rest
        \/ Complete(g, Rest, "reject", stack)
      BY <1>2 DEF RunResumeGen
  <2> HIDE DEF g
  <2>5. CASE Resume(g, Resumed(gen[g]), "settle", FALSE, stack) /\ microtask_queue' = Rest
    <3>1. /\ Resumed(gen[g]) \in GenRecords /\ Resumed(gen[g]).queue = gen[g].queue
          /\ Resumed(gen[g]).state = "executing" /\ Resumed(gen[g]).async_state = "executing"
        BY <2>2, RecordTypes
    <3>2. QED
        BY <2>1, <2>2, <2>3, <2>5, <3>1, ResumeStep DEF Drivers
  <2>6. CASE ThrowLands(g, "settle", stack) /\ microtask_queue' = Rest
      BY <2>1, <2>2, <2>3, <2>6, ThrowStep DEF Drivers
  <2>7. CASE Complete(g, Rest, "reject", stack)
      BY <2>1, <2>2, <2>3, <2>7, CompleteStep DEF Answers
  <2>8. QED
      BY <2>4, <2>5, <2>6, <2>7
<1>3. CASE RunYieldTask
  <2>1. /\ TakesTask("async_gen_yield") /\ g \in Gens /\ Taken.request \in Requests
        /\ Taken.reject \in BOOLEAN /\ Taken.kind = "async_gen_yield"
      BY <1>3, TaskTaken, JobFields DEF RunYieldTask
  <2>2. Freed(g, Rest, stack) /\ TaskFits(gen[g], Taken) /\ gen[g] \in GenRecords
      BY <2>1, GenTaken, GenTypes
  <2> DEFINE x == [gen[g] EXCEPT !.async_state = AfterYield(g)]
             a == IF Taken.reject THEN "reject" ELSE "yield"
  <2>3. /\ answer(Rest, Taken.request, a)
        /\ gen' = [gen EXCEPT ![g] = x]
        /\ stack' = Append(stack, ResumeNext(g))
      BY <1>3 DEF RunYieldTask, Push
  <2>4. gen[g].state \in {"completed", "suspended"}
      BY <2>1, <2>2 DEF TaskFits
  <2>5. /\ x \in GenRecords /\ x.state = gen[g].state
        /\ x.async_state = IF gen[g].state = "completed" THEN "completed" ELSE "suspended_yield"
      BY <2>2 DEF AfterYield, GenRecords
  <2> HIDE DEF x
  <2>6. Agree(x) /\ x.async_state \notin {"executing", "suspended_await"}
      BY <2>4, <2>5 DEF Agree
  <2>7. a \in Answers
      BY DEF Answers
  <2> HIDE DEF g, a
  <2>8. QED
      BY <2>1, <2>2, <2>3, <2>5, <2>6, <2>7, AnswerStep
<1>4. QED
    BY <1>1, <1>2, <1>3
-----------------------------------------------------------------------------
(* The steps of the event loop and the host.                               *)

\* A promise of the host's, of a request or of an import() is settled.
LEMMA SettleStep ==
    ASSUME ResumerInv, NEW q \in Seq(Jobs), NEW p \in Hosts \cup ImportPromises,
           NEW v \in {"fulfilled", "rejected"}, settlePromise(q, p, v),
           \A c \in Coroutines :
             /\ Follows(microtask_queue, waiters, awaiting_return_completion,
                        q, waiters, awaiting_return_completion, c)
             /\ Stays(stack, stack', c),
           stack' \in Seq(Activations), wasm_instantiation_jobs' \in Seq(Hosts),
           termination' = termination, UNCHANGED <<genVars, moduleVars>>
    PROVE  ResumerInv'
<1>1. p \in Promises /\ PromisesTyped /\ termination \in BOOLEAN
    BY TaskTypes DEF ResumerInv, LoopTyped
<1>2. /\ PromisesTyped'
      /\ microtask_queue' \in Seq(Jobs)
      /\ \A r \in Promises \ {p} : promise_state'[r] = promise_state[r]
      /\ \A c \in Coroutines :
           Follows(q, waiters, awaiting_return_completion,
                   microtask_queue', waiters', awaiting_return_completion', c)
    BY <1>1, SettlePlaces
<1>3. \A c \in Coroutines : Carries(c)
    BY <1>2, FollowsOn DEF Carries
<1>4. \A m \in Modules : Evaluation(m) \in Promises \ {p}
    BY DEF Evaluation, Promises, Hosts, ImportPromises
<1>5. \A m \in Modules : /\ module_state'[m] = module_state[m]
                         /\ Settled(Evaluation(m))' <=> Settled(Evaluation(m))
    BY <1>2, <1>4 DEF moduleVars, Settled, Evaluation
<1>6. ModTyped'
    BY <1>5 DEF ResumerInv, ModTyped, moduleVars
<1>7. LoopTyped'
    BY <1>1, <1>2 DEF LoopTyped
<1>8. \A m \in Modules : Open(m)' <=> Open(m)
    BY <1>5 DEF Open
<1>9. QED
    BY <1>3, <1>5, <1>6, <1>7, <1>8, QuietStep

\* The promises are left alone, and so is the place of everyone.
LEMMA IdleStep ==
    ASSUME ResumerInv, UNCHANGED <<promiseVars, microtask_queue, genVars, moduleVars>>,
           termination' \in BOOLEAN, wasm_instantiation_jobs' \in Seq(Hosts),
           stack' \in Seq(Activations),
           \A c \in Coroutines : Stays(stack, stack', c)
    PROVE  ResumerInv'
<1>1. \A c \in Coroutines : Carries(c)
    BY SamePlaces DEF Carries, promiseVars
<1>2. LoopTyped'
    BY DEF ResumerInv, LoopTyped, promiseVars, PromisesTyped, SettledAreClear, Settled
<1>3. \A m \in Modules : /\ module_state'[m] = module_state[m]
                         /\ Settled(Evaluation(m))' <=> Settled(Evaluation(m))
    BY DEF promiseVars, moduleVars, Settled, Evaluation
<1>4. ModTyped'
    BY <1>3 DEF ResumerInv, ModTyped, moduleVars
<1>5. \A m \in Modules : Open(m)' <=> Open(m)
    BY <1>3 DEF Open
<1>6. QED
    BY <1>1, <1>2, <1>3, <1>4, <1>5, QuietStep

\* Push or pop of an activation that is nobody's.
LEMMA UnownedMoves ==
    ASSUME ResumerInv
    PROVE  /\ stack \in Seq(Activations) /\ \A c : Stays(stack, stack, c)
           /\ \A e \in Activations : (\A c : e \notin ActsOf(c)) =>
                /\ Append(stack, e) \in Seq(Activations)
                /\ \A c : Stays(stack, Append(stack, e), c)
           /\ stack # <<>> /\ Last(stack).kind \notin {"gen_body", "await_return", "module"} =>
                /\ Front(stack) \in Seq(Activations) /\ Last(stack) \in Activations
                /\ \A c : Stays(stack, Front(stack), c)
<1>1. stack \in Seq(Activations)
    BY DEF ResumerInv, LoopTyped
<1>2. ASSUME stack # <<>>, Last(stack).kind \notin {"gen_body", "await_return", "module"}
      PROVE  /\ Front(stack) \in Seq(Activations) /\ Last(stack) \in Activations
             /\ \A c : Stays(stack, Front(stack), c)
  <2>1. /\ Front(stack) \in Seq(Activations) /\ Last(stack) \in Activations
        /\ \A c : Last(stack) \notin ActsOf(c) => Stays(stack, Front(stack), c)
      BY <1>1, <1>2, PopPlaces
  <2>2. QED
      BY <1>2, <2>1, Owners
<1>3. ASSUME NEW e \in Activations, \A c : e \notin ActsOf(c)
      PROVE  /\ Append(stack, e) \in Seq(Activations)
             /\ \A c : Stays(stack, Append(stack, e), c)
    BY <1>1, <1>3, PushPlaces
<1>4. \A c : Stays(stack, stack, c)
    BY DEF Stays
<1>5. QED
    BY <1>1, <1>2, <1>3, <1>4

LEMMA LoopKeepsPlaces ==
    ASSUME ResumerInv, UNCHANGED <<genVars, moduleVars>>,
           \/ DrainEnds \/ RunReaction \/ HostDrains \/ ClearTermination \/ Terminate
           \/ \E s \in {"fulfilled", "rejected"} : RunWasmJob(s)
           \/ \E h \in HostPromises : InstantiateWasm(h)
           \/ \E h \in HostPromises, s \in {"fulfilled", "rejected"} : SettleHost(h, s)
    PROVE  ResumerInv'
<1>1. /\ stack \in Seq(Activations) /\ microtask_queue \in Seq(Jobs)
      /\ wasm_instantiation_jobs \in Seq(Hosts) /\ termination \in BOOLEAN
    BY DEF ResumerInv, LoopTyped
<1>2. \A c \in Coroutines :
        Follows(microtask_queue, waiters, awaiting_return_completion,
                microtask_queue, waiters, awaiting_return_completion, c)
    BY SamePlaces
<1>3. CASE DrainEnds
  <2>1. /\ stack # <<>> /\ Last(stack).kind = "drain" /\ stack' = Front(stack)
        /\ UNCHANGED <<promiseVars, microtask_queue, wasm_instantiation_jobs, termination>>
      BY <1>3 DEF DrainEnds, TopIs, Top, Leave, Pop, jobVars
  <2>2. QED
      BY <1>1, <2>1, UnownedMoves, IdleStep
<1>4. CASE HostDrains
  <2>1. /\ stack' = Append(stack, Drain)
        /\ UNCHANGED <<promiseVars, microtask_queue, wasm_instantiation_jobs, termination>>
      BY <1>4 DEF HostDrains, Push, jobVars
  <2>2. QED
      BY <1>1, <2>1, UnownedMoves, ActOwners, IdleStep
<1>5. CASE ClearTermination \/ Terminate
  <2>1. /\ stack' = stack /\ termination' \in BOOLEAN
        /\ UNCHANGED <<promiseVars, microtask_queue, wasm_instantiation_jobs>>
      BY <1>5 DEF ClearTermination, Terminate, jobVars
  <2>2. QED
      BY <1>1, <2>1, UnownedMoves, IdleStep
<1>6. ASSUME NEW h \in HostPromises, InstantiateWasm(h) PROVE ResumerInv'
  <2>1. /\ wasm_instantiation_jobs' = Append(wasm_instantiation_jobs, <<"host", h>>)
        /\ UNCHANGED <<promiseVars, microtask_queue, termination, stack>>
        /\ <<"host", h>> \in Hosts
      BY <1>6 DEF InstantiateWasm, Hosts
  <2>2. wasm_instantiation_jobs' \in Seq(Hosts)
      BY <1>1, <2>1, AppendProperties
  <2>3. QED
      BY <1>1, <2>1, <2>2, UnownedMoves, IdleStep
<1>7. ASSUME NEW h \in HostPromises, NEW s \in {"fulfilled", "rejected"}, SettleHost(h, s)
      PROVE  ResumerInv'
  <2>1. /\ settlePromise(microtask_queue, <<"host", h>>, s)
        /\ UNCHANGED <<wasm_instantiation_jobs, termination, stack>>
        /\ <<"host", h>> \in Hosts
      BY <1>7 DEF SettleHost, Hosts
  <2>2. QED
      BY <1>1, <1>2, <2>1, UnownedMoves, SettleStep
<1>8. ASSUME NEW s \in {"fulfilled", "rejected"}, RunWasmJob(s) PROVE ResumerInv'
  <2>1. /\ settlePromise(microtask_queue, Head(wasm_instantiation_jobs), s)
        /\ wasm_instantiation_jobs # <<>>
        /\ wasm_instantiation_jobs' = Tail(wasm_instantiation_jobs)
        /\ UNCHANGED <<termination, stack>>
      BY <1>8 DEF RunWasmJob
  <2>2. Head(wasm_instantiation_jobs) \in Hosts /\ wasm_instantiation_jobs' \in Seq(Hosts)
      BY <1>1, <2>1, HeadTailProperties
  <2>3. QED
      BY <1>1, <1>2, <2>1, <2>2, UnownedMoves, SettleStep
<1>9. CASE RunReaction
  <2> DEFINE v == IF Taken.throws THEN "rejected" ELSE "fulfilled"
  <2>1. /\ TakesTask("promise_reaction")
        /\ settlePromise(Rest, Taken.promise, v)
        /\ UNCHANGED <<wasm_instantiation_jobs, termination, stack>>
      BY <1>9 DEF RunReaction
  <2>2. v \in {"fulfilled", "rejected"}
      OBVIOUS
  <2> HIDE DEF v
  <2>3. Taken.promise \in ImportPromises /\ \A c : Taken \notin TasksOf(c)
      BY <2>1, TaskTaken, JobFields, Owners
  <2>4. /\ Rest \in Seq(Jobs)
        /\ \A c \in Coroutines : Follows(microtask_queue, waiters, awaiting_return_completion,
                                         Rest, waiters, awaiting_return_completion, c)
      BY <2>1, <2>3, TaskTaken
  <2>5. QED
      BY <1>1, <2>1, <2>2, <2>3, <2>4, UnownedMoves, SettleStep
<1>10. QED
    BY <1>3, <1>4, <1>5, <1>6, <1>7, <1>8, <1>9

\* The drain of a generator's queue returns.
LEMMA ResumeNextReturnsKeepsPlaces ==
    ASSUME ResumerInv, NEW g \in Gens, ResumeNextReturns(g),
           UNCHANGED <<wasm_instantiation_jobs, termination, moduleVars>>
    PROVE  ResumerInv'
<1>1. /\ stack # <<>> /\ Last(stack).kind = "resume_next" /\ stack' = Front(stack)
      /\ UNCHANGED <<promiseVars, microtask_queue, genVars>>
    BY DEF ResumeNextReturns, TopIs, Top, Leave, Pop
<1>2. wasm_instantiation_jobs \in Seq(Hosts) /\ termination \in BOOLEAN
    BY DEF ResumerInv, LoopTyped
<1>3. QED
    BY <1>1, <1>2, UnownedMoves, IdleStep
-----------------------------------------------------------------------------
(* The steps of the modules.                                               *)

States == {"absent", "evaluating", "evaluating_async", "evaluated", "errored"}

LEMMA ModuleActs ==
    ASSUME NEW m \in Modules, NEW x \in {"importing", "linking", "body"}, NEW b \in BOOLEAN
    PROVE  Activation(m, 1, x, b) \in Activations /\ Activation(m, 1, x, b) \in ActsOf(m)
<1>1. Activation(m, 1, x, b) \in Activations
    BY DEF Activation, Activations
<1>2. QED
    BY <1>1 DEF Activation, ActsOf

\* A module enters the cache: it was in nobody's way.
LEMMA StartLoadKeepsPlaces ==
    ASSUME ResumerInv, NEW m \in Modules, StartLoad(m),
           UNCHANGED <<genVars, wasm_instantiation_jobs, termination>>
    PROVE  ResumerInv'
<1>1. /\ module_state[m] = "absent" /\ ~Settled(Evaluation(m))
      /\ UNCHANGED <<promiseVars, microtask_queue, graph, pending_async_deps, imports>>
    BY ModTypes DEF StartLoad
<1>2. AtRest(microtask_queue, waiters, stack, m) /\ m \in Coroutines
    BY <1>1, ModTypes DEF ModPlace, ModPlaced, Open, Coroutines
<1>3. stack \in Seq(Activations) /\ microtask_queue \in Seq(Jobs)
    BY DEF ResumerInv, LoopTyped
<1>4. Freed(m, microtask_queue, stack)
    BY <1>2, <1>3, SamePlaces DEF Freed, Stays
<1>5. \A d \in Modules : Settled(Evaluation(d))' <=> Settled(Evaluation(d))
    BY <1>1 DEF promiseVars, Settled, Evaluation
<1>6. \/ module_state' = [module_state EXCEPT ![m] = "errored"] /\ stack' = stack
      \/ /\ module_state' = [module_state EXCEPT ![m] = "evaluating"]
         /\ stack' = Append(stack, Activation(m, 1, "importing", TRUE))
    BY DEF StartLoad, Push
<1>7. /\ module_state' \in [Modules -> States] /\ module_state'[m] \in {"errored", "evaluating"}
      /\ \A d \in Modules \ {m} : module_state'[d] = module_state[d]
    BY <1>6 DEF ResumerInv, ModTyped, States
<1>8. ModTyped'
    BY <1>1, <1>5, <1>7 DEF ResumerInv, ModTyped, States
<1>9. \A d \in Modules \ {m} : /\ Open(d)' <=> Open(d)
                               /\ Open(d) => module_state'[d] = module_state[d]
    BY <1>5, <1>7 DEF Open
<1>10. PromisesTyped'
    BY <1>1 DEF promiseVars, ResumerInv, LoopTyped, PromisesTyped, SettledAreClear, Settled
<1>11. CASE module_state' = [module_state EXCEPT ![m] = "errored"] /\ stack' = stack
  <2>1. ~Open(m)'
      BY <1>11 DEF ResumerInv, ModTyped, Open
  <2>2. ModPlace(m)'
      BY <1>1, <1>2, <1>11, <2>1 DEF ModPlace, ModPlaced, promiseVars
  <2>3. \A d \in Coroutines \ {m} : Carries(d)
      BY <1>1, <1>4, <1>11, SamePlaces DEF Carries, promiseVars, Stays
  <2>4. LoopTyped'
      BY <1>1, <1>3, <1>10, <1>11 DEF ResumerInv, LoopTyped
  <2>5. QED
      BY <1>8, <1>9, <2>2, <2>3, <2>4, ModStep
<1>12. CASE /\ module_state' = [module_state EXCEPT ![m] = "evaluating"]
            /\ stack' = Append(stack, Activation(m, 1, "importing", TRUE))
  <2> DEFINE e == Activation(m, 1, "importing", TRUE)
  <2>1. e \in ActsOf(m) /\ e \in Activations /\ e.first = TRUE
    <3>1. e \in Activations /\ e \in ActsOf(m)
        BY ModuleActs
    <3>2. e.first = TRUE
        BY DEF Activation
    <3>3. QED
        BY <3>1, <3>2
  <2>2. module_state'[m] = "evaluating" /\ Open(m)'
      BY <1>1, <1>5, <1>12 DEF ResumerInv, ModTyped, Open
  <2> HIDE DEF e
  <2>3. /\ microtask_queue' \in Seq(Jobs) /\ stack' \in Seq(Activations)
        /\ OnStack(microtask_queue', waiters', stack', m, e)
        /\ \A d \in Coroutines \ {m} : Carries(d)
      BY <1>1, <1>2, <1>4, <1>12, <2>1, FreedToStack DEF promiseVars, e
  <2>4. ModPlace(m)'
      BY <2>1, <2>2, <2>3 DEF ModPlace, ModPlaced
  <2>5. LoopTyped'
      BY <1>10, <2>3 DEF ResumerInv, LoopTyped
  <2>6. QED
      BY <1>8, <1>9, <2>3, <2>4, <2>5, ModStep
<1>13. QED
    BY <1>6, <1>11, <1>12

\* The body on top goes on, as the same activation.
LEMMA GoesOnStep ==
    ASSUME ResumerInv, NEW m \in Modules, AtModule(m),
           NEW e \in ActsOf(m), e.first = Top.first,
           \/ stack' = Append(Front(stack), e)
           \/ stack' = Append(Append(Front(stack), e), Drain),
           pending_async_deps' \in [Modules -> Seq(Modules)],
           UNCHANGED <<promiseVars, microtask_queue, graph, module_state, imports, genVars,
                       wasm_instantiation_jobs, termination>>
    PROVE  ResumerInv'
<1>1. /\ Freed(m, microtask_queue, Front(stack)) /\ Open(m) /\ m \in Coroutines
      /\ module_state[m] = IF e.first THEN "evaluating" ELSE "evaluating_async"
      /\ e \in Activations
    BY ModOnTop DEF Coroutines, ActsOf
<1>2. /\ microtask_queue' \in Seq(Jobs) /\ stack' \in Seq(Activations)
      /\ OnStack(microtask_queue', waiters', stack', m, e)
      /\ \A d \in Coroutines \ {m} : Carries(d)
    BY <1>1, FreedToStack DEF promiseVars
<1>3. /\ \A d \in Modules : Settled(Evaluation(d))' <=> Settled(Evaluation(d))
      /\ PromisesTyped'
    BY DEF promiseVars, Settled, Evaluation, ResumerInv, LoopTyped, PromisesTyped, SettledAreClear
<1>4. \A d \in Modules : Open(d)' <=> Open(d)
    BY <1>3 DEF Open
<1>5. ModPlace(m)'
    BY <1>1, <1>2, <1>4 DEF ModPlace, ModPlaced
<1>6. ModTyped' /\ LoopTyped'
    BY <1>2, <1>3 DEF ResumerInv, ModTyped, LoopTyped
<1>7. QED
    BY <1>2, <1>4, <1>5, <1>6, ModStep

\* Validation turns evaluated modules into errored ones.
LEMMA ValidatedStates ==
    ASSUME NEW state \in [Modules -> States], NEW queue
    PROVE  /\ Validated(state, queue) \in [Modules -> States]
           /\ \A d \in Modules :
                \/ Validated(state, queue)[d] = state[d]
                \/ state[d] = "evaluated" /\ Validated(state, queue)[d] = "errored"
<1>1. CASE Depth > 1
    BY <1>1 DEF Validated
<1>2. CASE ~(Depth > 1)
    BY <1>2 DEF Validated, States
<1>3. QED
    BY <1>1, <1>2

LEMMA ListTypes ==
    ASSUME ResumerInv, NEW m \in Modules
    PROVE  /\ Unlinked \in [Modules -> Seq(Modules)]
           /\ Recorded(m) \in [Modules -> Seq(Modules)]
<1>1. pending_async_deps \in [Modules -> Seq(Modules)] /\ <<>> \in Seq(Modules)
    BY EmptySeq DEF ResumerInv, ModTyped
<1>2. Unlinked \in [Modules -> Seq(Modules)]
    BY <1>1 DEF Unlinked
<1>3. \A u \in [Modules -> Seq(Modules)] : \A x :
        [u EXCEPT ![x] = Append(@, m)] \in [Modules -> Seq(Modules)]
    BY AppendProperties
<1>4. QED
    BY <1>2, <1>3 DEF Recorded

\* What the end or the suspension of an async body does to the states.
LEMMA AsyncLoadStates ==
    ASSUME ResumerInv, NEW m \in Modules, AtModule(m), AsyncLoadReturns(m)
    PROVE  /\ module_state' \in [Modules -> States]
           /\ module_state'[m] = "evaluating_async"
           /\ \A d \in Modules \ {m} :
                \/ module_state'[d] = module_state[d]
                \/ module_state[d] = "evaluated" /\ module_state'[d] = "errored"
           /\ pending_async_deps' \in [Modules -> Seq(Modules)]
<1>1. module_state \in [Modules -> States] /\ pending_async_deps \in [Modules -> Seq(Modules)]
    BY DEF ResumerInv, ModTyped, States
<1>2. CASE Top.first
  <2> DEFINE s == [module_state EXCEPT ![m] = "evaluating_async"]
  <2>1. /\ s \in [Modules -> States] /\ s[m] = "evaluating_async"
        /\ \A d \in Modules \ {m} : s[d] = module_state[d]
      BY <1>1 DEF States
  <2>2. module_state' = Validated(s, pending_indirect_export_validation)
        /\ pending_async_deps' = Recorded(m)
      BY <1>2 DEF AsyncLoadReturns, LoadReturns
  <2> HIDE DEF s
  <2> DEFINE v == Validated(s, pending_indirect_export_validation)
  <2>3. /\ v \in [Modules -> States]
        /\ \A d \in Modules : v[d] = s[d] \/ (s[d] = "evaluated" /\ v[d] = "errored")
      BY <2>1, ValidatedStates
  <2>4. Recorded(m) \in [Modules -> Seq(Modules)]
      BY ListTypes
  <2>5. module_state' = v
      BY <2>2
  <2> HIDE DEF v
  <2>6. QED
      BY <2>1, <2>2, <2>3, <2>4, <2>5
<1>3. CASE ~Top.first
  <2>1. UNCHANGED <<module_state, pending_async_deps>>
      BY <1>3 DEF AsyncLoadReturns
  <2>2. module_state[m] = "evaluating_async"
      BY <1>3, ModOnTop
  <2>3. QED
      BY <1>1, <2>1, <2>2
<1>4. QED
    BY <1>2, <1>3
\* A module that is done with, and its promise settled or left alone.
LEMMA EndStep ==
    ASSUME ResumerInv, NEW m \in Modules, NEW q, NEW s, Freed(m, q, s),
           \/ \E v \in {"fulfilled", "rejected"} : settlePromise(q, Evaluation(m), v)
           \/ /\ UNCHANGED promiseVars /\ microtask_queue' = q
              /\ module_state'[m] \in {"evaluated", "errored"},
           stack' = s,
           module_state' \in [Modules -> States], module_state'[m] # "absent",
           \A d \in Modules \ {m} :
             \/ module_state'[d] = module_state[d]
             \/ module_state[d] = "evaluated" /\ module_state'[d] = "errored",
           pending_async_deps' \in [Modules -> Seq(Modules)],
           UNCHANGED <<graph, imports, genVars, wasm_instantiation_jobs, termination>>
    PROVE  ResumerInv'
<1>1. PromisesTyped /\ Evaluation(m) \in Promises /\ m \in Coroutines
    BY ModTypes DEF ResumerInv, LoopTyped, Coroutines
<1>2. /\ PromisesTyped'
      /\ microtask_queue' \in Seq(Jobs) /\ stack' \in Seq(Activations)
      /\ \A r \in Promises \ {Evaluation(m)} : promise_state'[r] = promise_state[r]
      /\ ~Open(m)'
      /\ AtRest(microtask_queue', waiters', stack', m)
      /\ \A d \in Coroutines \ {m} : Carries(d)
  <2>1. CASE \E v \in {"fulfilled", "rejected"} : settlePromise(q, Evaluation(m), v)
    <3>1. PICK v \in {"fulfilled", "rejected"} : settlePromise(q, Evaluation(m), v)
        BY <2>1
    <3>2. QED
        BY <1>1, <3>1, FreedSettles DEF Open
  <2>2. CASE /\ UNCHANGED promiseVars /\ microtask_queue' = q
             /\ module_state'[m] \in {"evaluated", "errored"}
      BY <1>1, <2>2 DEF Freed, Carries, promiseVars, Open, PromisesTyped, SettledAreClear, Settled
  <2>3. QED
      BY <2>1, <2>2
<1>3. \A d \in Modules \ {m} : Settled(Evaluation(d))' <=> Settled(Evaluation(d))
    BY <1>2, ModTypes DEF Settled, Evaluation
<1>4. \A d \in Modules \ {m} : /\ Open(d)' <=> Open(d)
                               /\ Open(d) => module_state'[d] = module_state[d]
    BY <1>3 DEF Open
<1>5. ASSUME NEW d \in Modules, module_state'[d] = "absent" PROVE ~Settled(Evaluation(d))'
  <2>1. d # m /\ module_state[d] = "absent"
      BY <1>5
  <2>2. QED
      BY <1>3, <2>1, ModTypes
<1>6. ModTyped' /\ LoopTyped'
    BY <1>2, <1>5 DEF ResumerInv, ModTyped, LoopTyped, States
<1>7. ModPlace(m)'
    BY <1>2 DEF ModPlace, ModPlaced
<1>8. QED
    BY <1>2, <1>4, <1>6, <1>7, ModStep

LEMMA BodyEndsKeepsPlaces ==
    ASSUME ResumerInv, NEW m \in Modules, AtModule(m), NEW ok \in BOOLEAN, BodyEnds(m, ok),
           UNCHANGED <<genVars, wasm_instantiation_jobs, termination>>
    PROVE  ResumerInv'
<1>1. /\ Freed(m, microtask_queue, Front(stack))
      /\ stack' = Front(stack) /\ UNCHANGED <<graph, imports>>
    BY ModOnTop DEF BodyEnds, Leave, Pop
<1>2. CASE IsAsync(m)
  <2>1. /\ AsyncLoadReturns(m)
        /\ settlePromise(microtask_queue, Evaluation(m), IF ok THEN "fulfilled" ELSE "rejected")
      BY <1>2 DEF BodyEnds
  <2>2. \E v \in {"fulfilled", "rejected"} : settlePromise(microtask_queue, Evaluation(m), v)
      BY <2>1
  <2>3. QED
      BY <1>1, <2>1, <2>2, AsyncLoadStates, EndStep
<1>3. CASE ~IsAsync(m)
  <2> DEFINE s == [module_state EXCEPT ![m] = IF ok THEN "evaluated" ELSE "errored"]
             k == IF ok THEN Append(pending_indirect_export_validation, m)
                        ELSE pending_indirect_export_validation
             v == Validated(s, k)
  <2>1. /\ module_state' = v /\ pending_async_deps' = Unlinked
        /\ UNCHANGED promiseVars /\ microtask_queue' = microtask_queue
      BY <1>3 DEF BodyEnds, LoadReturns
  <2>2. /\ s \in [Modules -> States] /\ s[m] \in {"evaluated", "errored"}
        /\ \A d \in Modules \ {m} : s[d] = module_state[d]
      BY DEF ResumerInv, ModTyped, States
  <2> HIDE DEF s, k
  <2>3. /\ v \in [Modules -> States]
        /\ \A d \in Modules : v[d] = s[d] \/ (s[d] = "evaluated" /\ v[d] = "errored")
      BY <2>2, ValidatedStates
  <2> HIDE DEF v
  <2>4. /\ module_state' \in [Modules -> States]
        /\ module_state'[m] \in {"evaluated", "errored"}
        /\ \A d \in Modules \ {m} :
             \/ module_state'[d] = module_state[d]
             \/ module_state[d] = "evaluated" /\ module_state'[d] = "errored"
        /\ pending_async_deps' \in [Modules -> Seq(Modules)]
      BY <2>1, <2>2, <2>3, ListTypes
  <2>5. QED
      BY <1>1, <2>1, <2>4, EndStep
<1>4. QED
    BY <1>2, <1>3

\* A top-level await.
LEMMA ModuleAwaitsKeepsPlaces ==
    ASSUME ResumerInv, NEW m \in Modules, NEW p \in Awaitable, ModuleAwaits(m, p),
           UNCHANGED <<genVars, wasm_instantiation_jobs, termination>>
    PROVE  ResumerInv'
<1>1. AtModule(m) /\ awaitPromise(m, p) /\ AsyncLoadReturns(m)
      /\ stack' = Front(stack) /\ UNCHANGED <<graph, imports>>
    BY DEF ModuleAwaits, InPhase, Leave, Pop
<1>2. /\ Freed(m, microtask_queue, Front(stack)) /\ Open(m) /\ m \in Coroutines
      /\ PromisesTyped
    BY <1>1, ModOnTop DEF Coroutines, ResumerInv, LoopTyped
<1>3. /\ module_state' \in [Modules -> States]
      /\ module_state'[m] = "evaluating_async"
      /\ \A d \in Modules \ {m} :
           \/ module_state'[d] = module_state[d]
           \/ module_state[d] = "evaluated" /\ module_state'[d] = "errored"
      /\ pending_async_deps' \in [Modules -> Seq(Modules)]
    BY <1>1, AsyncLoadStates
<1>4. promise_state' = promise_state
    BY <1>1 DEF awaitPromise, promiseVars
<1>5. \A d \in Modules : Settled(Evaluation(d))' <=> Settled(Evaluation(d))
    BY <1>4 DEF Settled, Evaluation
<1>6. Open(m)' /\ \A d \in Modules \ {m} : /\ Open(d)' <=> Open(d)
                                           /\ Open(d) => module_state'[d] = module_state[d]
    BY <1>2, <1>3, <1>5 DEF Open
<1>7. p \in Hosts \cup ImportPromises
  <2>1. DOMAIN imports \subseteq Imports
    <3>1. imports \in Seq(Modules) /\ Len(imports) <= MaxImports
        BY DEF ResumerInv, ModTyped
    <3>2. DOMAIN imports = 1 .. Len(imports) /\ Len(imports) \in Nat
        BY <3>1, LenProperties
    <3>3. QED
        BY <3>1, <3>2, BoundsAssumption DEF Imports
  <2>2. QED
      BY <2>1 DEF Awaitable, Hosts, ImportPromises
<1>8. p \in Promises
    BY <1>7, TaskTypes
<1>9. /\ microtask_queue' \in Seq(Jobs) /\ stack' \in Seq(Activations)
      /\ PromisesTyped' /\ ModPlace(m)'
      /\ \A d \in Coroutines \ {m} : Carries(d)
  <2>1. CASE Settled(p)
    <3> DEFINE t == ResumeTask(m, promise_state[p] = "rejected")
    <3>1. microtask_queue' = Append(microtask_queue, t) /\ UNCHANGED promiseVars
        BY <1>1, <2>1 DEF awaitPromise, enqueue
    <3>2. t \in TasksOf(m) /\ t \in Jobs
      <4>1. (promise_state[p] = "rejected") \in BOOLEAN
          OBVIOUS
      <4>2. QED
          BY <1>2, <4>1, TaskOwners, TaskTypes
    <3> HIDE DEF t
    <3>3. /\ microtask_queue' \in Seq(Jobs) /\ stack' \in Seq(Activations)
          /\ InQueue(microtask_queue', waiters', stack', m, t)
          /\ \A d \in Coroutines \ {m} : Carries(d)
        BY <1>1, <1>2, <3>1, <3>2, FreedToQueue DEF promiseVars
    <3>4. ModPlace(m)'
        BY <1>3, <1>6, <3>2, <3>3 DEF ModPlace, ModPlaced
    <3>5. PromisesTyped'
        BY <1>2, <3>1 DEF promiseVars, PromisesTyped, SettledAreClear, Settled
    <3>6. QED
        BY <3>3, <3>4, <3>5
  <2>2. CASE ~Settled(p)
    <3>1. /\ waiters' = [waiters EXCEPT ![p] = Append(@, m)]
          /\ UNCHANGED <<promise_state, reactions, awaiting_return_completion, microtask_queue>>
        BY <1>1, <2>2 DEF awaitPromise
    <3>2. /\ PromisesTyped'
          /\ microtask_queue' \in Seq(Jobs) /\ stack' \in Seq(Activations)
          /\ OnList(microtask_queue', waiters', stack', m, p)
          /\ \A d \in Coroutines \ {m} : Carries(d)
        BY <1>1, <1>2, <1>8, <2>2, <3>1, FreedToList
    <3>3. ModPlace(m)'
        BY <1>3, <1>6, <1>7, <3>2 DEF ModPlace, ModPlaced
    <3>4. QED
        BY <3>2, <3>3
  <2>3. QED
      BY <2>1, <2>2
<1>10. ModTyped' /\ LoopTyped'
  <2>1. ASSUME NEW d \in Modules, module_state'[d] = "absent" PROVE ~Settled(Evaluation(d))'
    <3>1. module_state[d] = "absent"
        BY <1>3, <2>1
    <3>2. QED
        BY <1>5, <3>1, ModTypes
  <2>2. QED
      BY <1>1, <1>3, <1>9, <2>1 DEF ResumerInv, ModTyped, LoopTyped, States
<1>11. QED
    BY <1>6, <1>9, <1>10, ModStep

LEMMA RunResumeModuleKeepsPlaces ==
    ASSUME ResumerInv, RunResumeModule,
           UNCHANGED <<genVars, wasm_instantiation_jobs, termination>>
    PROVE  ResumerInv'
<1>1. PICK m \in Modules : m = Taken.who /\ TakesTask("async_resume") /\ UNCHANGED moduleVars
    BY DEF RunResumeModule
<1>2. /\ Freed(m, Rest, stack) /\ Open(m) /\ module_state[m] = "evaluating_async"
      /\ m \in Coroutines
    BY <1>1, ModTaken DEF Coroutines
<1>3. \/ /\ stack' = Append(stack, Activation(m, 1, "body", FALSE))
         /\ microtask_queue' = Rest /\ UNCHANGED promiseVars
      \/ settlePromise(Rest, Evaluation(m), "rejected") /\ stack' = stack
    BY <1>1 DEF RunResumeModule, Push
<1>4. /\ module_state' = module_state /\ UNCHANGED <<graph, imports, pending_async_deps>>
      /\ module_state \in [Modules -> States]
      /\ pending_async_deps \in [Modules -> Seq(Modules)]
    BY <1>1 DEF moduleVars, ResumerInv, ModTyped, States
<1>5. CASE settlePromise(Rest, Evaluation(m), "rejected") /\ stack' = stack
    BY <1>1, <1>2, <1>4, <1>5, EndStep
<1>6. CASE /\ stack' = Append(stack, Activation(m, 1, "body", FALSE))
           /\ microtask_queue' = Rest /\ UNCHANGED promiseVars
  <2> DEFINE e == Activation(m, 1, "body", FALSE)
  <2>1. e \in ActsOf(m) /\ e \in Activations
      BY ModuleActs
  <2>2. e.first = FALSE
      BY DEF Activation
  <2>3. stack' = Append(stack, e)
      BY <1>6
  <2> HIDE DEF e
  <2>4. /\ microtask_queue' \in Seq(Jobs) /\ stack' \in Seq(Activations)
        /\ OnStack(microtask_queue', waiters', stack', m, e)
        /\ \A d \in Coroutines \ {m} : Carries(d)
      BY <1>2, <1>6, <2>1, <2>3, FreedToStack DEF promiseVars
  <2>5. /\ \A d \in Modules : Settled(Evaluation(d))' <=> Settled(Evaluation(d))
        /\ PromisesTyped'
      BY <1>6 DEF promiseVars, Settled, Evaluation, ResumerInv, LoopTyped, PromisesTyped, SettledAreClear
  <2>6. \A d \in Modules : Open(d)' <=> Open(d)
      BY <1>4, <2>5 DEF Open
  <2>7. ModPlace(m)'
      BY <1>1, <1>2, <1>4, <2>1, <2>2, <2>4, <2>6 DEF ModPlace, ModPlaced
  <2>8. ModTyped' /\ LoopTyped'
      BY <1>4, <2>4, <2>5 DEF ResumerInv, ModTyped, LoopTyped, States
  <2>9. QED
      BY <1>1, <1>4, <2>4, <2>6, <2>7, <2>8, ModStep
<1>7. QED
    BY <1>3, <1>5, <1>6
\* A body on top that imports, drains, begins or ends.
LEMMA BodiesKeepPlaces ==
    ASSUME ResumerInv, NEW m \in Modules,
           \/ ImportNext(m) \/ LoadDep(m) \/ ImportThrows(m)
           \/ LinkDrains(m) \/ LinkThrows(m) \/ EnterBody(m)
           \/ BodyCompletes(m) \/ ModuleThrows(m),
           UNCHANGED <<genVars, wasm_instantiation_jobs, termination>>
    PROVE  ResumerInv'
<1>1. AtModule(m) /\ Top.kind = "module" /\ Top.module = m
    BY DEF ImportNext, LoadDep, HasNextDep, ImportThrows, LinkDrains, LinkThrows, EnterBody,
           BodyCompletes, ModuleThrows, InPhase, AtModule, TopIs
<1>2. Top \in Activations /\ Top.next \in Nat \ {0}
    BY <1>1, ModOnTop, ActFields
<1>3. /\ [Top EXCEPT !.next = @ + 1] \in ActsOf(m)
      /\ [Top EXCEPT !.next = @ + 1].first = Top.first
      /\ \A x \in {"linking", "body"} : /\ [Top EXCEPT !.phase = x] \in ActsOf(m)
                                        /\ [Top EXCEPT !.phase = x].first = Top.first
  <2>1. Top \in [kind : {"module"}, module : Modules, next : Nat \ {0},
                 phase : {"importing", "linking", "body"}, first : BOOLEAN]
      BY <1>1, <1>2 DEF Activations, Drain
  <2>2. [Top EXCEPT !.next = @ + 1] \in Activations
      BY <1>2, <2>1 DEF Activations
  <2>3. \A x \in {"linking", "body"} : [Top EXCEPT !.phase = x] \in Activations
      BY <2>1 DEF Activations
  <2>4. QED
      BY <1>1, <2>1, <2>2, <2>3 DEF ActsOf
<1>4. pending_async_deps \in [Modules -> Seq(Modules)]
      /\ Unlinked \in [Modules -> Seq(Modules)]
    BY ListTypes DEF ResumerInv, ModTyped
<1>5. CASE ImportNext(m)
  <2>1. /\ stack' = Append(Front(stack), [Top EXCEPT !.next = @ + 1])
        /\ UNCHANGED <<promiseVars, microtask_queue, moduleVars>>
      BY <1>5 DEF ImportNext, Become, Pop
  <2>2. QED
      BY <1>1, <1>3, <1>4, <2>1, GoesOnStep DEF moduleVars
<1>6. CASE EnterBody(m)
  <2>1. /\ stack' = Append(Front(stack), [Top EXCEPT !.phase = "body"])
        /\ pending_async_deps' = Unlinked
        /\ UNCHANGED <<promiseVars, microtask_queue, graph, module_state, imports>>
      BY <1>6 DEF EnterBody, Become, Pop
  <2>2. QED
      BY <1>1, <1>3, <1>4, <2>1, GoesOnStep
<1>7. CASE LinkDrains(m)
  <2>1. /\ stack' = Append(Append(Front(stack), [Top EXCEPT !.phase = "linking"]), Drain)
        /\ UNCHANGED <<promiseVars, microtask_queue, moduleVars>>
      BY <1>7 DEF LinkDrains, Pop
  <2>2. QED
      BY <1>1, <1>3, <1>4, <2>1, GoesOnStep DEF moduleVars
<1>8. CASE LoadDep(m)
  <2>1. NextDep(m) \in Modules
    <3>1. Deps(m) \in Seq(Modules) /\ Top.next <= Len(Deps(m))
        BY <1>8, ModTypes DEF LoadDep, HasNextDep
    <3>2. Len(Deps(m)) \in Nat
        BY <3>1, LenProperties
    <3>3. Top.next \in 1 .. Len(Deps(m))
        BY <1>2, <3>1, <3>2
    <3>4. QED
        BY <3>1, <3>3, ElementOfSeq DEF NextDep
  <2>2. QED
      BY <1>8, <2>1, StartLoadKeepsPlaces DEF LoadDep
<1>9. CASE ImportThrows(m) \/ LinkThrows(m) \/ BodyCompletes(m) \/ ModuleThrows(m)
  <2>1. \E ok \in BOOLEAN : BodyEnds(m, ok)
      BY <1>9 DEF ImportThrows, LinkThrows, BodyCompletes, ModuleThrows
  <2>2. QED
      BY <1>1, <2>1, BodyEndsKeepsPlaces
<1>10. QED
    BY <1>5, <1>6, <1>7, <1>8, <1>9

\* Nobody moves but by what the queue does, and the modules keep their states.
LEMMA QueueStep ==
    ASSUME ResumerInv, PromisesTyped', promise_state' = promise_state,
           UNCHANGED <<waiters, awaiting_return_completion>>,
           microtask_queue' \in Seq(Jobs), stack' \in Seq(Activations),
           \A c : /\ Follows(microtask_queue, waiters, awaiting_return_completion,
                             microtask_queue', waiters, awaiting_return_completion, c)
                  /\ Stays(stack, stack', c),
           imports' \in Seq(Modules), Len(imports') <= MaxImports,
           UNCHANGED <<graph, module_state, pending_async_deps, genVars,
                       wasm_instantiation_jobs, termination>>
    PROVE  ResumerInv'
<1>1. \A d \in Modules : Settled(Evaluation(d))' <=> Settled(Evaluation(d))
    BY DEF Settled, Evaluation
<1>2. \A d \in Modules : Open(d)' <=> Open(d)
    BY <1>1 DEF Open
<1>3. ModTyped' /\ LoopTyped'
    BY <1>1 DEF ResumerInv, ModTyped, LoopTyped
<1>4. \A c \in Coroutines : Carries(c)
    BY DEF Carries
<1>5. QED
    BY <1>2, <1>3, <1>4, QuietStep

LEMMA ImportsKeepPlaces ==
    ASSUME ResumerInv,
           \/ \E m \in Modules : DynamicImport(m)
           \/ RunImportTask \/ ImportLoads \/ ImportSettles,
           UNCHANGED <<genVars, wasm_instantiation_jobs, termination>>
    PROVE  ResumerInv'
<1>1. /\ stack \in Seq(Activations) /\ microtask_queue \in Seq(Jobs)
      /\ wasm_instantiation_jobs \in Seq(Hosts) /\ termination \in BOOLEAN
      /\ PromisesTyped
      /\ imports \in Seq(Modules) /\ Len(imports) <= MaxImports /\ Len(imports) \in Nat
    BY LenProperties DEF ResumerInv, LoopTyped, ModTyped
<1>2. UNCHANGED promiseVars => PromisesTyped'
    BY <1>1 DEF promiseVars, PromisesTyped, SettledAreClear, Settled
<1>3. \A t \in Jobs : (\A c : t \notin TasksOf(c)) =>
        /\ Append(microtask_queue, t) \in Seq(Jobs)
        /\ \A c : Follows(microtask_queue, waiters, awaiting_return_completion,
                          Append(microtask_queue, t), waiters, awaiting_return_completion, c)
    BY <1>1, EnqueuePlaces
<1>4. ASSUME NEW m \in Modules, DynamicImport(m) PROVE ResumerInv'
  <2> DEFINE n == Len(imports) + 1
  <2>1. /\ Len(imports) < MaxImports /\ imports' = Append(imports, m)
        /\ microtask_queue' = Append(microtask_queue, ImportTask(m, n))
        /\ UNCHANGED <<promiseVars, stack, graph, module_state, pending_async_deps>>
      BY <1>4 DEF DynamicImport, enqueue
  <2>2. n \in Imports /\ imports' \in Seq(Modules) /\ Len(imports') <= MaxImports
      BY <1>1, <2>1, AppendProperties, BoundsAssumption DEF Imports
  <2> HIDE DEF n
  <2>3. ImportTask(m, n) \in Jobs /\ \A c : ImportTask(m, n) \notin TasksOf(c)
      BY <2>2, TaskTypes, TaskOwners
  <2>4. /\ microtask_queue' \in Seq(Jobs)
        /\ \A c : Follows(microtask_queue, waiters, awaiting_return_completion,
                          microtask_queue', waiters, awaiting_return_completion, c)
      BY <1>3, <2>1, <2>3
  <2>5. stack' = stack /\ \A c : Stays(stack, stack', c)
      BY <2>1, UnownedMoves
  <2>6. QED
      BY <1>1, <1>2, <2>1, <2>2, <2>4, <2>5, QueueStep DEF promiseVars
<1>5. CASE RunImportTask
  <2>1. /\ TakesTask("module_import") /\ microtask_queue' = Rest
        /\ stack' = Append(stack, ImportJob(Taken.module, Taken.import))
        /\ UNCHANGED <<promiseVars, moduleVars>>
      BY <1>5 DEF RunImportTask, Push
  <2>2. Taken.module \in Modules /\ Taken.import \in Imports /\ \A c : Taken \notin TasksOf(c)
      BY <2>1, TaskTaken, JobFields, Owners
  <2>3. /\ Rest \in Seq(Jobs)
        /\ \A c : Follows(microtask_queue, waiters, awaiting_return_completion,
                          Rest, waiters, awaiting_return_completion, c)
      BY <2>1, <2>2, TaskTaken
  <2>4. /\ ImportJob(Taken.module, Taken.import) \in Activations
        /\ \A c : ImportJob(Taken.module, Taken.import) \notin ActsOf(c)
      BY <2>2, ActOwners
  <2>5. stack' \in Seq(Activations) /\ \A c : Stays(stack, stack', c)
      BY <2>1, <2>4, UnownedMoves
  <2>6. QED
      BY <1>1, <1>2, <2>1, <2>3, <2>5, QueueStep DEF promiseVars, moduleVars
<1>6. CASE ImportLoads
  <2>1. Top.module \in Modules
      BY <1>1, <1>6, PopPlaces, ActFields DEF ImportLoads, TopIs, Top
  <2>2. QED
      BY <1>6, <2>1, StartLoadKeepsPlaces DEF ImportLoads
<1>7. CASE ImportSettles
  <2>1. stack # <<>> /\ Top.kind = "import" /\ stack' = Front(stack) /\ UNCHANGED moduleVars
      BY <1>7 DEF ImportSettles, TopIs, Leave, Pop
  <2>2. /\ stack' \in Seq(Activations) /\ \A c : Stays(stack, stack', c)
        /\ Top \in Activations
      BY <2>1, UnownedMoves DEF Top
  <2>3. Top.module \in Modules /\ Top.import \in Imports
      BY <2>1, <2>2, ActFields
  <2> DEFINE p == <<"import", Top.import>>
             e == Evaluation(Top.module)
             v == IF module_state[Top.module] = "errored" THEN "rejected" ELSE "fulfilled"
             t == ReactionTask(p, promise_state[e] = "rejected")
  <2>4. p \in ImportPromises /\ p \in Promises /\ e \in Promises /\ v \in {"fulfilled", "rejected"}
      BY <2>3, TaskTypes, ModTypes DEF ImportPromises
  <2>5. \/ settlePromise(microtask_queue, p, v)
        \/ microtask_queue' = Append(microtask_queue, t) /\ UNCHANGED promiseVars
        \/ /\ ~Settled(e)
           /\ reactions' = [reactions EXCEPT ![e] = Append(@, p)]
           /\ UNCHANGED <<promise_state, waiters, awaiting_return_completion, microtask_queue>>
      BY <1>7 DEF ImportSettles, enqueue
  <2>6. t \in Jobs /\ \A c : t \notin TasksOf(c)
    <3>1. (promise_state[e] = "rejected") \in BOOLEAN
        OBVIOUS
    <3>2. QED
        BY <2>4, <3>1, TaskTypes, TaskOwners
  <2> HIDE DEF p, e, v, t
  <2>7. CASE settlePromise(microtask_queue, p, v)
      BY <1>1, <2>1, <2>2, <2>4, <2>7, SamePlaces, SettleStep
  <2>8. CASE microtask_queue' = Append(microtask_queue, t) /\ UNCHANGED promiseVars
      BY <1>1, <1>2, <1>3, <2>1, <2>2, <2>6, <2>8, QueueStep DEF promiseVars, moduleVars
  <2>9. CASE /\ ~Settled(e)
             /\ reactions' = [reactions EXCEPT ![e] = Append(@, p)]
             /\ UNCHANGED <<promise_state, waiters, awaiting_return_completion, microtask_queue>>
    <3>1. \A s \in Seq(ImportPromises) : Append(s, p) \in Seq(ImportPromises)
        BY <2>4, AppendProperties
    <3>2. /\ reactions' \in [Promises -> Seq(ImportPromises)]
          /\ \A r \in Promises \ {e} : reactions'[r] = reactions[r]
        BY <1>1, <2>4, <2>9, <3>1 DEF PromisesTyped
    <3>3. PromisesTyped'
        BY <1>1, <2>9, <3>2 DEF PromisesTyped, SettledAreClear, Settled
    <3>4. QED
        BY <1>1, <2>1, <2>2, <2>9, <3>3, SamePlaces, QueueStep DEF moduleVars
  <2>10. QED
      BY <2>5, <2>7, <2>8, <2>9
<1>8. QED
    BY <1>4, <1>5, <1>6, <1>7

-----------------------------------------------------------------------------
\* A coroutine that runs or waits is in one place, with what it needs there,
\* and an idle one in none, however the steps of all of them interleave.
THEOREM ResumerInvariance == Spec => []ResumerInv
<1>1. Init => ResumerInv
  <2> SUFFICES ASSUME Init PROVE ResumerInv
      OBVIOUS
  <2>1. \A S : <<>> \in Seq(S)
      BY EmptySeq
  <2>2. DOMAIN <<>> = {} /\ Len(<<>>) = 0
      BY EmptySeq, LenProperties
  <2>3. \A c : AtRest(microtask_queue, waiters, stack, c)
      BY <2>2 DEF Init, LoopInit, AtRest, NoTask, NoWait, NoAct, Nowhere
  <2>4. LoopTyped
      BY <2>1 DEF Init, LoopInit, LoopTyped, PromisesTyped, SettledAreClear, Settled
  <2>5. NewGen \in GenRecords /\ Agree(NewGen) /\ NewGen.async_state = "suspended_start"
      BY <2>1 DEF NewGen, GenRecords, Agree
  <2>6. GenTyped
      BY <2>1, <2>5 DEF Init, GenInit, GenTyped
  <2>7. ModTyped
    <3>1. graph.deps \in [Modules -> Seq(Modules)]
        BY WorkloadsAssumption DEF Init
    <3>2. \A m \in Modules : ~Settled(Evaluation(m))
        BY DEF Init, LoopInit, Settled, Evaluation, Promises
    <3>3. 0 <= MaxImports
        BY BoundsAssumption
    <3>4. QED
        BY <2>1, <2>2, <3>1, <3>2, <3>3 DEF Init, ModuleInit, ModTyped
  <2>8. GensPlaced
      BY <2>3, <2>5 DEF Init, GenInit, GensPlaced, GenPlaced
  <2>9. \A m \in Modules : ~Open(m)
      BY DEF Init, ModuleInit, Open
  <2>10. ModsPlaced
      BY <2>3, <2>9 DEF ModsPlaced, ModPlaced
  <2>11. QED
      BY <2>4, <2>6, <2>7, <2>8, <2>10 DEF ResumerInv
<1>2. ResumerInv /\ [Next]_vars => ResumerInv'
  <2> SUFFICES ASSUME ResumerInv, [Next]_vars
               PROVE  ResumerInv'
      OBVIOUS
  <2>1. CASE Proceed
    <3>1. ASSUME NEW g \in Gens, GenRunsOn(g),
                 UNCHANGED <<wasm_instantiation_jobs, termination, moduleVars>>
          PROVE  ResumerInv'
        BY <3>1, ResumeNextReturnsKeepsPlaces, DrainKeepsPlaces, AwaitReturnKeepsPlaces,
           BodyKeepsPlaces DEF GenRunsOn
    <3>2. CASE GenSteps /\ UNCHANGED <<wasm_instantiation_jobs, termination, budget, moduleVars>>
        BY <3>1, <3>2, GenTaskKeepsPlaces DEF GenSteps
    <3>3. CASE ModuleSteps /\ UNCHANGED <<wasm_instantiation_jobs, termination, budget, genVars>>
        BY <3>3, BodiesKeepPlaces, RunResumeModuleKeepsPlaces, ImportsKeepPlaces DEF ModuleSteps
    <3>4. CASE /\ UNCHANGED <<genVars, moduleVars>>
               /\ DrainEnds \/ RunReaction \/ \E s \in {"fulfilled", "rejected"} : RunWasmJob(s)
        BY <3>4, LoopKeepsPlaces
    <3>5. QED
        BY <2>1, <3>2, <3>3, <3>4 DEF Proceed
  <2>2. CASE Script
    <3>1. ASSUME NEW g \in Gens, NEW k \in Kinds, asyncGenDispatch(g, k), UNCHANGED moduleVars
          PROVE  ResumerInv'
        BY <3>1, DispatchKeepsPlaces
    <3>2. ASSUME NEW g \in Gens, GenAwaits(g),
                 UNCHANGED <<wasm_instantiation_jobs, termination, moduleVars>>
          PROVE  ResumerInv'
        BY <3>2, BodyKeepsPlaces
    <3>3. ASSUME NEW m \in Modules,
                 UNCHANGED <<wasm_instantiation_jobs, termination, genVars>>,
                 DynamicImport(m) \/ HostLoads(m) \/ \E p \in Awaitable : ModuleAwaits(m, p)
          PROVE  ResumerInv'
        BY <3>3, ImportsKeepPlaces, StartLoadKeepsPlaces, ModuleAwaitsKeepsPlaces DEF HostLoads
    <3>4. ASSUME NEW h \in HostPromises, InstantiateWasm(h), UNCHANGED <<genVars, moduleVars>>
          PROVE  ResumerInv'
        BY <3>4, LoopKeepsPlaces
    <3>5. QED
        BY <2>2, <3>1, <3>2, <3>3, <3>4 DEF Script, Kinds
  <2>3. CASE \E h \in HostPromises : HostSettles(h)
      BY <2>3, LoopKeepsPlaces DEF HostSettles
  <2>4. CASE HostGoesOn \/ (Terminate /\ UNCHANGED <<genVars, moduleVars>>)
      BY <2>4, LoopKeepsPlaces DEF HostGoesOn
  <2>5. CASE UNCHANGED vars
    <3>1. /\ UNCHANGED <<promiseVars, microtask_queue, genVars, moduleVars>>
          /\ UNCHANGED <<wasm_instantiation_jobs, termination, stack>>
        BY <2>5 DEF vars, loopVars, jobVars
    <3>2. wasm_instantiation_jobs \in Seq(Hosts) /\ termination \in BOOLEAN
        BY DEF ResumerInv, LoopTyped
    <3>3. QED
        BY <3>1, <3>2, UnownedMoves, IdleStep
  <2>6. QED
      BY <2>1, <2>2, <2>3, <2>4, <2>5 DEF Next
<1>3. QED
    BY <1>1, <1>2, PTL DEF Spec
\* The state has its shape.
THEOREM EventLoopTypes == Spec => []TypeOK
<1>1. ResumerInv => TypeOK
  <2> SUFFICES ASSUME ResumerInv PROVE TypeOK
      OBVIOUS
  <2>1. ImportPromises \subseteq Promises /\ Hosts \subseteq Promises /\ Jobs \subseteq Tasks
      BY TaskTypes DEF Jobs
  <2>2. /\ Seq(ImportPromises) \subseteq Seq(Promises)
        /\ Seq(Hosts) \subseteq Seq(Promises)
        /\ Seq(Jobs) \subseteq Seq(Tasks)
      BY <2>1, SeqMonotonic
  <2>3. /\ promise_state \in [Promises -> {"pending", "fulfilled", "rejected"}]
        /\ waiters \in [Promises -> Seq(Coroutines)]
        /\ reactions \in [Promises -> Seq(Promises)]
        /\ awaiting_return_completion \subseteq Gens
        /\ microtask_queue \in Seq(Tasks)
        /\ wasm_instantiation_jobs \in Seq(Promises)
        /\ termination \in BOOLEAN
      BY <2>2 DEF ResumerInv, LoopTyped, PromisesTyped
  <2>4. /\ gen \in [Gens -> GenRecords]
        /\ request \in Seq([kind : Kinds, gen : Gens, answer : Answers \cup {"open"}])
        /\ \A g \in Gens : StatesAgree(g)
      BY DEF ResumerInv, GenTyped, RequestRecords, Agree, StatesAgree
  <2>5. QED
      BY <2>3, <2>4 DEF TypeOK, ResumerInv, ModTyped
<1>2. QED
    BY <1>1, ResumerInvariance, PTL

\* Wakers counts the places.
LEMMA WakersAre ==
    ASSUME ResumerInv, NEW c \in Coroutines
    PROVE  Wakers(c) =
             {<<"task", i>> : i \in {i \in DOMAIN microtask_queue : microtask_queue[i] \in TasksOf(c)}}
             \cup {<<"waiter", p>> : p \in {p \in Promises : ~Nowhere(waiters[p], {c})}}
             \cup {<<"stack", i>> : i \in {i \in DOMAIN stack : stack[i] \in ActsOf(c)}}
<1>1. \A i \in DOMAIN microtask_queue :
        microtask_queue[i] \in TasksOf(c) <=>
          /\ microtask_queue[i].kind \in {"async_resume", "async_gen_yield",
                                          "async_gen_return_after_await"}
          /\ microtask_queue[i].who = c
  <2>1. \A i \in DOMAIN microtask_queue : microtask_queue[i] \in Jobs
      BY LenProperties, ElementOfSeq DEF ResumerInv, LoopTyped
  <2>2. QED
      BY <2>1, Owners
<1>2. \A i \in DOMAIN stack :
        stack[i] \in ActsOf(c) <=>
          \/ stack[i].kind \in {"gen_body", "await_return"} /\ stack[i].gen = c
          \/ stack[i].kind = "module" /\ stack[i].module = c
  <2>1. \A i \in DOMAIN stack : stack[i] \in Activations
      BY LenProperties, ElementOfSeq DEF ResumerInv, LoopTyped
  <2>2. QED
      BY <2>1, Owners
<1>3. \A p \in Promises : Contains(waiters[p], c) <=> ~Nowhere(waiters[p], {c})
  <2>1. \A p \in Promises : DOMAIN waiters[p] = 1 .. Len(waiters[p])
      BY LenProperties DEF ResumerInv, LoopTyped, PromisesTyped
  <2>2. QED
      BY <2>1 DEF Contains, Nowhere
<1> DEFINE T == {i \in DOMAIN microtask_queue : microtask_queue[i] \in TasksOf(c)}
           P == {p \in Promises : ~Nowhere(waiters[p], {c})}
           A == {i \in DOMAIN stack : stack[i] \in ActsOf(c)}
<1>4. /\ T = {i \in DOMAIN microtask_queue :
                microtask_queue[i].kind \in {"async_resume", "async_gen_yield",
                                             "async_gen_return_after_await"}
                /\ microtask_queue[i].who = c}
      /\ P = {p \in Promises : Contains(waiters[p], c)}
      /\ A = {i \in DOMAIN stack :
                \/ stack[i].kind \in {"gen_body", "await_return"} /\ stack[i].gen = c
                \/ stack[i].kind = "module" /\ stack[i].module = c}
    BY <1>1, <1>2, <1>3
<1> HIDE DEF T, P, A
<1>5. Wakers(c) = {<<"task", i>> : i \in T} \cup {<<"waiter", p>> : p \in P}
                    \cup {<<"stack", i>> : i \in A}
    BY <1>4 DEF Wakers
<1>6. QED
    BY <1>5 DEF T, P, A

LEMMA WakersCount ==
    ASSUME ResumerInv, NEW c \in Coroutines
    PROVE  /\ AtRest(microtask_queue, waiters, stack, c) => Cardinality(Wakers(c)) = 0
           /\ \A t : InQueue(microtask_queue, waiters, stack, c, t) => Cardinality(Wakers(c)) = 1
           /\ \A p : OnList(microtask_queue, waiters, stack, c, p) => Cardinality(Wakers(c)) = 1
           /\ \A e : OnStack(microtask_queue, waiters, stack, c, e) => Cardinality(Wakers(c)) = 1
<1> DEFINE T == {i \in DOMAIN microtask_queue : microtask_queue[i] \in TasksOf(c)}
           P == {p \in Promises : ~Nowhere(waiters[p], {c})}
           A == {i \in DOMAIN stack : stack[i] \in ActsOf(c)}
<1>1. Wakers(c) = {<<"task", i>> : i \in T} \cup {<<"waiter", p>> : p \in P}
                    \cup {<<"stack", i>> : i \in A}
    BY WakersAre
<1>2. /\ NoTask(microtask_queue, c) => T = {}
      /\ \A t : OneTask(microtask_queue, c, t) => \E k : T = {k}
    BY DEF NoTask, OneTask, Nowhere, Once
<1>3. /\ NoWait(waiters, c) => P = {}
      /\ \A p : OneWait(waiters, c, p) => P = {p}
    BY DEF NoWait, OneWait, Nowhere, Once
<1>4. /\ NoAct(stack, c) => A = {}
      /\ \A e : OneAct(stack, c, e) => \E k : A = {k}
    BY DEF NoAct, OneAct, Nowhere, Once
<1> HIDE DEF T, P, A
<1>5. Cardinality({}) = 0 /\ \A x : Cardinality({x}) = 1
    BY FS_EmptySet, FS_Singleton
<1>6. ASSUME AtRest(microtask_queue, waiters, stack, c) PROVE Wakers(c) = {}
    BY <1>1, <1>2, <1>3, <1>4, <1>6 DEF AtRest
<1>7. ASSUME NEW t, InQueue(microtask_queue, waiters, stack, c, t)
      PROVE  \E x : Wakers(c) = {x}
  <2>1. PICK k : T = {k} /\ P = {} /\ A = {}
      BY <1>2, <1>3, <1>4, <1>7 DEF InQueue
  <2>2. Wakers(c) = {<<"task", k>>}
      BY <1>1, <2>1
  <2>3. QED
      BY <2>2
<1>8. ASSUME NEW p, OnList(microtask_queue, waiters, stack, c, p)
      PROVE  \E x : Wakers(c) = {x}
  <2>1. T = {} /\ P = {p} /\ A = {}
      BY <1>2, <1>3, <1>4, <1>8 DEF OnList
  <2>2. Wakers(c) = {<<"waiter", p>>}
      BY <1>1, <2>1
  <2>3. QED
      BY <2>2
<1>9. ASSUME NEW e, OnStack(microtask_queue, waiters, stack, c, e)
      PROVE  \E x : Wakers(c) = {x}
  <2>1. PICK k : T = {} /\ P = {} /\ A = {k}
      BY <1>2, <1>3, <1>4, <1>9 DEF OnStack
  <2>2. Wakers(c) = {<<"stack", k>>}
      BY <1>1, <2>1
  <2>3. QED
      BY <2>2
<1>10. QED
    BY <1>5, <1>6, <1>7, <1>8, <1>9

\* A body that is running or parked is woken by exactly one thing, and an
\* idle one by nothing.
THEOREM OneResumerEach == Spec => []OneResumer
<1>1. ResumerInv => OneResumer
  <2> SUFFICES ASSUME ResumerInv PROVE OneResumer
      OBVIOUS
  <2>1. ASSUME NEW g \in Gens
        PROVE  Cardinality(Wakers(g)) =
                 IF gen[g].async_state \in {"executing", "suspended_await"} THEN 1 ELSE 0
    <3>1. GenPlace(g) /\ g \in Coroutines
        BY GenTypes DEF Coroutines
    <3>2. QED
        BY <3>1, WakersCount DEF GenPlace, GenPlaced
  <2>2. ASSUME NEW m \in Modules
        PROVE  Cardinality(Wakers(m)) = IF Open(m) THEN 1 ELSE 0
    <3>1. ModPlace(m) /\ m \in Coroutines
        BY ModTypes DEF Coroutines
    <3>2. QED
        BY <3>1, WakersCount DEF ModPlace, ModPlaced
  <2>3. QED
      BY <2>1, <2>2 DEF OneResumer, Open
<1>2. QED
    BY <1>1, ResumerInvariance, PTL
===============================================================================
