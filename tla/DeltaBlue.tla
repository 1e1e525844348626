------------------------------- MODULE DeltaBlue -------------------------------
(***************************************************************************)
(* bench/macros/deltablue.js: an incremental solver of constraints ordered *)
(* by strength.  Each test is the list of calls it makes on the planner;   *)
(* one call, and the propagation it starts, is one step.                   *)
(***************************************************************************)
EXTENDS Integers, SequencesExt

CONSTANT Sizes     \* the arguments of chainTest and projectionTest

VARIABLES
    graph,         \* the planner's mark, the variables and the constraints
    calls,         \* what the tests have still to do
    plan,          \* the plan of the edit in force
    alerts,        \* what has been reported by alert
    retracted      \* a constraint of this planner has been destroyed

deltaVars == <<graph, calls, plan, alerts, retracted>>

REQUIRED == 0
PREFERRED == 2
STRONG_DEFAULT == 3
NORMAL == 4
WEAKEST == 6

\* The switch of nextWeaker, as it is written.
NextWeaker(strength) ==
    CASE strength = 0 -> 6 [] strength = 1 -> 5 [] strength = 2 -> 4
      [] strength = 3 -> 3 [] strength = 4 -> 2 [] strength = 5 -> 0

Stronger(s1, s2) == s1 < s2
Weaker(s1, s2) == s1 > s2
WeakestOf(s1, s2) == IF Weaker(s1, s2) THEN s1 ELSE s2

NoConstraint == 0
Unary(c) == c.kind \in {"stay", "edit"}
\* A unary constraint is a record whose two ends are its output.
Satisfied(c) == c.direction # "none"
Output(c) == IF c.direction = "forward" THEN c.v2 ELSE c.v1
Input(c) == IF c.direction = "forward" THEN c.v1 ELSE c.v2
\* scale and offset of a ScaleConstraint.
Factors(c) == IF c.kind = "scale" THEN {c.scale, c.offset} ELSE {}
Ends(c) == {c.v1, c.v2} \cup Factors(c)

NewVariable(value) ==
    [value |-> value, constraints |-> <<>>, determinedBy |-> NoConstraint,
     mark |-> 0, walkStrength |-> WEAKEST, stay |-> TRUE]

NewPlanner == [mark |-> 0, vars |-> <<>>, cons |-> <<>>, alerts |-> {}]
-----------------------------------------------------------------------------
(* The constraint i of the graph g.                                        *)

\* The first two tests of BinaryConstraint.chooseMethod are overwritten.
ChooseMethod(g, i, mark) ==
    LET c == g.cons[i]
        w1 == g.vars[c.v1].walkStrength
        w2 == g.vars[c.v2].walkStrength
        chosen ==
            IF Unary(c)
            THEN IF g.vars[c.v1].mark # mark /\ Stronger(c.strength, w1)
                 THEN "forward" ELSE "none"
            ELSE IF Weaker(w1, w2)
            THEN IF Stronger(c.strength, w1) THEN "backward" ELSE "none"
            ELSE IF Stronger(c.strength, w2) THEN "forward" ELSE "backward"
    IN  [g EXCEPT !.cons[i].direction = chosen]

Execute(g, i) ==
    LET c == g.cons[i]
        at(v) == g.vars[v].value
    IN  CASE Unary(c) -> g
          [] c.kind = "equal" -> [g EXCEPT !.vars[Output(c)].value = at(Input(c))]
          [] c.kind = "scale" /\ c.direction = "forward" ->
               [g EXCEPT !.vars[c.v2].value = at(c.v1) * at(c.scale) + at(c.offset)]
          [] OTHER ->
               [g EXCEPT !.vars[c.v1].value = (at(c.v2) - at(c.offset)) \div at(c.scale)]

StaysConstant(g, c) ==
    IF Unary(c) THEN c.kind = "stay"
    ELSE \A v \in {Input(c)} \cup Factors(c) : g.vars[v].stay

WalkStrength(g, c) ==
    IF Unary(c) THEN c.strength
    ELSE WeakestOf(c.strength, g.vars[Input(c)].walkStrength)

Recalculate(g, i) ==
    LET c == g.cons[i]
        stay == StaysConstant(g, c)
        new == [g EXCEPT !.vars[Output(c)].walkStrength = WalkStrength(g, c),
                         !.vars[Output(c)].stay = stay]
    IN  IF stay THEN Execute(new, i) ELSE new

MarkInputs(g, i, mark) ==
    LET c == g.cons[i]
    IN  IF Unary(c) THEN g
        ELSE FoldSet(LAMBDA v, h : [h EXCEPT !.vars[v].mark = mark],
                     g, {Input(c)} \cup Factors(c))

InputsKnown(g, i, mark) ==
    LET c == g.cons[i]
        v == g.vars[Input(c)]
    IN  Unary(c) \/ v.mark = mark \/ v.stay \/ v.determinedBy = NoConstraint

AddToGraph(g, i) ==
    FoldSet(LAMBDA v, h : [h EXCEPT !.vars[v].constraints = Append(@, i)],
            g, Ends(g.cons[i]))

Without(elms, elm) == SelectSeq(elms, LAMBDA e : e # elm)
RemoveConstraint(v, i) ==
    [v EXCEPT !.constraints = Without(@, i),
              !.determinedBy = IF @ = i THEN NoConstraint ELSE @]

RemoveFromGraph(g, i) ==
    FoldSet(LAMBDA v, h : [h EXCEPT !.vars[v] = RemoveConstraint(@, i)],
            [g EXCEPT !.cons[i].direction = "none"], Ends(g.cons[i]))
-----------------------------------------------------------------------------
(* The planner.  A todo list is taken from its end.                        *)

ConsumingTo(g, v) ==
    SelectSeq(g.vars[v].constraints,
        LAMBDA i : i # g.vars[v].determinedBy /\ Satisfied(g.cons[i]))

Unsatisfied(g, v) ==
    SelectSeq(g.vars[v].constraints, LAMBDA i : ~Satisfied(g.cons[i]))

\* The downstream constraints of v recalculated in their order, and their outputs.
RECURSIVE RecalculateAll(_, _, _)
RecalculateAll(g, next, outs) ==
    IF next = <<>> THEN [graph |-> g, outs |-> outs]
    ELSE LET new == Recalculate(g, Head(next))
         IN  RecalculateAll(new, Tail(next), Append(outs, Output(g.cons[Head(next)])))

RECURSIVE RemovePropagate(_, _, _)
RemovePropagate(g, todo, unsatisfied) ==
    IF todo = <<>> THEN [graph |-> g, unsatisfied |-> unsatisfied]
    ELSE LET v == Last(todo)
             done == RecalculateAll(g, ConsumingTo(g, v), <<>>)
         IN  RemovePropagate(done.graph, Front(todo) \o done.outs,
                             unsatisfied \o Unsatisfied(g, v))

\* Fault: the strength of what was retracted stays.
KeepsWalkStrength(g, v) ==
    RemovePropagate([g EXCEPT !.vars[v] =
        [@ EXCEPT !.determinedBy = NoConstraint, !.stay = TRUE]], <<v>>, <<>>)
RemovePropagateFrom(g, v) ==
    RemovePropagate([g EXCEPT !.vars[v] =
        [@ EXCEPT !.determinedBy = NoConstraint, !.walkStrength = WEAKEST,
                  !.stay = TRUE]], <<v>>, <<>>)

RECURSIVE IncrementalAdd(_, _)
RECURSIVE IncrementalRemove(_, _)
RECURSIVE AddPropagate(_, _, _, _)
RECURSIVE SatisfyChain(_, _, _)
RECURSIVE Retry(_, _, _)

\* Recalculate what is downstream of i; on a marked output retract i.
AddPropagate(g, i, mark, todo) ==
    IF todo = <<>> THEN g
    ELSE LET d == Last(todo)
             out == Output(g.cons[d])
             new == Recalculate(g, d)
         IN  IF g.vars[out].mark = mark
             THEN IncrementalRemove([g EXCEPT !.alerts = @ \cup {"cycle"}], i)
             ELSE AddPropagate(new, i, mark, Front(todo) \o ConsumingTo(new, out))

Satisfy(g, i, mark) ==
    LET tried == ChooseMethod(g, i, mark)
        c == tried.cons[i]
        out == Output(c)
        overridden == g.vars[out].determinedBy
        marked == MarkInputs(tried, i, mark)
        freed == IF overridden = NoConstraint THEN marked
                 ELSE [marked EXCEPT !.cons[overridden].direction = "none"]
        set == [freed EXCEPT !.vars[out].determinedBy = i]
        propagated == [AddPropagate(set, i, mark, <<i>>) EXCEPT !.vars[out].mark = mark]
    IN  IF Satisfied(c) THEN [graph |-> propagated, overridden |-> overridden]
        ELSE [graph |-> [tried EXCEPT !.alerts = @ \cup
                            (IF c.strength = REQUIRED THEN {"unsatisfied"} ELSE {})],
              overridden |-> NoConstraint]

\* Satisfy i, then what it overrides, and so on.
SatisfyChain(g, i, mark) ==
    LET done == Satisfy(g, i, mark)
    IN  IF done.overridden = NoConstraint THEN done.graph
        ELSE SatisfyChain(done.graph, done.overridden, mark)

\* Fault: what is overridden stays unsatisfied.
AddsOnly(g, i) == Satisfy([g EXCEPT !.mark = @ + 1], i, g.mark + 1).graph
IncrementalAdd(g, i) ==
    SatisfyChain([g EXCEPT !.mark = @ + 1], i, g.mark + 1)

\* The unsatisfied constraints strongest first, as far as nextWeaker goes.
Retry(g, unsatisfied, strength) ==
    LET tried == FoldLeft(LAMBDA h, u : IF h.cons[u].strength = strength
                                        THEN IncrementalAdd(h, u) ELSE h,
                          g, unsatisfied)
    IN  IF NextWeaker(strength) = WEAKEST THEN tried
        ELSE Retry(tried, unsatisfied, NextWeaker(strength))

IncrementalRemove(g, i) ==
    LET out == Output(g.cons[i])
        gone == RemovePropagateFrom(RemoveFromGraph(g, i), out)
    IN  Retry(gone.graph, gone.unsatisfied, REQUIRED)

DestroyConstraint(g, i) ==
    IF Satisfied(g.cons[i]) THEN IncrementalRemove(g, i) ELSE RemoveFromGraph(g, i)

RECURSIVE Extend(_, _, _, _)
Extend(g, mark, todo, made) ==
    IF todo = <<>> THEN [graph |-> g, plan |-> made]
    ELSE LET i == Last(todo)
             out == Output(g.cons[i])
             new == [g EXCEPT !.vars[out].mark = mark]
         IN  IF g.vars[out].mark # mark /\ InputsKnown(g, i, mark)
             THEN Extend(new, mark, Front(todo) \o ConsumingTo(new, out), Append(made, i))
             ELSE Extend(g, mark, Front(todo), made)

\* Fault: the last mark is used again.
ReusesMark(g, sources) == Extend(g, g.mark, sources, <<>>)
MakePlan(g, sources) == Extend([g EXCEPT !.mark = @ + 1], g.mark + 1, sources, <<>>)

ExtractPlanFromConstraints(g, constraints) ==
    MakePlan(g, SelectSeq(constraints,
        LAMBDA i : g.cons[i].kind = "edit" /\ Satisfied(g.cons[i])))
-----------------------------------------------------------------------------
(* The two tests, as the calls they make.                                  *)

Constraint(kind, strength, v1, v2) ==
    [kind |-> kind, strength |-> strength, v1 |-> v1, v2 |-> v2, direction |-> "none",
     scale |-> 1, offset |-> 2]

Make(value) == [call |-> "variable", value |-> value]
Constrain(c) == [call |-> "constrain", c |-> c]
Plan == [call |-> "plan"]
Set(v, value) == [call |-> "set", v |-> v, value |-> value]
Expect(v, value) == [call |-> "expect", v |-> v, value |-> value]
Destroy == [call |-> "destroy"]
Begin == [call |-> "planner"]

ChainTest(n) ==
    <<Begin, Make(0)>>
    \o FlattenSeq([i \in 1..n |->
         <<Make(0), Constrain(Constraint("equal", REQUIRED, i, i + 1))>>])
    \o <<Constrain(Constraint("stay", STRONG_DEFAULT, n + 1, n + 1)),
         Constrain(Constraint("edit", PREFERRED, 1, 1)), Plan>>
    \o FlattenSeq([i \in 1..100 |-> <<Set(1, i - 1), Expect(n + 1, i - 1)>>])

Change(v, value) ==
    <<Constrain(Constraint("edit", PREFERRED, v, v)), Plan>>
    \o [i \in 1..10 |-> Set(v, value)]
    \o <<Destroy>>

\* scale and offset are the variables 1 and 2.
Src(i) == 3 + 2 * i
Dst(i) == 4 + 2 * i

ProjectionTest(n) ==
    <<Begin, Make(10), Make(1000)>>
    \o FlattenSeq([j \in 1..n |->
         LET i == j - 1
         IN  <<Make(i), Make(i), Constrain(Constraint("stay", NORMAL, Src(i), Src(i))),
               Constrain(Constraint("scale", REQUIRED, Src(i), Dst(i)))>>])
    \o Change(Src(n - 1), 17) \o <<Expect(Dst(n - 1), 1170)>>
    \o Change(Dst(n - 1), 1050) \o <<Expect(Src(n - 1), 5)>>
    \o Change(1, 5) \o [i \in 1..(n - 1) |-> Expect(Dst(i - 1), (i - 1) * 5 + 1000)]
    \o Change(2, 2000) \o [i \in 1..(n - 1) |-> Expect(Dst(i - 1), (i - 1) * 5 + 2000)]

DeltaInit ==
    /\ calls = <<[call |-> "deltaBlue"]>>
    /\ graph = NewPlanner
    /\ plan = <<>>
    /\ alerts = {}
    /\ retracted = FALSE

deltaBlue ==
    /\ calls = <<[call |-> "deltaBlue"]>>
    /\ \E n \in Sizes : calls' = ChainTest(n) \o ProjectionTest(n)
    /\ UNCHANGED <<graph, plan, alerts, retracted>>

Call(name) == calls # <<>> /\ Head(calls).call = name /\ calls' = Tail(calls)
Now == Head(calls)

StartTest ==
    /\ Call("planner")
    /\ graph' = NewPlanner /\ plan' = <<>> /\ retracted' = FALSE
    /\ alerts' = alerts \cup graph.alerts

MakeVariable ==
    /\ Call("variable")
    /\ graph' = [graph EXCEPT !.vars = Append(@, NewVariable(Now.value))]
    /\ UNCHANGED <<plan, alerts, retracted>>

\* The constructor of a constraint adds it to the graph and to the solution.
AddConstraint ==
    /\ Call("constrain")
    /\ LET i == Len(graph.cons) + 1
           g == [graph EXCEPT !.cons = Append(@, Now.c)]
       IN  graph' = IncrementalAdd(AddToGraph(g, i), i)
    /\ UNCHANGED <<plan, alerts, retracted>>

ExtractPlan ==
    /\ Call("plan")
    /\ LET made == ExtractPlanFromConstraints(graph, <<Len(graph.cons)>>)
       IN  graph' = made.graph /\ plan' = made.plan
    /\ UNCHANGED <<alerts, retracted>>

SetAndExecute ==
    /\ Call("set")
    /\ graph' = FoldLeft(Execute, [graph EXCEPT !.vars[Now.v].value = Now.value], plan)
    /\ UNCHANGED <<plan, alerts, retracted>>

CheckValue ==
    /\ Call("expect")
    /\ alerts' = IF graph.vars[Now.v].value = Now.value THEN alerts
                 ELSE alerts \cup {"failed"}
    /\ UNCHANGED <<graph, plan, retracted>>

EndChange ==
    /\ Call("destroy")
    /\ graph' = DestroyConstraint(graph, Len(graph.cons))
    /\ retracted' = TRUE
    /\ UNCHANGED <<plan, alerts>>

DeltaNext ==
    \/ deltaBlue
    \/ StartTest
    \/ MakeVariable
    \/ AddConstraint
    \/ ExtractPlan
    \/ SetAndExecute
    \/ CheckValue
    \/ EndChange

DeltaSpec == DeltaInit /\ [][DeltaNext]_deltaVars
-----------------------------------------------------------------------------
(* Correctness.                                                            *)

\* The dataflow graph stays one through overriding, retracting and retrying:
\* each satisfied constraint alone determines its output, and the walkabout
\* strength and stay flag of every variable, however far downstream, are those
\* its determining constraint gives it now.
DataflowConsistent ==
    /\ \A i \in DOMAIN graph.cons :
         Satisfied(graph.cons[i]) =>
            graph.vars[Output(graph.cons[i])].determinedBy = i
    /\ \A x \in DOMAIN graph.vars :
         LET v == graph.vars[x]
         IN  IF v.determinedBy = NoConstraint
             THEN v.walkStrength = WEAKEST /\ v.stay
             ELSE LET c == graph.cons[v.determinedBy]
                  IN  /\ Satisfied(c) /\ Output(c) = x
                      /\ v.walkStrength = WalkStrength(graph, c)
                      /\ v.stay = (IF Unary(c) THEN c.kind = "stay"
                                   ELSE \A y \in {Input(c)} \cup Factors(c) :
                                            graph.vars[y].stay)

\* The stay optimisation leaves constraints out of plans because their outputs
\* do not change, yet every satisfied relation holds after every call.
RelationsHold ==
    \A i \in DOMAIN graph.cons :
        LET c == graph.cons[i]
            at(v) == graph.vars[v].value
        IN  Satisfied(c) =>
              /\ c.kind = "equal" => at(c.v1) = at(c.v2)
              /\ c.kind = "scale" => at(c.v2) = at(c.v1) * at(c.scale) + at(c.offset)

\* The tests' own checks, and the planner's two alarms, stay silent.
TestsPass == alerts \cup graph.alerts = {}

\* No unsatisfied constraint is stronger than what determines one of its ends.
\* Only while nothing has been retracted: incrementalRemove means to retry
\* every strength, but nextWeaker maps required to weakest, which ends its loop
\* after the required constraints.
NothingBetterLeft ==
    retracted \/
        \A i \in DOMAIN graph.cons :
            LET c == graph.cons[i]
            IN  ~Satisfied(c) =>
                    \A v \in {c.v1, c.v2} :
                        ~Stronger(c.strength, graph.vars[v].walkStrength)
=============================================================================
