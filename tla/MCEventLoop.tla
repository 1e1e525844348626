------------------------------ MODULE MCEventLoop ------------------------------
EXTENDS EventLoop, TLC
CONSTANTS g1, g2, m1, m2, m3

NoGraph == [deps |-> [m \in Modules |-> <<>>], async |-> {}, broken |-> {},
            unresolved |-> {}]

Nothing == [requests |-> 0, awaits |-> 0, terminations |-> 0, wasm |-> 0,
            imports |-> 0, loads |-> 0]

\* m1 imports m2 and m3, and m3 imports m2.
Diamond == [NoGraph EXCEPT !.deps = (m1 :> <<m2, m3>> @@ m2 :> <<>> @@ m3 :> <<m2>>)]
\* m1 imports m2, which imports m1 and m3.
Cycle == [NoGraph EXCEPT !.deps = (m1 :> <<m2>> @@ m2 :> <<m1, m3>> @@ m3 :> <<>>)]

Generators == [graph |-> NoGraph,
               budget |-> [Nothing EXCEPT !.requests = 3, !.awaits = 2]]

Graphs ==
    {[graph |-> [g EXCEPT !.async = a], budget |->
        [Nothing EXCEPT !.awaits = 2, !.imports = 1, !.loads = 1]]
        : g \in {Diamond, Cycle}, a \in {{}, {m2}, {m2, m3}, {m1, m3}}}

Failures ==
    {[graph |-> [Diamond EXCEPT !.broken = {m2}], budget |->
        [Nothing EXCEPT !.imports = 1, !.loads = 1]],
     [graph |-> [Cycle EXCEPT !.unresolved = {m3}], budget |->
        [Nothing EXCEPT !.imports = 2, !.loads = 1]]}

Together ==
    {[graph |-> [Diamond EXCEPT !.async = {m2}],
      budget |-> [Nothing EXCEPT !.requests = 1, !.awaits = 1, !.wasm = 1,
                                 !.imports = 1, !.loads = 1]]}

Terminations ==
    {[graph |-> NoGraph,
      budget |-> [Nothing EXCEPT !.requests = 2, !.awaits = 1, !.terminations = 1]],
     [graph |-> [Cycle EXCEPT !.async = {m2}],
      budget |-> [Nothing EXCEPT !.awaits = 1, !.terminations = 1, !.imports = 1,
                                 !.loads = 1]]}

AllWorkloads == {Generators} \cup Graphs \cup Failures \cup Together \cup Terminations

GenSymmetry == Permutations(Gens)
=============================================================================
