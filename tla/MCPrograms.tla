-------------------------------- MODULE MCPrograms --------------------------------
(***************************************************************************)
(* The JavaScript programs of the repository: the engine's macro workloads *)
(* and the playground's driver.  A behaviour runs one of them, and each    *)
(* program keeps the variables of the others as they were at the start.    *)
(***************************************************************************)
EXTENDS Richards, DeltaBlue, Splay, Playground, Crypto

VARIABLE program

Pick(name) ==
    /\ program = "none"
    /\ program' = name
    /\ UNCHANGED <<richardsVars, deltaVars, splayVars, playVars, cryptoVars>>

Programs == {"richards", "deltablue", "splay", "playground", "crypto"}

Init ==
    /\ program = "none"
    /\ RichardsInit /\ DeltaInit /\ SplayInit /\ PlayInit /\ CryptoInit

Next ==
    \/ \E name \in Programs : Pick(name)
    \/ /\ program = "richards" /\ RichardsNext
       /\ UNCHANGED <<program, deltaVars, splayVars, playVars, cryptoVars>>
    \/ /\ program = "deltablue" /\ DeltaNext
       /\ UNCHANGED <<program, richardsVars, splayVars, playVars, cryptoVars>>
    \/ /\ program = "splay" /\ SplayNext
       /\ UNCHANGED <<program, richardsVars, deltaVars, playVars, cryptoVars>>
    \/ /\ program = "playground" /\ PlayNext
       /\ UNCHANGED <<program, richardsVars, deltaVars, splayVars, cryptoVars>>
    \/ /\ program = "crypto" /\ CryptoNext
       /\ UNCHANGED <<program, richardsVars, deltaVars, splayVars, playVars>>

Spec == Init /\ [][Next]_<<program, richardsVars, deltaVars, splayVars, playVars, cryptoVars>>

\* What a workload throws or reports as an error never comes about: Richards'
\* two counts, DeltaBlue's values and alarms, Splay's sorted tree of the size it
\* was set up with, Crypto's round trip of a text.
ProgramsCheckThemselves ==
    /\ ExpectedCounts
    /\ TestsPass
    /\ stage # "failed"
    /\ DecryptsText

\* The run of the program itself and seven seeds that differ in every bit the
\* idle task shifts out.
MCTasks == {<<1, 1000>>} \cup ((0..7) \X {20})
MCSizes == {1, 2, 3, 5}
MCInvSteps == << >>
MCLefts == {-4095, -256, -17, -1, 0, 2, 15, 97, 241, 256, 511, 4095}
MCRights == {-300, -17, -1, 0, 1, 2, 7, 16, 97, 240, 255, 257, 1000}
MCBases == {-17, 2, 97, 511}
MCExponents == {0, 1, 5, 128, 256, 301, 131073, 300001}
MCModuli == {2, 97, 240, 257, 1000, 4095}
MCPrimes == {37, 41, 43, 53, 59}
=============================================================================
