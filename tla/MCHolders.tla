-------------------------------- MODULE MCHolders --------------------------------
(***************************************************************************)
(* The two parts of the engine that decide how long somebody else's object *)
(* lives: the host's store of rejected promises, and weak references.      *)
(* They share no state, and a behaviour runs one of them: the store when   *)
(* the program may have no cells.                                          *)
(***************************************************************************)
EXTENDS PromiseRejections, WeakReferences, TLC

Menu(objects, symbols, strings, refs, maps, registries) ==
    [object |-> objects, symbol |-> symbols, string |-> strings, ref |-> refs,
     map |-> maps, registry |-> registries]
NoCells == Menu(0, 0, 0, 0, 0, 0)

\* A map and a value that may refer to its key; a map and a computed string;
\* two maps; two WeakRefs; a registry beside a WeakRef.
MCMenus ==
    {NoCells,
     Menu(1, 1, 0, 0, 1, 0), Menu(1, 0, 1, 0, 1, 0), Menu(0, 1, 0, 0, 2, 0),
     Menu(0, 1, 0, 2, 0, 0), Menu(0, 1, 0, 1, 0, 1)}

HoldersInit == Init /\ WeakInit

HoldersNext ==
    \/ menu = NoCells /\ Next /\ UNCHANGED weakVars
    \/ menu # NoCells /\ WeakNext /\ UNCHANGED vars

HoldersSpec == HoldersInit /\ [][HoldersNext]_<<vars, weakVars>>

CellSymmetry == Permutations(Cells)
=============================================================================
