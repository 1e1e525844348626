--------------------------------- MODULE Splay ---------------------------------
(***************************************************************************)
(* bench/macros/splay.js: a tree set up with random keys and then changed  *)
(* by replacing nodes.  A step is one call of InsertNewNode's find, and    *)
(* its insert, or one removal.  Payloads and the timing of pauses are left *)
(* out.                                                                    *)
(***************************************************************************)
EXTENDS Integers, SequencesExt

CONSTANTS
    Keys,                      \* what GenerateKey may return
    kSplayTreeSize,
    kSplayTreeModifications

VARIABLES
    splayTree,
    stage,       \* of the program
    done,        \* nodes inserted or replaced in this stage
    inserted,    \* the key SplayRun has inserted and not yet made room for
    present      \* the keys the tree should hold

splayVars == <<splayTree, stage, done, inserted, present>>

Null == <<>>
Node(key) == [key |-> key, left |-> Null, right |-> Null]

\* Hang the nodes put aside under the new root: those in less each have it and
\* the rest of less to the right, those in more to the left.
Assemble(current, less, more) ==
    [current EXCEPT
        !.left = FoldRight(LAMBDA n, t : [n EXCEPT !.right = t], less, current.left),
        !.right = FoldRight(LAMBDA n, t : [n EXCEPT !.left = t], more, current.right)]

\* Fault: the rotation drops the inner subtree.
DropsInner(n) == [n.left EXCEPT !.right = [n EXCEPT !.left = Null]]
RotateRight(n) == [n.left EXCEPT !.right = [n EXCEPT !.left = n.left.right]]
RotateLeft(n) == [n.right EXCEPT !.left = [n EXCEPT !.right = n.right.left]]

\* The loop of splay_, with the left and right trees as the lists of their nodes.
RECURSIVE Descend(_, _, _, _)
Descend(key, current, less, more) ==
    LET rotated ==
            IF key < current.key
            THEN IF current.left # Null /\ key < current.left.key
                 THEN RotateRight(current) ELSE current
            ELSE IF current.right # Null /\ key > current.right.key
                 THEN RotateLeft(current) ELSE current
    IN  IF key = current.key THEN Assemble(current, less, more)
        ELSE IF key < current.key
        THEN IF rotated.left = Null THEN Assemble(rotated, less, more)
             ELSE Descend(key, rotated.left, less, Append(more, rotated))
        ELSE IF rotated.right = Null THEN Assemble(rotated, less, more)
             ELSE Descend(key, rotated.right, Append(less, rotated), more)

SplayOn(key, tree) == IF tree = Null THEN Null ELSE Descend(key, tree, <<>>, <<>>)

Find(key, tree) == tree # Null /\ SplayOn(key, tree).key = key

InsertKey(key, tree) ==
    LET root == SplayOn(key, tree)
    IN  IF tree = Null THEN Node(key)
        ELSE IF root.key = key THEN root
        ELSE IF key > root.key
        THEN [key |-> key, left |-> [root EXCEPT !.right = Null], right |-> root.right]
        ELSE [key |-> key, right |-> [root EXCEPT !.left = Null], left |-> root.left]

\* Without the key, remove throws; the tree has been splayed.
RemoveKey(key, tree) ==
    LET root == SplayOn(key, tree)
    IN  IF root.key # key THEN root
        ELSE IF root.left = Null THEN root.right
        ELSE [SplayOn(key, root.left) EXCEPT !.right = root.right]

RECURSIVE FindMax(_)
FindMax(tree) == IF tree.right = Null THEN tree.key ELSE FindMax(tree.right)

\* Of the tree already splayed on key; 0 for null.
FindGreatestLessThan(key, root) ==
    IF root.key < key THEN root.key
    ELSE IF root.left = Null THEN 0 ELSE FindMax(root.left)

RECURSIVE ExportKeys(_)
ExportKeys(tree) ==
    IF tree = Null THEN <<>>
    ELSE ExportKeys(tree.left) \o <<tree.key>> \o ExportKeys(tree.right)
-----------------------------------------------------------------------------
SplayInit ==
    /\ splayTree = Null
    /\ stage = "setup"
    /\ done = 0
    /\ inserted = 0
    /\ present = {}

Inserting ==
    \/ stage = "setup" /\ done < kSplayTreeSize
    \/ stage = "run" /\ done < kSplayTreeModifications /\ inserted = 0

\* InsertNewNode's find, which splays; on a new key also its insert.
InsertNewNode(key) ==
    /\ Inserting
    /\ IF Find(key, splayTree)
       THEN splayTree' = SplayOn(key, splayTree) /\ UNCHANGED <<done, inserted, present>>
       ELSE /\ splayTree' = InsertKey(key, SplayOn(key, splayTree))
            /\ present' = present \cup {key}
            /\ IF stage = "setup"
               THEN done' = done + 1 /\ UNCHANGED inserted
               ELSE inserted' = key /\ UNCHANGED done
    /\ UNCHANGED stage

\* What SplayRun means to remove: the key before the new one, or the new one.
Replaced ==
    LET less == {k \in present : k < inserted}
    IN  IF less = {} THEN inserted ELSE Max(less)

RemoveOne ==
    /\ inserted # 0
    /\ LET root == SplayOn(inserted, splayTree)
           greatest == FindGreatestLessThan(inserted, root)
       IN  splayTree' = RemoveKey(IF greatest = 0 THEN inserted ELSE greatest, root)
    /\ present' = present \ {Replaced}
    /\ inserted' = 0
    /\ done' = done + 1
    /\ UNCHANGED stage

SetupEnds ==
    /\ stage = "setup" /\ done = kSplayTreeSize
    /\ stage' = "run" /\ done' = 0
    /\ UNCHANGED <<splayTree, inserted, present>>

\* The two checks of SplayTearDown; then the tree is let go.
TearDownOK ==
    LET keys == ExportKeys(splayTree)
    IN  /\ Len(keys) = kSplayTreeSize
        /\ \A i \in 1..(Len(keys) - 1) : keys[i] < keys[i + 1]

SplayTearDown ==
    /\ stage = "run" /\ done = kSplayTreeModifications
    /\ stage' = IF TearDownOK THEN "passed" ELSE "failed"
    /\ splayTree' = Null /\ present' = {}
    /\ UNCHANGED <<done, inserted>>

SplayNext ==
    \/ \E key \in Keys : InsertNewNode(key)
    \/ RemoveOne
    \/ SetupEnds
    \/ SplayTearDown

SplaySpec == SplayInit /\ [][SplayNext]_splayVars
-----------------------------------------------------------------------------
(* Correctness.                                                            *)

\* Splaying, which every operation does and even a failed find, never loses,
\* repeats or disorders a key: the tree's traversal is the sorted set of the keys
\* that were inserted and not removed.
TreeHoldsPresent ==
    ExportKeys(splayTree) = SetToSortSeq(present, LAMBDA a, b : a < b)
=============================================================================
