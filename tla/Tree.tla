-------------------------------- MODULE Tree --------------------------------
(***************************************************************************)
(* The red/black tree of the MQTT library (Tree.c), as operators on a tree *)
(* value: a store of nodes linked by parent and child pointers, the root,  *)
(* the number of items and their total size.  A content is a record with   *)
(* the field ptr it is ordered by and the field size; it is the allocation *)
(* record of Heap.c, the one user of the tree in the library.              *)
(*                                                                         *)
(* The heap's tree has one index and no duplicates, so the loops over the  *)
(* indexes run once and the branch for duplicates is left out.  No caller  *)
(* keeps a node across an operation, so a node is called by the address in *)
(* its content, and is renamed when a removal moves another content in.    *)
(***************************************************************************)
EXTENDS Integers, Sequences, FiniteSets, FiniteSetsExt, Functions

NULL  == 0
LEFT  == 0
RIGHT == 1

\* The stack variable "temp" that stands for a missing child in TreeRemoveNodeIndex.
Temp == -1

TreeInitializeNoMalloc == [root |-> NULL, node |-> << >>, count |-> 0, size |-> 0]

isRed(t, n)   == n # NULL /\ t.node[n].red
isBlack(t, n) == n = NULL \/ ~t.node[n].red

Paint(t, n, red) == [t EXCEPT !.node[n].red = red]
Parent(t, n)     == t.node[n].parent
Child(t, n, d)   == t.node[n].child[d]

-----------------------------------------------------------------------------
\* Links of the store s: up from n, unless it is missing, and down from up.
SetParent(s, n, up)   == IF n = NULL THEN s ELSE [s EXCEPT ![n].parent = up]
SetChild(s, up, d, n) == IF up = NULL THEN s ELSE [s EXCEPT ![up].child[d] = n]

\* The side on which n hangs below up.
SideOf(t, up, n) == IF up # NULL /\ Child(t, up, LEFT) # n THEN RIGHT ELSE LEFT

TreeRotate(t, n, d) ==
    LET other == Child(t, n, 1 - d)
        inner == Child(t, other, d)
        up    == Parent(t, n)
    IN  [t EXCEPT !.node = SetChild(SetParent([@ EXCEPT ![n].child[1 - d] = inner,
                                                        ![n].parent = other,
                                                        ![other].child[d] = n,
                                                        ![other].parent = up], inner, n),
                                    up, SideOf(t, up, n), other),
                  !.root = IF up = NULL THEN other ELSE @]

\* n hangs on the outer side: its parent takes the place of its grandparent.
RotateUp(t, n, which) ==
    LET up    == Parent(t, n)
        grand == Parent(t, up)
    IN  << TreeRotate(Paint(Paint(t, up, FALSE), grand, TRUE), grand, which), n >>

\* One turn of the loop after an insertion; the pair is the tree and the next node.
TreeBAASub(t, n, which) ==
    LET up    == Parent(t, n)
        grand == Parent(t, up)
        uncle == Child(t, grand, which)
    IN  IF isRed(t, uncle)
        THEN << Paint(Paint(Paint(t, up, FALSE), uncle, FALSE), grand, TRUE), grand >>
        ELSE IF n = Child(t, up, which) THEN RotateUp(TreeRotate(t, up, 1 - which), up, which)
        ELSE RotateUp(t, n, which)

RECURSIVE TreeBalanceAfterAdd(_, _)
TreeBalanceAfterAdd(t, n) ==
    IF isRed(t, Parent(t, n)) /\ Parent(t, Parent(t, n)) # NULL
    THEN LET up    == Parent(t, n)
             which == IF up = Child(t, Parent(t, up), LEFT) THEN RIGHT ELSE LEFT
             next  == TreeBAASub(t, n, which)
         IN  TreeBalanceAfterAdd(next[1], next[2])
    ELSE Paint(t, t.root, FALSE)

-----------------------------------------------------------------------------
\* Heap.c orders the records by address: -1, 0 or 1 as a is above, at or below b.
ptrCompare(a, b) == IF a > b THEN -1 ELSE IF a = b THEN 0 ELSE 1

\* The walk down from node n for address p: the node holding p (or NULL), the
\* last node passed, and the side on which it was left.
RECURSIVE Descend(_, _, _, _, _)
Descend(t, p, n, up, side) ==
    IF n = NULL THEN [node |-> NULL, up |-> up, side |-> side]
    ELSE LET result == ptrCompare(t.node[n].content.ptr, p)
         IN  IF result = 0 THEN [node |-> n, up |-> up, side |-> side]
             ELSE LET down == IF result > 0 THEN RIGHT ELSE LEFT
                  IN  Descend(t, p, Child(t, n, down), n, down)

TreeFindIndex1(t, p) == Descend(t, p, t.root, NULL, LEFT).node

TreeAddByIndex(t, content, size) ==
    LET at    == Descend(t, content.ptr, t.root, NULL, LEFT)
        new   == content.ptr
        leaf  == [parent |-> at.up, child |-> [d \in {LEFT, RIGHT} |-> NULL],
                  content |-> content, size |-> size, red |-> TRUE]
        grown == [t EXCEPT !.node = [n \in DOMAIN @ \cup {new} |-> IF n = new THEN leaf ELSE @[n]],
                           !.root = IF at.up = NULL THEN new ELSE @,
                           !.count = @ + 1,
                           !.size = @ + size]
    IN  IF at.node # NULL
        THEN TreeBalanceAfterAdd(
                 [t EXCEPT !.size = @ + size - t.node[at.node].size,
                           !.node[at.node].content = content,
                           !.node[at.node].size = size], at.node)
        ELSE TreeBalanceAfterAdd(
                 IF at.up = NULL THEN grown
                 ELSE [grown EXCEPT !.node[at.up].child[at.side] = new], new)

-----------------------------------------------------------------------------
RECURSIVE TreeMinimum(_, _)
TreeMinimum(t, n) ==
    IF n = NULL \/ Child(t, n, LEFT) = NULL THEN n ELSE TreeMinimum(t, Child(t, n, LEFT))

RECURSIVE Ascend(_, _)
Ascend(t, n) ==
    LET up == Parent(t, n)
    IN  IF up # NULL /\ n = Child(t, up, RIGHT) THEN Ascend(t, up) ELSE up

TreeSuccessor(t, n) ==
    IF Child(t, n, RIGHT) # NULL THEN TreeMinimum(t, Child(t, n, RIGHT)) ELSE Ascend(t, n)

TreeNextElementIndex(t, n) ==
    IF n = NULL THEN TreeMinimum(t, t.root) ELSE TreeSuccessor(t, n)

\* The contents in the order in which a caller's loop over TreeNextElement meets them.
RECURSIVE Walk(_, _)
Walk(t, n) ==
    LET next == TreeNextElementIndex(t, n)
    IN  IF next = NULL THEN << >> ELSE << t.node[next].content >> \o Walk(t, next)

-----------------------------------------------------------------------------
\* Mutant: a red sibling is not rotated away first.
TreeBARSubRedSibling(t, n, which) ==
    LET up  == Parent(t, n)
        sib == Child(t, up, which)
    IN  IF sib = NULL THEN << t, up >> ELSE << Paint(t, sib, TRUE), up >>

AtRoot(t) == << t, t.root >>

\* The sibling's outer child is red: one rotation ends the loop.
LastTurn(t, up, which) ==
    LET sib == Child(t, up, which)
        far == Child(t, sib, which)
    IN  AtRoot(TreeRotate(Paint(Paint(Paint(t, sib, t.node[up].red), up, FALSE), far, FALSE),
                          up, 1 - which))

\* The sibling is black or missing.
BlackSibling(t, up, sib, which) ==
    LET inner == Child(t, sib, 1 - which)
        outer == Child(t, sib, which)
    IN  IF sib = NULL THEN << t, up >>
        ELSE IF isBlack(t, inner) /\ isBlack(t, outer) THEN << Paint(t, sib, TRUE), up >>
        ELSE IF isBlack(t, outer)
        THEN LastTurn(TreeRotate(Paint(Paint(t, inner, FALSE), sib, TRUE), sib, which), up, which)
        ELSE LastTurn(t, up, which)

RedSibling(t, up, sib, which) == TreeRotate(Paint(Paint(t, sib, FALSE), up, TRUE), up, 1 - which)

WithSibling(t, up, which) == BlackSibling(t, up, Child(t, up, which), which)

\* One turn of the loop after a removal; the pair is the tree and the next node.
TreeBARSub(t, n, which) ==
    LET up  == Parent(t, n)
        sib == Child(t, up, which)
    IN  IF isRed(t, sib) THEN WithSibling(RedSibling(t, up, sib, which), up, which)
        ELSE BlackSibling(t, up, sib, which)

RECURSIVE TreeBalanceAfterRemove(_, _)
TreeBalanceAfterRemove(t, n) ==
    IF n # t.root /\ isBlack(t, n)
    THEN LET self  == IF n = Temp THEN NULL ELSE n
             which == IF self = Child(t, Parent(t, n), LEFT) THEN RIGHT ELSE LEFT
             next  == TreeBARSub(t, n, which)
         IN  TreeBalanceAfterRemove(next[1], next[2])
    ELSE Paint(t, n, FALSE)

\* The same tree with node a called b.
Renamed(t, a, b) ==
    LET new(n) == IF n = a THEN b ELSE n
        old(n) == IF n = b THEN a ELSE n
    IN  [t EXCEPT !.root = new(@),
                  !.node = [n \in {new(m) : m \in DOMAIN @} |->
                      [@[old(n)] EXCEPT !.parent = new(@),
                                        !.child = [d \in {LEFT, RIGHT} |-> new(@[d])]]]]

\* The store with the stack variable that stands for the missing child of node r.
WithTemp(t, r) ==
    LET temp == [t.node[r] EXCEPT !.child = [d \in {LEFT, RIGHT} |-> NULL], !.red = FALSE]
    IN  [t EXCEPT !.node = [m \in DOMAIN @ \cup {Temp} |-> IF m = Temp THEN temp ELSE @[m]]]

\* Node r has left the tree and child has taken its place.
Rebalanced(t, r, child) ==
    IF isRed(t, r) \/ (child = NULL /\ Parent(t, r) = NULL) THEN t
    ELSE IF child # NULL THEN TreeBalanceAfterRemove(t, child)
    ELSE TreeBalanceAfterRemove(WithTemp(t, r), Temp)

\* The content of n goes, and that of node r, which is left out, moves there.
RemoveRedundant(t, n, r) ==
    LET up    == Parent(t, r)
        child == Child(t, r, IF Child(t, r, LEFT) # NULL THEN LEFT ELSE RIGHT)
        out   == [t EXCEPT !.node = [SetChild(SetParent(@, child, up), up, SideOf(t, up, r), child)
                                         EXCEPT ![n].content = t.node[r].content,
                                                ![n].size = t.node[r].size],
                           !.root = IF up = NULL THEN child ELSE @,
                           !.size = @ - t.node[n].size,
                           !.count = @ - 1]
    IN  [Rebalanced(out, r, child) EXCEPT !.node = Restrict(@, DOMAIN @ \ {r, Temp})]

TreeRemoveNodeIndex(t, n) ==
    IF Child(t, n, LEFT) # NULL /\ Child(t, n, RIGHT) # NULL
    THEN Renamed(RemoveRedundant(t, n, TreeSuccessor(t, n)), n, TreeSuccessor(t, n))
    ELSE RemoveRedundant(t, n, n)

\* The content found under the key, and the tree without it.
TreeRemoveKeyIndex(t, p) == TreeRemoveNodeIndex(t, TreeFindIndex1(t, p))

=============================================================================
