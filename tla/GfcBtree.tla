------------------------------- MODULE GfcBtree -------------------------------
(***************************************************************************)
(* The AVL tree of src/gfc_btree.c.  A tree is Leaf (the NULL pointer) or  *)
(* a node with its data, its height and two subtrees; an insertion returns *)
(* the tree the code links to the caller's pointer.  The compare function  *)
(* of the program is the order of numbers.                                 *)
(***************************************************************************)
EXTENDS Integers, Sequences

CONSTANTS TreeData,  \* data a program appends
          MaxLevels  \* bound: a tree of so many levels gets no more data

ASSUME TreeNumbers == TreeData \subseteq Int
ASSUME TreeLevels == MaxLevels \in Nat

VARIABLES root,     \* ctx->root
          appended  \* the data appended so far

treeVars == <<root, appended>>

Leaf == <<>>
Height(t) == IF t = Leaf THEN 0 ELSE t.height
Taller(m, n) == IF m > n THEN m ELSE n
Balance(t) == IF t = Leaf THEN 0 ELSE Height(t.left) - Height(t.right)

\* A node whose height is taken from its subtrees.
Node2(l, d, r) ==
  [data |-> d, left |-> l, right |-> r, height |-> 1 + Taller(Height(l), Height(r))]

\* Mutant: the lower node keeps its height.
RightRotate_height_kept(y) ==
  Node2(y.left.left, y.left.data, [y EXCEPT !.left = y.left.right])

RightRotate(y) == Node2(y.left.left, y.left.data, Node2(y.left.right, y.data, y.right))

\* Mutant: the middle subtree goes to the wrong side.
LeftRotate_crossed(x) ==
  Node2(Node2(x.right.left, x.data, x.left), x.right.data, x.right.right)

LeftRotate(x) == Node2(Node2(x.left, x.data, x.right.left), x.right.data, x.right.right)

\* The tree t with d in one subtree and its height set, brought into balance.
Rebalanced(t, d) ==
  LET left  == Balance(t) > 1
      right == Balance(t) < -1
  IN  CASE left /\ d < t.left.data -> RightRotate(t)
        [] right /\ d > t.right.data -> LeftRotate(t)
        [] left /\ d > t.left.data -> RightRotate([t EXCEPT !.left = LeftRotate(@)])
        [] right /\ d < t.right.data -> LeftRotate([t EXCEPT !.right = RightRotate(@)])
        [] OTHER -> t

\* Trees of n levels at most, whatever heights their nodes store.
TreesOf[n \in 0..MaxLevels] ==
  IF n = 0 THEN {Leaf}
  ELSE {Leaf} \cup [data : TreeData, left : TreesOf[n-1], right : TreesOf[n-1], height : Int]

Trees == TreesOf[MaxLevels]

Inserted[t \in Trees] == [d \in TreeData |->
  IF t = Leaf THEN Node2(Leaf, d, Leaf)
  ELSE IF d < t.data THEN Rebalanced(Node2(Inserted[t.left][d], t.data, t.right), d)
  ELSE IF d > t.data THEN Rebalanced(Node2(t.left, t.data, Inserted[t.right][d]), d)
  ELSE t]

TreeInit == root = Leaf /\ appended = {}

BtreeAppend(d) ==
  /\ Height(root) < MaxLevels
  /\ root' = Inserted[root][d]
  /\ appended' = appended \cup {d}

TreeNext == \E d \in TreeData : BtreeAppend(d)

TreeSpec == TreeInit /\ [][TreeNext]_treeVars

\* What gfc_btree_transverse prints.
Transverse[t \in Trees] ==
  IF t = Leaf THEN <<>> ELSE Transverse[t.left] \o <<t.data>> \o Transverse[t.right]

-----------------------------------------------------------------------------
Subtrees[t \in Trees] ==
  IF t = Leaf THEN {} ELSE {t} \cup Subtrees[t.left] \cup Subtrees[t.right]

\* Whatever was appended in whatever order, and however the tree was rotated, a traversal prints
\* each element once, in ascending order; the heights stored in the nodes are right and no two
\* subtrees of a node differ in height by more than one.
TreeSortedBalanced ==
  LET printed == Transverse[root]
  IN  /\ {printed[i] : i \in DOMAIN printed} = appended
      /\ \A i, j \in DOMAIN printed : i < j => printed[i] < printed[j]
      /\ \A t \in Subtrees[root] :
           /\ t.height = 1 + Taller(Height(t.left), Height(t.right))
           /\ Balance(t) \in -1..1
=============================================================================
