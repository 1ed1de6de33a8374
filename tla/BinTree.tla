------------------------------ MODULE BinTree --------------------------------
(***************************************************************************)
(* The binary trees of structure/inc/bitree.h.  A tree is the set of the   *)
(* places of its nodes: the root's place is 1, the children of the node at *)
(* place p are at 2p (binode_t.l) and 2p + 1 (binode_t.r).  A node is its  *)
(* place, NULL is None and the tree of a NULL root is {}.                  *)
(***************************************************************************)
EXTENDS Naturals, FiniteSets

CONSTANT None \* NULL

\* a plausible bug, which no specification uses: binode_create leaves l unwritten
FaultyLeftChild(t, p) == 2 * p

LeftChild(t, p) == IF 2 * p \in t THEN 2 * p ELSE None
RightChild(t, p) == IF 2 * p + 1 \in t THEN 2 * p + 1 ELSE None
Root(t) == IF t = {} THEN None ELSE 1
Parent(p) == p \div 2

\* place q and the places above it
Lineage[q \in Nat] == IF q = 0 THEN {} ELSE {q} \cup Lineage[Parent(q)]

\* place q is p or below it
Under(q, p) == p \in Lineage[q]

IsTree(t) == \A p \in t : p >= 1 /\ (p # 1 => Parent(p) \in t)

\* the trees with places up to last
TreesUpTo(last) == {t \in SUBSET (1 .. last) : IsTree(t)}

(***************************************************************************)
(* The traversals, told from the places alone: x comes before y.           *)
(***************************************************************************)
LeftOf(x, y) == \E c \in 1 .. y : Under(x, 2 * c) /\ Under(y, 2 * c + 1)
Before(goal, x, y) ==
  \/ LeftOf(x, y)
  \/ goal = "pre" /\ x # y /\ Under(y, x)
  \/ goal = "in" /\ (Under(x, 2 * y) \/ Under(y, 2 * x + 1))
  \/ goal = "post" /\ x # y /\ Under(x, y)

\* the nodes of t in that order
Traversal(goal, t) ==
  [k \in 1 .. Cardinality(t) |->
     CHOOSE x \in t : Cardinality({y \in t : Before(goal, y, x)}) = k - 1]

\* every level full but the last, which is filled from the left
Complete(t) == t = 1 .. Cardinality(t)
=============================================================================
