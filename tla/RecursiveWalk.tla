---------------------------- MODULE RecursiveWalk ----------------------------
(***************************************************************************)
(* bitree_pre_traverse, bitree_in_traverse and bitree_post_traverse of     *)
(* structure/src/tree/bitree.c: the goal says which.  A call for a node    *)
(* visits it, calls itself for its left and for its right child, in the    *)
(* order that the goal says, and returns.  The C stack is `frames', one    *)
(* [n, at] for each active call, at the place in its script; the           *)
(* threadings of structure/src/tree/threaded_tree.c (ThreadedTree) recur   *)
(* in the same way and take it from here.                                  *)
(***************************************************************************)
EXTENDS Integers, FiniteSets, SequencesExt

CONSTANTS Trees, \* the trees to traverse (BinTree)
          None   \* NULL

VARIABLES tree, goal, \* the tree and the function
          frames,     \* the active calls
          order       \* history: the nodes passed to func

vars == <<tree, goal, frames, order>>

INSTANCE BinTree

Frame(n) == [n |-> n, at |-> 1]

Script == CASE goal = "pre" -> <<"visit", "left", "right">>
            [] goal = "in" -> <<"left", "visit", "right">>
            [] goal = "post" -> <<"left", "right", "visit">>

Top == Last(frames)
Doing(what) == frames # <<>> /\ Top.at <= 3 /\ Script[Top.at] = what
Resumed == [frames EXCEPT ![Len(frames)].at = @ + 1]

Start(n) == frames = IF n = None THEN <<>> ELSE <<Frame(n)>>

Proceed == frames' = Resumed

\* a call for NULL returns at once
Call(n) == frames' = IF n = None THEN Resumed ELSE Append(Resumed, Frame(n))

Leave == frames # <<>> /\ Top.at > 3 /\ frames' = Front(frames)

Init == /\ tree \in Trees
        /\ goal \in {"pre", "in", "post"}
        /\ Start(Root(tree))
        /\ order = <<>>

Visit == /\ Doing("visit")
         /\ order' = Append(order, Top.n)
         /\ Proceed
         /\ UNCHANGED <<tree, goal>>

GoLeft == /\ Doing("left")
          /\ Call(LeftChild(tree, Top.n))
          /\ UNCHANGED <<tree, goal, order>>

GoRight == /\ Doing("right")
           /\ Call(RightChild(tree, Top.n))
           /\ UNCHANGED <<tree, goal, order>>

Return == Leave /\ UNCHANGED <<tree, goal, order>>

Next == Visit \/ GoLeft \/ GoRight \/ Return

Spec == Init /\ [][Next]_vars /\ WF_vars(Next)
-----------------------------------------------------------------------------
TypeOK == /\ tree \in Trees
          /\ frames \in Seq([n : tree, at : 1 .. 4])
          /\ order \in Seq(tree)

(***************************************************************************)
(* func is called on the nodes in the order that their places tell, and    *)
(* between two calls of func the active calls are those of a node and its  *)
(* ancestors.                                                              *)
(***************************************************************************)
InOrder ==
  /\ Len(order) <= Cardinality(tree)
  /\ order = SubSeq(Traversal(goal, tree), 1, Len(order))
  /\ \A j \in 2 .. Len(frames) : Parent(frames[j].n) = frames[j - 1].n
=============================================================================
