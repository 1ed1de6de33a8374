----------------------------- MODULE ThreadedTree ----------------------------
(***************************************************************************)
(* structure/src/tree/threaded_tree.c: a tree is threaded in pre-, in- or  *)
(* post-order (the goal) and then walked along its threads, as every       *)
(* caller does.  A thread takes the place of a missing child, a tag says   *)
(* so: l of a node without a left child leads to the node before it in the *)
(* order, r of one without a right child to the node after it.             *)
(*                                                                         *)
(* A step of the threading is a visit, a call or a return (RecursiveWalk); *)
(* one of the walk is fn and the search for the next node.  A NULL that is *)
(* followed ends in at = "segv".  The walk writes nothing, so a node that  *)
(* it meets again it will meet for ever: at = "hang".                      *)
(*                                                                         *)
(* Operators named Faulty... are plausible bugs of the definition that     *)
(* follows; no specification uses them.                                    *)
(***************************************************************************)
EXTENDS Integers, Sequences, FiniteSets

CONSTANTS Trees, \* the trees to thread (BinTree)
          None   \* NULL

VARIABLES tree, goal,
          at,             \* "thread", "first", "walk", "done", "segv" or "hang"
          frames, pre,    \* the active calls, and the node visited last
          l, r, ltag, rtag, parent, \* the fields of the nodes (parent is p)
          node,           \* the node that the walk has come to
          order           \* history: the nodes passed to fn

fields == <<l, r, ltag, rtag, parent>>
vars == <<tree, goal, at, frames, pre, fields, node, order>>

INSTANCE BinTree
Stack == INSTANCE RecursiveWalk

Nowhere == 0 \* the place a NULL that is followed leads to

Init == /\ tree \in Trees
        /\ goal \in {"pre", "in", "post"}
        /\ at = "thread"
        /\ Stack!Start(Root(tree)) /\ pre = None
        /\ l = [x \in tree |-> LeftChild(tree, x)]
        /\ r = [x \in tree |-> RightChild(tree, x)]
        /\ ltag = [x \in tree |-> 0] /\ rtag = [x \in tree |-> 0]
        /\ parent = [x \in tree |-> None]
        /\ node = None /\ order = <<>>

Visit ==
  /\ at = "thread" /\ Stack!Doing("visit")
  /\ LET cur == Stack!Top.n
         back == l[cur] = None
         ahead == pre # None /\ r[pre] = None
     IN  /\ l' = IF back THEN [l EXCEPT ![cur] = pre] ELSE l
         /\ ltag' = IF back THEN [ltag EXCEPT ![cur] = 1] ELSE ltag
         /\ r' = IF ahead THEN [r EXCEPT ![pre] = cur] ELSE r
         /\ rtag' = IF ahead THEN [rtag EXCEPT ![pre] = 1] ELSE rtag
         /\ pre' = cur
  /\ Stack!Proceed
  /\ UNCHANGED <<tree, goal, at, parent, node, order>>

Descend(child) ==
  /\ Stack!Call(child)
  /\ parent' = IF goal = "post" /\ child # None THEN [parent EXCEPT ![child] = Stack!Top.n]
               ELSE parent
  /\ UNCHANGED <<tree, goal, at, pre, l, r, ltag, rtag, node, order>>

\* pre_order_thread has threaded the node before it calls itself for a child
GoLeft ==
  /\ at = "thread" /\ Stack!Doing("left")
  /\ Descend(IF goal = "pre" /\ ltag[Stack!Top.n] = 1 THEN None ELSE l[Stack!Top.n])

GoRight ==
  /\ at = "thread" /\ Stack!Doing("right")
  /\ Descend(IF goal = "pre" /\ rtag[Stack!Top.n] = 1 THEN None ELSE r[Stack!Top.n])

Return == /\ at = "thread" /\ Stack!Leave
          /\ UNCHANGED <<tree, goal, at, pre, fields, node, order>>

\* does not tag the thread of the last node
FaultyEndThreading ==
  /\ at = "thread" /\ frames = <<>>
  /\ at' = "first"
  /\ UNCHANGED <<tree, goal, frames, pre, fields, node, order>>

\* the thread of the last node, which post_thread leaves out
EndThreading ==
  /\ at = "thread" /\ frames = <<>>
  /\ IF goal # "post" /\ pre # None
     THEN r' = [r EXCEPT ![pre] = None] /\ rtag' = [rtag EXCEPT ![pre] = 1]
     ELSE UNCHANGED <<r, rtag>>
  /\ at' = "first"
  /\ UNCHANGED <<tree, goal, frames, pre, l, ltag, parent, node, order>>

(***************************************************************************)
(* Where the walks begin and go on.  post_first_node may descend along an  *)
(* l that is a thread: it then leads to the right child.                   *)
(***************************************************************************)
InFirst[x \in tree \cup {None}] ==
  IF x = None THEN Nowhere ELSE IF ltag[x] = 0 THEN InFirst[l[x]] ELSE x

PostFirst[x \in tree \cup {None}] ==
  IF x = None THEN Nowhere
  ELSE IF (ltag[x] = 0 /\ l[x] # None) \/ (rtag[x] = 0 /\ r[x] # None)
       THEN PostFirst[IF l[x] # None THEN l[x] ELSE r[x]]
       ELSE x

FirstNode == CASE goal = "pre" -> Root(tree)
               [] goal = "in" -> InFirst[Root(tree)]
               [] goal = "post" -> PostFirst[Root(tree)]

InNext(x) == IF rtag[x] = 0 THEN InFirst[r[x]] ELSE r[x]

PreNext(x) == IF rtag[x] = 0 /\ ltag[x] = 0 THEN l[x] ELSE r[x]

PostNext(x) ==
  IF rtag[x] = 1 THEN r[x]
  ELSE IF parent[x] = None THEN None
  ELSE IF x # l[parent[x]] THEN parent[x]
  ELSE IF rtag[parent[x]] = 0 THEN PostFirst[r[parent[x]]]
  ELSE None

NextNode(x) == CASE goal = "pre" -> PreNext(x)
                 [] goal = "in" -> InNext(x)
                 [] goal = "post" -> PostNext(x)

Reach(x) == /\ node' = IF x = Nowhere THEN None ELSE x
            /\ at' = IF x = Nowhere THEN "segv" ELSE "walk"

First == /\ at = "first"
         /\ Reach(FirstNode)
         /\ UNCHANGED <<tree, goal, frames, pre, fields, order>>

Met == {order[j] : j \in 1 .. Len(order)}

Walk == /\ at = "walk" /\ node \in tree \ Met
        /\ order' = Append(order, node)
        /\ Reach(NextNode(node))
        /\ UNCHANGED <<tree, goal, frames, pre, fields>>

WalkEnd == /\ at = "walk" /\ node \notin tree \ Met
           /\ at' = IF node = None THEN "done" ELSE "hang"
           /\ UNCHANGED <<tree, goal, frames, pre, fields, node, order>>

Next == Visit \/ GoLeft \/ GoRight \/ Return \/ EndThreading \/ First \/ Walk \/ WalkEnd

Spec == Init /\ [][Next]_vars /\ WF_vars(Next)
-----------------------------------------------------------------------------
TypeOK == /\ tree \in Trees
          /\ at \in {"thread", "first", "walk", "done", "segv", "hang"}
          /\ frames \in Seq([n : tree, at : 1 .. 4])
          /\ pre \in tree \cup {None} /\ node \in tree \cup {None}
          /\ l \in [tree -> tree \cup {None}] /\ r \in [tree -> tree \cup {None}]
          /\ ltag \in [tree -> 0 .. 1] /\ rtag \in [tree -> 0 .. 1]
          /\ parent \in [tree -> tree \cup {None}]
          /\ order \in Seq(tree)

Wanted == Traversal(goal, tree)

(***************************************************************************)
(* Once the tree is threaded, no child has been lost and every missing one *)
(* is replaced by a thread to the node before or after in the order; but   *)
(* post_thread leaves the r of a root without a right child NULL, untagged.*)
(***************************************************************************)
Threaded ==
  at # "thread" =>
    \A j \in 1 .. Cardinality(tree) :
      LET x == Wanted[j]
          before == IF j = 1 THEN None ELSE Wanted[j - 1]
          after == IF j = Cardinality(tree) THEN None ELSE Wanted[j + 1]
      IN  /\ IF ltag[x] = 0 THEN l[x] # None /\ l[x] = LeftChild(tree, x)
             ELSE LeftChild(tree, x) = None /\ l[x] = before
          /\ IF rtag[x] = 0 THEN r[x] = RightChild(tree, x) /\ (r[x] = None => goal = "post" /\ x = 1)
             ELSE RightChild(tree, x) = None /\ r[x] = after

\* the post-order walk goes astray at a node that has a right child and no sibling
Astray == {x \in tree \ {1} : RightChild(tree, x) # None
                                /\ Cardinality({2 * Parent(x), 2 * Parent(x) + 1} \cap tree) = 1}

(***************************************************************************)
(* The walk meets the nodes in the order of the traversal, each once: all  *)
(* of them, or in post-order those up to the first that has a right child  *)
(* and no sibling.                                                         *)
(***************************************************************************)
WalksInOrder ==
  /\ Len(order) <= Cardinality(tree) /\ order = SubSeq(Wanted, 1, Len(order))
  /\ at \in {"done", "segv", "hang"} /\ tree # {} =>
       IF goal = "post" /\ Astray # {} THEN order # <<>> /\ order[Len(order)] \in Astray
       ELSE order = Wanted /\ at = "done"
=============================================================================
