----------------------------- MODULE LevelOrder ------------------------------
(***************************************************************************)
(* bitree_floor_traverse of structure/src/tree/bitree.c, the level-order   *)
(* traversal, over the linked queue of linked_queue.c (LinkedQueue).  One  *)
(* step is the part of a turn of the loop up to and with one call on the   *)
(* queue: deq and func, free, enq of the left child, enq of the right one. *)
(*                                                                         *)
(* Operators named Faulty... are plausible bugs of the definition that     *)
(* follows; no specification uses them.                                    *)
(***************************************************************************)
EXTENDS Integers, Sequences, FiniteSets

CONSTANTS Trees,    \* the trees to traverse (BinTree)
          Node,     \* the linked nodes malloc can return
          None,     \* NULL
          Leftover, \* what the next of a node malloc returns may hold
          MaxDrift

VARIABLES tree, \* the tree passed in
          at,   \* where the code is, "done" or "segv"
          p,    \* the tree node of this turn
          node, \* the linked node of this turn, temp in the code
          order, \* history: the tree nodes passed to func
          front, rear, length, next, data, used, pc, out, held, starts, strayed \* the queue

walk == <<tree, at, p, node, order>>
queue == <<front, rear, length, next, data, used, pc, out, held, starts, strayed>>
vars == <<walk, queue>>

INSTANCE BinTree

Places == UNION Trees

Queue == INSTANCE LinkedQueue WITH Value <- Places \cup {None}

Init == /\ tree \in Trees
        /\ Queue!Init
        /\ at = "start" /\ p = None /\ node = None /\ order = <<>>

EnqRoot == /\ at = "start"
           /\ Queue!Enq(Root(tree))
           /\ at' = "loop"
           /\ UNCHANGED <<tree, p, node, order>>

\* func and then p->l of a NULL p, the tree of a NULL root
Crash == /\ at = "loop" /\ ~Queue!Empty
         /\ data[front] = None
         /\ Queue!Deq
         /\ at' = "segv"
         /\ p' = None /\ node' = front
         /\ order' = Append(order, None)
         /\ UNCHANGED tree

Take == /\ at = "loop" /\ ~Queue!Empty
        /\ data[front] # None
        /\ Queue!Deq
        /\ p' = data[front] /\ node' = front
        /\ order' = Append(order, p')
        /\ at' = "free"
        /\ UNCHANGED tree

\* forgets free
FaultyRelease == /\ at = "free"
                 /\ at' = "left"
                 /\ UNCHANGED <<tree, p, node, order, queue>>

Release == /\ at = "free"
           /\ Queue!Free(node)
           /\ at' = "left"
           /\ UNCHANGED <<tree, p, node, order>>

\* enq of a child if there is one
EnqChild(child) == IF child # None THEN Queue!Enq(child) ELSE UNCHANGED queue

EnqLeft == /\ at = "left"
           /\ EnqChild(LeftChild(tree, p))
           /\ at' = "right"
           /\ UNCHANGED <<tree, p, node, order>>

EnqRight == /\ at = "right"
            /\ EnqChild(RightChild(tree, p))
            /\ at' = "loop"
            /\ UNCHANGED <<tree, p, node, order>>

Return == /\ at = "loop" /\ Queue!Empty
          /\ at' = "done"
          /\ UNCHANGED <<tree, p, node, order, queue>>

Next == EnqRoot \/ Crash \/ Take \/ Release \/ EnqLeft \/ EnqRight \/ Return

Spec == Init /\ [][Next]_vars /\ WF_vars(Next)
-----------------------------------------------------------------------------
TypeOK ==
  /\ tree \in Trees
  /\ at \in {"start", "loop", "free", "left", "right", "done", "segv"}
  /\ p \in tree \cup {None} /\ node \in Node \cup {None}
  /\ order \in Seq(tree \cup {None})
  /\ Queue!TypeOK

Visited == {order[j] : j \in 1 .. Len(order)}
Waiting == {data[held[j]] : j \in 1 .. Len(held)}

(***************************************************************************)
(* func is called level by level and from left to right in a level, on no  *)
(* node twice and skipping none.                                           *)
(***************************************************************************)
ByLevels == /\ \A j, k \in 1 .. Len(order) : j < k => order[j] < order[k]
            /\ \A x \in tree \ Visited, y \in Visited : y < x

(***************************************************************************)
(* Between two turns the queue holds, each once, exactly the nodes that    *)
(* have not been visited and whose parents have.                           *)
(***************************************************************************)
HoldsFrontier ==
  at = "loop" /\ tree # {} =>
    /\ Waiting = {x \in tree \ Visited : x = 1 \/ Parent(x) \in Visited}
    /\ Cardinality(Waiting) = Len(held)

(***************************************************************************)
(* Between two turns the only linked nodes in use are the queue's, so that *)
(* none is left when the call returns.                                     *)
(***************************************************************************)
NothingLeaked == at \in {"loop", "done"} => used = {held[j] : j \in 1 .. Len(held)}
=============================================================================
