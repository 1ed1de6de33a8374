------------------------------ MODULE EntireTree -----------------------------
(***************************************************************************)
(* is_entire_bitree of test/chapter_5_3/q7.c: is the tree complete?  It    *)
(* walks the tree in level order over a linked queue (LinkedQueue) and     *)
(* breaks off at the first node that a complete tree cannot have; it then  *)
(* says "no" if the queue is not empty, and "yes" if it is.  So it says    *)
(* "yes" also when it broke off at the last node of the queue.             *)
(*                                                                         *)
(* Operators named Faulty... are plausible bugs of the definition that     *)
(* follows; no specification uses them.                                    *)
(***************************************************************************)
EXTENDS Integers, Sequences, FiniteSets

CONSTANTS Trees,    \* the trees to judge (BinTree), none of them empty
          Node,     \* the linked nodes malloc can return
          None,     \* NULL
          Leftover, \* what the next of a node malloc returns may hold
          MaxDrift

VARIABLES tree,   \* the tree passed in
          at,     \* where the code is, or "done"
          p,      \* the tree node of this turn
          node,   \* the linked node of this turn, temp in the code
          fail,   \* a node has been met that lacks a child
          result, \* what the call returned
          front, rear, length, next, data, used, pc, out, held, starts, strayed \* the queue

walk == <<tree, at, p, node, fail, result>>
queue == <<front, rear, length, next, data, used, pc, out, held, starts, strayed>>
vars == <<walk, queue>>

INSTANCE BinTree

Places == UNION Trees

Queue == INSTANCE LinkedQueue WITH Value <- Places

Left == LeftChild(tree, p)
Right == RightChild(tree, p)

Init == /\ tree \in Trees
        /\ Queue!Init
        /\ at = "start" /\ p = None /\ node = None
        /\ fail = FALSE /\ result = None

EnqRoot == /\ at = "start"
           /\ Queue!Enq(Root(tree))
           /\ at' = "loop"
           /\ UNCHANGED <<tree, p, node, fail, result>>

Take == /\ at = "loop" /\ ~Queue!Empty
        /\ Queue!Deq
        /\ p' = data[front] /\ node' = front
        /\ at' = "free"
        /\ UNCHANGED <<tree, fail, result>>

Release == /\ at = "free"
           /\ Queue!Free(node)
           /\ at' = "judge"
           /\ UNCHANGED <<tree, p, node, fail, result>>

\* after a node that lacks a child, any node that has one ends the loop
JudgeLate == /\ at = "judge" /\ fail
             /\ at' = IF Left = None /\ Right = None THEN "loop" ELSE "break"
             /\ UNCHANGED <<tree, p, node, fail, result, queue>>

\* forgets fail = true
FaultyJudgeLeft == /\ at = "judge" /\ ~fail
                   /\ IF Left # None THEN Queue!Enq(Left) ELSE UNCHANGED queue
                   /\ at' = "right"
                   /\ UNCHANGED <<tree, p, node, fail, result>>

JudgeLeft == /\ at = "judge" /\ ~fail
             /\ IF Left # None THEN Queue!Enq(Left) ELSE UNCHANGED queue
             /\ fail' = (Left = None)
             /\ at' = "right"
             /\ UNCHANGED <<tree, p, node, result>>

JudgeRight ==
  /\ at = "right"
  /\ IF Right # None /\ ~fail THEN Queue!Enq(Right) ELSE UNCHANGED queue
  /\ at' = IF Right # None /\ fail THEN "break" ELSE "loop"
  /\ fail' = (fail \/ Right = None)
  /\ UNCHANGED <<tree, p, node, result>>

\* the queue is empty after the loop, however it ended
SayYes == /\ at \in {"loop", "break"} /\ Queue!Empty
          /\ result' = TRUE
          /\ at' = "done"
          /\ UNCHANGED <<tree, p, node, fail, queue>>

SayNo == /\ at = "break" /\ ~Queue!Empty
         /\ Queue!Destory
         /\ at' = "destory"
         /\ UNCHANGED <<tree, p, node, fail, result>>

\* linked_queue_get in the place of deq
FaultyEmptyForever == /\ at = "destory"
                      /\ UNCHANGED vars

EmptyQueue == /\ at = "destory"
              /\ IF Queue!Empty
                 THEN Queue!Drained /\ result' = FALSE /\ at' = "done"
                 ELSE Queue!Drain /\ UNCHANGED <<result, at>>
              /\ UNCHANGED <<tree, p, node, fail>>

Next == \/ EnqRoot \/ Take \/ Release \/ JudgeLate \/ JudgeLeft \/ JudgeRight
        \/ SayYes \/ SayNo \/ EmptyQueue

Spec == Init /\ [][Next]_vars /\ WF_vars(Next)
-----------------------------------------------------------------------------
TypeOK ==
  /\ tree \in Trees
  /\ at \in {"start", "loop", "free", "judge", "right", "break", "destory", "done"}
  /\ p \in tree \cup {None} /\ node \in Node \cup {None}
  /\ fail \in BOOLEAN
  /\ result \in BOOLEAN \cup {None}
  /\ Queue!TypeOK

Waiting == {data[held[j]] : j \in 1 .. Len(held)}

(***************************************************************************)
(* A complete tree is never turned down.                                   *)
(***************************************************************************)
CompleteAccepted == Complete(tree) => at \notin {"break", "destory"} /\ result # FALSE

(***************************************************************************)
(* What "yes" does tell: the nodes up to the one the walk ended at make a  *)
(* complete tree, and all other nodes are below that one.                  *)
(***************************************************************************)
AllButOneSubtree ==
  result = TRUE => /\ Complete({x \in tree : x <= p})
                   /\ \A x \in tree : x > p => Under(x, p)

(***************************************************************************)
(* Every linked node is freed by the time the call returns, whichever way  *)
(* the loop ended.                                                         *)
(***************************************************************************)
NothingLeaked == at = "done" => used = {}

(***************************************************************************)
(* "Judge by the definition of a complete binary tree" (line 9): the       *)
(* answer is yes exactly for the complete trees.                           *)
(***************************************************************************)
Judges == at = "done" => result = Complete(tree)
=============================================================================
