-------------------------- MODULE ReverseLevelOrder --------------------------
(***************************************************************************)
(* reverse_floor_traverse of test/chapter_5_3/q4.c: a level-order walk     *)
(* over a linked queue (LinkedQueue) that piles the tree nodes on a linked *)
(* stack (LinkedStack) and then prints them from the top.  Both take their *)
(* linked nodes from the same malloc, so a node freed by one is reused by  *)
(* the other with what it left in next.                                    *)
(***************************************************************************)
EXTENDS Integers, Sequences, FiniteSets

CONSTANTS Trees,    \* the trees to traverse (BinTree), none of them empty
          Node,     \* the linked nodes malloc can return
          None,     \* NULL
          Leftover, \* what the next of a node malloc returns may hold
          MaxDrift

VARIABLES tree, \* the tree passed in
          at,   \* where the code is, or "done"
          p,    \* the tree node of this turn
          node, \* the linked node of this turn, temp in the code
          printed, \* the tree nodes printed
          next, data, used, \* the memory of the linked nodes
          front, rear, length, pc, qout, held, starts, strayed, \* the queue
          top, live, out, piled \* the stack

walk == <<tree, at, p, node, printed>>
memory == <<next, data, used>>
queue == <<front, rear, length, pc, qout, held, starts, strayed>>
stack == <<top, live, out, piled>>
vars == <<walk, memory, queue, stack>>

INSTANCE BinTree

Places == UNION Trees

Queue == INSTANCE LinkedQueue WITH Value <- Places, out <- qout
Stack == INSTANCE LinkedStack WITH Value <- Places

Init == /\ tree \in Trees
        /\ Queue!Init /\ Stack!Init
        /\ at = "start" /\ p = None /\ node = None /\ printed = <<>>

EnqRoot == /\ at = "start"
           /\ Queue!Enq(Root(tree))
           /\ at' = "loop"
           /\ UNCHANGED <<tree, p, node, printed, stack>>

Take == /\ at = "loop" /\ ~Queue!Empty
        /\ Queue!Deq
        /\ p' = data[front] /\ node' = front
        /\ at' = "free"
        /\ UNCHANGED <<tree, printed, stack>>

Release == /\ at = "free"
           /\ Queue!Free(node)
           /\ at' = "pile"
           /\ UNCHANGED <<tree, p, node, printed, stack>>

Pile == /\ at = "pile"
        /\ Stack!Push(p)
        /\ at' = "left"
        /\ UNCHANGED <<tree, p, node, printed, queue>>

\* enq of a child if there is one
EnqChild(child) == IF child # None THEN Queue!Enq(child) ELSE UNCHANGED <<memory, queue>>

EnqLeft == /\ at = "left"
           /\ EnqChild(LeftChild(tree, p))
           /\ at' = "right"
           /\ UNCHANGED <<tree, p, node, printed, stack>>

EnqRight == /\ at = "right"
            /\ EnqChild(RightChild(tree, p))
            /\ at' = "loop"
            /\ UNCHANGED <<tree, p, node, printed, stack>>

LastTaken == /\ at = "loop" /\ Queue!Empty
             /\ at' = "pop"
             /\ UNCHANGED <<tree, p, node, printed, memory, queue, stack>>

Show == /\ at = "pop" /\ ~Stack!Empty
        /\ Stack!Pop
         /\ printed' = Append(printed, data[top])
         /\ node' = top
         /\ at' = "freepop"
         /\ UNCHANGED <<tree, p, queue>>

ReleasePopped == /\ at = "freepop"
                 /\ Stack!Free(node)
                 /\ at' = "pop"
                 /\ UNCHANGED <<tree, p, node, printed, queue>>

Return == /\ at = "pop" /\ Stack!Empty
          /\ Stack!Destory
          /\ at' = "done"
          /\ UNCHANGED <<tree, p, node, printed, queue>>

Next == \/ EnqRoot \/ Take \/ Release \/ Pile \/ EnqLeft \/ EnqRight \/ LastTaken
        \/ Show \/ ReleasePopped \/ Return

Spec == Init /\ [][Next]_vars /\ WF_vars(Next)
-----------------------------------------------------------------------------
TypeOK ==
  /\ tree \in Trees
  /\ at \in {"start", "loop", "free", "pile", "left", "right", "pop", "freepop", "done"}
  /\ p \in tree \cup {None} /\ node \in Node \cup {None}
  /\ printed \in Seq(tree)
  /\ Queue!TypeOK
  /\ Stack!TypeOK

Printed == {printed[j] : j \in 1 .. Len(printed)}

(***************************************************************************)
(* The nodes are printed from the last of level order to the first.        *)
(***************************************************************************)
FromTheEnd == /\ \A j, k \in 1 .. Len(printed) : j < k => printed[j] > printed[k]
              /\ Printed # {} => \A x \in tree \ Printed, y \in Printed : x < y

(***************************************************************************)
(* A linked node is on the queue, on the stack, held as temp or free, and  *)
(* never in two of these places; after the call all of them are free.      *)
(***************************************************************************)
OneHolder ==
  ~strayed =>
    LET queued == {held[j] : j \in 1 .. Len(held)}
        stacked == {piled[j] : j \in 1 .. Len(piled)}
        lent == IF at \in {"free", "freepop"} THEN {node} ELSE {}
    IN  /\ queued \cap stacked = {}
        /\ lent \cap (queued \cup stacked) = {}
        /\ used = queued \cup stacked \cup lent
        /\ at = "done" => used = {}
=============================================================================
