------------------------------ MODULE MCQueues -------------------------------
(***************************************************************************)
(* The other queues of the repository side by side, each with small        *)
(* constants: `which' names the one that runs.  The names of variables are *)
(* those of the modules, which share them; what a queue does not use is    *)
(* None while it runs.                                                     *)
(***************************************************************************)
EXTENDS Integers, Sequences, FiniteSets

CONSTANTS Node, LinkedNode, Value, Zero, None, MaxSize, SizeMod, MaxDrift

\* what the proofs use: the capacities fit the types, NULL is no node and no element
ASSUME Sizes == MaxSize \in Nat \ {0} /\ SizeMod \in Nat /\ SizeMod > MaxSize /\ MaxDrift \in Nat
ASSUME FiniteMemory == IsFiniteSet(Node) /\ IsFiniteSet(LinkedNode)
ASSUME NullIsApart == None \notin Value \cup Node \cup LinkedNode

VARIABLES which,
          front, rear, data, next, pc, out, live,        \* used by several
          tag, count, drained,                           \* the tagged ring
          q, most, got,                                  \* the circle
          top1, data1, out1, top2, data2, out2, arg,     \* the two stacks
          length, used, held, starts, strayed            \* the linked queue

ringOnly == <<tag, count, drained>>
circleOnly == <<q, most, got>>
stacksOnly == <<top1, data1, out1, top2, data2, out2, arg>>
linkedOnly == <<length, used, held, starts, strayed>>
vars == <<which, front, rear, data, next, pc, out, live, ringOnly, circleOnly, stacksOnly, linkedOnly>>

Ring == INSTANCE TagQueue
Circle == INSTANCE CircLinkedQueue
Stacks == INSTANCE TwoStackQueue
Linked == INSTANCE LinkedQueue WITH Node <- LinkedNode, Leftover <- LinkedNode \cup {None}

Off(x) == x = None

RingOff == Off(tag) /\ Off(count) /\ Off(drained)
CircleOff == Off(q) /\ Off(most) /\ Off(got)
StacksOff == /\ Off(top1) /\ Off(data1) /\ Off(out1)
             /\ Off(top2) /\ Off(data2) /\ Off(out2) /\ Off(arg)
LinkedOff == Off(length) /\ Off(used) /\ Off(held) /\ Off(starts) /\ Off(strayed)

Init == \/ /\ which = "ring" /\ Ring!Init
           /\ Off(next) /\ Off(pc) /\ CircleOff /\ StacksOff /\ LinkedOff
        \/ /\ which = "circle" /\ Circle!Init
           /\ Off(pc) /\ RingOff /\ StacksOff /\ LinkedOff
        \/ /\ which = "stacks" /\ Stacks!Init
           /\ Off(front) /\ Off(rear) /\ Off(data) /\ Off(next) /\ RingOff /\ CircleOff /\ LinkedOff
        \/ /\ which = "linked" /\ Linked!Init
           /\ Off(live) /\ RingOff /\ CircleOff /\ StacksOff

RingNext == /\ which = "ring" /\ Ring!Next
            /\ UNCHANGED <<which, next, pc, circleOnly, stacksOnly, linkedOnly>>
CircleNext == /\ which = "circle" /\ Circle!Next
              /\ UNCHANGED <<which, pc, ringOnly, stacksOnly, linkedOnly>>
StacksNext == /\ which = "stacks" /\ Stacks!Next
              /\ UNCHANGED <<which, front, rear, data, next, ringOnly, circleOnly, linkedOnly>>
StacksFinish == /\ which = "stacks" /\ Stacks!Finish
                /\ UNCHANGED <<which, front, rear, data, next, ringOnly, circleOnly, linkedOnly>>
LinkedNext == /\ which = "linked" /\ Linked!Next
              /\ UNCHANGED <<which, live, ringOnly, circleOnly, stacksOnly>>

Next == RingNext \/ CircleNext \/ StacksNext \/ LinkedNext

\* a call under way runs on: the program is sequential
Spec == Init /\ [][Next]_vars /\ WF_vars(StacksFinish)
-----------------------------------------------------------------------------
TypeOK == CASE which = "ring" -> Ring!TypeOK
            [] which = "circle" -> Circle!TypeOK
            [] which = "stacks" -> Stacks!TypeOK
            [] which = "linked" -> Linked!TypeOK

(***************************************************************************)
(* Each of the queues (q1.c, q3.c and q4.c of chapter_3_2, linked_queue.c) *)
(* takes steps of a FIFO queue only: the ring until it has been filled and *)
(* emptied, the linked queue until deq follows a next that enq never wrote.*)
(***************************************************************************)
AnswersAreFifo ==
  [][CASE which = "ring" -> Ring!FifoStep
       [] which = "circle" -> Circle!FifoStep
       [] which = "stacks" -> Stacks!FifoStep
       [] which = "linked" -> Linked!FifoStep]_vars

(***************************************************************************)
(* The nodes of the circular queue of q4.c are one circle in queue order,  *)
(* there is one more of them than elements were ever queued, and the node  *)
(* dequeued last keeps its element.                                        *)
(***************************************************************************)
OneCircle == which = "circle" =>
  Circle!OneCircle /\ Circle!NodesAreReused /\ Circle!DequeuedIntact

(***************************************************************************)
(* The list of linked_queue.c is its queued nodes in order, and its length *)
(* falls short by one for every time the queue was found empty.            *)
(***************************************************************************)
LinkedInOrder == which = "linked" => Linked!Linked /\ Linked!LengthDrifts

(***************************************************************************)
(* linked_queue_destory frees a node of the queue with every turn of its   *)
(* loop and none that a caller of deq holds, and leaves the loop only when *)
(* all are freed; until a deq of it follows a next that enq never wrote,   *)
(* which can be that of the last node and is where the model stops.        *)
(***************************************************************************)
DestoryFrees == [][which = "linked" => Linked!DestoryStep]_vars

(***************************************************************************)
(* No push of the two-stack queue (q3.c) is refused, and a call that moves *)
(* one stack onto the other comes to its end.                              *)
(***************************************************************************)
CallsReturn == [](which = "stacks" /\ pc # "idle" => <>(pc = "idle"))
=============================================================================
