--------------------------- MODULE CircLinkedQueue ---------------------------
(***************************************************************************)
(* test/chapter_3_2/q4.c: a queue in a circle of linked nodes that are     *)
(* never freed.  front is a node already dequeued (or the first, unused    *)
(* one); the elements are in the nodes after it up to rear; the nodes      *)
(* after rear up to front are free and enqueue takes them before it asks   *)
(* malloc for one.  enqueue and dequeue return the node, whose data the    *)
(* caller writes or reads at once; dequeue's caller may go on reading.     *)
(*                                                                         *)
(* malloc returns any node not in use.  Node bounds the number of nodes:   *)
(* an enqueue that needs more of them is not looked at.                    *)
(*                                                                         *)
(* Operators named Faulty... are plausible bugs of the definition that     *)
(* follows; no specification uses them.                                    *)
(***************************************************************************)
EXTENDS Integers, Sequences, FiniteSets

CONSTANTS Node,  \* the nodes malloc can return
          Value, \* the elements
          None   \* NULL, and no element

VARIABLES front, rear,
          next,  \* of every node; None in those not allocated
          data,
          live,  \* always TRUE: the queue is a static variable
          out,   \* the last call and its result
          q,     \* history: the nodes of the queued elements, oldest first
          most,  \* history: the most elements that were ever queued
          got    \* history: what the last dequeued node held then

vars == <<front, rear, next, data, live, out, q, most, got>>

Result(op, res) == [op |-> op, res |-> res]

Allocated == {n \in Node : next[n] # None}

Empty == front = rear

Init == /\ front = None /\ rear = None
        /\ next = [n \in Node |-> None]
        /\ data = [n \in Node |-> None]
        /\ live = TRUE
        /\ out = Result("init", None)
        /\ q = <<>> /\ most = 0 /\ got = None

\* what every enqueue does with the node it returns
Put(n, v) ==
  /\ rear' = n
  /\ data' = [data EXCEPT ![n] = v]
  /\ out' = Result("enq", v)
  /\ q' = Append(q, n)
  /\ most' = IF Len(q) = most THEN most + 1 ELSE most
  /\ UNCHANGED <<live, got>>

\* the node after rear is free unless it is front
Reusable == rear # None /\ next[rear] # front

EnqueueReuse(v) ==
  /\ Reusable
  /\ Put(next[rear], v)
  /\ UNCHANGED <<front, next>>

EnqueueFirst(v) ==
  /\ ~Reusable /\ front = None
  /\ \E n, f \in Node \ Allocated :
       /\ n # f
       /\ Put(n, v)
       /\ front' = f
       /\ next' = [next EXCEPT ![f] = n, ![n] = f]

\* links the new node to rear instead of to rear's successor
FaultyEnqueueGrow(v) ==
  /\ ~Reusable /\ front # None
  /\ \E n \in Node \ Allocated :
       /\ Put(n, v)
       /\ next' = [next EXCEPT ![n] = rear, ![rear] = n]
  /\ UNCHANGED front

EnqueueGrow(v) ==
  /\ ~Reusable /\ front # None
  /\ \E n \in Node \ Allocated :
       /\ Put(n, v)
       /\ next' = [next EXCEPT ![n] = next[rear], ![rear] = n]
  /\ UNCHANGED front

DequeueEmpty ==
  /\ Empty
  /\ out' = Result("deq", None)
  /\ UNCHANGED <<front, rear, next, data, live, q, most, got>>

Dequeue ==
  /\ ~Empty
  /\ front' = next[front]
  /\ out' = Result("deq", data[next[front]])
  /\ q' = Tail(q)
  /\ got' = data[next[front]]
  /\ UNCHANGED <<rear, next, data, live, most>>

Next == \/ \E v \in Value : EnqueueReuse(v) \/ EnqueueFirst(v) \/ EnqueueGrow(v)
        \/ Dequeue \/ DequeueEmpty

Spec == Init /\ [][Next]_vars

-----------------------------------------------------------------------------
TypeOK ==
  /\ front \in Node \cup {None} /\ rear \in Node \cup {None}
  /\ next \in [Node -> Node \cup {None}]
  /\ data \in [Node -> Value \cup {None}]
  /\ live = TRUE
  /\ q \in Seq(Node)
  /\ most \in 0 .. Cardinality(Node)
  /\ got \in Value \cup {None}

(***************************************************************************)
(* The allocated nodes are one circle c, numbered so that front is the     *)
(* last of them; the queued elements are the stretch from the node after   *)
(* front to rear, whatever mixture of reused and new nodes it was built    *)
(* from.                                                                   *)
(***************************************************************************)
OneCircle ==
  front # None =>
    LET size == Cardinality(Allocated)
    IN  /\ Len(q) < size
        /\ rear = IF q = <<>> THEN front ELSE q[Len(q)]
        /\ \E c \in [1 .. size -> Allocated] :
             /\ \A n \in Allocated : \E j \in 1 .. size : c[j] = n
             /\ \A j \in 1 .. size : next[c[j]] = IF j = size THEN c[1] ELSE c[j + 1]
             /\ c[size] = front
             /\ \A j \in 1 .. Len(q) : q[j] = c[j]

(***************************************************************************)
(* Nodes are asked from malloc only when all are in use: their number is   *)
(* one more than the most elements ever queued at once.                    *)
(***************************************************************************)
NodesAreReused == Cardinality(Allocated) = IF most = 0 THEN 0 ELSE most + 1

(***************************************************************************)
(* A step of a FIFO queue that never refuses an element.                   *)
(***************************************************************************)
Fifo == INSTANCE BoundedFifo WITH Least <- Cardinality(Node), Most <- Cardinality(Node),
                                  q <- [j \in 1 .. Len(q) |-> data[q[j]]]

FifoStep == [Fifo!Next]_(Fifo!vars)

(***************************************************************************)
(* The data of a dequeued node stays as it is until the next dequeue,      *)
(* because the node has become front, the one node enqueue does not reuse. *)
(***************************************************************************)
DequeuedIntact == got # None => data[front] = got
=============================================================================
