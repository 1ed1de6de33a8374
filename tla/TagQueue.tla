------------------------------ MODULE TagQueue ------------------------------
(***************************************************************************)
(* test/chapter_3_2/q1.c: a ring of MAX_SIZE cells that uses all of them   *)
(* and tells "full" from "empty" by a tag.  The dequeue that empties the   *)
(* ring compares the new front with the old front instead of with rear, so *)
(* tag is never reset: once the ring has been full, front = rear always    *)
(* means "full" to enqueue and never means "empty" to dequeue.             *)
(***************************************************************************)
EXTENDS Integers, Sequences

CONSTANTS MaxSize, \* MAX_SIZE
          Value,   \* the elements
          Zero,    \* what the cells hold at the start
          None     \* no element

VARIABLES front, rear, tag, \* the fields of queue
          data,
          live,   \* always TRUE: the queue is a static variable
          out,    \* the last call and its result
          count,  \* history: the number of elements queued, until drained
          drained \* history: the ring was emptied after it had been full

vars == <<front, rear, tag, data, live, out, count, drained>>

Result(op, res) == [op |-> op, res |-> res]

Cells == 0 .. MaxSize - 1

Step(x) == (x + 1) % MaxSize

Init == /\ front = 0 /\ rear = 0 /\ tag = 0
        /\ data = [c \in Cells |-> Zero]
        /\ live = TRUE
        /\ out = Result("init", None)
        /\ count = 0 /\ drained = FALSE

Full == front = rear /\ tag = 1
Empty == front = rear /\ tag = 0

EnqueueFull ==
  /\ Full
  /\ out' = Result("enq", None)
  /\ UNCHANGED <<front, rear, tag, data, live, count, drained>>

Enqueue(v) ==
  /\ ~Full
  /\ tag' = IF Step(rear) = front THEN 1 ELSE tag
  /\ data' = [data EXCEPT ![rear] = v]
  /\ rear' = Step(rear)
  /\ out' = Result("enq", v)
  /\ count' = IF drained THEN count ELSE count + 1
  /\ UNCHANGED <<front, live, drained>>

DequeueEmpty ==
  /\ Empty
  /\ out' = Result("deq", None)
  /\ UNCHANGED <<front, rear, tag, data, live, count, drained>>

\* the branch `newfront == front' is taken only in a ring of one cell
Dequeue ==
  /\ ~Empty
  /\ tag' = IF Step(front) = front THEN 0 ELSE tag
  /\ out' = Result("deq", data[front])
  /\ front' = Step(front)
  /\ count' = IF drained THEN count ELSE count - 1
  /\ drained' = (drained \/ (count = 1 /\ tag' = 1))
  /\ UNCHANGED <<rear, data, live>>

Next == \/ \E v \in Value : Enqueue(v)
        \/ EnqueueFull \/ Dequeue \/ DequeueEmpty

Spec == Init /\ [][Next]_vars

-----------------------------------------------------------------------------
TypeOK ==
  /\ front \in Cells /\ rear \in Cells
  /\ tag \in {0, 1}
  /\ data \in [Cells -> Value \cup {Zero}]
  /\ live = TRUE
  /\ count \in 0 .. MaxSize
  /\ drained \in BOOLEAN

Contents == [j \in 1 .. count |-> data[(front + j - 1) % MaxSize]]

Fifo == INSTANCE BoundedFifo WITH Least <- MaxSize, Most <- MaxSize, q <- Contents

(***************************************************************************)
(* A step of a FIFO queue of MAX_SIZE elements, until a dequeue has        *)
(* emptied the ring after it had once been full.                           *)
(***************************************************************************)
FifoStep == drained \/ [Fifo!Next]_(Fifo!vars)
=============================================================================
