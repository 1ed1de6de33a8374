------------------------------- MODULE SqQueue -------------------------------
(***************************************************************************)
(* structure/src/queue/sq_queue.c: a ring of Capacity + 1 cells over one   *)
(* malloc'ed block, one cell always left empty so that "full" and "empty"  *)
(* differ.  enq and deq return the address of a cell and the caller writes *)
(* or reads the element through it; here the caller does so at once, as    *)
(* every caller in the repository does, and `held' keeps the last address  *)
(* deq returned, which the caller may go on reading.                       *)
(*                                                                         *)
(* sq_queue_init asks malloc for Capacity cells although it makes a ring   *)
(* of Capacity + 1.  Whether the last cell can be used is up to the        *)
(* allocator's rounding: Block is the number of cells really there.  What  *)
(* is stored in a cell outside the block is lost (any value is found).     *)
(***************************************************************************)
EXTENDS Integers, Sequences

CONSTANTS Capacity, \* the argument of sq_queue_init
          Block,    \* cells of memory behind data
          SizeMod,  \* 2^w, the range of a size_t
          Value,    \* the elements
          None      \* NULL

ASSUME CapacityAssumption == Capacity \in Nat
ASSUME BlockAssumption == Block \in {Capacity, Capacity + 1}
\* q->capacity fits an int, and a size_t is wider than a non-negative int
ASSUME SizeModAssumption == SizeMod \in Nat /\ SizeMod >= 2 * (Capacity + 1)
ASSUME NoneAssumption == None \notin Value

VARIABLES front, rear, \* indices of the first element and of the first free cell
          data,        \* the ring's cells, None before anything is stored there
          live,        \* between sq_queue_init and sq_queue_destory
          out,         \* the last call and its result
          held,        \* the last address deq returned, and what it showed then
          overrun      \* an address outside the block has been handed out

vars == <<front, rear, data, live, out, held, overrun>>

Call(op, res) == [op |-> op, res |-> res]

capacity == Capacity + 1   \* q->capacity
Cells == 0 .. Capacity


(***************************************************************************)
(* Operators named Faulty... are plausible bugs of the definition that     *)
(* follows them.  No specification uses them: PROJECT.json names them as   *)
(* the faults the properties are shown to catch.                           *)
(***************************************************************************)
FaultyStep(x) == (x + 1) % (capacity + 1)
Step(x) == (x + 1) % capacity

\* sq_queue_empty, and the test for "full" at the top of sq_queue_enq
Empty == rear = front
FaultyFull == rear - front = Capacity
Full == Step(rear) = front

FaultyLength == ((rear - front) % SizeMod) % capacity
\* sq_queue_length: an int difference, converted to size_t before the addition
Length == ((((rear - front) % SizeMod) + capacity) % SizeMod) % capacity

\* the elements held, oldest first
Contents == [i \in 1 .. Length |-> data[(front + i - 1) % capacity]]

\* what the caller stores through the address of cell c, for each memory
Store(c, v) ==
  IF c < Block THEN {[data EXCEPT ![c] = v]}
               ELSE {[data EXCEPT ![c] = w] : w \in Value}

NoHeld == [cell |-> None, val |-> None]

\* sq_queue_init: front = rear = 0 over a block nothing was stored in yet
Init == /\ front = 0 /\ rear = 0
        /\ data = [c \in Cells |-> None]
        /\ live = TRUE
        /\ out = Call("init", None)
        /\ held = NoHeld
        /\ overrun = FALSE

InitAgain ==
  /\ ~live
  /\ front' = 0 /\ rear' = 0
  /\ data' = [c \in Cells |-> None]
  /\ live' = TRUE
  /\ out' = Call("init", None)
  /\ held' = NoHeld
  /\ overrun' = FALSE

\* sq_queue_destory: the block is freed; front, rear and data stay as they are
Destory ==
  /\ live
  /\ live' = FALSE
  /\ out' = Call("destory", None)
  /\ held' = NoHeld
  /\ UNCHANGED <<front, rear, data, overrun>>

EnqFull ==
  /\ live
  /\ Full
  /\ out' = Call("enq", None)
  /\ UNCHANGED <<front, rear, data, live, held, overrun>>

Enq(v) ==
  /\ live
  /\ ~Full
  /\ rear' = Step(rear)
  /\ data' \in Store(rear, v)
  /\ overrun' = (overrun \/ rear >= Block)
  /\ out' = Call("enq", v)
  /\ UNCHANGED <<front, live, held>>

DeqEmpty ==
  /\ live
  /\ Empty
  /\ out' = Call("deq", None)
  /\ UNCHANGED <<front, rear, data, live, held, overrun>>

Deq ==
  /\ live
  /\ ~Empty
  /\ front' = Step(front)
  /\ out' = Call("deq", data[front])
  /\ held' = [cell |-> front, val |-> data[front]]
  /\ UNCHANGED <<rear, data, live, overrun>>

Next ==
  \/ \E v \in Value : Enq(v)
  \/ EnqFull
  \/ Deq
  \/ DeqEmpty
  \/ Destory
  \/ InitAgain

Spec == Init /\ [][Next]_vars

-----------------------------------------------------------------------------
TypeOK ==
  /\ front \in Cells
  /\ rear \in Cells
  /\ data \in [Cells -> Value \cup {None}]
  /\ live \in BOOLEAN
  /\ out \in [op : {"init", "destory", "enq", "deq"}, res : Value \cup {None}]
  /\ held \in [cell : Cells \cup {None}, val : Value \cup {None}]
  /\ overrun \in BOOLEAN

(***************************************************************************)
(* The element behind the last address deq returned is still the one deq   *)
(* found there: however many elements are enqueued after it, enq never     *)
(* hands that cell out before the next deq (the cell left empty, comment   *)
(* of sq_queue.c line 7, is what makes a late read through it safe).       *)
(***************************************************************************)
HeldIntact == held.cell # None => data[held.cell] = held.val

(***************************************************************************)
(* Until an address outside the block is handed out, every step of the     *)
(* ring is a step of a bounded FIFO queue with the same result: order,     *)
(* capacity, refusals and wrap-around of sq_queue_enq and sq_queue_deq.    *)
(* Where malloc's rounding leaves room for the last cell (Block =          *)
(* Capacity + 1) that is for ever.                                         *)
(***************************************************************************)
Fifo == INSTANCE BoundedFifo WITH Least <- Capacity, Most <- Capacity,
                                  q <- IF live THEN Contents ELSE <<>>

FifoUntilOverrun ==
  Fifo!Init /\ [][overrun' \/ [Fifo!Next]_(Fifo!vars)]_vars

(***************************************************************************)
(* The comment on line 7 says one cell of the ring is given up, so that a  *)
(* queue initialised for Capacity elements has that many and one more      *)
(* cells: every address enq hands out would be inside the block.           *)
(***************************************************************************)
InBlock == ~overrun
=============================================================================
