---------------------------- MODULE SqQueueProofs ----------------------------
(***************************************************************************)
(* Theorems of SqQueue for every capacity, value set and size_t width.     *)
(***************************************************************************)
EXTENDS SqQueue, TLAPS

(***************************************************************************)
(* Arithmetic of the ring: a reduction modulo q->capacity takes the        *)
(* capacity off at most once.                                              *)
(***************************************************************************)
LEMMA StepIs ==
  ASSUME NEW x \in Cells
  PROVE  /\ Step(x) = IF x = Capacity THEN 0 ELSE x + 1
         /\ Step(x) \in Cells
<1>1. Step(x) = IF x = Capacity THEN 0 ELSE x + 1
  BY CapacityAssumption DEF Step, capacity, Cells
<1> QED
  BY <1>1, CapacityAssumption DEF Cells

\* the cell i places after cell f, and the cells from f to r, without any %
After(f, i) == IF f + i <= Capacity THEN f + i ELSE f + i - capacity
Distance(f, r) == IF r >= f THEN r - f ELSE r - f + capacity

LEMMA AfterIs ==
  ASSUME NEW f \in Cells, NEW i \in 0 .. Capacity
  PROVE  (f + i) % capacity = After(f, i) /\ After(f, i) \in Cells
<1>1. (f + i) % capacity = After(f, i)
  BY CapacityAssumption DEF After, capacity, Cells
<1> QED
  BY <1>1, CapacityAssumption DEF After, capacity, Cells

(***************************************************************************)
(* sq_queue_length's detour through size_t (a negative int difference      *)
(* wraps to a large unsigned number, the addition wraps it back) is exact. *)
(***************************************************************************)
LEMMA SizeTExact ==
  ASSUME NEW f \in Cells, NEW r \in Cells
  PROVE  ((((r - f) % SizeMod) + capacity) % SizeMod) % capacity = Distance(f, r)
<1> USE CapacityAssumption, SizeModAssumption DEF capacity, Cells
<1>1. (r - f) % SizeMod = IF r >= f THEN r - f ELSE r - f + SizeMod
  OBVIOUS
<1>2. (((r - f) % SizeMod) + capacity) % SizeMod = r - f + capacity
  BY <1>1
<1>3. (r - f + capacity) % capacity = Distance(f, r)
  BY DEF Distance
<1> QED
  BY <1>2, <1>3

LEMMA DistanceRange ==
  ASSUME NEW f \in Cells, NEW r \in Cells
  PROVE  /\ Distance(f, r) \in 0 .. Capacity
         /\ Distance(f, r) = 0 <=> r = f
         /\ Distance(f, r) = Capacity <=> r + 1 = f \/ (r = Capacity /\ f = 0)
BY CapacityAssumption DEF Distance, capacity, Cells

LEMMA LengthIs ==
  ASSUME front \in Cells, rear \in Cells
  PROVE  Length = Distance(front, rear) /\ Length \in 0 .. Capacity
BY SizeTExact, DistanceRange DEF Length

\* Contents of a ring with front f, rear r and cells d, this state's or the next's
LEMMA ContentsOf ==
  ASSUME NEW f \in Cells, NEW r \in Cells, NEW d \in [Cells -> Value \cup {None}]
  PROVE  LET n == ((((r - f) % SizeMod) + capacity) % SizeMod) % capacity
             c == [i \in 1 .. n |-> d[(f + i - 1) % capacity]]
         IN  /\ c \in Seq(Value \cup {None})
             /\ Len(c) = Distance(f, r)
             /\ \A i \in 1 .. Distance(f, r) : c[i] = d[After(f, i - 1)]
<1> DEFINE n == ((((r - f) % SizeMod) + capacity) % SizeMod) % capacity
<1>1. n = Distance(f, r) /\ n \in 0 .. Capacity
  BY SizeTExact, DistanceRange
<1>2. ASSUME NEW i \in 1 .. n
      PROVE  /\ (f + i - 1) % capacity = After(f, i - 1)
             /\ After(f, i - 1) \in Cells
  <2>1. i - 1 \in 0 .. Capacity /\ f + i - 1 = f + (i - 1)
    BY <1>1, CapacityAssumption DEF Cells
  <2> QED
    BY <2>1, AfterIs
<1>3. \A i \in 1 .. n : d[(f + i - 1) % capacity] \in Value \cup {None}
  BY <1>2
<1> HIDE DEF n
<1> QED
  BY <1>1, <1>2, <1>3 DEF n

LEMMA ContentsIs ==
  ASSUME TypeOK
  PROVE  /\ Contents \in Seq(Value \cup {None})
         /\ Len(Contents) = Distance(front, rear)
         /\ \A i \in 1 .. Distance(front, rear) :
              Contents[i] = data[After(front, i - 1)]
BY ContentsOf DEF TypeOK, Contents, Length

LEMMA ContentsNextIs ==
  ASSUME TypeOK'
  PROVE  /\ Contents' \in Seq(Value \cup {None})
         /\ Len(Contents') = Distance(front', rear')
         /\ \A i \in 1 .. Distance(front', rear') :
              Contents'[i] = data'[After(front', i - 1)]
BY ContentsOf DEF TypeOK, Contents, Length

-----------------------------------------------------------------------------
(***************************************************************************)
(* TypeOK and the second conjunct are inductive: the last address deq      *)
(* returned is the cell just before front, which is the one enq leaves     *)
(* empty, so no store through an address enq returns can reach it.         *)
(***************************************************************************)
HeldBeforeFront ==
  held.cell # None => /\ held.cell \in Cells
                      /\ front = Step(held.cell)
                      /\ data[held.cell] = held.val

IInv == TypeOK /\ HeldBeforeFront

LEMMA StoreType ==
  ASSUME data \in [Cells -> Value \cup {None}], NEW c \in Cells, NEW v \in Value,
         NEW d \in Store(c, v)
  PROVE  /\ d \in [Cells -> Value \cup {None}]
         /\ \A x \in Cells \ {c} : d[x] = data[x]
         /\ c < Block => d[c] = v
<1>1. \E w \in Value : d = [data EXCEPT ![c] = w] /\ (c < Block => w = v)
  BY DEF Store
<1> QED
  BY <1>1

LEMMA TypeInit == Init => IInv
<1> SUFFICES ASSUME Init PROVE IInv
  OBVIOUS
<1>1. 0 \in Cells
  BY CapacityAssumption DEF Cells
<1>2. TypeOK
  BY <1>1 DEF Init, TypeOK, Call, NoHeld
<1>3. HeldBeforeFront
  BY DEF Init, NoHeld, HeldBeforeFront
<1> QED
  BY <1>2, <1>3 DEF IInv

LEMMA InvStep == IInv /\ [Next]_vars => IInv'
<1> SUFFICES ASSUME IInv, [Next]_vars PROVE IInv'
  OBVIOUS
<1> USE DEF IInv, TypeOK, Call, NoHeld
<1>1. ASSUME NEW v \in Value, Enq(v) PROVE IInv'
  <2>1. rear' \in Cells
    BY <1>1, StepIs DEF Enq
  <2>2. /\ data' \in [Cells -> Value \cup {None}]
        /\ \A x \in Cells \ {rear} : data'[x] = data[x]
    BY <1>1, StoreType DEF Enq
  <2>3. held.cell # None => held.cell # rear
    BY <1>1 DEF Enq, Full, HeldBeforeFront
  <2>4. TypeOK'
    BY <1>1, <2>1, <2>2 DEF Enq
  <2>5. HeldBeforeFront'
    BY <1>1, <2>2, <2>3 DEF Enq, HeldBeforeFront
  <2> QED
    BY <2>4, <2>5
<1>2. CASE EnqFull
  BY <1>2 DEF EnqFull, HeldBeforeFront
<1>3. CASE Deq
  <2>1. front' \in Cells
    BY <1>3, StepIs DEF Deq
  <2>2. TypeOK'
    BY <1>3, <2>1 DEF Deq
  <2>3. HeldBeforeFront'
    BY <1>3 DEF Deq, HeldBeforeFront
  <2> QED
    BY <2>2, <2>3
<1>4. CASE DeqEmpty
  BY <1>4 DEF DeqEmpty, HeldBeforeFront
<1>5. CASE Destory
  BY <1>5 DEF Destory, HeldBeforeFront
<1>6. CASE InitAgain
  <2>1. 0 \in Cells
    BY CapacityAssumption DEF Cells
  <2> QED
    BY <1>6, <2>1 DEF InitAgain, HeldBeforeFront
<1>7. CASE UNCHANGED vars
  BY <1>7 DEF vars, HeldBeforeFront
<1> QED
  BY <1>1, <1>2, <1>3, <1>4, <1>5, <1>6, <1>7 DEF Next

(***************************************************************************)
(* The state of sq_queue_t keeps its type under every sequence of calls:   *)
(* in particular front and rear never index past the ring.                 *)
(***************************************************************************)
THEOREM TypeCorrect == Spec => []TypeOK
<1>1. IInv => TypeOK
  BY DEF IInv
<1> QED
  BY TypeInit, InvStep, <1>1, PTL DEF Spec

(***************************************************************************)
(* What the caller reads through the last address sq_queue_deq returned    *)
(* never changes before the next deq, however many enqueues come between.  *)
(***************************************************************************)
THEOREM HeldAlwaysIntact == Spec => []HeldIntact
<1>1. IInv => HeldIntact
  BY DEF IInv, HeldBeforeFront, HeldIntact
<1> QED
  BY TypeInit, InvStep, <1>1, PTL DEF Spec

-----------------------------------------------------------------------------
(***************************************************************************)
(* Refinement: what a step does to Contents.                               *)
(***************************************************************************)
LEMMA FullIs ==
  ASSUME TypeOK
  PROVE  /\ Full <=> Len(Contents) = Capacity
         /\ Empty <=> Contents = <<>>
<1>1. Full <=> Distance(front, rear) = Capacity
  <2>1. front \in Cells /\ rear \in Cells
    BY DEF TypeOK
  <2>2. Step(rear) = IF rear = Capacity THEN 0 ELSE rear + 1
    BY <2>1, StepIs
  <2> QED
    BY <2>1, <2>2, CapacityAssumption DEF Full, Distance, Cells, capacity
<1>2. Empty <=> Distance(front, rear) = 0
  BY DistanceRange DEF TypeOK, Empty
<1> QED
  BY <1>1, <1>2, ContentsIs DEF TypeOK

LEMMA EnqAppends ==
  ASSUME IInv, NEW v \in Value, Enq(v), ~overrun'
  PROVE  Contents' = Append(Contents, v)
<1> DEFINE d == Distance(front, rear)
<1>1. TypeOK /\ TypeOK'
  <2>1. [Next]_vars
    BY DEF Next
  <2> QED
    BY <2>1, InvStep DEF IInv
<1>2. /\ front' = front /\ rear' = Step(rear)
      /\ data'[rear] = v
      /\ \A x \in Cells \ {rear} : data'[x] = data[x]
  <2>1. rear < Block
    <3>1. ~(rear >= Block)
      BY DEF Enq
    <3> QED
      BY <1>1, <3>1, BlockAssumption, CapacityAssumption DEF TypeOK, Cells
  <2> QED
    BY <1>1, <2>1, StoreType DEF Enq, TypeOK
<1>3. Distance(front', rear') = d + 1 /\ d \in Nat /\ d < Capacity
  <2>1. front \in Cells /\ rear \in Cells /\ front # Step(rear)
    BY <1>1 DEF Enq, Full, TypeOK
  <2>2. Step(rear) = IF rear = Capacity THEN 0 ELSE rear + 1
    BY <2>1, StepIs
  <2> QED
    BY <1>2, <2>1, <2>2, CapacityAssumption DEF Distance, Cells, capacity
<1>4. After(front, d) = rear
  BY <1>1, <1>3, CapacityAssumption DEF After, Distance, TypeOK, Cells, capacity
<1>5. ASSUME NEW i \in 1 .. d
      PROVE  After(front, i - 1) \in Cells \ {rear}
  BY <1>1, <1>3, CapacityAssumption DEF After, Distance, TypeOK, Cells, capacity
<1>6. /\ Contents \in Seq(Value \cup {None}) /\ Len(Contents) = d
      /\ \A i \in 1 .. d : Contents[i] = data[After(front, i - 1)]
  BY <1>1, ContentsIs DEF TypeOK
<1>7. /\ Contents' \in Seq(Value \cup {None}) /\ Len(Contents') = d + 1
      /\ \A i \in 1 .. (d + 1) : Contents'[i] = data'[After(front, i - 1)]
  BY <1>1, <1>2, <1>3, ContentsNextIs
<1>8. \A i \in 1 .. (d + 1) : Contents'[i] = Append(Contents, v)[i]
  BY <1>2, <1>3, <1>4, <1>5, <1>6, <1>7
<1> QED
  BY <1>3, <1>6, <1>7, <1>8

LEMMA DeqTakesHead ==
  ASSUME IInv, Deq
  PROVE  /\ Contents # <<>>
         /\ data[front] = Head(Contents)
         /\ Contents' = Tail(Contents)
<1> DEFINE d == Distance(front, rear)
<1>1. TypeOK /\ TypeOK'
  <2>1. [Next]_vars
    BY DEF Next
  <2> QED
    BY <2>1, InvStep DEF IInv
<1>2. /\ front' = Step(front) /\ rear' = rear /\ data' = data
      /\ Step(front) = IF front = Capacity THEN 0 ELSE front + 1
      /\ front # rear /\ front \in Cells /\ rear \in Cells
  BY <1>1, StepIs DEF Deq, Empty, TypeOK
<1>3. Distance(front', rear') = d - 1 /\ d \in Nat \ {0} /\ d <= Capacity
  BY <1>2, CapacityAssumption DEF Distance, Cells, capacity
<1>4. After(front, 0) = front
  BY <1>2, CapacityAssumption DEF After, Cells, capacity
<1>5. ASSUME NEW i \in 1 .. (d - 1)
      PROVE  After(front', i - 1) = After(front, (i + 1) - 1)
  BY <1>2, <1>3, CapacityAssumption DEF After, Cells, capacity
<1>6. /\ Contents \in Seq(Value \cup {None}) /\ Len(Contents) = d
      /\ \A i \in 1 .. d : Contents[i] = data[After(front, i - 1)]
  BY <1>1, ContentsIs
<1>7. /\ Contents' \in Seq(Value \cup {None}) /\ Len(Contents') = d - 1
      /\ \A i \in 1 .. (d - 1) : Contents'[i] = data[After(front', i - 1)]
  BY <1>1, <1>2, <1>3, ContentsNextIs
<1>8. Head(Contents) = data[front]
  BY <1>3, <1>4, <1>6
<1>9. Contents' = Tail(Contents)
  <2>1. \A i \in 1 .. (d - 1) : Contents'[i] = Contents[i + 1]
    BY <1>3, <1>5, <1>6, <1>7
  <2> QED
    BY <1>3, <1>6, <1>7, <2>1
<1> QED
  BY <1>3, <1>6, <1>8, <1>9

LEMMA FifoInit == Init => Fifo!Init
<1> SUFFICES ASSUME Init PROVE Fifo!Init
  OBVIOUS
<1>1. TypeOK /\ Empty
  BY TypeInit DEF IInv, Init, Empty
<1>2. Contents = <<>>
  BY <1>1, FullIs
<1> QED
  BY <1>2 DEF Fifo!Init, Init, Fifo!Call, Call

LEMMA FifoStep == IInv /\ [Next]_vars => overrun' \/ [Fifo!Next]_(Fifo!vars)
<1> SUFFICES ASSUME IInv, [Next]_vars, ~overrun' PROVE [Fifo!Next]_(Fifo!vars)
  OBVIOUS
<1>1. TypeOK
  BY DEF IInv
<1> USE DEF Fifo!Next, Fifo!Call, Call
<1>2. ASSUME NEW v \in Value, Enq(v) PROVE Fifo!Enq(v)
  <2>1. Contents' = Append(Contents, v)
    BY <1>2, EnqAppends
  <2>2. Len(Contents) < Capacity
    <3>1. Len(Contents) # Capacity /\ Len(Contents) \in 0 .. Capacity
      BY <1>1, <1>2, FullIs, ContentsIs, DistanceRange DEF Enq, TypeOK
    <3> QED
      BY <3>1, CapacityAssumption
  <2> QED
    BY <1>2, <2>1, <2>2 DEF Enq, Fifo!Enq
<1>3. CASE EnqFull
  <2>1. Contents' = Contents
    BY <1>3 DEF EnqFull, Contents, Length
  <2> QED
    BY <1>1, <1>3, <2>1, FullIs DEF EnqFull, Fifo!EnqFull
<1>4. CASE Deq
  BY <1>4, DeqTakesHead DEF Deq, Fifo!Deq
<1>5. CASE DeqEmpty
  <2>1. Contents' = Contents
    BY <1>5 DEF DeqEmpty, Contents, Length
  <2> QED
    BY <1>1, <1>5, <2>1, FullIs DEF DeqEmpty, Fifo!DeqEmpty
<1>6. CASE Destory
  BY <1>6 DEF Destory, Fifo!Destory
<1>7. CASE InitAgain
  <2>1. TypeOK' /\ front' = rear' /\ front' \in Cells
    BY <1>7, InvStep DEF IInv, TypeOK, InitAgain
  <2>2. Len(Contents') = 0 /\ Contents' \in Seq(Value \cup {None})
    BY <2>1, ContentsNextIs, DistanceRange
  <2> QED
    BY <1>7, <2>2 DEF InitAgain, Fifo!InitAgain
<1>8. CASE UNCHANGED vars
  BY <1>8 DEF vars, Fifo!vars, Contents, Length
<1> QED
  BY <1>2, <1>3, <1>4, <1>5, <1>6, <1>7, <1>8 DEF Next

(***************************************************************************)
(* sq_queue.c is a bounded FIFO queue for every capacity, as long as no    *)
(* address outside its block has been handed out.                          *)
(***************************************************************************)
THEOREM QueueIsFifo == Spec => FifoUntilOverrun
BY TypeInit, InvStep, FifoInit, FifoStep, PTL DEF Spec, FifoUntilOverrun
=============================================================================
