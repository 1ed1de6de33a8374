---------------------------- MODULE QueuesProofs ----------------------------
(***************************************************************************)
(* Theorems of MCQueues for all its constants: any capacity, memory of any *)
(* finite size, any elements.  One part for each queue, each with the queue's *)
(* inductive invariant, and the theorems of the suite at the end.          *)
(***************************************************************************)
EXTENDS MCQueues, Counting, SequenceTheorems

-----------------------------------------------------------------------------
(***************************************************************************)
(* The tagged ring (q1.c of chapter_3_2).  While the ring has never been   *)
(* filled and then emptied, the tag tells a full ring from an empty one, and *)
(* rear is count cells after front.  Lap is the remainder without any %.   *)
(***************************************************************************)
Lap(x) == IF x < MaxSize THEN x ELSE x - MaxSize

LEMMA LapIs ==
  ASSUME NEW x \in 0 .. 2 * MaxSize - 1
  PROVE  x % MaxSize = Lap(x) /\ Lap(x) \in Ring!Cells
BY Sizes DEF Lap, Ring!Cells

LEMMA RingStep ==
  ASSUME NEW c \in Ring!Cells
  PROVE  Ring!Step(c) = Lap(c + 1) /\ Ring!Step(c) \in Ring!Cells
<1>1. c + 1 \in 0 .. 2 * MaxSize - 1
  BY Sizes DEF Ring!Cells
<1> QED
  BY <1>1, LapIs DEF Ring!Step

RingInv ==
  /\ Ring!TypeOK
  /\ ~drained => /\ rear = Lap(front + count)
                 /\ count = 0 => tag = 0
                 /\ count = MaxSize => tag = 1

LEMMA RingFull ==
  ASSUME RingInv, ~drained
  PROVE  (Ring!Full <=> count = MaxSize) /\ (Ring!Empty <=> count = 0)
<1>1. front = rear <=> count = 0 \/ count = MaxSize
  BY Sizes DEF RingInv, Ring!TypeOK, Ring!Cells, Lap
<1> QED
  BY <1>1, Sizes DEF RingInv, Ring!Full, Ring!Empty, Ring!TypeOK

LEMMA RingInit == Ring!Init => RingInv
<1> SUFFICES ASSUME Ring!Init PROVE RingInv
  OBVIOUS
<1>1. front = 0 /\ rear = 0 /\ tag = 0 /\ count = 0 /\ 0 \in Ring!Cells /\ MaxSize # 0
  BY Sizes DEF Ring!Init, Ring!Cells
<1>2. Ring!TypeOK
  <2>1. data \in [Ring!Cells -> Value \cup {Zero}] /\ live = TRUE /\ drained \in BOOLEAN
    BY DEF Ring!Init
  <2>2. count \in 0 .. MaxSize
    BY <1>1, Sizes
  <2> QED
    BY <1>1, <2>1, <2>2 DEF Ring!TypeOK
<1> QED
  BY <1>1, <1>2, Sizes DEF RingInv, Lap

LEMMA RingEnqueue ==
  ASSUME RingInv, NEW x \in Value, Ring!Enqueue(x)
  PROVE  RingInv'
<1>1. /\ rear' = Lap(rear + 1) /\ rear' \in Ring!Cells /\ UNCHANGED <<front, live, drained>>
      /\ tag' = IF rear' = front THEN 1 ELSE tag
      /\ data' \in [Ring!Cells -> Value \cup {Zero}]
  BY RingStep DEF Ring!Enqueue, RingInv, Ring!TypeOK
<1>2. CASE drained
  BY <1>1, <1>2 DEF RingInv, Ring!TypeOK, Ring!Enqueue
<1>3. CASE ~drained
  <2>1. count' = count + 1 /\ count \in 0 .. MaxSize - 1 /\ rear = Lap(front + count)
    BY <1>3, RingFull, Sizes DEF RingInv, Ring!TypeOK, Ring!Enqueue
  <2>2. front \in Ring!Cells /\ rear' = Lap(front + count')
    BY <1>1, <2>1, Sizes DEF RingInv, Ring!TypeOK, Ring!Cells, Lap
  <2>3. count' = MaxSize => rear' = front
    BY <2>1, <2>2, Sizes DEF Ring!Cells, Lap
  <2> QED
    BY <1>1, <2>1, <2>2, <2>3, Sizes DEF RingInv, Ring!TypeOK
<1> QED
  BY <1>2, <1>3

LEMMA RingDequeue ==
  ASSUME RingInv, Ring!Dequeue
  PROVE  RingInv'
<1>1. /\ front' = Lap(front + 1) /\ front' \in Ring!Cells /\ UNCHANGED <<rear, data, live>>
      /\ tag' = IF front' = front THEN 0 ELSE tag
  BY RingStep DEF Ring!Dequeue, RingInv, Ring!TypeOK
<1>2. CASE drained
  BY <1>1, <1>2 DEF RingInv, Ring!TypeOK, Ring!Dequeue
<1>3. CASE ~drained
  <2>1. /\ count' = count - 1 /\ count \in 1 .. MaxSize /\ rear = Lap(front + count)
        /\ drained' = (count = 1 /\ tag' = 1)
    BY <1>3, RingFull, Sizes DEF RingInv, Ring!TypeOK, Ring!Dequeue
  <2>2. front \in Ring!Cells /\ rear' = Lap(front' + count')
    BY <1>1, <2>1, Sizes DEF RingInv, Ring!TypeOK, Ring!Cells, Lap
  <2>3. Ring!TypeOK'
    BY <1>1, <2>1, Sizes DEF RingInv, Ring!TypeOK
  <2>4. ~drained' => (count' = 0 => tag' = 0)
    <3>1. count' = 0 => count = 1
      BY <2>1
    <3>2. drained' = TRUE \/ tag' # 1 \/ count # 1
      BY <2>1
    <3> QED
      BY <2>3, <3>1, <3>2 DEF Ring!TypeOK
  <2>5. count' # MaxSize
    BY <2>1, Sizes
  <2> QED
    BY <2>2, <2>3, <2>4, <2>5 DEF RingInv
<1> QED
  BY <1>2, <1>3

LEMMA RingInvStep == RingInv /\ Ring!Next => RingInv'
<1> SUFFICES ASSUME RingInv, Ring!Next PROVE RingInv'
  OBVIOUS
<1>1. CASE Ring!EnqueueFull \/ Ring!DequeueEmpty
  BY <1>1 DEF RingInv, Ring!TypeOK, Ring!EnqueueFull, Ring!DequeueEmpty
<1> QED
  BY <1>1, RingEnqueue, RingDequeue DEF Ring!Next

LEMMA RingContents ==
  ASSUME NEW f \in Ring!Cells, NEW k \in 0 .. MaxSize, NEW d
  PROVE  LET c == [j \in 1 .. k |-> d[(f + j - 1) % MaxSize]]
         IN  c = [j \in 1 .. k |-> d[Lap(f + j - 1)]] /\ Len(c) = k
<1>1. \A j \in 1 .. k : f + j - 1 \in 0 .. 2 * MaxSize - 1
  BY Sizes DEF Ring!Cells
<1>2. \A j \in 1 .. k : (f + j - 1) % MaxSize = Lap(f + j - 1)
  BY <1>1, LapIs
<1> QED
  BY <1>2, Sizes

LEMMA RingFifo == RingInv /\ Ring!Next => Ring!FifoStep
<1> SUFFICES ASSUME RingInv, ~drained, Ring!Next PROVE Ring!Fifo!Next
  BY DEF Ring!FifoStep
<1>1. /\ front \in Ring!Cells /\ count \in 0 .. MaxSize /\ live = TRUE
      /\ rear = Lap(front + count) /\ rear \in Ring!Cells
      /\ data \in [Ring!Cells -> Value \cup {Zero}]
  BY DEF RingInv, Ring!TypeOK
<1>2. /\ Ring!Contents = [j \in 1 .. count |-> data[Lap(front + j - 1)]]
      /\ Len(Ring!Contents) = count
  BY <1>1, RingContents DEF Ring!Contents
<1>3. RingInv'
  BY RingInvStep
<1>4. ASSUME front' \in Ring!Cells, count' \in 0 .. MaxSize
      PROVE  /\ Ring!Contents' = [j \in 1 .. count' |-> data'[Lap(front' + j - 1)]]
             /\ Len(Ring!Contents') = count'
  BY <1>4, RingContents DEF Ring!Contents
<1>5. front' \in Ring!Cells /\ count' \in 0 .. MaxSize
  BY <1>3 DEF RingInv, Ring!TypeOK
<1>6. Ring!Contents \in Seq(Value \cup {Zero})
  <2>1. \A j \in 1 .. count : data[Lap(front + j - 1)] \in Value \cup {Zero}
    BY <1>1, Sizes DEF Lap, Ring!Cells
  <2> QED
    BY <1>1, <1>2, <2>1
<1> USE DEF Ring!Fifo!Next, Ring!Fifo!Call, Ring!Result
<1>7. ASSUME NEW x \in Value, Ring!Enqueue(x) PROVE Ring!Fifo!Enq(x)
  <2>1. /\ data' = [data EXCEPT ![rear] = x] /\ UNCHANGED <<front, live>>
        /\ count' = count + 1 /\ count < MaxSize /\ out' = Ring!Result("enq", x)
    BY <1>1, <1>7, RingFull, Sizes DEF Ring!Enqueue
  <2>2. \A j \in 1 .. count : Lap(front + j - 1) # rear /\ Lap(front + j - 1) \in Ring!Cells
    BY <1>1, <2>1, Sizes DEF Lap, Ring!Cells
  <2>3. \A j \in 1 .. count + 1 : Ring!Contents'[j] = Append(Ring!Contents, x)[j]
    BY <1>1, <1>2, <1>4, <1>5, <1>6, <2>1, <2>2
  <2>4. Ring!Contents' = Append(Ring!Contents, x)
    BY <1>1, <1>2, <1>4, <1>5, <1>6, <2>1, <2>3
  <2> QED
    BY <1>1, <1>2, <2>1, <2>4 DEF Ring!Fifo!Enq
<1>8. CASE Ring!EnqueueFull
  <2>1. Ring!Contents' = Ring!Contents
    BY <1>8 DEF Ring!EnqueueFull, Ring!Contents
  <2> QED
    BY <1>1, <1>2, <1>8, <2>1, RingFull, Sizes DEF Ring!EnqueueFull, Ring!Fifo!EnqFull
<1>9. CASE Ring!Dequeue
  <2>1. /\ data' = data /\ live' = live /\ front' = Lap(front + 1)
        /\ count' = count - 1 /\ count > 0 /\ out' = Ring!Result("deq", data[front])
    BY <1>1, <1>9, RingFull, RingStep, Sizes DEF Ring!Dequeue
  <2>2. \A j \in 1 .. count - 1 : Lap(front' + j - 1) = Lap(front + (j + 1) - 1)
    BY <1>1, <2>1, Sizes DEF Lap, Ring!Cells
  <2>3. Lap(front + 1 - 1) = front
    BY <1>1, Sizes DEF Lap, Ring!Cells
  <2>4. Head(Ring!Contents) = data[front] /\ Ring!Contents # <<>>
    BY <1>1, <1>2, <2>1, <2>3
  <2>5. \A j \in 1 .. count - 1 : Ring!Contents'[j] = Ring!Contents[j + 1]
    BY <1>1, <1>2, <1>4, <1>5, <2>1, <2>2
  <2>6. Ring!Contents' = Tail(Ring!Contents)
    BY <1>1, <1>2, <1>4, <1>5, <1>6, <2>1, <2>5
  <2> QED
    BY <1>1, <2>1, <2>4, <2>6 DEF Ring!Fifo!Deq
<1>10. CASE Ring!DequeueEmpty
  <2>1. Ring!Contents' = Ring!Contents
    BY <1>10 DEF Ring!DequeueEmpty, Ring!Contents
  <2>2. count = 0 /\ Ring!Contents = <<>>
    BY <1>1, <1>2, <1>6, <1>10, RingFull DEF Ring!DequeueEmpty
  <2> QED
    BY <1>1, <1>10, <2>1, <2>2 DEF Ring!DequeueEmpty, Ring!Fifo!DeqEmpty
<1> QED
  BY <1>7, <1>8, <1>9, <1>10 DEF Ring!Next

-----------------------------------------------------------------------------
(***************************************************************************)
(* The queue of two stacks (q3.c of chapter_3_2).                          *)
(***************************************************************************)
Slots == 0 .. MaxSize - 1
Item == Value \cup {None}

StacksInv ==
  /\ Stacks!TypeOK
  /\ live = TRUE /\ pc # "segv"
  /\ pc # "idle" => top1 + top2 + 2 <= MaxSize

LEMMA StackTypes ==
  ASSUME StacksInv
  PROVE  /\ top1 \in -1 .. MaxSize - 1 /\ top2 \in -1 .. MaxSize - 1
         /\ data1 \in [Slots -> Item] /\ data2 \in [Slots -> Item]
         /\ Stacks!S1!Overflow <=> top1 = MaxSize - 1
<1>1. /\ top1 \in -1 .. MaxSize - 1 /\ top2 \in -1 .. MaxSize - 1
      /\ data1 \in [Slots -> Item] /\ data2 \in [Slots -> Item]
  BY DEF StacksInv, Stacks!TypeOK, Stacks!S1!TypeOK, Stacks!S2!TypeOK,
         Stacks!S1!Cells, Stacks!S2!Cells, Slots, Item
<1>2. (MaxSize - 1) % SizeMod = MaxSize - 1
  BY Sizes
<1>3. top1 % SizeMod = IF top1 = -1 THEN SizeMod - 1 ELSE top1
  BY <1>1, Sizes
<1> QED
  BY <1>1, <1>2, <1>3, Sizes DEF Stacks!S1!Overflow

LEMMA StacksInit == Stacks!Init => StacksInv
<1> SUFFICES ASSUME Stacks!Init PROVE StacksInv
  OBVIOUS
<1>1. Stacks!S1!TypeOK /\ Stacks!S2!TypeOK
  BY Sizes DEF Stacks!Init, Stacks!S1!Init, Stacks!S2!Init, Stacks!S1!TypeOK, Stacks!S2!TypeOK,
     Stacks!S1!Call, Stacks!S2!Call, Stacks!S1!Cells, Stacks!S2!Cells
<1> QED
  BY <1>1, NullIsApart DEF Stacks!Init, Stacks!S1!Init, Stacks!TypeOK, StacksInv, Stacks!Result

\* what the calls of the two stacks do
LEMMA PushesOne ==
  ASSUME StacksInv, NEW x \in Item, Stacks!S1!Push(x)
  PROVE  /\ Stacks!S1!TypeOK' /\ top1 + 1 < MaxSize /\ top1' = top1 + 1
         /\ data1' = [data1 EXCEPT ![top1 + 1] = x] /\ live' = live
BY StackTypes, Sizes DEF Stacks!S1!Push, Stacks!S1!Room, Stacks!S1!TypeOK, Stacks!S1!Call,
   Stacks!S1!Cells, Slots, Item, StacksInv

LEMMA PopsOne ==
  ASSUME StacksInv, Stacks!S1!Pop
  PROVE  /\ Stacks!S1!TypeOK' /\ top1 # -1 /\ top1' = top1 - 1
         /\ data1' = data1 /\ live' = live /\ out1'.res = data1[top1] /\ data1[top1] \in Item
<1>1. data1[top1] \in Item
  BY StackTypes DEF Stacks!S1!Pop, Stacks!S1!Empty, Slots
<1> QED
  BY <1>1, StackTypes, Sizes DEF Stacks!S1!Pop, Stacks!S1!Empty, Stacks!S1!TypeOK, Stacks!S1!Call,
   Stacks!S1!Cells, Slots, Item, StacksInv

LEMMA PushesTwo ==
  ASSUME StacksInv, NEW x \in Item, Stacks!S2!Push(x)
  PROVE  /\ Stacks!S2!TypeOK' /\ top2 + 1 < MaxSize /\ top2' = top2 + 1
         /\ data2' = [data2 EXCEPT ![top2 + 1] = x] /\ live' = live
BY StackTypes, Sizes DEF Stacks!S2!Push, Stacks!S2!Room, Stacks!S2!TypeOK, Stacks!S2!Call,
   Stacks!S2!Cells, Slots, Item, StacksInv

LEMMA PopsTwo ==
  ASSUME StacksInv, Stacks!S2!Pop
  PROVE  /\ Stacks!S2!TypeOK' /\ top2 # -1 /\ top2' = top2 - 1
         /\ data2' = data2 /\ live' = live /\ out2'.res = data2[top2] /\ data2[top2] \in Item
<1>1. data2[top2] \in Item
  BY StackTypes DEF Stacks!S2!Pop, Stacks!S2!Empty, Slots
<1> QED
  BY <1>1, StackTypes, Sizes DEF Stacks!S2!Pop, Stacks!S2!Empty, Stacks!S2!TypeOK, Stacks!S2!Call,
   Stacks!S2!Cells, Slots, Item, StacksInv

LEMMA TypesKept ==
  ASSUME StacksInv
  PROVE  /\ UNCHANGED <<top1, data1, out1, live>> => Stacks!S1!TypeOK'
         /\ UNCHANGED <<top2, data2, out2, live>> => Stacks!S2!TypeOK'
BY DEF StacksInv, Stacks!TypeOK, Stacks!S1!TypeOK, Stacks!S2!TypeOK, Stacks!S1!Cells, Stacks!S2!Cells

\* no push is refused: neither the new element's nor a move's
LEMMA PushesArg ==
  ASSUME StacksInv, NEW x \in Value, top1 # MaxSize - 1, Stacks!PushArg(x)
  PROVE  /\ Stacks!S1!Push(x) /\ pc' = "idle" /\ arg' = None
         /\ out' = Stacks!Result("enq", x) /\ UNCHANGED <<top2, data2, out2>>
BY StackTypes, Sizes DEF Stacks!PushArg, Stacks!S1!PushFull, Stacks!S1!Room

LEMMA Moves ==
  ASSUME StacksInv, Stacks!Move
  PROVE  Stacks!S2!Push(data1[top1]) /\ UNCHANGED <<pc, arg, out>>
<1>1. top1 # -1 /\ out1'.res = data1[top1]
  BY PopsOne DEF Stacks!Move
<1>2. ~Stacks!S2!PushFull
  <2>1. top1 + top2 + 2 <= MaxSize
    BY DEF Stacks!Move, StacksInv
  <2>2. top2 + 1 < MaxSize
    BY <1>1, <2>1, StackTypes, Sizes
  <2> QED
    BY <2>2 DEF Stacks!S2!PushFull, Stacks!S2!Room
<1> QED
  BY <1>1, <1>2 DEF Stacks!Move

LEMMA StacksInvStep == StacksInv /\ Stacks!Next => StacksInv'
<1> SUFFICES ASSUME StacksInv, Stacks!Next PROVE StacksInv'
  OBVIOUS
<1>a. /\ pc \in {"idle", "enqueue", "dequeue"} /\ live = TRUE
      /\ arg \in Item /\ (arg # None <=> pc = "enqueue")
      /\ out \in [op : {"init", "enq", "deq"}, res : Item]
      /\ pc # "idle" => top1 + top2 + 2 <= MaxSize
  BY DEF StacksInv, Stacks!TypeOK, Item
<1>b. /\ top1 \in -1 .. MaxSize - 1 /\ top2 \in -1 .. MaxSize - 1 /\ MaxSize \in Nat
  BY StackTypes, Sizes
<1>c. SUFFICES /\ Stacks!S1!TypeOK' /\ Stacks!S2!TypeOK' /\ live' = live
               /\ pc' \in {"idle", "enqueue", "dequeue"}
               /\ arg' \in Item /\ (arg' # None <=> pc' = "enqueue")
               /\ out' \in [op : {"init", "enq", "deq"}, res : Item]
               /\ pc' = "idle" \/ top1' + top2' + 2 <= MaxSize
  BY <1>a DEF StacksInv, Stacks!TypeOK, Item
<1>d. ASSUME NEW x \in Item, NEW op \in {"enq", "deq"}
      PROVE  Stacks!Result(op, x) \in [op : {"init", "enq", "deq"}, res : Item]
  BY DEF Stacks!Result
<1>1. ASSUME NEW x \in Value, Stacks!PushArg(x), top1 # MaxSize - 1 PROVE <1>c!1
  <2>1. /\ Stacks!S1!Push(x) /\ pc' = "idle" /\ arg' = None
         /\ out' = Stacks!Result("enq", x) /\ UNCHANGED <<top2, data2, out2>> /\ x \in Item
    BY <1>1, PushesArg DEF Item
  <2>2. live' = live /\ Stacks!S1!TypeOK'
    BY <2>1, PushesOne
  <2>3. Stacks!S2!TypeOK'
    BY <2>1, <2>2, TypesKept
  <2>4. arg' \in Item
    BY <2>1 DEF Item
  <2> QED
    BY <1>d, <2>1, <2>2, <2>3, <2>4
<1>2. ASSUME NEW x \in Value, Stacks!Enqueue(x) PROVE <1>c!1
  BY <1>1, <1>2, StackTypes DEF Stacks!Enqueue
<1>3. ASSUME NEW x \in Value, Stacks!EnqueueMoves(x) PROVE <1>c!1
  <2>1. /\ UNCHANGED <<top1, data1, out1, top2, data2, out2, live, out>>
        /\ pc' = "enqueue" /\ arg' = x /\ top2 = -1 /\ x # None /\ x \in Item
    BY <1>3, NullIsApart DEF Stacks!EnqueueMoves, Stacks!stacks, Stacks!S2!Empty, Item
  <2>2. top1' + top2' + 2 <= MaxSize
    BY <1>b, <2>1
  <2> QED
    BY <1>a, <2>1, <2>2, TypesKept
<1>4. CASE Stacks!Refuse \/ Stacks!DequeueEmpty
  <2>1. /\ UNCHANGED <<top1, data1, out1, top2, data2, out2, live, pc, arg>> /\ pc = "idle"
    BY <1>4 DEF Stacks!Refuse, Stacks!DequeueEmpty, Stacks!stacks
  <2>2. out' \in [op : {"init", "enq", "deq"}, res : Item]
    BY <1>4, <1>d DEF Stacks!Refuse, Stacks!DequeueEmpty, Item
  <2> QED
    BY <1>a, <2>1, <2>2, TypesKept
<1>5. CASE Stacks!DequeueMoves
  <2>1. /\ UNCHANGED <<top1, data1, out1, top2, data2, out2, live, out, arg>>
        /\ pc = "idle" /\ pc' = "dequeue" /\ top2 = -1
    BY <1>5 DEF Stacks!DequeueMoves, Stacks!stacks, Stacks!S2!Empty
  <2>2. top1' + top2' + 2 <= MaxSize
    BY <1>b, <2>1
  <2> QED
    BY <1>a, <2>1, <2>2, TypesKept
<1>6. CASE Stacks!PopS2 /\ pc # "enqueue"
  <2>1. Stacks!S2!TypeOK' /\ live' = live /\ out2'.res \in Item
    BY <1>6, PopsTwo DEF Stacks!PopS2
  <2>2. Stacks!S1!TypeOK'
    BY <1>6, <2>1, TypesKept DEF Stacks!PopS2
  <2> QED
    BY <1>a, <1>d, <1>6, <2>1, <2>2 DEF Stacks!PopS2
<1>7. CASE Stacks!Move
  <2>1. /\ Stacks!S1!TypeOK' /\ top1' = top1 - 1 /\ live' = live /\ data1[top1] \in Item
    BY <1>7, PopsOne DEF Stacks!Move
  <2>2. Stacks!S2!TypeOK' /\ top2' = top2 + 1
    BY <1>7, <2>1, Moves, PushesTwo
  <2>3. UNCHANGED <<pc, arg, out>> /\ pc # "idle"
    BY <1>7, Moves DEF Stacks!Move
  <2>4. top1' + top2' + 2 <= MaxSize
    BY <1>a, <1>b, <2>1, <2>2, <2>3
  <2> QED
    BY <1>a, <2>1, <2>2, <2>3, <2>4
<1>8. CASE Stacks!MovedEnqueue
  <2>1. arg \in Value /\ top1 = -1 /\ Stacks!PushArg(arg)
    BY <1>8, <1>a DEF Stacks!MovedEnqueue, Stacks!S1!Empty, Item
  <2>2. top1 # MaxSize - 1
    BY <2>1, Sizes
  <2> QED
    BY <1>1, <2>1, <2>2
<1> QED
  BY <1>2, <1>3, <1>4, <1>5, <1>6, <1>7, <1>8 DEF Stacks!Next, Stacks!Dequeue, Stacks!MovedDequeue

\* what a stack of k elements in the cells d holds
Pile(k, d) == [i \in 1 .. k |-> d[i - 1]]

\* s is s2 (n elements in the cells e) from its top, then s1 (m in d) from its bottom
S2First(s, m, n, d, e) ==
  /\ s \in Seq(Item) /\ Len(s) = m + n
  /\ \A j \in 1 .. n : s[j] = e[n - j]
  /\ \A j \in 1 .. m : s[n + j] = d[j - 1]

\* s is s1 from its bottom, then s2 from its top
S1First(s, m, n, d, e) ==
  /\ s \in Seq(Item) /\ Len(s) = m + n
  /\ \A j \in 1 .. m : s[j] = d[j - 1]
  /\ \A j \in 1 .. n : s[m + j] = e[n - j]

\* two sequences, one after the other
LEMMA ConcatIs ==
  ASSUME NEW V, NEW a \in Seq(V), NEW b \in Seq(V)
  PROVE  /\ a \o b \in Seq(V) /\ Len(a \o b) = Len(a) + Len(b)
         /\ \A j \in 1 .. Len(a) : (a \o b)[j] = a[j]
         /\ \A j \in 1 .. Len(b) : (a \o b)[Len(a) + j] = b[j]
OBVIOUS

LEMMA Joined ==
  ASSUME NEW m \in 0 .. MaxSize, NEW n \in 0 .. MaxSize,
         NEW d \in [Slots -> Item], NEW e \in [Slots -> Item]
  PROVE  /\ S2First(Stacks!FromTop(Pile(n, e)) \o Pile(m, d), m, n, d, e)
         /\ S1First(Pile(m, d) \o Stacks!FromTop(Pile(n, e)), m, n, d, e)
<1> DEFINE one == Pile(m, d)
           rev == Pile(n, e)
           two == Stacks!FromTop(rev)
<1>0. m \in Nat /\ n \in Nat
  BY Sizes
<1>1. one \in Seq(Item) /\ Len(one) = m /\ \A j \in 1 .. m : one[j] = d[j - 1]
  <2>1. \A k \in 1 .. m : d[k - 1] \in Item
    BY Sizes DEF Slots
  <2> QED
    BY <2>1 DEF Pile
<1>2. Len(rev) = n /\ \A j \in 1 .. n : rev[j] = e[j - 1] /\ e[j - 1] \in Item
  BY Sizes DEF Slots, Pile
<1>3. two \in Seq(Item) /\ Len(two) = n /\ \A j \in 1 .. n : two[j] = e[n - j]
  <2>1. two = [j \in 1 .. n |-> rev[n + 1 - j]]
    BY <1>2 DEF Stacks!FromTop
  <2>2. \A j \in 1 .. n : n + 1 - j \in 1 .. n /\ n + 1 - j - 1 = n - j
    OBVIOUS
  <2> HIDE DEF rev, two
  <2>3. ASSUME NEW j \in 1 .. n PROVE rev[n + 1 - j] = e[n - j] /\ e[n - j] \in Item
    BY <1>2, <2>2
  <2> QED
    BY <2>1, <2>3
<1> HIDE DEF one, two
<1>4. /\ two \o one \in Seq(Item) /\ Len(two \o one) = m + n
      /\ one \o two \in Seq(Item) /\ Len(one \o two) = m + n
  <2>1. one \in Seq(Item) /\ Len(one) = m /\ two \in Seq(Item) /\ Len(two) = n
    BY <1>1, <1>3
  <2> QED
    BY <1>0, <2>1
<1>5. ASSUME NEW j \in 1 .. n
      PROVE  (two \o one)[j] = e[n - j] /\ (one \o two)[m + j] = e[n - j]
  <2>1. two[j] = e[n - j]
    BY <1>3
  <2>2. (two \o one)[j] = two[j] /\ (one \o two)[m + j] = two[j]
    BY <1>0, <1>1, <1>3, <2>1, ConcatIs
  <2> QED
    BY <2>1, <2>2
<1>6. ASSUME NEW j \in 1 .. m
      PROVE  (two \o one)[n + j] = d[j - 1] /\ (one \o two)[j] = d[j - 1]
  <2>1. one[j] = d[j - 1]
    BY <1>1
  <2>2. (two \o one)[n + j] = one[j] /\ (one \o two)[j] = one[j]
    BY <1>0, <1>1, <1>3, <2>1, ConcatIs
  <2> QED
    BY <2>1, <2>2
<1>7. S2First(two \o one, m, n, d, e) /\ S1First(one \o two, m, n, d, e)
  BY <1>4, <1>5, <1>6 DEF S2First, S1First
<1> QED
  BY <1>7 DEF one, two, rev

\* the same in this state and in the next one
LEMMA QueueIs ==
  ASSUME NEW m \in 0 .. MaxSize, NEW n \in 0 .. MaxSize, top1 + 1 = m, top2 + 1 = n,
         data1 \in [Slots -> Item], data2 \in [Slots -> Item]
  PROVE  IF pc = "idle" THEN S2First(Stacks!Queue, m, n, data1, data2)
                        ELSE S1First(Stacks!Queue, m, n, data1, data2)
<1>1. Stacks!S1!Contents = Pile(m, data1) /\ Stacks!S2!Contents = Pile(n, data2)
  BY DEF Stacks!S1!Contents, Stacks!S2!Contents, Pile
<1>2. Stacks!Queue = IF pc = "idle" THEN Stacks!FromTop(Pile(n, data2)) \o Pile(m, data1)
                                    ELSE Pile(m, data1) \o Stacks!FromTop(Pile(n, data2))
  BY <1>1 DEF Stacks!Queue
<1> QED
  BY <1>2, Joined

LEMMA QueueNextIs ==
  ASSUME NEW m \in 0 .. MaxSize, NEW n \in 0 .. MaxSize, top1' + 1 = m, top2' + 1 = n,
         data1' \in [Slots -> Item], data2' \in [Slots -> Item]
  PROVE  IF pc' = "idle" THEN S2First(Stacks!Queue', m, n, data1', data2')
                         ELSE S1First(Stacks!Queue', m, n, data1', data2')
<1>1. Stacks!S1!Contents' = Pile(m, data1') /\ Stacks!S2!Contents' = Pile(n, data2')
  BY DEF Stacks!S1!Contents, Stacks!S2!Contents, Pile
<1>2. Stacks!Queue' = IF pc' = "idle" THEN Stacks!FromTop(Pile(n, data2')) \o Pile(m, data1')
                                      ELSE Pile(m, data1') \o Stacks!FromTop(Pile(n, data2'))
  BY <1>1 DEF Stacks!Queue
<1> QED
  BY <1>2, Joined

LEMMA CellsOf ==
  ASSUME NEW s, NEW m \in Nat, NEW n \in Nat, NEW d, NEW e
  PROVE  /\ S2First(s, m, n, d, e) =>
              \A j \in 1 .. m + n : s[j] = IF j <= n THEN e[n - j] ELSE d[j - n - 1]
         /\ S1First(s, m, n, d, e) =>
              \A j \in 1 .. m + n : s[j] = IF j <= m THEN d[j - 1] ELSE e[m + n - j]
<1>1. ASSUME S2First(s, m, n, d, e), NEW j \in 1 .. m + n, ~(j <= n) PROVE s[j] = d[j - n - 1]
  <2>1. \E i \in 1 .. m : j = n + i /\ i - 1 = j - n - 1
    <3>1. j - n \in 1 .. m /\ j = n + (j - n)
      BY <1>1
    <3> QED
      BY <3>1
  <2> QED
    BY <1>1, <2>1 DEF S2First
<1>2. ASSUME S1First(s, m, n, d, e), NEW j \in 1 .. m + n, ~(j <= m) PROVE s[j] = e[m + n - j]
  <2>1. \E i \in 1 .. n : j = m + i /\ n - i = m + n - j
    <3>1. j - m \in 1 .. n /\ j = m + (j - m) /\ n - (j - m) = m + n - j
      BY <1>2
    <3> QED
      BY <3>1
  <2> QED
    BY <1>2, <2>1 DEF S1First
<1>3. \A j \in 1 .. m + n : (j <= n => j \in 1 .. n) /\ (j <= m => j \in 1 .. m)
  OBVIOUS
<1> QED
  BY <1>1, <1>2, <1>3 DEF S1First, S2First

LEMMA StacksFifo == StacksInv /\ Stacks!Next => Stacks!FifoStep
<1> SUFFICES ASSUME StacksInv, Stacks!Next PROVE [Stacks!Fifo!Next]_(Stacks!Fifo!vars)
  BY DEF Stacks!FifoStep
<1> DEFINE m == top1 + 1
           n == top2 + 1
           Q == Stacks!Queue
<1>a. /\ m \in 0 .. MaxSize /\ n \in 0 .. MaxSize /\ m \in Nat /\ n \in Nat /\ MaxSize \in Nat \ {0}
      /\ top1 = m - 1 /\ top2 = n - 1
      /\ data1 \in [Slots -> Item] /\ data2 \in [Slots -> Item] /\ live = TRUE
      /\ Stacks!S1!Overflow <=> m = MaxSize
      /\ Stacks!S2!Empty <=> n = 0
      /\ Stacks!S1!Empty <=> m = 0
      /\ pc # "idle" => m + n <= MaxSize
  BY StackTypes, Sizes DEF StacksInv, Stacks!S2!Empty, Stacks!S1!Empty
<1>b. IF pc = "idle" THEN S2First(Q, m, n, data1, data2) ELSE S1First(Q, m, n, data1, data2)
  BY <1>a, QueueIs
<1>c. StacksInv'
  BY StacksInvStep
<1>d. /\ data1' \in [Slots -> Item] /\ data2' \in [Slots -> Item]
      /\ top1' + 1 \in 0 .. MaxSize /\ top2' + 1 \in 0 .. MaxSize
  <2>1. /\ data1' \in [Slots -> Item] /\ data2' \in [Slots -> Item]
        /\ top1' \in -1 .. MaxSize - 1 /\ top2' \in -1 .. MaxSize - 1
    BY <1>c DEF StacksInv, Stacks!TypeOK, Stacks!S1!TypeOK, Stacks!S2!TypeOK,
         Stacks!S1!Cells, Stacks!S2!Cells, Slots, Item
  <2>2. \A t \in -1 .. MaxSize - 1 : t + 1 \in 0 .. MaxSize
    BY Sizes
  <2> QED
    BY <2>1, <2>2
<1>e. IF pc' = "idle" THEN S2First(Q', top1' + 1, top2' + 1, data1', data2')
                      ELSE S1First(Q', top1' + 1, top2' + 1, data1', data2')
  BY <1>d, QueueNextIs
<1> HIDE DEF m, n
<1>f. Q \in Seq(Item) /\ Len(Q) = m + n
  BY <1>b DEF S1First, S2First
<1>g. ASSUME pc = "idle", NEW j \in 1 .. m + n
      PROVE  Q[j] = IF j <= n THEN data2[n - j] ELSE data1[j - n - 1]
  BY <1>a, <1>b, <1>g, CellsOf
<1>h. ASSUME pc # "idle", NEW j \in 1 .. m + n
      PROVE  Q[j] = IF j <= m THEN data1[j - 1] ELSE data2[m + n - j]
  BY <1>a, <1>b, <1>h, CellsOf
<1>i. ASSUME NEW k \in Nat, NEW l \in Nat, top1' + 1 = k, top2' + 1 = l
      PROVE  /\ Q' \in Seq(Item) /\ Len(Q') = k + l
             /\ pc' = "idle" => \A j \in 1 .. k + l : Q'[j] = IF j <= l THEN data2'[l - j] ELSE data1'[j - l - 1]
             /\ pc' # "idle" => \A j \in 1 .. k + l : Q'[j] = IF j <= k THEN data1'[j - 1] ELSE data2'[k + l - j]
  <2>1. IF pc' = "idle" THEN S2First(Q', k, l, data1', data2') ELSE S1First(Q', k, l, data1', data2')
    BY <1>e, <1>i
  <2>2. Q' \in Seq(Item) /\ Len(Q') = k + l
    BY <2>1 DEF S1First, S2First
  <2>3. ASSUME pc' = "idle", NEW j \in 1 .. k + l
        PROVE  Q'[j] = IF j <= l THEN data2'[l - j] ELSE data1'[j - l - 1]
    BY <2>1, <2>3, CellsOf
  <2>4. ASSUME pc' # "idle", NEW j \in 1 .. k + l
        PROVE  Q'[j] = IF j <= k THEN data1'[j - 1] ELSE data2'[k + l - j]
    BY <2>1, <2>4, CellsOf
  <2> QED
    BY <2>2, <2>3, <2>4
<1> USE DEF Stacks!Fifo!Call, Stacks!Result
<1>1. ASSUME NEW x \in Value, Stacks!PushArg(x), m < MaxSize, pc = "idle" \/ m = 0
      PROVE  Stacks!Fifo!Enq(x)
  <2>1. /\ data1' = [data1 EXCEPT ![m] = x] /\ top1' + 1 = m + 1 /\ top2' + 1 = n
        /\ pc' = "idle" /\ out' = Stacks!Result("enq", x) /\ live' = live /\ data2' = data2 /\ x \in Item
    <3>1. top1 # MaxSize - 1 /\ x \in Item /\ top1 + 1 = m
      BY <1>1, <1>a DEF Item
    <3>2. /\ Stacks!S1!Push(x) /\ pc' = "idle"
          /\ out' = Stacks!Result("enq", x) /\ UNCHANGED <<top2, data2, out2>>
      BY <1>1, <3>1, PushesArg
    <3>3. top1' = m /\ live' = live /\ data1' = [data1 EXCEPT ![m] = x]
      BY <1>a, <3>1, <3>2, PushesOne
    <3> QED
      BY <1>a, <3>1, <3>2, <3>3
  <2>2. /\ Q' \in Seq(Item) /\ Len(Q') = m + n + 1
        /\ \A j \in 1 .. m + n + 1 : Q'[j] = IF j <= n THEN data2[n - j] ELSE data1'[j - n - 1]
    BY <1>a, <1>i, <2>1
  <2>3. \A j \in 1 .. m + n : Q[j] = IF j <= n THEN data2[n - j] ELSE data1[j - n - 1]
    <3>1. CASE pc = "idle"
      BY <1>g, <3>1
    <3>2. CASE pc # "idle"
      BY <1>1, <1>a, <1>h, <3>2
    <3> QED
      BY <3>1, <3>2
  <2>4. ASSUME NEW j \in 1 .. m + n + 1 PROVE Q'[j] = Append(Q, x)[j]
    <3>1. CASE j = m + n + 1
      <4>1. ~(j <= n) /\ j - n - 1 = m /\ m \in Slots
        BY <1>1, <1>a, <3>1 DEF Slots
      <4>2. Q'[j] = x
        BY <1>a, <2>1, <2>2, <4>1
      <4> QED
        BY <1>a, <1>f, <3>1, <4>2
    <3>2. CASE j # m + n + 1
      <4>1. j \in 1 .. m + n /\ (~(j <= n) => j - n - 1 # m)
        BY <1>a, <3>2
      <4>2. Q'[j] = Q[j]
        BY <1>a, <2>1, <2>2, <2>3, <4>1
      <4> QED
        BY <1>a, <1>f, <4>1, <4>2
    <3> QED
      BY <3>1, <3>2
  <2>5. Q' = Append(Q, x)
    BY <1>a, <1>f, <2>1, <2>2, <2>4
  <2>6. Len(Q) < 2 * MaxSize
    BY <1>1, <1>a, <1>f
  <2> QED
    BY <1>a, <2>1, <2>5, <2>6 DEF Stacks!Fifo!Enq
<1>2. ASSUME Stacks!PopS2, pc = "idle" \/ m = 0
      PROVE  Stacks!Fifo!Deq
  <2>0. PICK l \in Nat : n = l + 1
    <3>1. n - 1 \in Nat /\ n = (n - 1) + 1
      BY <1>2, <1>a, PopsTwo DEF Stacks!PopS2
    <3> QED
      BY <3>1
  <2>1. /\ data1' = data1 /\ top1' + 1 = m /\ top2' + 1 = l
        /\ pc' = "idle" /\ out' = Stacks!Result("deq", data2[l]) /\ live' = live /\ data2' = data2
    BY <1>2, <1>a, <2>0, PopsTwo DEF Stacks!PopS2
  <2>2. /\ Q' \in Seq(Item) /\ Len(Q') = m + l
        /\ \A j \in 1 .. m + l : Q'[j] = IF j <= l THEN data2[l - j] ELSE data1[j - l - 1]
    BY <1>a, <1>i, <2>1
  <2>3. \A j \in 1 .. m + n : Q[j] = IF j <= n THEN data2[n - j] ELSE data1[j - n - 1]
    <3>1. CASE pc = "idle"
      BY <1>g, <3>1
    <3>2. CASE pc # "idle"
      BY <1>2, <1>a, <1>h, <3>2
    <3> QED
      BY <3>1, <3>2
  <2>4. ASSUME NEW j \in 1 .. m + l PROVE Q'[j] = Q[j + 1]
    <3>1. PICK i \in 1 .. m + n : i = j + 1
      BY <1>a, <2>0
    <3>2. (j <= l <=> i <= n) /\ n - i = l - j /\ i - n - 1 = j - l - 1
      BY <1>a, <2>0, <3>1
    <3>3. Q[i] = IF i <= n THEN data2[n - i] ELSE data1[i - n - 1]
      BY <2>3
    <3>4. Q'[j] = Q[i]
      BY <2>2, <3>2, <3>3
    <3> QED
      BY <3>1, <3>4
  <2>5. Q # <<>> /\ Head(Q) = data2[l]
    <3>1. 1 \in 1 .. m + n /\ 1 <= n /\ n - 1 = l
      BY <1>a, <2>0
    <3>2. Q[1] = data2[l]
      BY <2>3, <3>1
    <3> QED
      BY <1>f, <3>1, <3>2
  <2>6. Q' = Tail(Q)
    <3>1. Len(Q) = m + l + 1 /\ m + l \in Nat
      BY <1>a, <1>f, <2>0
    <3> QED
      BY <1>f, <2>2, <2>4, <2>5, <3>1
  <2> QED
    BY <1>a, <2>1, <2>5, <2>6 DEF Stacks!Fifo!Deq
<1>3. ASSUME NEW x \in Value, Stacks!Enqueue(x) PROVE Stacks!Fifo!Enq(x)
  BY <1>a, <1>1, <1>3 DEF Stacks!Enqueue
<1>4. ASSUME Stacks!DequeueMoves \/ \E x \in Value : Stacks!EnqueueMoves(x)
      PROVE  UNCHANGED Stacks!Fifo!vars
  <2>1. /\ data1' = data1 /\ data2' = data2 /\ top1' + 1 = m /\ top2' + 1 = n /\ n = 0
        /\ pc = "idle" /\ pc' # "idle" /\ UNCHANGED <<out, live>>
    <3>1. CASE Stacks!DequeueMoves
      BY <3>1, <1>a DEF Stacks!DequeueMoves, Stacks!stacks
    <3>2. CASE \E x \in Value : Stacks!EnqueueMoves(x)
      BY <3>2, <1>a DEF Stacks!EnqueueMoves, Stacks!stacks
    <3> QED
      BY <1>4, <3>1, <3>2
  <2>2. Len(Q') = m /\ Q' \in Seq(Item) /\ \A j \in 1 .. m : Q'[j] = data1[j - 1]
    BY <1>a, <1>i, <2>1
  <2>3. Len(Q) = m /\ \A j \in 1 .. m : Q[j] = data1[j - 1]
    BY <1>a, <1>f, <1>g, <2>1
  <2>4. Q' = Q
    BY <1>a, <1>f, <2>2, <2>3
  <2> QED
    BY <2>1, <2>4 DEF Stacks!Fifo!vars
<1>5. CASE Stacks!Refuse
  <2>1. Q' = Q
    BY <1>5 DEF Stacks!Refuse, Stacks!stacks, Stacks!Queue, Stacks!S1!Contents, Stacks!S2!Contents, Stacks!FromTop
  <2>2. Len(Q) >= MaxSize + 1 /\ live' = live /\ out' = Stacks!Result("enq", None)
    BY <1>5, <1>a, <1>f DEF Stacks!Refuse, Stacks!stacks
  <2> QED
    BY <1>a, <2>1, <2>2 DEF Stacks!Fifo!EnqFull, Stacks!Fifo!Next
<1>6. CASE Stacks!DequeueEmpty
  <2>1. Q' = Q
    BY <1>6 DEF Stacks!DequeueEmpty, Stacks!stacks, Stacks!Queue, Stacks!S1!Contents, Stacks!S2!Contents, Stacks!FromTop
  <2>2. Len(Q) = 0 /\ live' = live /\ out' = Stacks!Result("deq", None)
    BY <1>6, <1>a, <1>f DEF Stacks!DequeueEmpty, Stacks!stacks
  <2>3. Q = <<>>
    BY <1>f, <2>2
  <2> QED
    BY <1>a, <2>1, <2>2, <2>3 DEF Stacks!Fifo!DeqEmpty, Stacks!Fifo!Next
<1>7. CASE Stacks!Dequeue
  BY <1>2, <1>7 DEF Stacks!Dequeue, Stacks!Fifo!Next
<1>8. ASSUME Stacks!Move PROVE UNCHANGED Stacks!Fifo!vars
  <2>0. PICK k \in Nat : m = k + 1
    <3>1. m - 1 \in Nat /\ m = (m - 1) + 1
      BY <1>8, <1>a, PopsOne DEF Stacks!Move
    <3> QED
      BY <3>1
  <2>1. /\ data1' = data1 /\ top1' + 1 = k /\ live' = live /\ data1[k] \in Item
        /\ pc # "idle" /\ UNCHANGED <<pc, out>>
    BY <1>8, <1>a, <2>0, PopsOne, Moves DEF Stacks!Move
  <2>2. data2' = [data2 EXCEPT ![n] = data1[k]] /\ top2' + 1 = n + 1 /\ n < MaxSize
    <3>1. top1 = k /\ Stacks!S2!Push(data1[k])
      BY <1>8, <1>a, <2>0, Moves
    <3> QED
      BY <1>a, <2>1, <3>1, PushesTwo
  <2>3. /\ Len(Q') = k + (n + 1) /\ Q' \in Seq(Item)
        /\ \A j \in 1 .. k + (n + 1) :
             Q'[j] = IF j <= k THEN data1[j - 1] ELSE data2'[k + (n + 1) - j]
    <3>1. n + 1 \in Nat
      BY <1>a
    <3> QED
      BY <1>i, <2>1, <2>2, <3>1
  <2>4. k + (n + 1) = m + n
    BY <1>a, <2>0
  <2>5. ASSUME NEW j \in 1 .. m + n PROVE Q'[j] = Q[j]
    <3>0. Q[j] = IF j <= m THEN data1[j - 1] ELSE data2[m + n - j]
      BY <1>h, <2>1
    <3>a. /\ j <= k => Q'[j] = data1[j - 1]
          /\ ~(j <= k) => Q'[j] = data2'[k + (n + 1) - j]
      <4>1. j \in 1 .. k + (n + 1)
        BY <2>4
      <4> QED
        BY <2>3, <4>1
    <3>1. CASE j <= k
      BY <1>a, <2>0, <3>0, <3>a, <3>1
    <3>2. CASE j = m
      <4>1. ~(j <= k) /\ j <= m /\ k + (n + 1) - j = n /\ n \in Slots /\ j - 1 = k
        BY <1>a, <2>0, <2>2, <3>2 DEF Slots
      <4>2. data2'[n] = data1[k]
        BY <1>a, <2>2, <4>1
      <4> QED
        BY <3>0, <3>a, <4>1, <4>2
    <3>3. CASE j > m
      <4>1. PICK c \in Slots : c = m + n - j /\ c # n /\ k + (n + 1) - j = c
        <5>1. m + n - j \in Slots /\ m + n - j # n /\ k + (n + 1) - j = m + n - j
          BY <1>a, <2>0, <2>2, <3>3 DEF Slots
        <5> QED
          BY <5>1
      <4>2. ~(j <= k) /\ ~(j <= m)
        BY <1>a, <2>0, <3>3
      <4>3. data2'[c] = data2[c]
        BY <1>a, <2>2, <4>1
      <4>4. Q'[j] = data2'[c] /\ Q[j] = data2[c]
        BY <3>0, <3>a, <4>1, <4>2
      <4> QED
        BY <4>3, <4>4
    <3> QED
      BY <1>a, <2>0, <3>1, <3>2, <3>3
  <2>6. Q' = Q
    <3>1. Len(Q') = m + n
      BY <2>3, <2>4
    <3> QED
      BY <1>f, <2>3, <2>5, <3>1
  <2> QED
    BY <2>1, <2>6 DEF Stacks!Fifo!vars
<1>9. ASSUME Stacks!MovedEnqueue PROVE Stacks!Fifo!Next
  <2>1. arg \in Value /\ m = 0 /\ Stacks!PushArg(arg)
    BY <1>9, <1>a DEF Stacks!MovedEnqueue, StacksInv, Stacks!TypeOK
  <2>2. Stacks!Fifo!Enq(arg)
    BY <1>1, <1>a, <2>1
  <2> QED
    BY <2>1, <2>2 DEF Stacks!Fifo!Next
<1>10. CASE Stacks!MovedDequeue
  BY <1>2, <1>10, <1>a DEF Stacks!MovedDequeue, Stacks!Fifo!Next
<1> QED
  BY <1>3, <1>4, <1>5, <1>6, <1>7, <1>8, <1>9, <1>10 DEF Stacks!Next, Stacks!Fifo!Next

-----------------------------------------------------------------------------
(***************************************************************************)
(* The circle of nodes (q4.c of chapter_3_2).  The circle of the invariant is *)
(* a sequence that starts with the queued nodes and ends with front: reusing *)
(* a node leaves it as it is, a new node goes in before front, and a dequeue *)
(* turns it by one.                                                        *)
(***************************************************************************)
\* c is the circle of nx that ends with f and starts with the nodes p, the last of them r
IsCircle(c, nx, f, r, p, m) ==
  /\ m > 0 /\ Len(c) = m + 1 /\ Len(p) <= m
  /\ Distinct(c)
  /\ \A j \in 1 .. m : nx[c[j]] = c[j + 1]
  /\ nx[c[m + 1]] = c[1]
  /\ \A n \in Node : nx[n] # None => \E j \in 1 .. m + 1 : c[j] = n
  /\ c[m + 1] = f
  /\ \A j \in 1 .. Len(p) : p[j] = c[j]
  /\ p = <<>> => r = f
  /\ p # <<>> => r = c[Len(p)]

CircleInv ==
  /\ Circle!TypeOK
  /\ front = None => /\ rear = None /\ q = <<>> /\ most = 0 /\ got = None
                     /\ \A n \in Node : next[n] = None
  /\ front # None => \E c \in Seq(Node) : IsCircle(c, next, front, rear, q, most)
  /\ Circle!DequeuedIntact

LEMMA CircleInit == Circle!Init => CircleInv
<1> SUFFICES ASSUME Circle!Init PROVE CircleInv
  OBVIOUS
<1>1. /\ front = None /\ rear = None /\ q = <<>> /\ most = 0 /\ got = None
      /\ \A n \in Node : next[n] = None
  BY DEF Circle!Init
<1>2. 0 \in 0 .. Circle!Cardinality(Node)
  <2>1. Circle!Cardinality(Node) = Cardinality(Node)
    BY DEF Circle!Cardinality, Cardinality
  <2> QED
    BY <2>1, FiniteMemory, FS_CardinalityType
<1> QED
  BY <1>1, <1>2 DEF CircleInv, Circle!Init, Circle!TypeOK, Circle!DequeuedIntact

NotQueued(n, p) == \A j \in 1 .. Len(p) : p[j] # n
FullWhen(nx, f, r, p, m) == nx[r] = f <=> Len(p) = m

LEMMA AfterRear ==
  ASSUME NEW c \in Seq(Node), NEW nx, NEW f, NEW r, NEW p \in Seq(Node), NEW m \in Nat,
         IsCircle(c, nx, f, r, p, m)
  PROVE  /\ nx[r] = c[Len(p) + 1] /\ nx[r] \in Node /\ f \in Node
         /\ FullWhen(nx, f, r, p, m) /\ NotQueued(nx[r], p)
<1>1. Len(p) \in Nat /\ Len(c) = m + 1 /\ Len(p) <= m /\ m > 0
  BY DEF IsCircle
<1>2. /\ Len(p) + 1 \in 1 .. m + 1 /\ m + 1 \in 1 .. m + 1
      /\ \A j \in 1 .. Len(p) : j \in 1 .. m + 1 /\ j # Len(p) + 1
  BY <1>1
<1>3. nx[r] = c[Len(p) + 1]
  <2>1. CASE p = <<>>
    <3>1. Len(p) = 0
      BY <2>1
    <3> QED
      BY <2>1, <3>1 DEF IsCircle
  <2>2. CASE p # <<>>
    <3>1. Len(p) \in 1 .. m
      BY <1>1, <2>2
    <3> QED
      BY <2>2, <3>1 DEF IsCircle
  <2> QED
    BY <2>1, <2>2
<1>4. c[Len(p) + 1] \in Node /\ c[m + 1] \in Node
  BY <1>1, <1>2
<1>5. c[Len(p) + 1] = c[m + 1] <=> Len(p) = m
  BY <1>1, <1>2 DEF IsCircle, Distinct
<1>6. \A j \in 1 .. Len(p) : c[j] # c[Len(p) + 1]
  BY <1>1, <1>2 DEF IsCircle, Distinct
<1> QED
  BY <1>2, <1>3, <1>4, <1>5, <1>6 DEF IsCircle, NotQueued, FullWhen

LEMMA ReuseCircle ==
  ASSUME NEW c \in Seq(Node), NEW nx, NEW f, NEW r, NEW p \in Seq(Node), NEW m \in Nat,
         IsCircle(c, nx, f, r, p, m), Len(p) < m
  PROVE  IsCircle(c, nx, f, nx[r], Append(p, nx[r]), m)
<1>1. nx[r] = c[Len(p) + 1] /\ nx[r] \in Node
  BY AfterRear DEF IsCircle
<1>2. /\ Len(Append(p, nx[r])) = Len(p) + 1 /\ Len(p) \in Nat /\ Append(p, nx[r]) # <<>>
      /\ \A j \in 1 .. Len(p) + 1 : Append(p, nx[r])[j] = IF j = Len(p) + 1 THEN nx[r] ELSE p[j]
  BY <1>1
<1>3. \A j \in 1 .. Len(p) + 1 : Append(p, nx[r])[j] = c[j]
  BY <1>1, <1>2 DEF IsCircle
<1>4. Len(p) + 1 <= m
  BY <1>2
<1> QED
  BY <1>1, <1>2, <1>3, <1>4 DEF IsCircle

LEMMA FirstCircle ==
  ASSUME NEW nx \in [Node -> Node \cup {None}], \A n \in Node : nx[n] = None,
         NEW n \in Node, NEW f \in Node, n # f
  PROVE  /\ <<n, f>> \in Seq(Node)
         /\ IsCircle(<<n, f>>, [nx EXCEPT ![f] = n, ![n] = f], f, n, <<n>>, 1)
<1>1. Len(<<n, f>>) = 2 /\ <<n, f>>[1] = n /\ <<n, f>>[2] = f /\ <<n, f>> \in Seq(Node)
  OBVIOUS
<1>2. Len(<<n>>) = 1 /\ <<n>>[1] = n /\ <<n>> # <<>>
  OBVIOUS
<1> DEFINE c == <<n, f>>
           nx2 == [nx EXCEPT ![f] = n, ![n] = f]
<1>3. nx2[n] = f /\ nx2[f] = n /\ \A x \in Node : nx2[x] # None => x = n \/ x = f
  OBVIOUS
<1>4. Distinct(c)
  <2>1. \A j \in 1 .. 2 : j = 1 \/ j = 2
    OBVIOUS
  <2> QED
    BY <1>1, <2>1 DEF Distinct
<1> HIDE DEF c, nx2
<1>5. c[1] = n /\ c[2] = f /\ Len(c) = 2
  BY <1>1 DEF c
<1>6. /\ 1 \in 1 .. 2 /\ 2 \in 1 .. 2 /\ 1 > 0 /\ 1 + 1 = 2 /\ 1 <= 1
      /\ \A j \in 1 .. 1 : j = 1
  OBVIOUS
<1>7. IsCircle(c, nx2, f, n, <<n>>, 1)
  <2>1. \A x \in Node : nx2[x] # None => \E j \in 1 .. 2 : c[j] = x
    BY <1>3, <1>5, <1>6
  <2>2. \A j \in 1 .. 1 : nx2[c[j]] = c[j + 1] /\ <<n>>[j] = c[j]
    BY <1>2, <1>3, <1>5, <1>6
  <2> QED
    BY <1>2, <1>3, <1>4, <1>5, <1>6, <2>1, <2>2 DEF IsCircle
<1> QED
  BY <1>1, <1>7 DEF c, nx2

LEMMA GrowCircle ==
  ASSUME NEW c \in Seq(Node), NEW nx \in [Node -> Node \cup {None}], NEW f, NEW r,
         NEW p \in Seq(Node), NEW m \in Nat, IsCircle(c, nx, f, r, p, m), Len(p) = m,
         NEW n \in Node, nx[n] = None
  PROVE  \E d \in Seq(Node) :
           IsCircle(d, [nx EXCEPT ![n] = nx[r], ![r] = n], f, n, Append(p, n), m + 1)
<1> DEFINE d == [j \in 1 .. m + 2 |-> IF j <= m THEN c[j] ELSE IF j = m + 1 THEN n ELSE f]
           nx2 == [nx EXCEPT ![n] = nx[r], ![r] = n]
<1>1. /\ m > 0 /\ Len(c) = m + 1 /\ c[m + 1] = f /\ nx[r] = f /\ r = c[m] /\ f \in Node
      /\ \A j \in 1 .. m + 1 : c[j] \in Node
      /\ \A j \in 1 .. m : nx[c[j]] = c[j + 1] /\ p[j] = c[j]
      /\ nx[f] = c[1]
      /\ \A x \in Node : nx[x] # None => \E j \in 1 .. m + 1 : c[j] = x
  <2>1. p # <<>>
    BY DEF IsCircle
  <2> QED
    BY <2>1, AfterRear DEF IsCircle, FullWhen
<1>2. \A j, k \in 1 .. m + 1 : c[j] = c[k] => j = k
  BY <1>1 DEF IsCircle, Distinct
<1>3. /\ 1 \in 1 .. m + 1 /\ 1 \in 1 .. m /\ m \in 1 .. m /\ m \in 1 .. m + 1 /\ m + 1 \in 1 .. m + 1
      /\ m # m + 1 /\ \A j \in 1 .. m : j \in 1 .. m + 1 /\ j + 1 \in 1 .. m + 1 /\ j # m + 1
  BY <1>1
<1>4. \A j \in 1 .. m + 1 : c[j] # n
  <2>1. \A j \in 1 .. m : nx[c[j]] \in Node
    BY <1>1, <1>3
  <2>2. nx[c[m + 1]] \in Node
    BY <1>1, <1>3
  <2>3. \A j \in 1 .. m + 1 : j \in 1 .. m \/ j = m + 1
    OBVIOUS
  <2> QED
    BY <2>1, <2>2, <2>3, NullIsApart
<1>5. /\ d \in Seq(Node) /\ Len(d) = m + 2
      /\ \A j \in 1 .. m : d[j] = c[j]
      /\ d[m + 1] = n /\ d[m + 2] = f
  <2>1. \A j \in 1 .. m : j \in 1 .. m + 2 /\ j <= m
    OBVIOUS
  <2>2. m + 1 \in 1 .. m + 2 /\ m + 2 \in 1 .. m + 2 /\ ~(m + 1 <= m) /\ ~(m + 2 <= m) /\ m + 2 # m + 1
    OBVIOUS
  <2>3. d \in [1 .. m + 2 -> Node]
    BY <1>1, <1>3
  <2>4. d \in Seq(Node) /\ Len(d) = m + 2
    BY <2>3
  <2> QED
    BY <2>1, <2>2, <2>4
<1>6. r \in Node /\ r # n /\ f # n /\ f # r
  BY <1>1, <1>2, <1>3, <1>4
<1>7. nx2[n] = f /\ nx2[r] = n /\ \A x \in Node : x # n /\ x # r => nx2[x] = nx[x]
  BY <1>1, <1>6
<1>8. /\ Append(p, n) # <<>> /\ Len(Append(p, n)) = m + 1
      /\ \A j \in 1 .. m : Append(p, n)[j] = p[j]
      /\ Append(p, n)[m + 1] = n
  OBVIOUS
<1> HIDE DEF d, nx2
<1>9. Distinct(d)
  <2>1. \A j \in 1 .. m + 2 : j \in 1 .. m \/ j = m + 1 \/ j = m + 2
    OBVIOUS
  <2>2. \A j \in 1 .. m : d[j] # n /\ d[j] # f
    BY <1>1, <1>2, <1>3, <1>4, <1>5
  <2>3. \A j, k \in 1 .. m : d[j] = d[k] => j = k
    BY <1>2, <1>3, <1>5
  <2> QED
    BY <1>5, <1>6, <2>1, <2>2, <2>3 DEF Distinct
<1>10. \A j \in 1 .. m + 1 : nx2[d[j]] = d[j + 1] /\ Append(p, n)[j] = d[j]
  <2> SUFFICES ASSUME NEW j \in 1 .. m + 1 PROVE nx2[d[j]] = d[j + 1] /\ Append(p, n)[j] = d[j]
    OBVIOUS
  <2>1. CASE j = m + 1
    <3>1. j + 1 = m + 2
      BY <2>1
    <3> QED
      BY <1>5, <1>7, <1>8, <2>1, <3>1
  <2>2. CASE j = m
    BY <1>1, <1>3, <1>5, <1>7, <1>8, <2>2
  <2>3. CASE j # m + 1 /\ j # m
    <3>1. j \in 1 .. m /\ j + 1 \in 1 .. m
      BY <2>3
    <3>2. d[j] = c[j] /\ d[j + 1] = c[j + 1] /\ c[j] \in Node /\ c[j] # n /\ c[j] # r /\ nx[c[j]] = c[j + 1]
      BY <1>1, <1>2, <1>3, <1>4, <1>5, <2>3, <3>1
    <3> QED
      BY <1>1, <1>7, <1>8, <3>1, <3>2
  <2> QED
    BY <2>1, <2>2, <2>3
<1>11. nx2[d[m + 2]] = d[1]
  BY <1>1, <1>3, <1>5, <1>6, <1>7
<1>12. \A x \in Node : nx2[x] # None => \E j \in 1 .. m + 2 : d[j] = x
  <2> SUFFICES ASSUME NEW x \in Node, nx2[x] # None PROVE \E j \in 1 .. m + 2 : d[j] = x
    OBVIOUS
  <2>1. \A j \in 1 .. m + 1 : j \in 1 .. m \/ j = m + 1
    OBVIOUS
  <2>2. m + 1 \in 1 .. m + 2 /\ m + 2 \in 1 .. m + 2 /\ \A j \in 1 .. m : j \in 1 .. m + 2
    OBVIOUS
  <2>3. CASE x = n
    BY <1>5, <2>2, <2>3
  <2>4. CASE x # n
    <3>1. nx[x] # None
      BY <1>1, <1>6, <1>7, <2>4, NullIsApart
    <3>2. PICK j \in 1 .. m + 1 : c[j] = x
      BY <1>1, <3>1
    <3> QED
      BY <1>1, <1>5, <2>1, <2>2, <3>2
  <2> QED
    BY <2>3, <2>4
<1>13. m + 1 > 0 /\ (m + 1) + 1 = m + 2 /\ m + 1 <= m + 1
  OBVIOUS
<1>14. IsCircle(d, nx2, f, n, Append(p, n), m + 1)
  BY <1>5, <1>8, <1>9, <1>10, <1>11, <1>12, <1>13 DEF IsCircle
<1> QED
  BY <1>5, <1>14 DEF nx2

LEMMA RotateCircle ==
  ASSUME NEW c \in Seq(Node), NEW nx, NEW f, NEW r,
         NEW p \in Seq(Node), NEW m \in Nat, IsCircle(c, nx, f, r, p, m), p # <<>>
  PROVE  /\ nx[f] \in Node /\ nx[f] = p[1]
         /\ \E d \in Seq(Node) : IsCircle(d, nx, nx[f], r, Tail(p), m)
<1> DEFINE d == [j \in 1 .. m + 1 |-> IF j <= m THEN c[j + 1] ELSE c[1]]
<1>1. /\ m > 0 /\ Len(c) = m + 1 /\ c[m + 1] = f /\ Len(p) \in 1 .. m
      /\ \A j \in 1 .. m + 1 : c[j] \in Node
      /\ \A j \in 1 .. m : nx[c[j]] = c[j + 1]
      /\ \A j \in 1 .. Len(p) : p[j] = c[j]
      /\ nx[f] = c[1] /\ r = c[Len(p)]
      /\ \A x \in Node : nx[x] # None => \E j \in 1 .. m + 1 : c[j] = x
  BY DEF IsCircle
<1>2. \A j, k \in 1 .. m + 1 : c[j] = c[k] => j = k
  BY <1>1 DEF IsCircle, Distinct
<1>3. /\ 1 \in 1 .. m + 1 /\ 1 \in 1 .. Len(p) /\ m + 1 \in 1 .. m + 1 /\ ~(m + 1 <= m)
      /\ \A j \in 1 .. m : j \in 1 .. m + 1 /\ j + 1 \in 1 .. m + 1 /\ j <= m /\ j + 1 # 1
      /\ \A j \in 1 .. m + 1 : j \in 1 .. m \/ j = m + 1
  BY <1>1
<1>4. d \in Seq(Node) /\ Len(d) = m + 1 /\ (\A j \in 1 .. m : d[j] = c[j + 1]) /\ d[m + 1] = c[1]
  <2>1. d \in [1 .. m + 1 -> Node]
    BY <1>1, <1>3
  <2>2. d \in Seq(Node) /\ Len(d) = m + 1
    BY <2>1
  <2> QED
    BY <1>3, <2>2
<1> HIDE DEF d
<1>5. /\ Len(Tail(p)) = Len(p) - 1 /\ \A j \in 1 .. Len(p) - 1 : Tail(p)[j] = p[j + 1]
      /\ Tail(p) = <<>> <=> Len(p) = 1
  <2>1. Len(Tail(p)) = Len(p) - 1 /\ Tail(p) \in Seq(Node) /\ Len(p) \in Nat
    OBVIOUS
  <2>2. \A j \in 1 .. Len(p) - 1 : Tail(p)[j] = p[j + 1]
    OBVIOUS
  <2>3. Tail(p) = <<>> <=> Len(Tail(p)) = 0
    BY <2>1, EmptySeq
  <2> QED
    BY <2>1, <2>2, <2>3
<1>6. Distinct(d)
  <2>1. \A j, k \in 1 .. m : d[j] = d[k] => j = k
    <3>1. \A j, k \in 1 .. m : j + 1 = k + 1 => j = k
      OBVIOUS
    <3> QED
      BY <1>2, <1>3, <1>4, <3>1
  <2>2. \A j \in 1 .. m : d[j] # d[m + 1]
    BY <1>2, <1>3, <1>4
  <2> QED
    BY <1>3, <1>4, <2>1, <2>2 DEF Distinct
<1>7. ASSUME NEW j \in 1 .. m PROVE nx[d[j]] = d[j + 1]
  <2>1. CASE j = m
    BY <1>1, <1>3, <1>4, <2>1
  <2>2. CASE j # m
    <3>1. j + 1 \in 1 .. m
      BY <2>2
    <3> QED
      BY <1>1, <1>4, <3>1
  <2> QED
    BY <2>1, <2>2
<1>8. nx[d[m + 1]] = d[1]
  <2>1. 1 \in 1 .. m
    BY <1>1
  <2> QED
    BY <1>1, <1>4, <2>1
<1>9. ASSUME NEW x \in Node, nx[x] # None PROVE \E j \in 1 .. m + 1 : d[j] = x
  <2>1. PICK j \in 1 .. m + 1 : c[j] = x
    BY <1>1, <1>9
  <2>2. CASE j = 1
    BY <1>3, <1>4, <2>1, <2>2
  <2>3. CASE j # 1
    <3>1. PICK i \in 1 .. m : j = i + 1
      <4>1. j - 1 \in 1 .. m /\ j = (j - 1) + 1
        BY <2>3
      <4> QED
        BY <4>1
    <3> QED
      BY <1>3, <1>4, <2>1, <3>1
  <2> QED
    BY <2>2, <2>3
<1>10. ASSUME NEW j \in 1 .. Len(Tail(p)) PROVE Tail(p)[j] = d[j]
  <2>1. j \in 1 .. Len(p) - 1 /\ j \in 1 .. m /\ j + 1 \in 1 .. Len(p)
    BY <1>1, <1>5
  <2> QED
    BY <1>1, <1>4, <1>5, <2>1
<1>11. (Tail(p) = <<>> => r = nx[f]) /\ (Tail(p) # <<>> => r = d[Len(Tail(p))])
  <2>1. Tail(p) = <<>> => r = nx[f]
    BY <1>1, <1>5
  <2>2. ASSUME Tail(p) # <<>> PROVE r = d[Len(Tail(p))]
    <3>1. Len(p) - 1 \in 1 .. m /\ (Len(p) - 1) + 1 = Len(p)
      BY <1>1, <1>5, <2>2
    <3>2. d[Len(p) - 1] = c[(Len(p) - 1) + 1]
      BY <1>4, <3>1
    <3> QED
      BY <1>1, <1>5, <3>1, <3>2
  <2> QED
    BY <2>1, <2>2
<1>12. IsCircle(d, nx, nx[f], r, Tail(p), m)
  BY <1>1, <1>4, <1>5, <1>6, <1>7, <1>8, <1>9, <1>10, <1>11 DEF IsCircle
<1>13. nx[f] \in Node /\ nx[f] = p[1]
  BY <1>1, <1>3
<1> QED
  BY <1>4, <1>12, <1>13

\* a circle takes more distinct nodes than were ever queued
LEMMA CircleIsShort ==
  ASSUME NEW c \in Seq(Node), NEW nx, NEW f, NEW r, NEW p, NEW m \in Nat,
         IsCircle(c, nx, f, r, p, m)
  PROVE  m < Cardinality(Node) /\ m \in 0 .. Circle!Cardinality(Node)
<1>1. Len(c) = m + 1 /\ Distinct(c)
  BY DEF IsCircle
<1>2. Len(c) <= Cardinality(Node)
  BY <1>1, FiniteMemory, DistinctIsShort
<1>3. Cardinality(Node) \in Nat
  BY FiniteMemory, FS_CardinalityType
<1>4. Circle!Cardinality(Node) = Cardinality(Node)
  BY DEF Circle!Cardinality, Cardinality
<1> QED
  BY <1>1, <1>2, <1>3, <1>4

\* the three ways of enqueue to come by a node; it is neither front nor queued
LEMMA CircleEnq ==
  ASSUME CircleInv, NEW v \in Value,
         Circle!EnqueueReuse(v) \/ Circle!EnqueueFirst(v) \/ Circle!EnqueueGrow(v)
  PROVE  /\ CircleInv'
         /\ \E n \in Node : /\ Circle!Put(n, v) /\ \A j \in 1 .. Len(q) : q[j] # n
         /\ Len(q) < Cardinality(Node)
<1>a. /\ front \in Node \cup {None} /\ rear \in Node \cup {None}
      /\ next \in [Node -> Node \cup {None}] /\ data \in [Node -> Value \cup {None}]
      /\ live = TRUE /\ q \in Seq(Node) /\ got \in Value \cup {None} /\ Len(q) \in Nat /\ most \in Nat
  <2>1. Circle!Cardinality(Node) = Cardinality(Node) /\ Cardinality(Node) \in Nat
    <3>1. Cardinality(Node) \in Nat
      BY FiniteMemory, FS_CardinalityType
    <3> QED
      BY <3>1 DEF Circle!Cardinality, Cardinality
  <2> QED
    BY <2>1 DEF CircleInv, Circle!TypeOK
<1>1. \E n, f \in Node :
        /\ Circle!Put(n, v) /\ front' = f /\ n # f /\ (front # None => f = front)
        /\ next' \in [Node -> Node \cup {None}]
        /\ \A j \in 1 .. Len(q) : q[j] # n
        /\ \E c \in Seq(Node) : IsCircle(c, next', f, n, Append(q, n), IF Len(q) = most THEN most + 1 ELSE most)
        /\ front = None => q = <<>>
  <2>1. CASE front = None
    <3>1. q = <<>> /\ most = 0 /\ rear = None /\ \A n \in Node : next[n] = None
      BY <2>1 DEF CircleInv
    <3>2. Circle!EnqueueFirst(v)
      BY <2>1, <3>1 DEF Circle!EnqueueReuse, Circle!EnqueueFirst, Circle!EnqueueGrow, Circle!Reusable
    <3>3. PICK n \in Node, f \in Node :
            /\ n # f /\ Circle!Put(n, v) /\ front' = f /\ next' = [next EXCEPT ![f] = n, ![n] = f]
      BY <3>2 DEF Circle!EnqueueFirst
    <3>4. <<n, f>> \in Seq(Node) /\ IsCircle(<<n, f>>, next', f, n, <<n>>, 1)
      BY <1>a, <3>1, <3>3, FirstCircle
    <3>5. Len(q) = 0 /\ Append(q, n) = <<n>> /\ (IF Len(q) = most THEN most + 1 ELSE most) = 1
      BY <3>1
    <3>6. \A j \in 1 .. Len(q) : q[j] # n
      BY <3>5
    <3>7. \E c \in Seq(Node) : IsCircle(c, next', f, n, Append(q, n), IF Len(q) = most THEN most + 1 ELSE most)
      BY <3>4, <3>5
    <3>8. next' \in [Node -> Node \cup {None}]
      BY <1>a, <3>3
    <3> QED
      BY <2>1, <3>1, <3>3, <3>6, <3>7, <3>8
  <2>2. CASE front # None
    <3>1. PICK c \in Seq(Node) : IsCircle(c, next, front, rear, q, most)
      BY <2>2 DEF CircleInv
    <3>2. /\ next[rear] = front <=> Len(q) = most
          /\ next[rear] \in Node /\ front \in Node
          /\ \A j \in 1 .. Len(q) : q[j] # next[rear]
      <4>1. FullWhen(next, front, rear, q, most)
        BY <1>a, <3>1, AfterRear
      <4>2. next[rear] \in Node
        BY <1>a, <3>1, AfterRear
      <4>3. front \in Node
        BY <1>a, <3>1, AfterRear
      <4>4. NotQueued(next[rear], q)
        BY <1>a, <3>1, AfterRear
      <4> QED
        BY <4>1, <4>2, <4>3, <4>4 DEF NotQueued, FullWhen
    <3>3. rear \in Node /\ Len(q) <= most
      BY <1>a, <3>1 DEF IsCircle
    <3>4. CASE Len(q) < most
      <4>1. Circle!EnqueueReuse(v)
        BY <2>2, <1>a, <3>2, <3>3, <3>4, NullIsApart DEF Circle!EnqueueReuse, Circle!EnqueueFirst, Circle!EnqueueGrow, Circle!Reusable
      <4>2. Circle!Put(next[rear], v) /\ front' = front /\ next' = next
        BY <4>1 DEF Circle!EnqueueReuse
      <4>3. IsCircle(c, next, front, next[rear], Append(q, next[rear]), most)
        BY <1>a, <3>1, <3>4, ReuseCircle
      <4>4. (IF Len(q) = most THEN most + 1 ELSE most) = most /\ next[rear] # front
        BY <1>a, <3>2, <3>4
      <4> QED
        BY <1>a, <2>2, <3>2, <4>2, <4>3, <4>4
    <3>5. CASE Len(q) = most
      <4>1. Circle!EnqueueGrow(v)
        BY <2>2, <1>a, <3>2, <3>3, <3>5 DEF Circle!EnqueueReuse, Circle!EnqueueFirst, Circle!EnqueueGrow, Circle!Reusable
      <4>2. PICK n \in Node : /\ next[n] = None /\ Circle!Put(n, v) /\ front' = front
                              /\ next' = [next EXCEPT ![n] = next[rear], ![rear] = n]
        BY <4>1 DEF Circle!EnqueueGrow, Circle!Allocated
      <4>3. \E d \in Seq(Node) : IsCircle(d, next', front, n, Append(q, n), most + 1)
        <5>1. \E d \in Seq(Node) : IsCircle(d, [next EXCEPT ![n] = next[rear], ![rear] = n],
                                           front, n, Append(q, n), most + 1)
          BY <1>a, <3>1, <3>5, <4>2, GrowCircle
        <5> QED
          BY <4>2, <5>1
      <4>4. \A j \in 1 .. most : next[c[j]] \in Node /\ q[j] = c[j]
        <5>1. Len(c) = most + 1 /\ \A j \in 1 .. most : j \in 1 .. Len(q) /\ j + 1 \in 1 .. most + 1
          BY <1>a, <3>1, <3>5 DEF IsCircle
        <5> QED
          BY <3>1, <5>1 DEF IsCircle
      <4>5. \A j \in 1 .. Len(q) : q[j] # n
        BY <3>5, <4>2, <4>4, NullIsApart
      <4>6. n # front
        <5>1. most + 1 \in 1 .. most + 1 /\ 1 \in 1 .. most + 1 /\ Len(c) = most + 1 /\ next[front] = c[1]
          BY <1>a, <3>1 DEF IsCircle
        <5>2. next[front] \in Node
          BY <5>1
        <5> QED
          BY <4>2, <5>2, NullIsApart
      <4>7. (IF Len(q) = most THEN most + 1 ELSE most) = most + 1
        BY <3>5
      <4>8. next' \in [Node -> Node \cup {None}]
        BY <1>a, <3>2, <4>2
      <4>9. \E d \in Seq(Node) : IsCircle(d, next', front, n, Append(q, n), IF Len(q) = most THEN most + 1 ELSE most)
        BY <4>3, <4>7
      <4> QED
        BY <2>2, <3>2, <4>2, <4>5, <4>6, <4>8, <4>9
    <3> QED
      BY <1>a, <3>3, <3>4, <3>5
  <2> QED
    BY <2>1, <2>2
<1>2. PICK n \in Node, f \in Node :
        /\ Circle!Put(n, v) /\ front' = f /\ n # f /\ (front # None => f = front)
        /\ next' \in [Node -> Node \cup {None}]
        /\ \A j \in 1 .. Len(q) : q[j] # n
        /\ \E c \in Seq(Node) : IsCircle(c, next', f, n, Append(q, n), IF Len(q) = most THEN most + 1 ELSE most)
        /\ front = None => q = <<>>
  BY <1>1
<1>3. /\ rear' = n /\ data' = [data EXCEPT ![n] = v] /\ q' = Append(q, n)
      /\ most' = (IF Len(q) = most THEN most + 1 ELSE most) /\ live' = live /\ got' = got
  BY <1>2 DEF Circle!Put
<1>4. PICK c \in Seq(Node) : IsCircle(c, next', front', rear', q', most')
  BY <1>2, <1>3
<1>5. most' \in Nat /\ front' # None /\ q' \in Seq(Node) /\ Len(q') = Len(q) + 1
  BY <1>a, <1>2, <1>3, NullIsApart
<1>6. most' < Cardinality(Node) /\ most' \in 0 .. Circle!Cardinality(Node)
  BY <1>4, <1>5, CircleIsShort
<1>7. Len(q) < Cardinality(Node)
  <2>1. Len(q') <= most' /\ Cardinality(Node) \in Nat
    BY <1>4, FiniteMemory, FS_CardinalityType DEF IsCircle
  <2> QED
    BY <1>a, <1>5, <1>6, <2>1
<1>8. Circle!TypeOK'
  BY <1>a, <1>2, <1>3, <1>5, <1>6 DEF Circle!TypeOK
<1>9. Circle!DequeuedIntact'
  BY <1>a, <1>2, <1>3 DEF CircleInv, Circle!DequeuedIntact
<1> QED
  BY <1>2, <1>4, <1>5, <1>7, <1>8, <1>9 DEF CircleInv

LEMMA CircleDeq ==
  ASSUME CircleInv, Circle!Dequeue
  PROVE  CircleInv' /\ q # <<>> /\ next[front] = q[1]
<1>a. /\ front \in Node \cup {None} /\ rear \in Node \cup {None}
      /\ next \in [Node -> Node \cup {None}] /\ data \in [Node -> Value \cup {None}]
      /\ live = TRUE /\ q \in Seq(Node) /\ most \in 0 .. Circle!Cardinality(Node)
  BY DEF CircleInv, Circle!TypeOK
<1>1. /\ front # rear /\ front' = next[front] /\ q' = Tail(q) /\ got' = data[next[front]]
      /\ UNCHANGED <<rear, next, data, live, most>>
  BY DEF Circle!Dequeue, Circle!Empty
<1>2. front # None
  BY <1>1 DEF CircleInv
<1>3. PICK c \in Seq(Node) : IsCircle(c, next, front, rear, q, most)
  BY <1>2 DEF CircleInv
<1>4. q # <<>>
  BY <1>1, <1>3 DEF IsCircle
<1>5. most \in Nat
  <2>1. Circle!Cardinality(Node) = Cardinality(Node) /\ Cardinality(Node) \in Nat
    <3>1. Cardinality(Node) \in Nat
      BY FiniteMemory, FS_CardinalityType
    <3> QED
      BY <3>1 DEF Circle!Cardinality, Cardinality
  <2> QED
    BY <1>a, <2>1
<1>6. /\ next[front] \in Node /\ next[front] = q[1]
      /\ \E d \in Seq(Node) : IsCircle(d, next, next[front], rear, Tail(q), most)
  <2>1. next[front] \in Node
    BY <1>a, <1>3, <1>4, <1>5, RotateCircle
  <2>2. next[front] = q[1]
    BY <1>a, <1>3, <1>4, <1>5, RotateCircle
  <2>3. \E d \in Seq(Node) : IsCircle(d, next, next[front], rear, Tail(q), most)
    BY <1>a, <1>3, <1>4, <1>5, RotateCircle
  <2> QED
    BY <2>1, <2>2, <2>3
<1>7. front' # None /\ \E d \in Seq(Node) : IsCircle(d, next', front', rear', q', most')
  BY <1>1, <1>6, NullIsApart
<1>8. Circle!TypeOK'
  BY <1>a, <1>1, <1>4, <1>6 DEF Circle!TypeOK
<1>9. Circle!DequeuedIntact'
  BY <1>1 DEF Circle!DequeuedIntact
<1> QED
  BY <1>4, <1>6, <1>7, <1>8, <1>9 DEF CircleInv

LEMMA CircleInvStep == CircleInv /\ Circle!Next => CircleInv'
<1>1. ASSUME CircleInv, Circle!DequeueEmpty PROVE CircleInv'
  <2>1. UNCHANGED <<front, rear, next, data, live, q, most, got>>
    BY <1>1 DEF Circle!DequeueEmpty
  <2> QED
    BY <1>1, <2>1 DEF CircleInv, Circle!TypeOK, Circle!DequeuedIntact
<1> QED
  BY <1>1, CircleEnq, CircleDeq DEF Circle!Next

(***************************************************************************)
(* The invariant says what the suite's OneCircle does: the nodes of a      *)
(* circle are all that were allocated, one more than were ever queued.     *)
(***************************************************************************)
LEMMA CircleIsOne == CircleInv => Circle!OneCircle /\ Circle!NodesAreReused
<1> SUFFICES ASSUME CircleInv PROVE Circle!OneCircle /\ Circle!NodesAreReused
  OBVIOUS
<1>a. /\ next \in [Node -> Node \cup {None}] /\ q \in Seq(Node) /\ Len(q) \in Nat /\ most \in Nat
  <2>1. Circle!Cardinality(Node) = Cardinality(Node) /\ Cardinality(Node) \in Nat
    <3>1. Cardinality(Node) \in Nat
      BY FiniteMemory, FS_CardinalityType
    <3> QED
      BY <3>1 DEF Circle!Cardinality, Cardinality
  <2> QED
    BY <2>1 DEF CircleInv, Circle!TypeOK
<1>1. CASE front = None
  <2>1. most = 0 /\ Circle!Allocated = {}
    BY <1>1 DEF CircleInv, Circle!Allocated
  <2>2. Circle!Cardinality({}) = 0
    <3>1. Cardinality({}) = 0
      BY FS_EmptySet
    <3> QED
      BY <3>1 DEF Circle!Cardinality, Cardinality
  <2> QED
    BY <1>1, <2>1, <2>2 DEF Circle!OneCircle, Circle!NodesAreReused
<1>2. CASE front # None
  <2>1. PICK c \in Seq(Node) : IsCircle(c, next, front, rear, q, most)
    BY <1>2 DEF CircleInv
  <2> DEFINE A == Circle!Allocated
  <2>2. /\ most > 0 /\ Len(c) = most + 1 /\ Len(q) <= most /\ Distinct(c)
        /\ \A j \in 1 .. most : next[c[j]] = c[j + 1]
        /\ next[c[most + 1]] = c[1]
        /\ \A n \in Node : next[n] # None => \E j \in 1 .. most + 1 : c[j] = n
        /\ c[most + 1] = front
        /\ \A j \in 1 .. Len(q) : q[j] = c[j]
        /\ q = <<>> => rear = front
        /\ q # <<>> => rear = c[Len(q)]
    BY <2>1 DEF IsCircle
  <2>3. \A j \in 1 .. most + 1 : next[c[j]] = IF j = most + 1 THEN c[1] ELSE c[j + 1]
    <3>1. \A j \in 1 .. most + 1 : j # most + 1 => j \in 1 .. most
      BY <1>a
    <3> QED
      BY <2>2, <3>1
  <2>4. \A j \in 1 .. most + 1 : c[j] \in A
    <3>1. \A j \in 1 .. most + 1 : c[j] \in Node
      BY <2>2
    <3>2. 1 \in 1 .. most + 1 /\ \A j \in 1 .. most : j + 1 \in 1 .. most + 1
      BY <1>a
    <3>3. \A j \in 1 .. most + 1 : j \in 1 .. most \/ j = most + 1
      BY <1>a
    <3>4. \A j \in 1 .. most + 1 : next[c[j]] \in Node
      BY <2>2, <3>1, <3>2, <3>3
    <3> QED
      BY <3>1, <3>4, NullIsApart DEF Circle!Allocated
  <2>5. \A n \in A : \E j \in 1 .. most + 1 : c[j] = n
    BY <2>2 DEF Circle!Allocated
  <2> HIDE DEF A
  <2>6. c \in [1 .. most + 1 -> A] /\ c \in Seq(A)
    <3>1. c \in [1 .. most + 1 -> Node]
      BY <2>2
    <3>2. c \in [1 .. most + 1 -> A]
      BY <2>4, <3>1
    <3> QED
      BY <1>a, <3>2
  <2>7. Cardinality(A) = most + 1
    BY <2>2, <2>5, <2>6, DistinctCounts
  <2>8. Circle!Cardinality(A) = most + 1
    BY <2>7 DEF Circle!Cardinality, Cardinality
  <2>9. most + 1 # 0 /\ most # 0 /\ Len(q) < most + 1
    BY <1>a, <2>2
  <2>10. rear = IF q = <<>> THEN front ELSE q[Len(q)]
    <3>1. q # <<>> => Len(q) \in 1 .. Len(q)
      BY <1>a
    <3> QED
      BY <2>2, <3>1
  <2>11. Circle!OneCircle
    BY <2>2, <2>3, <2>5, <2>6, <2>8, <2>9, <2>10 DEF Circle!OneCircle, A
  <2>12. Circle!NodesAreReused
    BY <2>8, <2>9 DEF Circle!NodesAreReused, A
  <2> QED
    BY <2>11, <2>12
<1> QED
  BY <1>1, <1>2

LEMMA CircleFifo == CircleInv /\ Circle!Next => Circle!FifoStep
<1> SUFFICES ASSUME CircleInv, Circle!Next PROVE [Circle!Fifo!Next]_(Circle!Fifo!vars)
  BY DEF Circle!FifoStep
<1> USE DEF Circle!Fifo!Call, Circle!Result
<1> DEFINE Items == [j \in 1 .. Len(q) |-> data[q[j]]]
<1>a. /\ q \in Seq(Node) /\ Len(q) \in Nat /\ live = TRUE
      /\ \A j \in 1 .. Len(q) : q[j] \in Node
      /\ data \in [Node -> Value \cup {None}]
  BY DEF CircleInv, Circle!TypeOK
<1>b. /\ Items \in Seq(Value \cup {None}) /\ Len(Items) = Len(q)
      /\ \A j \in 1 .. Len(q) : Items[j] = data[q[j]]
  BY <1>a
<1>1. ASSUME NEW v \in Value,
             Circle!EnqueueReuse(v) \/ Circle!EnqueueFirst(v) \/ Circle!EnqueueGrow(v)
      PROVE  Circle!Fifo!Enq(v)
  <2>1. PICK n \in Node : Circle!Put(n, v) /\ \A j \in 1 .. Len(q) : q[j] # n
    BY <1>1, CircleEnq
  <2>2. /\ q' = Append(q, n) /\ data' = [data EXCEPT ![n] = v] /\ out' = Circle!Result("enq", v) /\ live' = live
    BY <2>1 DEF Circle!Put
  <2>3. Len(q') = Len(q) + 1 /\ \A j \in 1 .. Len(q) + 1 : q'[j] = IF j = Len(q) + 1 THEN n ELSE q[j]
    BY <1>a, <2>2
  <2>4. Len(Items') = Len(q) + 1 /\ \A j \in 1 .. Len(q) + 1 : Items'[j] = data'[q'[j]]
    BY <1>a, <2>3
  <2>5. \A j \in 1 .. Len(q) + 1 : Items'[j] = Append(Items, v)[j]
    BY <1>a, <1>b, <2>1, <2>2, <2>3, <2>4
  <2>6. Items' = Append(Items, v)
    BY <1>a, <1>b, <2>3, <2>4, <2>5
  <2>7. Len(Items) < Circle!Cardinality(Node)
    <3>1. Len(q) < Cardinality(Node)
      BY <1>1, CircleEnq
    <3>2. Circle!Cardinality(Node) = Cardinality(Node)
      BY DEF Circle!Cardinality, Cardinality
    <3> QED
      BY <1>b, <3>1, <3>2
  <2> QED
    <3>1. out' = Circle!Fifo!Call("enq", v) /\ live /\ UNCHANGED live
      BY <1>a, <2>2
    <3> HIDE DEF Circle!Fifo!Call, Circle!Result
    <3> QED
      BY <2>6, <2>7, <3>1 DEF Circle!Fifo!Enq
<1>2. CASE Circle!Dequeue
  <2>1. q # <<>> /\ next[front] = q[1]
    BY <1>2, CircleDeq
  <2>2. /\ q' = Tail(q) /\ data' = data /\ live' = live /\ out' = Circle!Result("deq", data[next[front]])
    BY <1>2 DEF Circle!Dequeue
  <2>3. /\ Len(q) \in Nat \ {0} /\ 1 \in 1 .. Len(q) /\ \A j \in 1 .. Len(q) - 1 : j + 1 \in 1 .. Len(q)
        /\ Len(q') = Len(q) - 1 /\ \A j \in 1 .. Len(q) - 1 : q'[j] = q[j + 1]
    BY <1>a, <2>1, <2>2
  <2>4. Len(Items') = Len(q) - 1 /\ \A j \in 1 .. Len(q) - 1 : Items'[j] = Items[j + 1]
    BY <1>a, <1>b, <2>2, <2>3
  <2>5. Items # <<>> /\ Head(Items) = data[next[front]]
    BY <1>b, <2>1, <2>3
  <2>6. Items' = Tail(Items)
    <3>1. Items' = [j \in 1 .. Len(q) - 1 |-> Items'[j]]
      BY <2>3, <2>4
    <3>2. Tail(Items) = [j \in 1 .. Len(q) - 1 |-> Items[j + 1]]
      BY <1>b, <2>1, <2>3, <2>5
    <3> HIDE DEF Items
    <3> QED
      BY <2>4, <3>1, <3>2
  <2> QED
    BY <1>a, <2>2, <2>5, <2>6 DEF Circle!Fifo!Deq, Circle!Fifo!Next
<1>3. CASE Circle!DequeueEmpty
  <2>1. /\ UNCHANGED <<front, rear, next, data, live, q, most, got>> /\ out' = Circle!Result("deq", None) /\ front = rear
    BY <1>3 DEF Circle!DequeueEmpty, Circle!Empty
  <2>2. q = <<>>
    <3>1. CASE front = None
      BY <3>1 DEF CircleInv
    <3>2. CASE front # None
      <4>1. PICK c \in Seq(Node) : IsCircle(c, next, front, rear, q, most)
        BY <3>2 DEF CircleInv
      <4>2. /\ Len(c) = most + 1 /\ Len(q) <= most /\ \A j, k \in 1 .. Len(c) : c[j] = c[k] => j = k
            /\ c[most + 1] = front /\ (q # <<>> => rear = c[Len(q)])
        BY <4>1 DEF IsCircle, Distinct
      <4>3. ASSUME q # <<>> PROVE FALSE
        <5>1. Len(c) \in Nat /\ Len(q) \in 1 .. Len(c) /\ most + 1 \in 1 .. Len(c) /\ Len(q) # most + 1
          <6>1. Len(c) \in Nat /\ Len(q) \in Nat /\ Len(q) # 0
            BY <1>a, <4>3
          <6>2. most \in Int
            <7>1. Circle!Cardinality(Node) = Cardinality(Node) /\ Cardinality(Node) \in Nat
              <8>1. Cardinality(Node) \in Nat
                BY FiniteMemory, FS_CardinalityType
              <8> QED
                BY <8>1 DEF Circle!Cardinality, Cardinality
            <7> QED
              BY <7>1 DEF CircleInv, Circle!TypeOK
          <6> QED
            BY <4>2, <6>1, <6>2
        <5> QED
          BY <2>1, <4>2, <4>3, <5>1
      <4> QED
        BY <4>3
    <3> QED
      BY <3>1, <3>2
  <2>3. Items = <<>> /\ Items' = Items
    BY <1>b, <2>1, <2>2
  <2> QED
    BY <1>a, <2>1, <2>3 DEF Circle!Fifo!DeqEmpty, Circle!Fifo!Next
<1> QED
  BY <1>1, <1>2, <1>3 DEF Circle!Next, Circle!Fifo!Next

-----------------------------------------------------------------------------
(***************************************************************************)
(* The linked queue (linked_queue.c).  Its invariant is what MCQueues checks: *)
(* the list is the queued nodes in order.                                  *)
(***************************************************************************)
LinkedInv == Linked!TypeOK /\ Linked!Linked /\ Linked!LengthDrifts

LEMMA LinkedInit == Linked!Init => LinkedInv
<1> SUFFICES ASSUME Linked!Init PROVE LinkedInv
  OBVIOUS
<1>1. /\ front = None /\ rear = None /\ length = 0 /\ starts = 0 /\ held = <<>> /\ Len(held) = 0
      /\ used = {} /\ pc = "open" /\ strayed = FALSE /\ out.res = None
      /\ next \in [LinkedNode -> LinkedNode \cup {None}] /\ data \in [LinkedNode -> Value \cup {None}]
  BY DEF Linked!Init, Linked!Result
<1>2. Linked!TypeOK
  <2>1. 0 \in 0 .. MaxDrift /\ 0 \in Int
    BY Sizes
  <2>2. strayed \in BOOLEAN
    BY <1>1
  <2>3. held \in Seq(LinkedNode)
    BY <1>1
  <2> QED
    BY <1>1, <2>1, <2>2, <2>3 DEF Linked!TypeOK
<1>3. Linked!Linked /\ Linked!LengthDrifts
  BY <1>1 DEF Linked!Linked, Linked!LengthDrifts, Linked!Queued
<1> QED
  BY <1>2, <1>3 DEF LinkedInv

\* the two branches of linked_queue_enq
LEMMA LinkedEnq ==
  ASSUME LinkedInv, NEW x \in Value, Linked!Enq(x)
  PROVE  /\ LinkedInv'
         /\ \E n \in LinkedNode \ used :
              /\ held' = Append(held, n) /\ data' = [data EXCEPT ![n] = x]
              /\ Len(held) < Cardinality(LinkedNode)
              /\ \A j \in 1 .. Len(held) : held[j] # n
         /\ pc = "open" /\ pc' = "open" /\ out' = Linked!Result("enq", x)
<1>a. /\ ~strayed /\ pc = "open" /\ held \in Seq(LinkedNode) /\ Len(held) \in Nat
      /\ front \in LinkedNode \cup {None} /\ rear \in LinkedNode \cup {None}
      /\ length \in Int /\ starts \in 0 .. MaxDrift /\ used \subseteq LinkedNode
      /\ next \in [LinkedNode -> LinkedNode \cup {None}] /\ data \in [LinkedNode -> Value \cup {None}]
      /\ \A j \in 1 .. Len(held) : held[j] \in LinkedNode
  BY DEF LinkedInv, Linked!TypeOK, Linked!Enq, Linked!EnqFirst, Linked!EnqNext
<1>b. /\ held = <<>> => front = None /\ rear = None
      /\ held # <<>> => front = held[1] /\ rear = held[Len(held)]
      /\ \A j \in 1 .. Len(held) : held[j] \in used
      /\ \A j \in 1 .. Len(held) - 1 : next[held[j]] = held[j + 1]
      /\ Distinct(held)
      /\ length = Len(held) - starts
  BY <1>a DEF LinkedInv, Linked!Linked, Linked!LengthDrifts, Linked!Queued, Distinct
<1>c. rear = None <=> held = <<>>
  BY <1>a, <1>b, NullIsApart
<1>1. PICK n \in LinkedNode, old \in LinkedNode \cup {None} :
        /\ Linked!Put(n, x)
        /\ IF held = <<>> THEN /\ front' = n /\ next' = [next EXCEPT ![n] = old]
                               /\ starts < MaxDrift /\ starts' = starts + 1 /\ length' = length
                          ELSE /\ front' = front /\ next' = [next EXCEPT ![n] = old, ![rear] = n]
                               /\ starts' = starts /\ length' = length + 1
  BY <1>c DEF Linked!Enq, Linked!EnqFirst, Linked!EnqNext
<1>2. /\ n \in LinkedNode \ used /\ used' = used \cup {n} /\ data' = [data EXCEPT ![n] = x]
      /\ rear' = n /\ out' = Linked!Result("enq", x) /\ held' = Append(held, n)
      /\ pc' = "open" /\ ~strayed'
  BY <1>1, <1>a DEF Linked!Put
<1>3. /\ held' \in Seq(LinkedNode) /\ Len(held') = Len(held) + 1
      /\ \A j \in 1 .. Len(held) + 1 : held'[j] = IF j = Len(held) + 1 THEN n ELSE held[j]
  BY <1>2, <1>a
<1>4. \A j \in 1 .. Len(held) : held[j] # n
  BY <1>b, <1>2
<1>5. Len(held) < Cardinality(LinkedNode) /\ Distinct(held')
  BY <1>a, <1>b, <1>2, <1>4, OneMoreIsShort, FiniteMemory
<1>6. Linked!TypeOK'
  <2>1. /\ next' \in [LinkedNode -> LinkedNode \cup {None}] /\ data' \in [LinkedNode -> Value \cup {None}]
        /\ used' \subseteq LinkedNode /\ out'.res \in Value \cup {None}
    BY <1>a, <1>1, <1>2 DEF Linked!Result
  <2>2. /\ front' \in LinkedNode \cup {None} /\ rear' \in LinkedNode \cup {None}
        /\ length' \in Int /\ starts' \in 0 .. MaxDrift
    BY <1>a, <1>1, <1>2, Sizes
  <2>3. pc' \in {"open", "draining", "closed"} /\ strayed' \in BOOLEAN
    <3>1. strayed' = strayed /\ strayed \in BOOLEAN
      BY <1>1 DEF LinkedInv, Linked!TypeOK, Linked!Put
    <3> QED
      BY <1>2, <3>1
  <2> QED
    BY <1>3, <2>1, <2>2, <2>3 DEF Linked!TypeOK
<1>7. Linked!Linked'
  <2>1. held' # <<>> /\ rear' = held'[Len(held')]
    BY <1>a, <1>2, <1>3
  <2>2. front' = held'[1]
    <3>1. CASE held = <<>>
      BY <1>1, <1>3, <3>1
    <3>2. CASE held # <<>>
      <4>1. 1 \in 1 .. Len(held) + 1 /\ 1 # Len(held) + 1
        BY <1>a, <3>2
      <4> QED
        BY <1>1, <1>b, <1>3, <3>2, <4>1
    <3> QED
      BY <3>1, <3>2
  <2>3. \A j \in 1 .. Len(held') : held'[j] \in used'
    BY <1>b, <1>2, <1>3, <1>a
  <2>4. ASSUME NEW j \in 1 .. Len(held)
        PROVE  next'[held'[j]] = held'[j + 1]
    <3>1. held # <<>> /\ held[j] \in LinkedNode /\ held[j] # n /\ held'[j] = held[j]
      BY <1>a, <1>3, <1>4
    <3>2. next' = [next EXCEPT ![n] = old, ![rear] = n] /\ rear = held[Len(held)] /\ rear \in LinkedNode
      BY <1>1, <1>a, <1>b, <3>1
    <3>3. CASE j = Len(held)
      <4>1. held'[j + 1] = n
        BY <1>a, <1>3, <3>3
      <4> QED
        BY <1>a, <3>1, <3>2, <3>3, <4>1
    <3>4. CASE j # Len(held)
      <4>1. j \in 1 .. Len(held) - 1 /\ j + 1 \in 1 .. Len(held) /\ j + 1 # Len(held) + 1
        BY <1>a, <3>4
      <4>2. held[j] # rear
        BY <1>a, <1>b, <3>2, <3>4 DEF Distinct
      <4>3. held'[j + 1] = held[j + 1] /\ next[held[j]] = held[j + 1]
        BY <1>a, <1>b, <1>3, <4>1
      <4> QED
        BY <1>a, <3>1, <3>2, <4>2, <4>3
    <3> QED
      BY <3>3, <3>4
  <2>5. \A j \in (1 .. Len(held')) \ {Len(held')} : j \in 1 .. Len(held)
    BY <1>a, <1>3
  <2> QED
    BY <1>5, <2>1, <2>2, <2>3, <2>4, <2>5 DEF Linked!Linked, Linked!Queued, Distinct
<1>8. Linked!LengthDrifts'
  <2>1. held = <<>> => Len(held) = 0
    OBVIOUS
  <2> QED
    BY <1>a, <1>b, <1>1, <1>3, <2>1 DEF Linked!LengthDrifts
<1> QED
  BY <1>2, <1>4, <1>5, <1>6, <1>7, <1>8, <1>a DEF LinkedInv

\* what deq unlinks is the oldest node, and the rest is linked as before
LEMMA LinkedUnlink ==
  ASSUME LinkedInv, ~strayed, Linked!Unlink
  PROVE  /\ held # <<>> /\ front = held[1] /\ front \in used
         /\ held' \in Seq(LinkedNode) /\ Len(held') = Len(held) - 1
         /\ \A j \in 1 .. Len(held) - 1 : held'[j] = held[j + 1] /\ held[j + 1] # front
         /\ front' \in LinkedNode \cup {None} /\ rear' \in LinkedNode \cup {None}
         /\ length' \in Int /\ strayed' \in BOOLEAN
         /\ used' = used \ {front} \/ used' = used => Linked!Linked'
         /\ Linked!LengthDrifts'
<1>a. /\ held \in Seq(LinkedNode) /\ Len(held) \in Nat
      /\ front \in LinkedNode \cup {None} /\ rear \in LinkedNode \cup {None}
      /\ length \in Int /\ starts \in 0 .. MaxDrift /\ used \subseteq LinkedNode
      /\ next \in [LinkedNode -> LinkedNode \cup {None}]
      /\ \A j \in 1 .. Len(held) : held[j] \in LinkedNode
  BY DEF LinkedInv, Linked!TypeOK
<1>b. /\ held = <<>> => front = None /\ rear = None
      /\ held # <<>> => front = held[1] /\ rear = held[Len(held)]
      /\ \A j \in 1 .. Len(held) : held[j] \in used
      /\ \A j \in 1 .. Len(held) - 1 : next[held[j]] = held[j + 1]
      /\ Distinct(held)
      /\ length = Len(held) - starts
  BY <1>a DEF LinkedInv, Linked!Linked, Linked!LengthDrifts, Linked!Queued, Distinct
<1>1. /\ front # None /\ length' = length - 1 /\ front' = next[front]
      /\ rear' = IF next[front] = None THEN None ELSE rear
      /\ held' = Tail(held) /\ UNCHANGED <<next, starts>>
      /\ strayed' \in BOOLEAN
      /\ ~strayed' => ~(Len(held) = 1 /\ next[front] # None)
  BY DEF Linked!Unlink
<1>2. held # <<>> /\ front = held[1] /\ front \in used /\ front \in LinkedNode /\ Len(held) \in Nat \ {0}
  BY <1>a, <1>b, <1>1
<1>3. /\ held' \in Seq(LinkedNode) /\ Len(held') = Len(held) - 1
      /\ \A j \in 1 .. Len(held) - 1 : held'[j] = held[j + 1]
  BY <1>a, <1>1, <1>2
<1>4. \A j \in 1 .. Len(held) - 1 : j + 1 \in 1 .. Len(held) /\ held[j + 1] # front
  <2>1. \A j \in 1 .. Len(held) - 1 : j + 1 \in 1 .. Len(held) /\ j + 1 # 1 /\ 1 \in 1 .. Len(held)
    BY <1>2
  <2> QED
    BY <1>b, <1>2, <2>1 DEF Distinct
<1>5. ASSUME used' = used \ {front} \/ used' = used, ~strayed'
      PROVE  Linked!Linked'
  <2>1. CASE Len(held) = 1
    <3>1. held' = <<>> /\ Len(held') = 0 /\ front' = None /\ rear' = None
      BY <1>1, <1>3, <1>5, <2>1
    <3> QED
      BY <3>1 DEF Linked!Linked, Linked!Queued
  <2>2. CASE Len(held) # 1
    <3>1. 1 \in 1 .. Len(held) - 1 /\ Len(held) - 1 \in 1 .. Len(held) - 1 /\ held' # <<>>
      BY <1>2, <1>3, <2>2
    <3>2. front' = held'[1] /\ front' # None
      BY <1>a, <1>b, <1>1, <1>2, <1>3, <1>4, <3>1, NullIsApart
    <3>3. rear' = held'[Len(held')]
      <4>1. rear' = held[Len(held)]
        BY <1>1, <1>b, <1>2, <3>2
      <4>2. held'[Len(held) - 1] = held[(Len(held) - 1) + 1] /\ (Len(held) - 1) + 1 = Len(held)
        BY <1>2, <1>3, <3>1
      <4> QED
        BY <1>3, <4>1, <4>2
    <3>4. \A j \in 1 .. Len(held') : held'[j] \in used'
      BY <1>b, <1>3, <1>4, <1>5
    <3>5. ASSUME NEW j \in (1 .. Len(held')) \ {Len(held')} PROVE next'[held'[j]] = held'[j + 1]
      <4>1. j \in 1 .. Len(held) - 1 /\ j + 1 \in 1 .. Len(held) - 1
        BY <1>2, <1>3
      <4>2. held'[j] = held[j + 1] /\ held'[j + 1] = held[(j + 1) + 1]
        BY <1>3, <4>1
      <4>3. next[held[j + 1]] = held[(j + 1) + 1]
        BY <1>b, <4>1
      <4> QED
        BY <1>1, <4>2, <4>3
    <3>6. \A j, k \in 1 .. Len(held') : held'[j] = held'[k] => j = k
      <4>1. \A j, k \in 1 .. Len(held) - 1 : j + 1 = k + 1 => j = k
        OBVIOUS
      <4> QED
        BY <1>b, <1>3, <1>4, <4>1 DEF Distinct
    <3> QED
      BY <3>1, <3>2, <3>3, <3>4, <3>5, <3>6 DEF Linked!Linked, Linked!Queued
  <2> QED
    BY <2>1, <2>2
<1>6. strayed' => Linked!Linked'
  BY DEF Linked!Linked
<1>7. Linked!LengthDrifts'
  BY <1>a, <1>b, <1>1, <1>3 DEF Linked!LengthDrifts
<1>8. /\ front' \in LinkedNode \cup {None} /\ rear' \in LinkedNode \cup {None} /\ length' \in Int
  BY <1>a, <1>1, <1>2
<1> QED
  BY <1>1, <1>2, <1>3, <1>4, <1>5, <1>6, <1>7, <1>8

LEMMA LinkedInvStep == LinkedInv /\ Linked!Next => LinkedInv'
<1> SUFFICES ASSUME LinkedInv, Linked!Next PROVE LinkedInv'
  OBVIOUS
<1>1. ASSUME NEW x \in Value, Linked!Enq(x) PROVE LinkedInv'
  BY <1>1, LinkedEnq
<1>2. CASE Linked!Deq \/ Linked!Drain
  <2>1. ~strayed /\ Linked!Unlink /\ (used' = used \ {front} \/ used' = used) /\ pc' = pc
    BY <1>2 DEF Linked!Deq, Linked!Drain
  <2>2. Linked!Linked' /\ Linked!LengthDrifts'
    BY <2>1, LinkedUnlink
  <2>3. out'.res \in Value \cup {None}
    <3>1. front \in LinkedNode
      BY <2>1, LinkedUnlink DEF LinkedInv, Linked!TypeOK
    <3> QED
      BY <1>2, <3>1 DEF Linked!Deq, Linked!Drain, Linked!Result, LinkedInv, Linked!TypeOK
  <2>4. Linked!TypeOK'
    BY <2>1, <2>3, LinkedUnlink DEF LinkedInv, Linked!TypeOK, Linked!Unlink
  <2> QED
    BY <2>2, <2>4 DEF LinkedInv
<1>3. CASE Linked!InitAgain
  <2>1. /\ front' = None /\ rear' = None /\ length' = 0 /\ starts' = 0 /\ held' = <<>> /\ Len(held') = 0
        /\ pc' = "open" /\ out'.res = None /\ UNCHANGED <<next, data, used, strayed>>
    BY <1>3 DEF Linked!InitAgain, Linked!Start, Linked!Result
  <2>2. Linked!TypeOK'
    BY <2>1, Sizes DEF LinkedInv, Linked!TypeOK
  <2>3. Linked!Linked' /\ Linked!LengthDrifts'
    BY <2>1 DEF Linked!Linked, Linked!LengthDrifts, Linked!Queued
  <2> QED
    BY <2>2, <2>3 DEF LinkedInv
<1>4. CASE \E n \in LinkedNode : Linked!Free(n)
  <2>1. PICK n \in LinkedNode : Linked!Free(n)
    BY <1>4
  <2>2. Linked!Linked'
    BY <2>1 DEF LinkedInv, Linked!Linked, Linked!Free, Linked!Lent, Linked!Queued
  <2> QED
    BY <2>1, <2>2 DEF LinkedInv, Linked!TypeOK, Linked!LengthDrifts, Linked!Free
<1>5. CASE Linked!DeqEmpty \/ Linked!Destory \/ Linked!Drained
  <2>1. /\ UNCHANGED <<front, rear, length, next, data, used, held, starts, strayed>>
        /\ out'.res \in Value \cup {None} /\ pc' \in {"open", "draining", "closed"}
    BY <1>5 DEF Linked!DeqEmpty, Linked!Destory, Linked!Drained, Linked!Result, LinkedInv, Linked!TypeOK
  <2> QED
    BY <2>1 DEF LinkedInv, Linked!TypeOK, Linked!Linked, Linked!LengthDrifts, Linked!Queued
<1> QED
  BY <1>1, <1>2, <1>3, <1>4, <1>5 DEF Linked!Next

LEMMA LinkedDestory == LinkedInv /\ Linked!Next => Linked!DestoryStep
<1> SUFFICES ASSUME LinkedInv, Linked!Next, pc = "draining"
             PROVE  /\ Linked!Lent' = Linked!Lent
                    /\ pc' = "draining" => \E n \in used \ Linked!Lent : used' = used \ {n}
                    /\ pc' = "closed" => used' = Linked!Lent
  BY DEF Linked!DestoryStep
<1>1. CASE Linked!Drain
  <2>1. /\ held # <<>> /\ front = held[1] /\ Len(held') = Len(held) - 1 /\ Len(held) \in Nat
        /\ \A j \in 1 .. Len(held) - 1 : held'[j] = held[j + 1] /\ held[j + 1] # front
        /\ used' = used \ {front}
    BY <1>1, LinkedUnlink DEF Linked!Drain, LinkedInv, Linked!TypeOK
  <2> DEFINE S == {held[j] : j \in 1 .. Len(held)}
             T == {held'[j] : j \in 1 .. Len(held')}
  <2>2. ASSUME NEW n \in S PROVE n \in T \cup {front}
    <3>1. PICK j \in 1 .. Len(held) : n = held[j]
      OBVIOUS
    <3>2. CASE j # 1
      <4>1. j - 1 \in 1 .. Len(held') /\ j = (j - 1) + 1 /\ j - 1 \in 1 .. Len(held) - 1
        BY <2>1, <3>2
      <4>2. held'[j - 1] = held[j]
        BY <2>1, <4>1
      <4> QED
        BY <3>1, <4>1, <4>2
    <3> QED
      BY <2>1, <3>1, <3>2
  <2>3. ASSUME NEW j \in 1 .. Len(held') PROVE held'[j] \in S \ {front}
    <3>1. j + 1 \in 1 .. Len(held) /\ j \in 1 .. Len(held) - 1
      BY <2>1
    <3> QED
      BY <2>1, <3>1
  <2>4. front \in S
    <3>1. 1 \in 1 .. Len(held)
      BY <2>1
    <3> QED
      BY <2>1, <3>1
  <2>5. Linked!Lent = used \ S /\ Linked!Lent' = used' \ T
    BY DEF Linked!Lent
  <2>6. S = T \cup {front}
    BY <2>2, <2>3, <2>4
  <2>7. front \in used
    <3>1. \A j \in 1 .. Len(held) : held[j] \in used
      BY <1>1 DEF LinkedInv, Linked!Linked, Linked!Queued, Linked!Drain
    <3>2. 1 \in 1 .. Len(held)
      BY <2>1
    <3> QED
      BY <2>1, <3>1, <3>2
  <2>8. pc' = "draining"
    BY <1>1 DEF Linked!Drain
  <2> HIDE DEF S, T
  <2> QED
    BY <2>1, <2>4, <2>5, <2>6, <2>7, <2>8
<1>2. CASE Linked!Drained
  <2>1. front = None /\ UNCHANGED <<used, held>> /\ pc' = "closed"
    BY <1>2 DEF Linked!Drained
  <2>2. held = <<>>
    <3> SUFFICES ASSUME held # <<>> PROVE FALSE
      OBVIOUS
    <3>1. /\ held \in Seq(LinkedNode) /\ Len(held) \in Nat /\ 1 \in 1 .. Len(held)
          /\ held[1] \in LinkedNode /\ front = held[1]
      BY <1>2 DEF LinkedInv, Linked!TypeOK, Linked!Linked, Linked!Drained
    <3> QED
      BY <2>1, <3>1, NullIsApart
  <2> QED
    BY <2>1, <2>2 DEF Linked!Lent
<1> QED
  BY <1>1, <1>2 DEF Linked!Next, Linked!Enq, Linked!EnqFirst, Linked!EnqNext, Linked!Deq, Linked!DeqEmpty,
     Linked!Free, Linked!Destory, Linked!InitAgain

LEMMA LinkedFifo == LinkedInv /\ Linked!Next => Linked!FifoStep
<1> SUFFICES ASSUME LinkedInv, Linked!Next, ~strayed'
             PROVE  [Linked!Fifo!Next]_(Linked!Fifo!vars)
  BY DEF Linked!FifoStep
<1> USE DEF Linked!Fifo!Call, Linked!Result
<1>a. /\ held \in Seq(LinkedNode) /\ Len(held) \in Nat
      /\ \A j \in 1 .. Len(held) : held[j] \in LinkedNode
      /\ data \in [LinkedNode -> Value \cup {None}]
  BY DEF LinkedInv, Linked!TypeOK
<1>b. ASSUME pc = "open" PROVE Linked!Contents = [j \in 1 .. Len(held) |-> data[held[j]]]
  BY <1>b DEF Linked!Contents, Linked!Queued
<1>c. ASSUME pc' = "open" PROVE Linked!Contents' = [j \in 1 .. Len(held') |-> data'[held'[j]]]
  BY <1>c DEF Linked!Contents, Linked!Queued
<1>d. ASSUME pc = "open"
      PROVE  /\ Linked!Contents \in Seq(Value \cup {None}) /\ Len(Linked!Contents) = Len(held)
             /\ \A j \in 1 .. Len(held) : Linked!Contents[j] = data[held[j]]
  BY <1>a, <1>b, <1>d
<1>1. ASSUME NEW x \in Value, Linked!Enq(x) PROVE Linked!Fifo!Enq(x)
  <2>1. PICK n \in LinkedNode \ used :
              /\ held' = Append(held, n) /\ data' = [data EXCEPT ![n] = x]
              /\ Len(held) < Cardinality(LinkedNode)
              /\ \A j \in 1 .. Len(held) : held[j] # n
    BY <1>1, LinkedEnq
  <2>2. pc = "open" /\ pc' = "open" /\ out' = Linked!Result("enq", x)
    BY <1>1, LinkedEnq
  <2>3. Len(held') = Len(held) + 1 /\ \A j \in 1 .. Len(held) + 1 : held'[j] = IF j = Len(held) + 1 THEN n ELSE held[j]
    BY <1>a, <2>1
  <2>4. Len(Linked!Contents') = Len(held) + 1
        /\ \A j \in 1 .. Len(held) + 1 : Linked!Contents'[j] = data'[held'[j]]
    BY <1>a, <1>c, <2>2, <2>3
  <2>5. \A j \in 1 .. Len(held) + 1 : Linked!Contents'[j] = Append(Linked!Contents, x)[j]
    BY <1>a, <1>d, <2>1, <2>2, <2>3, <2>4
  <2>6. Linked!Contents' = Append(Linked!Contents, x)
    BY <1>a, <1>c, <1>d, <2>2, <2>4, <2>5
  <2> QED
    <3>1. Len(Linked!Contents) < Cardinality(LinkedNode)
      BY <1>d, <2>1, <2>2
    <3>2. UNCHANGED (pc = "open")
      BY <2>2
    <3>3. pc = "open" /\ Linked!Contents' = Append(Linked!Contents, x) /\ out' = Linked!Fifo!Call("enq", x)
      BY <2>2, <2>6
    <3>4. Linked!Capacity = Cardinality(LinkedNode)
      BY DEF Linked!Capacity, Linked!Cardinality, Cardinality
    <3> HIDE DEF Linked!Fifo!Call
    <3> QED
      BY <3>1, <3>2, <3>3, <3>4 DEF Linked!Fifo!Enq
<1>2. CASE Linked!Deq
  <2>1. /\ held # <<>> /\ front = held[1] /\ held' \in Seq(LinkedNode) /\ Len(held') = Len(held) - 1
        /\ \A j \in 1 .. Len(held) - 1 : held'[j] = held[j + 1]
        /\ pc = "open" /\ pc' = "open" /\ data' = data /\ out' = Linked!Result("deq", data[front])
    BY <1>2, LinkedUnlink DEF Linked!Deq, Linked!Unlink
  <2>2. Len(held) \in Nat \ {0} /\ 1 \in 1 .. Len(held) /\ \A j \in 1 .. Len(held) - 1 : j + 1 \in 1 .. Len(held)
    BY <1>a, <2>1
  <2>3. Len(Linked!Contents') = Len(held) - 1
        /\ \A j \in 1 .. Len(held) - 1 : Linked!Contents'[j] = Linked!Contents[j + 1]
    BY <1>a, <1>c, <1>d, <2>1, <2>2
  <2>4. Linked!Contents # <<>> /\ Head(Linked!Contents) = data[front]
    BY <1>d, <2>1, <2>2
  <2>5. Linked!Contents' = Tail(Linked!Contents)
    BY <1>c, <1>d, <2>1, <2>2, <2>3, <2>4
  <2> QED
    BY <2>1, <2>4, <2>5 DEF Linked!Fifo!Deq, Linked!Fifo!Next
<1>3. CASE Linked!DeqEmpty
  <2>1. held = <<>> /\ pc = "open" /\ pc' = "open" /\ out' = Linked!Result("deq", None)
    <3>1. ~strayed /\ pc = "open" /\ pc' = "open" /\ out' = Linked!Result("deq", None) /\ front = None
      BY <1>3 DEF Linked!DeqEmpty
    <3>2. held # <<>> => front = held[1] /\ 1 \in 1 .. Len(held)
      BY <1>a, <3>1 DEF LinkedInv, Linked!Linked
    <3> QED
      BY <1>a, <3>1, <3>2, NullIsApart
  <2>2. Linked!Contents' = Linked!Contents
    BY <1>3 DEF Linked!DeqEmpty, Linked!Contents, Linked!Queued
  <2>3. Linked!Contents = <<>>
    BY <1>d, <2>1
  <2> QED
    BY <2>1, <2>2, <2>3 DEF Linked!Fifo!DeqEmpty, Linked!Fifo!Next
<1>4. CASE Linked!Destory
  <2>1. pc = "open" /\ pc' = "draining" /\ out' = Linked!Result("destory", None) /\ Linked!Contents' = <<>>
    BY <1>4 DEF Linked!Destory, Linked!Contents
  <2> QED
    BY <2>1 DEF Linked!Fifo!Destory, Linked!Fifo!Next
<1>5. CASE Linked!InitAgain
  <2>1. pc = "closed" /\ pc' = "open" /\ out' = Linked!Result("init", None) /\ held' = <<>> /\ Len(held') = 0
    BY <1>5 DEF Linked!InitAgain, Linked!Start
  <2>2. Linked!Contents' = <<>>
    BY <1>c, <2>1
  <2> QED
    BY <2>1, <2>2 DEF Linked!Fifo!InitAgain, Linked!Fifo!Next
<1>6. CASE Linked!Drain \/ Linked!Drained \/ \E n \in LinkedNode : Linked!Free(n)
  <2>1. out' = out /\ ((pc = "open") = (pc' = "open")) /\ Linked!Contents' = Linked!Contents
    <3>1. CASE Linked!Drain
      BY <3>1 DEF Linked!Drain, Linked!Contents
    <3>2. CASE Linked!Drained
      BY <3>2 DEF Linked!Drained, Linked!Contents
    <3>3. CASE \E n \in LinkedNode : Linked!Free(n)
      BY <3>3 DEF Linked!Free, Linked!Contents, Linked!Queued
    <3> QED
      BY <1>6, <3>1, <3>2, <3>3
  <2> QED
    BY <2>1 DEF Linked!Fifo!vars
<1> QED
  BY <1>1, <1>2, <1>3, <1>4, <1>5, <1>6 DEF Linked!Next, Linked!Fifo!Next

-----------------------------------------------------------------------------
(***************************************************************************)
(* The suite: the invariant of the queue that runs.                        *)
(***************************************************************************)
SuiteInv ==
  /\ which \in {"ring", "circle", "stacks", "linked"}
  /\ which = "ring" => RingInv
  /\ which = "circle" => CircleInv
  /\ which = "stacks" => StacksInv
  /\ which = "linked" => LinkedInv

LEMMA SuiteInit == Init => SuiteInv
BY RingInit, CircleInit, StacksInit, LinkedInit DEF Init, SuiteInv

LEMMA SuiteStep == SuiteInv /\ Next => SuiteInv'
<1> SUFFICES ASSUME SuiteInv, Next PROVE SuiteInv'
  OBVIOUS
<1>1. CASE RingNext
  BY <1>1, RingInvStep DEF SuiteInv, RingNext
<1>2. CASE CircleNext
  BY <1>2, CircleInvStep DEF SuiteInv, CircleNext
<1>3. CASE StacksNext
  BY <1>3, StacksInvStep DEF SuiteInv, StacksNext
<1>4. CASE LinkedNext
  BY <1>4, LinkedInvStep DEF SuiteInv, LinkedNext
<1> QED
  BY <1>1, <1>2, <1>3, <1>4 DEF Next

LEMMA SuiteStutter == SuiteInv /\ UNCHANGED vars => SuiteInv'
<1> SUFFICES ASSUME SuiteInv, UNCHANGED vars PROVE SuiteInv'
  OBVIOUS
<1>0. which' = which
  BY DEF vars
<1>1. CASE which = "ring"
  BY <1>0, <1>1 DEF SuiteInv, vars, ringOnly, RingInv, Ring!TypeOK
<1>2. CASE which = "circle"
  BY <1>0, <1>2 DEF SuiteInv, vars, circleOnly, CircleInv, Circle!TypeOK, Circle!DequeuedIntact
<1>3. CASE which = "stacks"
  BY <1>0, <1>3 DEF SuiteInv, vars, stacksOnly, StacksInv, Stacks!TypeOK, Stacks!S1!TypeOK, Stacks!S2!TypeOK
<1>4. CASE which = "linked"
  BY <1>0, <1>4 DEF SuiteInv, vars, linkedOnly, LinkedInv, Linked!TypeOK, Linked!Linked, Linked!LengthDrifts, Linked!Queued
<1> QED
  BY <1>1, <1>2, <1>3, <1>4 DEF SuiteInv

THEOREM SuiteInvariant == Spec => []SuiteInv
<1>1. SuiteInv /\ [Next]_vars => SuiteInv'
  BY SuiteStep, SuiteStutter
<1> QED
  BY SuiteInit, <1>1, PTL DEF Spec

(***************************************************************************)
(* The variables of each queue keep their types, for any capacity and any  *)
(* number of nodes.                                                        *)
(***************************************************************************)
THEOREM TypeCorrect == Spec => []TypeOK
<1>1. SuiteInv => TypeOK
  BY DEF SuiteInv, TypeOK, RingInv, CircleInv, StacksInv, LinkedInv
<1> QED
  BY SuiteInvariant, <1>1, PTL

(***************************************************************************)
(* The nodes of q4.c stay one circle in queue order, one node more than    *)
(* were ever queued at once, and the node dequeued last keeps its element, *)
(* however many nodes there are.                                           *)
(***************************************************************************)
THEOREM CircleKept == Spec => []OneCircle
<1>1. SuiteInv => OneCircle
  BY CircleIsOne DEF SuiteInv, OneCircle, CircleInv
<1> QED
  BY SuiteInvariant, <1>1, PTL

(***************************************************************************)
(* The list of linked_queue.c is its queued nodes in order until deq goes  *)
(* astray, and its length falls short by the number of times it was empty. *)
(***************************************************************************)
THEOREM ListKept == Spec => []LinkedInOrder
<1>1. SuiteInv => LinkedInOrder
  BY DEF SuiteInv, LinkedInOrder, LinkedInv
<1> QED
  BY SuiteInvariant, <1>1, PTL

(***************************************************************************)
(* Refinement: every step of the ring, the circle, the two stacks and the  *)
(* linked queue is a step of BoundedFifo on their contents.                *)
(***************************************************************************)
THEOREM FifoKept == Spec => AnswersAreFifo
<1> DEFINE Step == CASE which = "ring" -> Ring!FifoStep
                     [] which = "circle" -> Circle!FifoStep
                     [] which = "stacks" -> Stacks!FifoStep
                     [] which = "linked" -> Linked!FifoStep
<1>1. SuiteInv /\ [Next]_vars => [Step]_vars
  <2> SUFFICES ASSUME SuiteInv, Next PROVE Step
    OBVIOUS
  <2>1. CASE RingNext
    BY <2>1, RingFifo DEF SuiteInv, RingNext
  <2>2. CASE CircleNext
    BY <2>2, CircleFifo DEF SuiteInv, CircleNext
  <2>3. CASE StacksNext
    BY <2>3, StacksFifo DEF SuiteInv, StacksNext
  <2>4. CASE LinkedNext
    BY <2>4, LinkedFifo DEF SuiteInv, LinkedNext
  <2> QED
    BY <2>1, <2>2, <2>3, <2>4 DEF Next
<1> QED
  BY SuiteInvariant, <1>1, PTL DEF Spec, AnswersAreFifo

(***************************************************************************)
(* Each turn of linked_queue_destory frees one of the queued nodes and none*)
(* that the callers of deq hold, and its loop is left only when every node *)
(* still in use is one of those.  That it is left is not stated.           *)
(***************************************************************************)
THEOREM DestoryKept == Spec => DestoryFrees
<1>1. SuiteInv /\ [Next]_vars => [which = "linked" => Linked!DestoryStep]_vars
  BY LinkedDestory DEF SuiteInv, Next, RingNext, CircleNext, StacksNext, LinkedNext
<1> QED
  BY SuiteInvariant, <1>1, PTL DEF Spec, DestoryFrees
=============================================================================
