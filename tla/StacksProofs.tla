---------------------------- MODULE StacksProofs -----------------------------
(***************************************************************************)
(* Theorems of MCStacks for all its constants: arrays of any capacity,     *)
(* memory of any finite size, any elements, texts of any length.  One part *)
(* for each program with its inductive invariant, and the theorems of the  *)
(* suite at the end.                                                       *)
(***************************************************************************)
EXTENDS MCStacks, Counting, SequenceTheorems

\* the last element of a stack popped
LEMMA Popped ==
  ASSUME NEW T, NEW s \in Seq(T), s # <<>>
  PROVE  /\ SubSeq(s, 1, Len(s) - 1) \in Seq(T)
         /\ Len(SubSeq(s, 1, Len(s) - 1)) = Len(s) - 1
         /\ \A j \in 1 .. Len(s) - 1 : SubSeq(s, 1, Len(s) - 1)[j] = s[j]
<1>1. Len(s) \in Nat \ {0} /\ Len(s) - 1 \in Nat
  BY EmptySeq
<1>2. \A j \in 1 .. Len(s) - 1 : s[j] \in T
  OBVIOUS
<1>3. /\ SubSeq(s, 1, Len(s) - 1) \in Seq(T)
      /\ Len(SubSeq(s, 1, Len(s) - 1)) = IF 1 <= Len(s) - 1 THEN Len(s) - 1 - 1 + 1 ELSE 0
      /\ \A j \in 1 .. Len(s) - 1 - 1 + 1 : SubSeq(s, 1, Len(s) - 1)[j] = s[1 + j - 1]
  BY <1>1, <1>2, SubSeqProperties
<1>4. (IF 1 <= Len(s) - 1 THEN Len(s) - 1 - 1 + 1 ELSE 0) = Len(s) - 1
  <2>1. \A n \in Nat \ {0} : (IF 1 <= n - 1 THEN n - 1 - 1 + 1 ELSE 0) = n - 1
    OBVIOUS
  <2> QED
    BY <1>1, <2>1
<1>5. \A j \in 1 .. Len(s) - 1 : j \in 1 .. Len(s) - 1 - 1 + 1 /\ 1 + j - 1 = j
  BY <1>1
<1> QED
  BY <1>3, <1>4, <1>5

\* what popping does to the element that was pushed last, and to no other
LEMMA PushedPopped ==
  ASSUME NEW T, NEW s \in Seq(T), NEW t \in Seq(T), Len(t) = Len(s) - 1, s # <<>>,
         \A j \in 1 .. Len(s) - 1 : t[j] = s[j]
  PROVE  t = SubSeq(s, 1, Len(s) - 1)
<1>1. /\ SubSeq(s, 1, Len(s) - 1) \in Seq(T)
      /\ Len(SubSeq(s, 1, Len(s) - 1)) = Len(s) - 1
      /\ \A j \in 1 .. Len(s) - 1 : SubSeq(s, 1, Len(s) - 1)[j] = s[j]
  BY Popped
<1> QED
  BY <1>1, SeqEqual

-----------------------------------------------------------------------------
(***************************************************************************)
(* The sequential stack (sq_stack.c): its type correctness is inductive.   *)
(***************************************************************************)
LEMMA SequentialInit == Sequential!Init => Sequential!TypeOK
BY Sizes DEF Sequential!Init, Sequential!TypeOK, Sequential!Call, Sequential!Cells

LEMMA SequentialStep == Sequential!TypeOK /\ Sequential!Next => Sequential!TypeOK'
<1>0. -1 \in -1 .. Capacity - 1
  BY Sizes
<1> SUFFICES ASSUME Sequential!TypeOK, Sequential!Next PROVE Sequential!TypeOK'
  OBVIOUS
<1> DEFINE Cells0 == 0 .. Capacity - 1
           Ops == {"init", "no memory", "destory", "push", "pop"}
           Item == Value \cup {None}
<1>a. /\ top \in -1 .. Capacity - 1 /\ data \in [Cells0 -> Item]
  BY DEF Sequential!TypeOK, Sequential!Cells
<1>b. live \in BOOLEAN
  BY DEF Sequential!TypeOK
<1>1. live' \in BOOLEAN
  <2>1. live' = live \/ live' = TRUE \/ live' = FALSE
    BY DEF Sequential!Next, Sequential!Push, Sequential!PushFull, Sequential!Pop, Sequential!PopEmpty,
       Sequential!Destory, Sequential!InitAgain, Sequential!InitFails
  <2> QED
    BY <1>b, <2>1
<1> DEFINE Goal == /\ top' \in -1 .. Capacity - 1 /\ data' \in [Cells0 -> Item]
                   /\ out' \in [op : Ops, res : Item]
<1>2. ASSUME NEW x \in Value, Sequential!Push(x) PROVE Goal
  <2>1. /\ top + 1 < Capacity /\ top' = top + 1 /\ data' = [data EXCEPT ![top + 1] = x]
        /\ out' = [op |-> "push", res |-> x]
    BY <1>2 DEF Sequential!Push, Sequential!Room, Sequential!Call
  <2> QED
    BY <1>a, <2>1, Sizes
<1>3. ASSUME Sequential!Pop PROVE Goal
  <2>1. top # -1 /\ top' = top - 1 /\ data' = data /\ out' = [op |-> "pop", res |-> data[top]]
    BY <1>3 DEF Sequential!Pop, Sequential!Empty, Sequential!Call
  <2>2. top \in Cells0 /\ top - 1 \in -1 .. Capacity - 1
    BY <1>a, <2>1, Sizes
  <2>3. data[top] \in Item
    BY <1>a, <2>2
  <2> HIDE DEF Cells0, Item
  <2> QED
    BY <1>a, <2>1, <2>2, <2>3
<1>4. ASSUME Sequential!PushFull \/ Sequential!PopEmpty \/ Sequential!Destory PROVE Goal
  <2>1. UNCHANGED <<top, data>>
    BY <1>4 DEF Sequential!PushFull, Sequential!PopEmpty, Sequential!Destory
  <2>2. PICK o \in Ops : out' = [op |-> o, res |-> None]
    BY <1>4 DEF Sequential!PushFull, Sequential!PopEmpty, Sequential!Destory, Sequential!Call
  <2> QED
    BY <1>a, <2>1, <2>2
<1>5. ASSUME Sequential!InitAgain \/ Sequential!InitFails PROVE Goal
  <2>1. top' = -1 /\ data' = [c \in Cells0 |-> None]
    BY <1>5 DEF Sequential!InitAgain, Sequential!InitFails, Sequential!Cells
  <2>2. PICK o \in Ops : out' = [op |-> o, res |-> None]
    <3>1. "init" \in Ops /\ "no memory" \in Ops
      OBVIOUS
    <3>2. out' = [op |-> "init", res |-> None] \/ out' = [op |-> "no memory", res |-> None]
      BY <1>5 DEF Sequential!InitAgain, Sequential!InitFails, Sequential!Call
    <3> HIDE DEF Ops
    <3> QED
      BY <3>1, <3>2
  <2>4. data' \in [Cells0 -> Item]
    BY <2>1
  <2>5. out' \in [op : Ops, res : Item]
    BY <2>2
  <2> HIDE DEF Cells0, Ops, Item
  <2> QED
    BY <1>0, <2>1, <2>4, <2>5
<1>6. Goal
  <2> HIDE DEF Goal
  <2> QED
    BY <1>2, <1>3, <1>4, <1>5 DEF Sequential!Next
<1> QED
  BY <1>1, <1>6 DEF Sequential!TypeOK, Sequential!Cells

LEMMA SequentialLifo == Sequential!TypeOK /\ Sequential!Next => Sequential!LifoStep
<1> SUFFICES ASSUME Sequential!TypeOK, Sequential!Next
             PROVE  [Sequential!Lifo!Next]_(Sequential!Lifo!vars)
  BY DEF Sequential!LifoStep
<1> DEFINE S == IF live THEN Sequential!Contents ELSE <<>>
           Item == Value \cup {None}
<1>a. /\ top \in -1 .. Capacity - 1 /\ top + 1 \in Nat
      /\ data \in [0 .. Capacity - 1 -> Item]
  <2>1. top \in -1 .. Capacity - 1 /\ data \in [0 .. Capacity - 1 -> Item]
    BY DEF Sequential!TypeOK, Sequential!Cells
  <2> QED
    BY <2>1, Sizes
<1>b. ASSUME live
      PROVE  /\ S \in Seq(Item) /\ Len(S) = top + 1
             /\ \A j \in 1 .. top + 1 : S[j] = data[j - 1]
  <2>1. \A j \in 1 .. top + 1 : j - 1 \in 0 .. Capacity - 1
    BY <1>a, Sizes
  <2>2. S = [j \in 1 .. top + 1 |-> data[j - 1]]
    BY <1>b DEF Sequential!Contents
  <2>3. \A j \in 1 .. top + 1 : data[j - 1] \in Item
    BY <1>a, <2>1
  <2> HIDE DEF S, Item
  <2> QED
    BY <1>a, <2>2, <2>3
<1>c. Sequential!TypeOK'
  BY SequentialStep
<1>d. /\ top' \in -1 .. Capacity - 1 /\ top' + 1 \in Nat
      /\ data' \in [0 .. Capacity - 1 -> Item]
  <2>1. top' \in -1 .. Capacity - 1 /\ data' \in [0 .. Capacity - 1 -> Item]
    BY <1>c DEF Sequential!TypeOK, Sequential!Cells
  <2>2. \A t \in -1 .. Capacity - 1 : t + 1 \in Nat
    BY Sizes
  <2> QED
    BY <2>1, <2>2
<1>e. ASSUME live'
      PROVE  /\ S' \in Seq(Item) /\ Len(S') = top' + 1
             /\ \A j \in 1 .. top' + 1 : S'[j] = data'[j - 1]
  <2>1. \A j \in 1 .. top' + 1 : j - 1 \in 0 .. Capacity - 1
    <3>1. \A t \in -1 .. Capacity - 1 : \A j \in 1 .. t + 1 : j - 1 \in 0 .. Capacity - 1
      BY Sizes
    <3> QED
      BY <1>d, <3>1
  <2>2. S' = [j \in 1 .. top' + 1 |-> data'[j - 1]]
    BY <1>e DEF Sequential!Contents
  <2>3. \A j \in 1 .. top' + 1 : data'[j - 1] \in Item
    BY <1>d, <2>1
  <2>4. ASSUME NEW n \in Nat, n = top' + 1 PROVE  S' \in Seq(Item) /\ Len(S') = n /\ \A j \in 1 .. n : S'[j] = data'[j - 1]
    <3>1. S' = [j \in 1 .. n |-> data'[j - 1]] /\ \A j \in 1 .. n : data'[j - 1] \in Item
      BY <2>2, <2>3, <2>4
    <3> HIDE DEF S, Item
    <3> QED
      BY <2>4, <3>1
  <2> QED
    BY <1>d, <2>4
<1>f. Sequential!Lifo!vars = <<S, live, out>>
  BY DEF Sequential!Lifo!vars
<1> USE DEF Sequential!Lifo!Call, Sequential!Call
<1>1. ASSUME NEW x \in Value, Sequential!Push(x) PROVE Sequential!Lifo!Push(x)
  <2>1. /\ live /\ live' = live /\ top + 1 < Capacity /\ top' = top + 1
        /\ data' = [data EXCEPT ![top + 1] = x] /\ out' = Sequential!Call("push", x)
    BY <1>1 DEF Sequential!Push, Sequential!Room
  <2>2. /\ \A j \in 1 .. top + 2 : j = top + 2 \/ (j \in 1 .. top + 1 /\ j - 1 # top + 1)
        /\ top + 1 \in 0 .. Capacity - 1 /\ (top + 2) - 1 = top + 1 /\ top + 2 \in 1 .. top + 2
        /\ \A j \in 1 .. top + 1 : j - 1 \in 0 .. Capacity - 1 /\ j \in 1 .. top + 2
    BY <1>a, <2>1, Sizes
  <2>3. Len(S') = top + 2 /\ S'[top + 2] = x /\ \A j \in 1 .. top + 1 : S'[j] = S[j]
    BY <1>a, <1>b, <1>e, <2>1, <2>2
  <2>4. /\ Append(S, x) \in Seq(Item) /\ Len(Append(S, x)) = top + 2
        /\ \A j \in 1 .. top + 2 : Append(S, x)[j] = IF j = top + 2 THEN x ELSE S[j]
    BY <1>a, <1>b, <2>1
  <2>5. S' \in Seq(Item)
    BY <1>e, <2>1
  <2> HIDE DEF S
  <2>6. \A j \in 1 .. top + 2 : S'[j] = Append(S, x)[j]
    BY <2>2, <2>3, <2>4
  <2>7. S' = Append(S, x)
    BY <2>3, <2>4, <2>5, <2>6, SeqEqual
  <2>8. Len(S) < Capacity
    BY <1>b, <2>1
  <2> QED
    BY <2>1, <2>7, <2>8 DEF Sequential!Lifo!Push, S
<1>2. CASE Sequential!Pop
  <2>1. /\ live /\ live' = live /\ top # -1 /\ top' = top - 1 /\ data' = data
        /\ out' = Sequential!Call("pop", data[top])
    BY <1>2 DEF Sequential!Pop, Sequential!Empty
  <2>2. /\ top \in Nat /\ top + 1 \in 1 .. top + 1 /\ (top + 1) - 1 = top
        /\ top' + 1 = (top + 1) - 1
        /\ \A j \in 1 .. (top + 1) - 1 : j \in 1 .. top + 1 /\ j \in 1 .. top' + 1
    BY <1>a, <2>1
  <2>3. /\ S \in Seq(Item) /\ S' \in Seq(Item) /\ Len(S') = Len(S) - 1
        /\ Len(S) = top + 1
    BY <1>b, <1>e, <2>1, <2>2
  <2>4. S # <<>> /\ S[Len(S)] = data[top]
    BY <1>b, <2>1, <2>2, <2>3
  <2>5. \A j \in 1 .. Len(S) - 1 : S'[j] = S[j]
    BY <1>b, <1>e, <2>1, <2>2, <2>3
  <2> HIDE DEF S
  <2>6. S' = SubSeq(S, 1, Len(S) - 1)
    BY <2>3, <2>4, <2>5, PushedPopped
  <2> QED
    BY <2>1, <2>4, <2>6 DEF Sequential!Lifo!Pop, Sequential!Lifo!Next, S
<1>3. CASE Sequential!PushFull
  <2>1. live /\ ~(top + 1 < Capacity) /\ out' = Sequential!Call("push", None) /\ UNCHANGED <<top, data, live>>
    BY <1>3 DEF Sequential!PushFull, Sequential!Room
  <2>2. Len(S) = Capacity
    BY <1>a, <1>b, <2>1, Sizes
  <2>3. S' = S
    BY <2>1 DEF Sequential!Contents
  <2> QED
    BY <2>1, <2>2, <2>3 DEF Sequential!Lifo!PushFull, Sequential!Lifo!Next
<1>4. CASE Sequential!PopEmpty
  <2>1. live /\ top = -1 /\ out' = Sequential!Call("pop", None) /\ UNCHANGED <<top, data, live>>
    BY <1>4 DEF Sequential!PopEmpty, Sequential!Empty
  <2>2. S = <<>>
    BY <1>a, <1>b, <2>1
  <2>3. S' = S
    BY <2>1 DEF Sequential!Contents
  <2> QED
    BY <2>1, <2>2, <2>3 DEF Sequential!Lifo!PopEmpty, Sequential!Lifo!Next
<1>5. CASE Sequential!Destory
  BY <1>5 DEF Sequential!Destory, Sequential!Lifo!Destory, Sequential!Lifo!Next
<1>6. CASE Sequential!InitAgain
  <2>1. ~live /\ live' = TRUE /\ top' = -1 /\ out' = Sequential!Call("init", None)
    BY <1>6 DEF Sequential!InitAgain
  <2>2. S' = <<>>
    BY <1>e, <2>1
  <2> QED
    BY <2>1, <2>2 DEF Sequential!Lifo!InitAgain, Sequential!Lifo!Next
<1>7. CASE Sequential!InitFails
  BY <1>7 DEF Sequential!InitFails, Sequential!Lifo!InitFails, Sequential!Lifo!Next
<1> QED
  BY <1>1, <1>2, <1>3, <1>4, <1>5, <1>6, <1>7 DEF Sequential!Next, Sequential!Lifo!Next

-----------------------------------------------------------------------------
(***************************************************************************)
(* Linked stacks: p, the nodes on the stack, are different ones of         *)
(* `nodes', t is the last of them, and nx leads from each to the one below.*)
(* linked_stack.c and its user, the bracket judge, both keep this.         *)
(***************************************************************************)
IsPile(nodes, p, t, nx) ==
  /\ p \in Seq(nodes)
  /\ Distinct(p)
  /\ p = <<>> => t = None
  /\ p # <<>> => t = p[Len(p)] /\ nx[p[1]] = None
  /\ \A j \in 1 .. Len(p) - 1 : nx[p[j + 1]] = p[j]

NodesOf(p) == {p[j] : j \in 1 .. Len(p)}

LEMMA EmptyPile ==
  ASSUME NEW nodes, NEW nx
  PROVE  IsPile(nodes, <<>>, None, nx) /\ NodesOf(<<>>) = {}
BY DEF IsPile, NodesOf, Distinct

LEMMA PileNodes ==
  ASSUME NEW nodes, NEW p \in Seq(nodes), NEW n \in nodes
  PROVE  NodesOf(Append(p, n)) = NodesOf(p) \cup {n}
<1>1. /\ Len(Append(p, n)) = Len(p) + 1 /\ Append(p, n)[Len(p) + 1] = n
      /\ \A j \in 1 .. Len(p) : Append(p, n)[j] = p[j]
  BY AppendProperties
<1>2. \A j \in 1 .. Len(p) + 1 : j \in 1 .. Len(p) \/ j = Len(p) + 1
  OBVIOUS
<1>3. Len(p) + 1 \in 1 .. Len(p) + 1 /\ \A j \in 1 .. Len(p) : j \in 1 .. Len(p) + 1
  OBVIOUS
<1> QED
  BY <1>1, <1>2, <1>3 DEF NodesOf

LEMMA PilePush ==
  ASSUME NEW nodes, IsFiniteSet(nodes), NEW nx \in [nodes -> nodes \cup {None}], NEW p, NEW t,
         IsPile(nodes, p, t, nx), NEW n \in nodes, n \notin NodesOf(p)
  PROVE  /\ IsPile(nodes, Append(p, n), n, [nx EXCEPT ![n] = t])
         /\ NodesOf(Append(p, n)) = NodesOf(p) \cup {n}
         /\ Len(p) < Cardinality(nodes)
<1> DEFINE nx2 == [nx EXCEPT ![n] = t]
           p2 == Append(p, n)
<1>1. p \in Seq(nodes) /\ Len(p) \in Nat /\ \A j \in 1 .. Len(p) : p[j] \in nodes /\ p[j] # n
  BY DEF IsPile, NodesOf
<1>2. /\ p2 \in Seq(nodes) /\ Len(p2) = Len(p) + 1 /\ p2 # <<>>
      /\ p2[Len(p) + 1] = n /\ \A j \in 1 .. Len(p) : p2[j] = p[j]
  BY <1>1, AppendProperties
<1>3. Len(p) < Cardinality(nodes) /\ Distinct(p2)
  BY <1>1, OneMoreIsShort DEF IsPile
<1>4. nx2[n] = t /\ \A j \in 1 .. Len(p) : nx2[p[j]] = nx[p[j]]
  BY <1>1
<1> HIDE DEF nx2, p2
<1>5. nx2[p2[1]] = None
  <2>1. CASE p = <<>>
    BY <1>2, <1>4, <2>1 DEF IsPile
  <2>2. CASE p # <<>>
    <3>1. 1 \in 1 .. Len(p)
      BY <1>1, <2>2
    <3> QED
      BY <1>2, <1>4, <2>2, <3>1 DEF IsPile
  <2> QED
    BY <2>1, <2>2
<1>6. ASSUME NEW j \in 1 .. Len(p2) - 1 PROVE nx2[p2[j + 1]] = p2[j]
  <2>1. j \in 1 .. Len(p)
    BY <1>1, <1>2
  <2>2. CASE j = Len(p)
    <3>1. p # <<>> /\ t = p[Len(p)]
      BY <1>1, <2>1 DEF IsPile
    <3> QED
      BY <1>2, <1>4, <2>1, <2>2, <3>1
  <2>3. CASE j # Len(p)
    <3>1. j \in 1 .. Len(p) - 1 /\ j + 1 \in 1 .. Len(p)
      BY <2>1, <2>3
    <3> QED
      BY <1>2, <1>4, <2>1, <3>1 DEF IsPile
  <2> QED
    BY <2>2, <2>3
<1>7. IsPile(nodes, p2, n, nx2)
  BY <1>2, <1>3, <1>5, <1>6 DEF IsPile
<1>8. NodesOf(p2) = NodesOf(p) \cup {n}
  BY <1>1, PileNodes DEF p2
<1> QED
  BY <1>3, <1>7, <1>8 DEF nx2, p2

LEMMA PilePop ==
  ASSUME NEW nodes, NEW nx \in [nodes -> nodes \cup {None}], None \notin nodes, NEW p, NEW t,
         IsPile(nodes, p, t, nx), t # None
  PROVE  /\ p # <<>> /\ t \in NodesOf(p) /\ t \in nodes /\ t = p[Len(p)]
         /\ IsPile(nodes, SubSeq(p, 1, Len(p) - 1), nx[t], nx)
         /\ NodesOf(SubSeq(p, 1, Len(p) - 1)) = NodesOf(p) \ {t}
<1> DEFINE p2 == SubSeq(p, 1, Len(p) - 1)
<1>1. /\ p \in Seq(nodes) /\ p # <<>> /\ t = p[Len(p)] /\ nx[p[1]] = None /\ Distinct(p)
      /\ \A j \in 1 .. Len(p) - 1 : nx[p[j + 1]] = p[j]
  BY DEF IsPile
<1>2. /\ Len(p) \in Nat \ {0} /\ Len(p) \in 1 .. Len(p)
      /\ \A j \in 1 .. Len(p) : p[j] \in nodes
      /\ \A j \in 1 .. Len(p) - 1 : j \in 1 .. Len(p) /\ j # Len(p)
  <2>1. Len(p) \in Nat \ {0}
    BY <1>1, EmptySeq
  <2> QED
    BY <1>1, <2>1
<1>3. p2 \in Seq(nodes) /\ Len(p2) = Len(p) - 1 /\ \A j \in 1 .. Len(p) - 1 : p2[j] = p[j]
  BY <1>1, Popped
<1> HIDE DEF p2
<1>4. Distinct(p2)
  BY <1>1, <1>2, <1>3 DEF Distinct
<1>5. p2 = <<>> => nx[t] = None
  <2> SUFFICES ASSUME p2 = <<>> PROVE nx[t] = None
    OBVIOUS
  <2>1. Len(p2) = 0
    OBVIOUS
  <2>2. Len(p) = 1
    BY <1>2, <1>3, <2>1
  <2> QED
    BY <1>1, <2>2
<1>6. ASSUME p2 # <<>> PROVE nx[t] = p2[Len(p2)] /\ p2[1] = p[1]
  <2>1. Len(p2) \in Nat \ {0}
    BY <1>3, <1>6, EmptySeq
  <2>2. Len(p) - 1 \in 1 .. Len(p) - 1 /\ 1 \in 1 .. Len(p) - 1 /\ (Len(p) - 1) + 1 = Len(p)
    BY <1>2, <1>3, <2>1
  <2>3. nx[p[(Len(p) - 1) + 1]] = p[Len(p) - 1]
    BY <1>1, <2>2
  <2> QED
    BY <1>1, <1>3, <2>2, <2>3
<1>7. ASSUME NEW j \in 1 .. Len(p2) - 1 PROVE nx[p2[j + 1]] = p2[j]
  <2>1. j \in 1 .. Len(p) - 1 /\ j + 1 \in 1 .. Len(p) - 1
    BY <1>2, <1>3
  <2> QED
    BY <1>1, <1>3, <2>1
<1>8. IsPile(nodes, p2, nx[t], nx)
  BY <1>1, <1>3, <1>4, <1>5, <1>6, <1>7 DEF IsPile
<1>9. NodesOf(p2) = NodesOf(p) \ {t}
  <2>1. \A j \in 1 .. Len(p) : j \in 1 .. Len(p) - 1 \/ j = Len(p)
    BY <1>2
  <2>2. \A j \in 1 .. Len(p) - 1 : p[j] # t
    BY <1>1, <1>2 DEF Distinct
  <2>3. ASSUME NEW x \in NodesOf(p), x # t PROVE x \in NodesOf(p2)
    <3>1. PICK j \in 1 .. Len(p) : x = p[j]
      BY DEF NodesOf
    <3>2. j \in 1 .. Len(p) - 1
      BY <1>1, <2>1, <2>3, <3>1
    <3> QED
      BY <1>3, <3>1, <3>2 DEF NodesOf
  <2>4. ASSUME NEW x \in NodesOf(p2) PROVE x \in NodesOf(p) \ {t}
    <3>1. PICK j \in 1 .. Len(p) - 1 : x = p2[j]
      BY <1>3 DEF NodesOf
    <3> QED
      BY <1>2, <1>3, <2>2, <3>1 DEF NodesOf
  <2> QED
    BY <2>3, <2>4
<1>10. t \in NodesOf(p) /\ t \in nodes
  BY <1>1, <1>2 DEF NodesOf
<1> QED
  BY <1>1, <1>8, <1>9, <1>10 DEF p2

(***************************************************************************)
(* The nodes that destory's loop meets are those on the stack.             *)
(***************************************************************************)
Met(nodes, t, nx) ==
  {x \in nodes : \A S \in SUBSET (nodes \cup {None}) :
                   t \in S /\ (\A y \in S \ {None} : nx[y] \in S) => x \in S}

LEMMA PileMet ==
  ASSUME NEW nodes, None \notin nodes, NEW p, NEW t, NEW nx, IsPile(nodes, p, t, nx)
  PROVE  Met(nodes, t, nx) = NodesOf(p)
<1>1. p \in Seq(nodes) /\ Len(p) \in Nat /\ \A j \in 1 .. Len(p) : p[j] \in nodes
  BY DEF IsPile
<1>2. ASSUME NEW x \in Met(nodes, t, nx) PROVE x \in NodesOf(p)
  <2> DEFINE S == NodesOf(p) \cup {None}
  <2>1. S \in SUBSET (nodes \cup {None})
    BY <1>1 DEF NodesOf
  <2>2. t \in S
    <3>1. p # <<>> => Len(p) \in 1 .. Len(p)
      BY <1>1
    <3> QED
      BY <3>1 DEF IsPile, NodesOf
  <2>3. ASSUME NEW y \in S \ {None} PROVE nx[y] \in S
    <3>1. PICK j \in 1 .. Len(p) : y = p[j]
      BY DEF NodesOf
    <3>2. CASE j = 1
      <4>1. p # <<>>
        BY <1>1, <3>2
      <4> QED
        BY <3>1, <3>2, <4>1 DEF IsPile
    <3>3. CASE j # 1
      <4>1. PICK i0 \in 1 .. Len(p) - 1 : j = i0 + 1
        <5>1. j - 1 \in 1 .. Len(p) - 1 /\ j = (j - 1) + 1
          BY <1>1, <3>3
        <5> QED
          BY <5>1
      <4>2. nx[y] = p[i0] /\ i0 \in 1 .. Len(p)
        BY <1>1, <3>1, <4>1 DEF IsPile
      <4> QED
        BY <4>2 DEF NodesOf
    <3> QED
      BY <3>2, <3>3
  <2> HIDE DEF S
  <2>4. x \in S /\ x \in nodes
    BY <2>1, <2>2, <2>3 DEF Met
  <2> QED
    BY <2>4 DEF S
<1>3. ASSUME NEW S \in SUBSET (nodes \cup {None}), t \in S, \A y \in S \ {None} : nx[y] \in S
      PROVE  NodesOf(p) \subseteq S
  <2> DEFINE T == {k \in Nat : k < Len(p) => p[Len(p) - k] \in S}
  <2>1. 0 \in T
    <3>1. 0 < Len(p) => p # <<>>
      OBVIOUS
    <3>2. Len(p) - 0 = Len(p)
      BY <1>1
    <3> QED
      BY <1>3, <3>1, <3>2 DEF IsPile
  <2>2. ASSUME NEW k \in Nat, k \in T PROVE k + 1 \in T
    <3> SUFFICES ASSUME k + 1 < Len(p) PROVE p[Len(p) - (k + 1)] \in S
      OBVIOUS
    <3>1. k < Len(p) /\ Len(p) - k \in 1 .. Len(p) /\ Len(p) - (k + 1) \in 1 .. Len(p) - 1
          /\ (Len(p) - (k + 1)) + 1 = Len(p) - k
      BY <1>1
    <3>2. p[Len(p) - k] \in S /\ p[Len(p) - k] # None
      BY <1>1, <2>2, <3>1
    <3>3. nx[p[(Len(p) - (k + 1)) + 1]] = p[Len(p) - (k + 1)]
      BY <3>1 DEF IsPile
    <3> QED
      BY <1>3, <3>1, <3>2, <3>3
  <2>3. Nat \subseteq T
    <3> HIDE DEF T
    <3> QED
      BY <2>1, <2>2, Induct
  <2>4. ASSUME NEW j \in 1 .. Len(p) PROVE p[j] \in S
    <3>1. Len(p) - j \in Nat /\ Len(p) - j < Len(p) /\ Len(p) - (Len(p) - j) = j
      BY <1>1
    <3>2. Len(p) - j \in T
      BY <2>3, <3>1
    <3> QED
      BY <3>1, <3>2
  <2> QED
    BY <2>4 DEF NodesOf
<1>4. NodesOf(p) \subseteq nodes
  BY <1>1 DEF NodesOf
<1>5. NodesOf(p) \subseteq Met(nodes, t, nx)
  BY <1>3, <1>4 DEF Met
<1> QED
  BY <1>2, <1>5

-----------------------------------------------------------------------------
(***************************************************************************)
(* The linked stack (linked_stack.c): until destory its nodes are a pile,  *)
(* all of them allocated; after it there are none.                         *)
(***************************************************************************)
LinkedInv ==
  /\ Linked!TypeOK
  /\ NodesOf(piled) \subseteq used
  /\ live => IsPile(Node, piled, top, next)
  /\ ~live => piled = <<>>

LEMMA LinkedInit == Linked!Init => LinkedInv
<1> SUFFICES ASSUME Linked!Init PROVE LinkedInv
  OBVIOUS
<1>1. /\ top = None /\ used = {} /\ piled = <<>> /\ out.res = None
      /\ next \in [Node -> Node \cup {None}] /\ data \in [Node -> Value \cup {None}]
  BY DEF Linked!Init, Linked!Result
<1>2. live = TRUE
  BY DEF Linked!Init
<1>3. NodesOf(piled) = {} /\ IsPile(Node, piled, top, next)
  BY <1>1, EmptyPile
<1>4. Linked!TypeOK
  <2>1. live \in BOOLEAN
    BY <1>2
  <2> QED
    BY <1>1, <2>1 DEF Linked!TypeOK
<1> QED
  BY <1>1, <1>2, <1>3, <1>4 DEF LinkedInv

\* what push and pop do to a pile, told without the stack's own fields
LEMMA LinkedPush ==
  ASSUME LinkedInv, NEW v \in Value, Linked!Push(v)
  PROVE  /\ \E n \in Node : n \notin NodesOf(piled) /\ piled' = Append(piled, n) /\ data' = [data EXCEPT ![n] = v]
         /\ Len(piled) < Cardinality(Node)
         /\ LinkedInv'
<1>a. /\ top \in Node \cup {None} /\ used \subseteq Node /\ piled \in Seq(Node)
      /\ next \in [Node -> Node \cup {None}] /\ data \in [Node -> Value \cup {None}]
  BY DEF LinkedInv, Linked!TypeOK
<1>1. PICK n \in Node : /\ n \notin used /\ used' = used \cup {n}
                        /\ next' = [next EXCEPT ![n] = top] /\ data' = [data EXCEPT ![n] = v]
                        /\ top' = n /\ piled' = Append(piled, n) /\ out' = Linked!Result("push", v)
  BY DEF Linked!Push
<1>2. live
  BY DEF Linked!Push
<1>3. live'
  BY DEF Linked!Push
<1>4. IsPile(Node, piled, top, next) /\ n \notin NodesOf(piled) /\ NodesOf(piled) \subseteq used
  BY <1>1, <1>2 DEF LinkedInv
<1>5. IsPile(Node, piled', top', next')
  BY <1>a, <1>1, <1>4, PilePush, FiniteMemory
<1>6. NodesOf(piled') = NodesOf(piled) \cup {n}
  <2>1. NodesOf(Append(piled, n)) = NodesOf(piled) \cup {n}
    BY <1>a, PileNodes
  <2> QED
    BY <1>1, <2>1
<1>7. Len(piled) < Cardinality(Node)
  BY <1>a, <1>1, <1>4, PilePush, FiniteMemory
<1>8. Linked!TypeOK'
  <2>1. /\ top' \in Node \cup {None} /\ used' \subseteq Node /\ piled' \in Seq(Node)
        /\ next' \in [Node -> Node \cup {None}] /\ data' \in [Node -> Value \cup {None}]
        /\ out'.res \in Value \cup {None}
    BY <1>a, <1>1 DEF Linked!Result
  <2>2. live' \in BOOLEAN
    BY <1>2 DEF Linked!Push, LinkedInv, Linked!TypeOK
  <2> QED
    BY <2>1, <2>2 DEF Linked!TypeOK
<1>9. NodesOf(piled') \subseteq used'
  BY <1>1, <1>4, <1>6
<1> QED
  BY <1>1, <1>3, <1>4, <1>5, <1>7, <1>8, <1>9 DEF LinkedInv

LEMMA LinkedPop ==
  ASSUME LinkedInv, Linked!Pop
  PROVE  /\ piled # <<>> /\ top = piled[Len(piled)] /\ LinkedInv'
<1>a. /\ top \in Node \cup {None} /\ used \subseteq Node /\ piled \in Seq(Node)
      /\ next \in [Node -> Node \cup {None}] /\ data \in [Node -> Value \cup {None}]
  BY DEF LinkedInv, Linked!TypeOK
<1>1. /\ top # None /\ top' = next[top] /\ out' = Linked!Result("pop", data[top])
      /\ piled' = SubSeq(piled, 1, Len(piled) - 1) /\ UNCHANGED <<next, data, used>>
  BY DEF Linked!Pop, Linked!Empty
<1>2. live
  BY DEF Linked!Pop
<1>3. live'
  BY DEF Linked!Pop
<1>4. IsPile(Node, piled, top, next) /\ None \notin Node
  BY <1>2, NullIsApart DEF LinkedInv
<1>5. piled # <<>> /\ top \in Node /\ top = piled[Len(piled)]
  BY <1>a, <1>1, <1>4, PilePop
<1>6. IsPile(Node, piled', top', next')
  BY <1>a, <1>1, <1>4, PilePop
<1>7. NodesOf(piled') = NodesOf(piled) \ {top}
  BY <1>a, <1>1, <1>4, PilePop
<1>8. Linked!TypeOK'
  <2>1. /\ top' \in Node \cup {None} /\ used' \subseteq Node /\ piled' \in Seq(Node)
        /\ next' \in [Node -> Node \cup {None}] /\ data' \in [Node -> Value \cup {None}]
        /\ out'.res \in Value \cup {None}
    BY <1>a, <1>1, <1>5, <1>6 DEF Linked!Result, IsPile
  <2>2. live' \in BOOLEAN
    BY DEF Linked!Pop, LinkedInv, Linked!TypeOK
  <2> QED
    BY <2>1, <2>2 DEF Linked!TypeOK
<1>9. NodesOf(piled') \subseteq used'
  BY <1>1, <1>7 DEF LinkedInv
<1> QED
  BY <1>3, <1>5, <1>6, <1>8, <1>9 DEF LinkedInv

LEMMA LinkedDestory ==
  ASSUME LinkedInv, Linked!Destory
  PROVE  used' = Linked!Lent /\ LinkedInv'
<1>1. /\ used' = used \ Linked!Chain(top) /\ piled' = <<>> /\ out' = Linked!Result("destory", None)
      /\ UNCHANGED <<top, next, data>>
  BY DEF Linked!Destory
<1>2. live
  BY DEF Linked!Destory
<1>3. ~live' /\ live' \in BOOLEAN
  BY DEF Linked!Destory
<1>4. Linked!Chain(top) = NodesOf(piled)
  <2>1. IsPile(Node, piled, top, next) /\ None \notin Node
    BY <1>2, NullIsApart DEF LinkedInv
  <2>2. Met(Node, top, next) = NodesOf(piled)
    BY <2>1, PileMet
  <2> QED
    BY <2>2 DEF Linked!Chain, Met
<1>5. NodesOf(piled') = {}
  BY <1>1, EmptyPile
<1>6. Linked!TypeOK'
  <2>1. piled' \in Seq(Node) /\ out'.res = None
    BY <1>1 DEF Linked!Result
  <2> QED
    BY <1>1, <1>3, <2>1 DEF LinkedInv, Linked!TypeOK
<1> QED
  BY <1>1, <1>3, <1>4, <1>5, <1>6 DEF LinkedInv, Linked!Lent, NodesOf

LEMMA LinkedStep == LinkedInv /\ Linked!Next => LinkedInv'
<1> SUFFICES ASSUME LinkedInv, Linked!Next PROVE LinkedInv'
  OBVIOUS
<1>1. CASE Linked!PopEmpty
  <2>1. UNCHANGED <<top, next, data, used, piled>> /\ out'.res = None
    BY <1>1 DEF Linked!PopEmpty, Linked!Result
  <2>2. live' = live
    BY <1>1 DEF Linked!PopEmpty
  <2>3. Linked!TypeOK'
    BY <2>1, <2>2 DEF LinkedInv, Linked!TypeOK
  <2> QED
    BY <2>1, <2>2, <2>3 DEF LinkedInv
<1>2. ASSUME NEW n \in Node, Linked!Free(n) PROVE LinkedInv'
  <2>1. n \notin NodesOf(piled) /\ used' = used \ {n} /\ UNCHANGED <<top, next, data, out, piled>>
    BY <1>2 DEF Linked!Free, Linked!Lent, NodesOf
  <2>2. live' = live
    BY <1>2 DEF Linked!Free
  <2>3. Linked!TypeOK'
    BY <2>1, <2>2 DEF LinkedInv, Linked!TypeOK
  <2> QED
    BY <2>1, <2>2, <2>3 DEF LinkedInv
<1>3. CASE Linked!InitAgain
  <2>1. top' = None /\ piled' = <<>> /\ out'.res = None /\ UNCHANGED <<next, data, used>>
    BY <1>3 DEF Linked!InitAgain, Linked!Result
  <2>2. live' = TRUE
    BY <1>3 DEF Linked!InitAgain
  <2>3. IsPile(Node, piled', top', next') /\ NodesOf(piled') = {}
    BY <2>1, EmptyPile
  <2>4. Linked!TypeOK'
    <3>1. live' \in BOOLEAN
      BY <2>2
    <3> QED
      BY <2>1, <3>1 DEF LinkedInv, Linked!TypeOK
  <2> QED
    BY <2>2, <2>3, <2>4 DEF LinkedInv
<1> QED
  BY <1>1, <1>2, <1>3, LinkedPush, LinkedPop, LinkedDestory DEF Linked!Next

LEMMA LinkedLifo == LinkedInv /\ Linked!Next => Linked!LifoStep /\ Linked!DestoryStep
<1> SUFFICES ASSUME LinkedInv, Linked!Next
             PROVE  [Linked!Lifo!Next]_(Linked!Lifo!vars) /\ Linked!DestoryStep
  BY DEF Linked!LifoStep
<1> DEFINE S == Linked!Contents
           Item == Value \cup {None}
           Goal == [Linked!Lifo!Next]_(Linked!Lifo!vars) /\ Linked!DestoryStep
<1>a. /\ piled \in Seq(Node) /\ Len(piled) \in Nat /\ \A j \in 1 .. Len(piled) : piled[j] \in Node
      /\ data \in [Node -> Item]
  BY DEF LinkedInv, Linked!TypeOK
<1>b. /\ S \in Seq(Item) /\ Len(S) = Len(piled) /\ \A j \in 1 .. Len(piled) : S[j] = data[piled[j]]
  <2>1. S = [j \in 1 .. Len(piled) |-> data[piled[j]]]
    BY DEF Linked!Contents, Linked!Piled
  <2>2. \A j \in 1 .. Len(piled) : data[piled[j]] \in Item
    BY <1>a
  <2> HIDE DEF S, Item
  <2> QED
    BY <1>a, <2>1, <2>2
<1>c. LinkedInv'
  BY LinkedStep
<1>d. /\ piled' \in Seq(Node) /\ Len(piled') \in Nat /\ \A j \in 1 .. Len(piled') : piled'[j] \in Node
      /\ data' \in [Node -> Item]
  BY <1>c DEF LinkedInv, Linked!TypeOK
<1>e. /\ S' \in Seq(Item) /\ Len(S') = Len(piled') /\ \A j \in 1 .. Len(piled') : S'[j] = data'[piled'[j]]
  <2>1. S' = [j \in 1 .. Len(piled') |-> data'[piled'[j]]]
    BY DEF Linked!Contents, Linked!Piled
  <2>2. \A j \in 1 .. Len(piled') : data'[piled'[j]] \in Item
    BY <1>d
  <2> HIDE DEF S, Item
  <2> QED
    BY <1>d, <2>1, <2>2
<1>f. Linked!Lifo!vars = <<S, live, out>>
  BY DEF Linked!Lifo!vars
<1> HIDE DEF S, Item
<1>1. ASSUME NEW x \in Value, Linked!Push(x) PROVE Goal
  <2>1. PICK n \in Node : n \notin NodesOf(piled) /\ piled' = Append(piled, n) /\ data' = [data EXCEPT ![n] = x]
    BY <1>1, LinkedPush
  <2>2. Len(S) < Linked!Cardinality(Node)
    <3>1. Len(piled) < Cardinality(Node)
      BY <1>1, LinkedPush
    <3>2. Linked!Cardinality(Node) = Cardinality(Node)
      BY DEF Linked!Cardinality, Cardinality
    <3> QED
      BY <1>b, <3>1, <3>2
  <2>3. /\ Len(piled') = Len(piled) + 1 /\ piled'[Len(piled) + 1] = n
        /\ \A j \in 1 .. Len(piled) : piled'[j] = piled[j] /\ piled[j] # n
    <3>1. \A j \in 1 .. Len(piled) : piled[j] # n
      BY <2>1 DEF NodesOf
    <3> QED
      BY <1>a, <2>1, <3>1, AppendProperties
  <2>4. x \in Item
    BY DEF Item
  <2>5. /\ Append(S, x) \in Seq(Item) /\ Len(Append(S, x)) = Len(piled) + 1
        /\ Append(S, x)[Len(piled) + 1] = x
        /\ \A j \in 1 .. Len(piled) : Append(S, x)[j] = S[j]
    BY <1>a, <1>b, <2>4, AppendProperties
  <2>6. \A j \in 1 .. Len(piled) + 1 : j \in 1 .. Len(piled) \/ j = Len(piled) + 1
    BY <1>a
  <2>7. /\ Len(piled) + 1 \in 1 .. Len(piled) + 1
        /\ \A j \in 1 .. Len(piled) : j \in 1 .. Len(piled) + 1
    BY <1>a
  <2>8. \A j \in 1 .. Len(piled) + 1 : S'[j] = Append(S, x)[j]
    BY <1>a, <1>b, <1>e, <2>1, <2>3, <2>5, <2>6, <2>7
  <2>9. S' = Append(S, x)
    BY <1>e, <2>3, <2>5, <2>8, SeqEqual
  <2>10. live
    BY <1>1 DEF Linked!Push
  <2>11. live' = live
    BY <1>1 DEF Linked!Push
  <2>12. out' = Linked!Lifo!Call("push", x)
    BY <1>1 DEF Linked!Push, Linked!Result, Linked!Lifo!Call
  <2>13. Linked!Lifo!Push(x)
    BY <2>2, <2>9, <2>10, <2>11, <2>12 DEF Linked!Lifo!Push, S
  <2> QED
    BY <2>10, <2>11, <2>13 DEF Linked!Lifo!Next, Linked!DestoryStep
<1>2. ASSUME Linked!Pop PROVE Goal
  <2>1. piled # <<>> /\ top = piled[Len(piled)]
    BY <1>2, LinkedPop
  <2>2. piled' = SubSeq(piled, 1, Len(piled) - 1) /\ data' = data
    BY <1>2 DEF Linked!Pop
  <2>3. Len(piled') = Len(piled) - 1 /\ \A j \in 1 .. Len(piled) - 1 : piled'[j] = piled[j]
    BY <1>a, <2>1, <2>2, Popped
  <2>4. Len(piled) \in 1 .. Len(piled) /\ \A j \in 1 .. Len(piled) - 1 : j \in 1 .. Len(piled)
    BY <1>a, <2>1
  <2>5. S # <<>> /\ S[Len(S)] = data[top] /\ Len(S') = Len(S) - 1
    BY <1>b, <1>e, <2>1, <2>3, <2>4
  <2>6. \A j \in 1 .. Len(S) - 1 : S'[j] = S[j]
    BY <1>b, <1>e, <2>2, <2>3, <2>4
  <2>7. S' = SubSeq(S, 1, Len(S) - 1)
    BY <1>b, <1>e, <2>5, <2>6, PushedPopped
  <2>8. live
    BY <1>2 DEF Linked!Pop
  <2>9. live' = live
    BY <1>2 DEF Linked!Pop
  <2>10. out' = Linked!Lifo!Call("pop", S[Len(S)])
    BY <1>2, <2>5 DEF Linked!Pop, Linked!Result, Linked!Lifo!Call
  <2>11. Linked!Lifo!Pop
    BY <2>5, <2>7, <2>8, <2>9, <2>10 DEF Linked!Lifo!Pop, S
  <2> QED
    BY <2>8, <2>9, <2>11 DEF Linked!Lifo!Next, Linked!DestoryStep
<1>3. ASSUME Linked!PopEmpty PROVE Goal
  <2>1. top = None /\ UNCHANGED <<piled, data>>
    BY <1>3 DEF Linked!PopEmpty, Linked!Empty
  <2>2. live
    BY <1>3 DEF Linked!PopEmpty
  <2>3. live' = live
    BY <1>3 DEF Linked!PopEmpty
  <2>4. out' = Linked!Lifo!Call("pop", None)
    BY <1>3 DEF Linked!PopEmpty, Linked!Result, Linked!Lifo!Call
  <2>5. piled = <<>>
    <3>1. IsPile(Node, piled, top, next)
      BY <2>2 DEF LinkedInv
    <3>2. piled # <<>> => top = piled[Len(piled)] /\ Len(piled) \in 1 .. Len(piled)
      BY <1>a, <3>1 DEF IsPile
    <3> QED
      BY <1>a, <2>1, <3>2, NullIsApart
  <2>6. S = <<>> /\ S' = S
    <3>1. S' = S
      BY <2>1 DEF S, Linked!Contents, Linked!Piled
    <3> QED
      BY <1>b, <2>5, <3>1
  <2>7. Linked!Lifo!PopEmpty
    BY <2>2, <2>3, <2>4, <2>6 DEF Linked!Lifo!PopEmpty, S
  <2> QED
    BY <2>2, <2>3, <2>7 DEF Linked!Lifo!Next, Linked!DestoryStep
<1>4. ASSUME NEW n \in Node, Linked!Free(n) PROVE Goal
  <2>1. UNCHANGED <<piled, data, out>>
    BY <1>4 DEF Linked!Free
  <2>2. live' = live
    BY <1>4 DEF Linked!Free
  <2>3. S' = S
    BY <2>1 DEF S, Linked!Contents, Linked!Piled
  <2>4. <<S, live, out>>' = <<S, live, out>>
    BY <2>1, <2>2, <2>3
  <2>5. UNCHANGED Linked!Lifo!vars
    BY <2>4 DEF Linked!Lifo!vars, S
  <2>6. Linked!DestoryStep
    BY <2>2 DEF Linked!DestoryStep
  <2> QED
    BY <2>5, <2>6
<1>5. ASSUME Linked!Destory PROVE Goal
  <2>1. used' = Linked!Lent /\ piled' = <<>>
    BY <1>5, LinkedDestory DEF Linked!Destory
  <2>2. S' = <<>>
    BY <1>e, <2>1
  <2>3. Linked!Lifo!Destory
    BY <1>5, <2>2 DEF Linked!Destory, Linked!Result, Linked!Lifo!Call, Linked!Lifo!Destory, S
  <2> QED
    BY <2>1, <2>3 DEF Linked!Lifo!Next, Linked!DestoryStep
<1>6. ASSUME Linked!InitAgain PROVE Goal
  <2>1. piled' = <<>>
    BY <1>6 DEF Linked!InitAgain
  <2>2. S' = <<>>
    BY <1>e, <2>1
  <2>3. Linked!Lifo!InitAgain
    BY <1>6, <2>2 DEF Linked!InitAgain, Linked!Result, Linked!Lifo!Call, Linked!Lifo!InitAgain, S
  <2> QED
    BY <1>6, <2>3 DEF Linked!Lifo!Next, Linked!DestoryStep, Linked!InitAgain
<1>7. Goal
  <2> HIDE DEF Goal
  <2> QED
    BY <1>1, <1>2, <1>3, <1>4, <1>5, <1>6 DEF Linked!Next
<1> QED
  BY <1>7

-----------------------------------------------------------------------------
(***************************************************************************)
(* The two stacks in one array (chapter_3_1/q5.c).                         *)
(***************************************************************************)
Elem == Value \cup {Zero}

(***************************************************************************)
(* The inductive invariant: BothIntact told cell by cell.  A push goes to  *)
(* a cell between the tops, hence to none that the other stack holds.      *)
(***************************************************************************)
Tops ==
  /\ top1 \in -1 .. MaxSize - 1
  /\ top2 \in 0 .. MaxSize
  /\ mem \in [Cells -> Elem]

OneIntact ==
  /\ one \in Seq(Elem) /\ Len(one) = top1 + 1
  /\ \A j \in 1 .. top1 + 1 : one[j] = mem[j - 1]

TwoIntact ==
  /\ two \in Seq(Elem) /\ Len(two) = MaxSize - top2
  /\ \A j \in 1 .. MaxSize - top2 : two[j] = mem[MaxSize - j]

SharedInv == Tops /\ OneIntact /\ TwoIntact

LEMMA SharedInit ==
  ASSUME SharedOff
  PROVE  SharedInv
<1>0. MaxSize \in Nat \ {0}
  BY Sizes
<1>1. Tops
  BY <1>0 DEF SharedOff, Tops, Cells, Elem
<1>2. OneIntact
  <2>1. one = <<Zero>> /\ Zero \in Elem /\ top1 = 0 /\ mem = [c \in Cells |-> Zero]
    BY DEF SharedOff, Elem
  <2>2. one \in Seq(Elem) /\ Len(one) = 1 /\ one[1] = Zero
    BY <2>1
  <2>3. mem[0] = Zero
    BY <1>0, <2>1 DEF Cells
  <2> QED
    BY <2>1, <2>2, <2>3 DEF OneIntact
<1>3. TwoIntact
  <2>1. two = [c \in 1 .. MaxSize |-> Zero] /\ Zero \in Elem /\ top2 = 0
    BY DEF SharedOff, Elem
  <2>2. two \in Seq(Elem) /\ Len(two) = MaxSize /\ \A j \in 1 .. MaxSize : two[j] = Zero
    BY <1>0, <2>1
  <2>3. \A j \in 1 .. MaxSize : mem[MaxSize - j] = Zero
    BY <1>0 DEF SharedOff, Cells
  <2> QED
    BY <1>0, <2>1, <2>2, <2>3 DEF TwoIntact
<1> QED
  BY <1>1, <1>2, <1>3 DEF SharedInv

LEMMA SharedStep ==
  ASSUME SharedInv, [Next]_vars
  PROVE  SharedInv'
<1>0. MaxSize \in Nat \ {0}
  BY Sizes
<1>a. Tops /\ OneIntact /\ TwoIntact
  BY DEF SharedInv
<1>1. ASSUME NEW x \in Value, Push1(x) PROVE SharedInv'
  <2>1. /\ top1 + 1 < top2 /\ top1 + 1 \in Cells /\ x \in Elem
        /\ mem' = [mem EXCEPT ![top1 + 1] = x] /\ top1' = top1 + 1
        /\ one' = Append(one, x) /\ UNCHANGED <<top2, two>>
    BY <1>0, <1>1, <1>a DEF Push1, Full, Tops, Cells, Elem
  <2>2. /\ one' \in Seq(Elem) /\ Len(one') = top1 + 2 /\ one'[top1 + 2] = x
        /\ \A j \in 1 .. top1 + 1 : one'[j] = one[j]
    BY <1>0, <1>a, <2>1, AppendProperties DEF OneIntact, Tops
  <2>3. Tops'
    BY <1>0, <1>a, <2>1 DEF Tops
  <2>4. OneIntact'
    <3>1. \A j \in 1 .. top1 + 2 : j = top1 + 2 \/ (j \in 1 .. top1 + 1 /\ j - 1 # top1 + 1 /\ j - 1 \in Cells)
      BY <1>0, <1>a DEF Tops, Cells
    <3>2. \A j \in 1 .. top1 + 2 : one'[j] = mem'[j - 1]
      BY <1>0, <1>a, <2>1, <2>2, <3>1 DEF OneIntact, Tops
    <3> QED
      BY <2>1, <2>2, <3>2, <1>0, <1>a DEF OneIntact, Tops
  <2>5. TwoIntact'
    <3>1. \A j \in 1 .. MaxSize - top2 : MaxSize - j \in Cells /\ MaxSize - j # top1 + 1
      BY <1>0, <1>a, <2>1 DEF Tops, Cells
    <3> QED
      BY <1>0, <1>a, <2>1, <3>1 DEF TwoIntact, Tops
  <2> QED
    BY <2>3, <2>4, <2>5 DEF SharedInv
<1>2. ASSUME NEW x \in Value, Push2(x) PROVE SharedInv'
  <2>1. /\ top1 < top2 - 1 /\ top2 - 1 \in Cells /\ x \in Elem
        /\ mem' = [mem EXCEPT ![top2 - 1] = x] /\ top2' = top2 - 1
        /\ two' = Append(two, x) /\ UNCHANGED <<top1, one>>
    BY <1>0, <1>2, <1>a DEF Push2, Full, Tops, Cells, Elem
  <2> DEFINE n == MaxSize - top2
  <2>2. /\ two' \in Seq(Elem) /\ Len(two') = n + 1 /\ two'[n + 1] = x
        /\ \A j \in 1 .. n : two'[j] = two[j]
    BY <1>0, <1>a, <2>1, AppendProperties DEF TwoIntact, Tops
  <2>3. Tops'
    BY <1>0, <1>a, <2>1 DEF Tops
  <2>4. TwoIntact'
    <3>1. \A j \in 1 .. n + 1 : \/ j = n + 1 /\ MaxSize - j = top2 - 1
                                \/ j \in 1 .. n /\ MaxSize - j # top2 - 1 /\ MaxSize - j \in Cells
      BY <1>0, <1>a DEF Tops, Cells
    <3>2. \A j \in 1 .. n + 1 : two'[j] = mem'[MaxSize - j]
      BY <1>0, <1>a, <2>1, <2>2, <3>1 DEF TwoIntact, Tops
    <3>3. MaxSize - top2' = n + 1
      BY <1>0, <1>a, <2>1 DEF Tops
    <3> QED
      BY <2>2, <3>2, <3>3 DEF TwoIntact
  <2>5. OneIntact'
    <3>1. \A j \in 1 .. top1 + 1 : j - 1 \in Cells /\ j - 1 # top2 - 1
      BY <1>0, <1>a, <2>1 DEF Tops, Cells
    <3> QED
      BY <1>0, <1>a, <2>1, <3>1 DEF OneIntact, Tops
  <2> QED
    BY <2>3, <2>4, <2>5 DEF SharedInv
<1>3. CASE Pop1
  <2>1. /\ top1 # -1 /\ top1' = top1 - 1 /\ one' = SubSeq(one, 1, Len(one) - 1)
        /\ UNCHANGED <<mem, top2, two>>
    BY <1>3 DEF Pop1
  <2>2. /\ one' \in Seq(Elem) /\ Len(one') = top1 /\ \A j \in 1 .. top1 : one'[j] = one[j]
    <3>1. one \in Seq(Elem) /\ Len(one) - 1 = top1 /\ one # <<>>
      BY <1>0, <1>a, <2>1 DEF OneIntact, Tops
    <3> QED
      BY <2>1, <3>1, Popped
  <2> QED
    BY <1>0, <1>a, <2>1, <2>2 DEF SharedInv, Tops, OneIntact, TwoIntact
<1>4. CASE Pop2
  <2>1. /\ top2 # MaxSize /\ top2' = top2 + 1 /\ two' = SubSeq(two, 1, Len(two) - 1)
        /\ UNCHANGED <<mem, top1, one>>
    BY <1>4 DEF Pop2
  <2>2. /\ two' \in Seq(Elem) /\ Len(two') = MaxSize - top2 - 1
        /\ \A j \in 1 .. MaxSize - top2 - 1 : two'[j] = two[j]
    <3>1. two \in Seq(Elem) /\ Len(two) - 1 = MaxSize - top2 - 1 /\ two # <<>>
      BY <1>0, <1>a, <2>1 DEF TwoIntact, Tops
    <3> QED
      BY <2>1, <3>1, Popped
  <2>3. MaxSize - top2' = MaxSize - top2 - 1
    BY <1>0, <1>a, <2>1 DEF Tops
  <2> QED
    BY <1>0, <1>a, <2>1, <2>2, <2>3 DEF SharedInv, Tops, OneIntact, TwoIntact
<1>5. CASE UNCHANGED <<mem, top1, top2, one, two>>
  BY <1>0, <1>a, <1>5 DEF SharedInv, Tops, OneIntact, TwoIntact
<1> QED
  BY <1>1, <1>2, <1>3, <1>4, <1>5 DEF Next, Refused, Pop1Empty, Pop2Empty, vars

LEMMA SharedIntact == SharedInv => BothIntact
<1> SUFFICES ASSUME SharedInv PROVE BothIntact
  OBVIOUS
<1>1. one \in [1 .. top1 + 1 -> Elem] /\ two \in [1 .. MaxSize - top2 -> Elem]
  BY LenProperties DEF SharedInv, OneIntact, TwoIntact
<1> QED
  BY <1>1 DEF SharedInv, OneIntact, TwoIntact, BothIntact

LEMMA SharedShares ==
  ASSUME SharedInv, Next
  PROVE  RefusedWhenTaken /\ StayApart
<1>0. MaxSize \in Nat \ {0} /\ None \notin Value
  BY Sizes, NullIsApart
<1>a. Tops /\ Len(one) = top1 + 1 /\ Len(two) = MaxSize - top2
  BY DEF SharedInv, OneIntact, TwoIntact
<1>b. Tops' /\ Len(one') = top1' + 1 /\ Len(two') = MaxSize - top2'
  BY SharedStep DEF SharedInv, OneIntact, TwoIntact
<1>1. Full <=> Len(one) + Len(two) >= MaxSize
  BY <1>0, <1>a DEF Full, Tops
<1> DEFINE Goal == /\ StayApart
                   /\ Len(one') > Len(one) \/ Len(two') > Len(two) => ~Full
                   /\ out'.op \in {"push1", "push2"} /\ out'.res = None => Full
<1>2. ASSUME NEW x \in Value, Push1(x) PROVE Goal
  <2>1. ~Full /\ top1' = top1 + 1 /\ UNCHANGED <<top2, two>> /\ out'.res = x
    BY <1>2 DEF Push1, Result
  <2> QED
    BY <1>0, <1>a, <2>1 DEF Full, StayApart, Tops
<1>3. ASSUME NEW x \in Value, Push2(x) PROVE Goal
  <2>1. ~Full /\ top2' = top2 - 1 /\ UNCHANGED <<top1, one>> /\ out'.res = x
    BY <1>3 DEF Push2, Result
  <2> QED
    BY <1>0, <1>a, <2>1 DEF Full, StayApart, Tops
<1>4. ASSUME Refused("push1") \/ Refused("push2") PROVE Goal
  <2>1. Full /\ UNCHANGED <<top1, top2, one, two>>
    BY <1>4 DEF Refused
  <2>2. ~(Len(one') > Len(one)) /\ ~(Len(two') > Len(two))
    BY <1>0, <1>a, <2>1 DEF Tops
  <2>3. StayApart
    BY <2>1 DEF StayApart
  <2> QED
    BY <2>1, <2>2, <2>3
<1>5. ASSUME Pop1 \/ Pop1Empty PROVE Goal
  <2>1. /\ top1' = top1 - 1 \/ top1' = top1
        /\ UNCHANGED <<top2, two>> /\ out'.op = "pop1"
    BY <1>5 DEF Pop1, Pop1Empty, Result
  <2>a. /\ top1 \in Int /\ top2 \in Int /\ top1' \in Int /\ top2' \in Int
        /\ Len(one) \in Int /\ Len(two) \in Int /\ Len(one') \in Int /\ Len(two') \in Int
    BY <1>0, <1>a, <1>b DEF Tops
  <2>b. ~(Len(one') > Len(one))
    <3>1. \A l, m, t, u \in Int :
            l = t + 1 /\ m = u + 1 /\ (u = t - 1 \/ u = t) => ~(m > l)
      OBVIOUS
    <3> QED
      BY <1>0, <1>a, <1>b, <2>1, <2>a, <3>1
  <2>c. Len(two') = Len(two)
    BY <2>1
  <2>2. ~(Len(one') > Len(one)) /\ ~(Len(two') > Len(two))
    BY <2>a, <2>b, <2>c
  <2>3. StayApart
    BY <1>0, <1>a, <2>1 DEF StayApart, Tops
  <2>4. out'.op \notin {"push1", "push2"}
    BY <2>1
  <2> QED
    BY <2>2, <2>3, <2>4
<1>6. ASSUME Pop2 \/ Pop2Empty PROVE Goal
  <2>1. /\ top2' = top2 + 1 \/ top2' = top2
        /\ UNCHANGED <<top1, one>> /\ out'.op = "pop2"
    BY <1>6 DEF Pop2, Pop2Empty, Result
  <2>a. /\ top1 \in Int /\ top2 \in Int /\ top1' \in Int /\ top2' \in Int
        /\ Len(one) \in Int /\ Len(two) \in Int /\ Len(one') \in Int /\ Len(two') \in Int
    BY <1>0, <1>a, <1>b DEF Tops
  <2>b. ~(Len(two') > Len(two))
    <3>1. \A l, m, t, u \in Int :
            l = MaxSize - t /\ m = MaxSize - u /\ (u = t + 1 \/ u = t) => ~(m > l)
      BY <1>0
    <3> QED
      BY <1>0, <1>a, <1>b, <2>1, <2>a, <3>1
  <2>c. Len(one') = Len(one)
    BY <2>1
  <2>2. ~(Len(one') > Len(one)) /\ ~(Len(two') > Len(two))
    BY <2>a, <2>b, <2>c
  <2>3. StayApart
    BY <1>0, <1>a, <2>1 DEF StayApart, Tops
  <2>4. out'.op \notin {"push1", "push2"}
    BY <2>1
  <2> QED
    BY <2>2, <2>3, <2>4
<1> HIDE DEF Goal
<1>7. Goal
  BY <1>2, <1>3, <1>4, <1>5, <1>6 DEF Next
<1>8. /\ (Len(one') > Len(one) \/ Len(two') > Len(two)) => Len(one) + Len(two) < MaxSize
      /\ out'.op \in {"push1", "push2"} /\ out'.res = None => Len(one) + Len(two) >= MaxSize
  BY <1>0, <1>a, <1>1, <1>7 DEF Tops, Goal
<1> QED
  BY <1>7, <1>8 DEF RefusedWhenTaken, Goal

-----------------------------------------------------------------------------
(***************************************************************************)
(* The bracket judge (chapter_3_3/q1.c): between two characters every node *)
(* in use is on the stack; after a pop, the node popped is in use as well, *)
(* and Match frees it but Mismatch does not.                               *)
(***************************************************************************)
JudgeInv ==
  /\ Judge!TypeOK
  /\ at # "done" => live
  /\ at # "done" => IsPile(TextNode, piled, top, next) /\ NodesOf(piled) \subseteq used
  /\ at = "loop" => used = NodesOf(piled)
  /\ at = "match" => /\ i <= Len(text) /\ node \notin NodesOf(piled)
                     /\ used = NodesOf(piled) \cup ({node} \ {None})
  /\ Judge!LeaksMismatched

LEMMA TextLength == ASSUME NEW t \in Texts PROVE Len(t) \in Nat
BY Sizes DEF Texts

LEMMA JudgeInit == Judge!Init => JudgeInv
<1> SUFFICES ASSUME Judge!Init PROVE JudgeInv
  OBVIOUS
<1>1. /\ text \in Texts /\ i = 1 /\ at = "loop" /\ node = None /\ result = None
      /\ top = None /\ used = {} /\ piled = <<>> /\ out.res = None
      /\ next \in [TextNode -> TextNode \cup {None}] /\ data \in [TextNode -> Kind \cup {None}]
  BY DEF Judge!Init, Judge!Stack!Init, Judge!Stack!Result
<1>2. live = TRUE
  BY DEF Judge!Init, Judge!Stack!Init
<1>3. NodesOf(piled) = {} /\ IsPile(TextNode, piled, top, next)
  BY <1>1, EmptyPile
<1>4. Judge!Stack!TypeOK
  <2>1. live \in BOOLEAN
    BY <1>2
  <2>2. piled \in Seq(TextNode)
    BY <1>1
  <2> QED
    BY <1>1, <2>1, <2>2 DEF Judge!Stack!TypeOK
<1>5. Judge!TypeOK
  <2>1. i \in 1 .. Len(text) + 1
    BY <1>1, TextLength
  <2> QED
    BY <1>1, <1>4, <2>1 DEF Judge!TypeOK
<1> QED
  BY <1>1, <1>2, <1>3, <1>5 DEF JudgeInv, Judge!LeaksMismatched

\* what the steps need of the state
LEMMA JudgeFacts ==
  ASSUME JudgeInv
  PROVE  /\ text \in Texts /\ Len(text) \in Nat /\ i \in 1 .. Len(text) + 1 /\ node \in TextNode \cup {None}
         /\ top \in TextNode \cup {None} /\ used \subseteq TextNode /\ piled \in Seq(TextNode)
         /\ next \in [TextNode -> TextNode \cup {None}] /\ data \in [TextNode -> Kind \cup {None}]
         /\ None \notin TextNode /\ NodesOf(piled) \subseteq TextNode
BY TextLength, NullIsApart DEF JudgeInv, Judge!TypeOK, Judge!Stack!TypeOK, NodesOf

\* the stack's part of the type of the judge
LEMMA JudgeStackType ==
  ASSUME live' \in BOOLEAN,
         top' \in TextNode \cup {None} /\ used' \subseteq TextNode /\ piled' \in Seq(TextNode),
         next' \in [TextNode -> TextNode \cup {None}] /\ data' \in [TextNode -> Kind \cup {None}],
         out'.res \in Kind \cup {None}
  PROVE  Judge!Stack!TypeOK'
BY DEF Judge!Stack!TypeOK

LEMMA JudgeReads ==
  ASSUME JudgeInv, NEW b \in Kind, Judge!ReadOpening(b)
  PROVE  JudgeInv'
<1>1. /\ at = "loop" /\ i <= Len(text) /\ i' = i + 1 /\ UNCHANGED <<text, at, node>>
  BY DEF Judge!ReadOpening, Judge!More
<1>2. result' = result
  BY DEF Judge!ReadOpening
<1>3. Judge!Stack!Push(b)
  BY DEF Judge!ReadOpening
<1>4. PICK n \in TextNode : /\ n \notin used /\ used' = used \cup {n}
                            /\ next' = [next EXCEPT ![n] = top] /\ data' = [data EXCEPT ![n] = b]
                            /\ top' = n /\ piled' = Append(piled, n) /\ out'.res = b
  BY <1>3 DEF Judge!Stack!Push, Judge!Stack!Result
<1>5. live
  BY <1>3 DEF Judge!Stack!Push
<1>6. live'
  BY <1>3 DEF Judge!Stack!Push
<1>7. IsPile(TextNode, piled, top, next) /\ n \notin NodesOf(piled) /\ used = NodesOf(piled)
  BY <1>1, <1>4 DEF JudgeInv
<1>8. IsPile(TextNode, piled', top', next')
  BY <1>4, <1>7, PilePush, FiniteMemory, JudgeFacts
<1>9. NodesOf(piled') = NodesOf(piled) \cup {n}
  <2>1. NodesOf(Append(piled, n)) = NodesOf(piled) \cup {n}
    BY JudgeFacts, PileNodes
  <2> QED
    BY <1>4, <2>1
<1>10. Judge!Stack!TypeOK'
  <2>1. live' \in BOOLEAN
    BY <1>3 DEF Judge!Stack!Push, JudgeInv, Judge!TypeOK, Judge!Stack!TypeOK
  <2>2. /\ top' \in TextNode \cup {None} /\ used' \subseteq TextNode /\ piled' \in Seq(TextNode)
        /\ next' \in [TextNode -> TextNode \cup {None}] /\ data' \in [TextNode -> Kind \cup {None}]
        /\ out'.res \in Kind \cup {None}
    BY <1>4, JudgeFacts
  <2> QED
    BY <2>1, <2>2, JudgeStackType
<1>11. Judge!TypeOK'
  <2>1. i' \in 1 .. Len(text') + 1
    BY <1>1, JudgeFacts
  <2> QED
    BY <1>1, <1>2, <1>10, <2>1 DEF JudgeInv, Judge!TypeOK
<1>12. used' = NodesOf(piled')
  BY <1>4, <1>7, <1>9
<1> QED
  BY <1>1, <1>6, <1>8, <1>11, <1>12 DEF JudgeInv, Judge!LeaksMismatched

LEMMA JudgePops ==
  ASSUME JudgeInv, Judge!ReadClosing
  PROVE  JudgeInv'
<1>1. /\ at = "loop" /\ i <= Len(text) /\ at' = "match" /\ node' = top /\ UNCHANGED <<text, i>>
  BY DEF Judge!ReadClosing, Judge!More
<1>2. result' = result
  BY DEF Judge!ReadClosing
<1>3. IF top = None THEN Judge!Stack!PopEmpty ELSE Judge!Stack!Pop
  BY DEF Judge!ReadClosing, Judge!Stack!Empty
<1>4. live
  BY <1>1 DEF JudgeInv
<1>5. live' = live
  BY <1>3 DEF Judge!Stack!PopEmpty, Judge!Stack!Pop
<1>6. live' /\ live' \in BOOLEAN
  <2>1. live \in BOOLEAN
    BY DEF JudgeInv, Judge!TypeOK, Judge!Stack!TypeOK
  <2> QED
    BY <1>4, <1>5, <2>1
<1>7. IsPile(TextNode, piled, top, next) /\ used = NodesOf(piled)
  BY <1>1 DEF JudgeInv
<1>8. /\ IsPile(TextNode, piled', top', next') /\ UNCHANGED <<next, data, used>>
      /\ node' \notin NodesOf(piled') /\ used' = NodesOf(piled') \cup ({node'} \ {None})
      /\ out'.res \in Kind \cup {None}
  <2>1. CASE top = None
    <3>1. UNCHANGED <<top, next, data, used, piled>> /\ out'.res = None
      BY <1>3, <2>1 DEF Judge!Stack!PopEmpty, Judge!Stack!Result
    <3> QED
      BY <1>1, <1>7, <2>1, <3>1, JudgeFacts
  <2>2. CASE top # None
    <3>1. /\ top' = next[top] /\ out'.res = data[top] /\ piled' = SubSeq(piled, 1, Len(piled) - 1)
          /\ UNCHANGED <<next, data, used>>
      BY <1>3, <2>2 DEF Judge!Stack!Pop, Judge!Stack!Result
    <3>2. IsPile(TextNode, SubSeq(piled, 1, Len(piled) - 1), next[top], next)
      BY <1>7, <2>2, JudgeFacts, PilePop
    <3>3. NodesOf(SubSeq(piled, 1, Len(piled) - 1)) = NodesOf(piled) \ {top}
      BY <1>7, <2>2, JudgeFacts, PilePop
    <3>4. top \in NodesOf(piled)
      BY <1>7, <2>2, JudgeFacts, PilePop
    <3>5. NodesOf(piled') = NodesOf(piled) \ {top}
      BY <3>1, <3>3
    <3>6. IsPile(TextNode, piled', top', next')
      BY <3>1, <3>2
    <3>7. out'.res \in Kind \cup {None}
      BY <2>2, <3>1, JudgeFacts
    <3> QED
      BY <1>1, <1>7, <2>2, <3>1, <3>4, <3>5, <3>6, <3>7
  <2> QED
    BY <2>1, <2>2
<1>9. Judge!TypeOK'
  <2>1. top' \in TextNode \cup {None} /\ piled' \in Seq(TextNode)
    <3>1. CASE top = None
      <4>1. UNCHANGED <<top, piled>>
        BY <1>3, <3>1 DEF Judge!Stack!PopEmpty
      <4> QED
        BY <4>1, JudgeFacts
    <3>2. CASE top # None
      <4>1. top' = next[top]
        BY <1>3, <3>2 DEF Judge!Stack!Pop
      <4> QED
        BY <1>8, <3>2, <4>1, JudgeFacts DEF IsPile
    <3> QED
      BY <3>1, <3>2
  <2>2. Judge!Stack!TypeOK'
    BY <1>6, <1>8, <2>1, JudgeFacts, JudgeStackType
  <2> QED
    BY <1>1, <1>2, <2>2, JudgeFacts DEF JudgeInv, Judge!TypeOK
<1> QED
  BY <1>1, <1>6, <1>8, <1>9 DEF JudgeInv, Judge!LeaksMismatched

LEMMA JudgeMatches ==
  ASSUME JudgeInv, Judge!Match
  PROVE  JudgeInv'
<1>1. /\ at = "match" /\ at' = "loop" /\ i' = i + 1 /\ UNCHANGED <<text, node>>
      /\ node # None
  BY DEF Judge!Match, Judge!Matches
<1>2. result' = result
  BY DEF Judge!Match
<1>3. used' = used \ {node} /\ UNCHANGED <<top, next, data, out, piled>>
  BY DEF Judge!Match, Judge!Stack!Free
<1>4. live' = live
  BY DEF Judge!Match, Judge!Stack!Free
<1>5. live
  BY <1>1 DEF JudgeInv
<1>6. live'
  BY <1>4, <1>5
<1>7. /\ IsPile(TextNode, piled, top, next) /\ node \notin NodesOf(piled)
      /\ used = NodesOf(piled) \cup {node} /\ i <= Len(text)
  BY <1>1 DEF JudgeInv
<1>8. Judge!TypeOK'
  <2>1. live' \in BOOLEAN
    BY <1>4 DEF JudgeInv, Judge!TypeOK, Judge!Stack!TypeOK
  <2>2. out'.res \in Kind \cup {None}
    BY <1>3 DEF JudgeInv, Judge!TypeOK, Judge!Stack!TypeOK
  <2>3. /\ top' \in TextNode \cup {None} /\ used' \subseteq TextNode /\ piled' \in Seq(TextNode)
        /\ next' \in [TextNode -> TextNode \cup {None}] /\ data' \in [TextNode -> Kind \cup {None}]
    BY <1>3, JudgeFacts
  <2>4. Judge!Stack!TypeOK'
    BY <2>1, <2>2, <2>3, JudgeStackType
  <2>5. i' \in 1 .. Len(text') + 1
    BY <1>1, <1>7, JudgeFacts
  <2> QED
    BY <1>1, <1>2, <2>4, <2>5 DEF JudgeInv, Judge!TypeOK
<1>9. used' = NodesOf(piled')
  BY <1>3, <1>7
<1>10. IsPile(TextNode, piled', top', next')
  BY <1>3, <1>7
<1> QED
  BY <1>1, <1>6, <1>8, <1>9, <1>10 DEF JudgeInv, Judge!LeaksMismatched

LEMMA JudgeEnds ==
  ASSUME JudgeInv, Judge!Mismatch \/ Judge!EndOfText
  PROVE  JudgeInv'
<1>1. /\ at # "done" /\ at' = "done" /\ UNCHANGED <<text, i, node>>
      /\ at = "loop" => ~(i <= Len(text))
  BY JudgeFacts DEF Judge!Mismatch, Judge!EndOfText
<1>2. result' \in BOOLEAN
  BY DEF Judge!Mismatch, Judge!EndOfText, Judge!Stack!Empty
<1>3. Judge!Stack!Destory
  BY DEF Judge!Mismatch, Judge!EndOfText
<1>4. /\ used' = used \ Judge!Stack!Chain(top) /\ piled' = <<>> /\ out'.res = None
      /\ UNCHANGED <<top, next, data>>
  BY <1>3 DEF Judge!Stack!Destory, Judge!Stack!Result
<1>5. live' \in BOOLEAN
  BY <1>3 DEF Judge!Stack!Destory
<1>6. Judge!Stack!Chain(top) = NodesOf(piled)
  <2>1. IsPile(TextNode, piled, top, next)
    BY <1>1 DEF JudgeInv
  <2>2. Met(TextNode, top, next) = NodesOf(piled)
    BY <2>1, PileMet, JudgeFacts
  <2> QED
    BY <2>2 DEF Judge!Stack!Chain, Met
<1>7. Judge!TypeOK'
  <2>1. /\ top' \in TextNode \cup {None} /\ used' \subseteq TextNode /\ piled' \in Seq(TextNode)
        /\ next' \in [TextNode -> TextNode \cup {None}] /\ data' \in [TextNode -> Kind \cup {None}]
        /\ out'.res \in Kind \cup {None}
    BY <1>4, JudgeFacts
  <2>2. Judge!Stack!TypeOK'
    BY <1>5, <2>1, JudgeStackType
  <2>3. text' \in Texts /\ i' \in 1 .. Len(text') + 1 /\ node' \in TextNode \cup {None} /\ at' = "done"
    BY <1>1, JudgeFacts
  <2>4. result' \in BOOLEAN \cup {None}
    BY <1>2
  <2> QED
    BY <2>2, <2>3, <2>4 DEF Judge!TypeOK
<1>8. at \in {"loop", "match"}
  BY <1>1 DEF JudgeInv, Judge!TypeOK
<1>9. used' = IF i <= Len(text) /\ node # None THEN {node} ELSE {}
  <2>1. CASE at = "loop"
    BY <1>1, <1>4, <1>6, <2>1 DEF JudgeInv
  <2>2. CASE at = "match"
    <3>1. /\ used = NodesOf(piled) \cup ({node} \ {None}) /\ node \notin NodesOf(piled)
          /\ i <= Len(text)
      BY <2>2 DEF JudgeInv
    <3> QED
      BY <1>4, <1>6, <3>1
  <2> QED
    BY <1>8, <2>1, <2>2
<1>10. Judge!LeaksMismatched'
  BY <1>1, <1>9 DEF Judge!LeaksMismatched
<1> QED
  BY <1>1, <1>7, <1>10 DEF JudgeInv

LEMMA JudgeStep == JudgeInv /\ Judge!Next => JudgeInv'
<1> SUFFICES ASSUME JudgeInv, Judge!Next PROVE JudgeInv'
  OBVIOUS
<1>1. CASE Judge!ReadOther
  <2>1. /\ at = "loop" /\ i <= Len(text) /\ i' = i + 1 /\ UNCHANGED <<text, at, node>>
        /\ UNCHANGED <<top, next, data, used, out, piled>>
    BY <1>1 DEF Judge!ReadOther, Judge!More, Judge!stack
  <2>2. live' = live
    BY <1>1 DEF Judge!ReadOther, Judge!stack
  <2>3. result' = result
    BY <1>1 DEF Judge!ReadOther
  <2>4. Judge!TypeOK'
    <3>1. live' \in BOOLEAN
      BY <2>2 DEF JudgeInv, Judge!TypeOK, Judge!Stack!TypeOK
    <3>2. out'.res \in Kind \cup {None}
      BY <2>1 DEF JudgeInv, Judge!TypeOK, Judge!Stack!TypeOK
    <3>3. Judge!Stack!TypeOK'
      BY <2>1, <3>1, <3>2, JudgeFacts, JudgeStackType
    <3>4. i' \in 1 .. Len(text') + 1
      BY <2>1, JudgeFacts
    <3> QED
      BY <2>1, <2>3, <3>3, <3>4 DEF JudgeInv, Judge!TypeOK
  <2>5. live
    BY <2>1 DEF JudgeInv
  <2>6. live'
    BY <2>2, <2>5
  <2> QED
    BY <2>1, <2>4, <2>6 DEF JudgeInv, Judge!LeaksMismatched
<1> QED
  BY <1>1, JudgeReads, JudgePops, JudgeMatches, JudgeEnds DEF Judge!Next

-----------------------------------------------------------------------------
(***************************************************************************)
(* The suite: the invariant of the program that runs.  The two stacks in   *)
(* one array stay as they begin while another program runs.                *)
(***************************************************************************)
SuiteInv ==
  /\ which \in {"sequential", "linked", "shared", "judge"}
  /\ SharedInv
  /\ which = "sequential" => Sequential!TypeOK
  /\ which = "linked" => LinkedInv
  /\ which = "shared" => out.res \in Value \cup {Zero, None}
  /\ which = "judge" => JudgeInv

LEMMA SuiteStarts == SuiteInit => SuiteInv
<1> SUFFICES ASSUME SuiteInit PROVE SuiteInv
  OBVIOUS
<1>1. SharedInv
  BY SharedInit DEF SuiteInit, SharedOff, Init
<1>2. Init => out.res = None
  BY DEF Init, Result
<1> QED
  BY <1>1, <1>2, SequentialInit, LinkedInit, JudgeInit DEF SuiteInit, SuiteInv

\* the results of the shared stacks are elements
LEMMA SharedResults ==
  ASSUME SharedInv, Next
  PROVE  out'.res \in Value \cup {Zero, None}
<1>0. MaxSize \in Nat \ {0}
  BY Sizes
<1>1. Tops
  BY DEF SharedInv
<1>2. CASE Pop1
  <2>1. top1 # -1 /\ out'.res = mem[top1]
    BY <1>2 DEF Pop1, Result
  <2>2. top1 \in Cells
    BY <1>0, <1>1, <2>1 DEF Tops, Cells
  <2> QED
    BY <1>1, <2>1, <2>2 DEF Tops, Elem
<1>3. CASE Pop2
  <2>1. top2 # MaxSize /\ out'.res = mem[top2]
    BY <1>3 DEF Pop2, Result
  <2>2. top2 \in Cells
    BY <1>0, <1>1, <2>1 DEF Tops, Cells
  <2> QED
    BY <1>1, <2>1, <2>2 DEF Tops, Elem
<1> QED
  BY <1>2, <1>3 DEF Next, Push1, Push2, Refused, Pop1Empty, Pop2Empty, Result

LEMMA SharedUnchanged ==
  ASSUME SharedInv, UNCHANGED sharedOnly
  PROVE  SharedInv'
BY DEF sharedOnly, SharedInv, Tops, OneIntact, TwoIntact

LEMMA SuiteStep == SuiteInv /\ SuiteNext => SuiteInv'
<1> SUFFICES ASSUME SuiteInv, SuiteNext PROVE SuiteInv'
  OBVIOUS
<1>1. CASE SequentialNext
  BY <1>1, SequentialStep, SharedUnchanged DEF SuiteInv, SequentialNext
<1>2. CASE LinkedNext
  BY <1>2, LinkedStep, SharedUnchanged DEF SuiteInv, LinkedNext
<1>3. CASE SharedNext
  BY <1>3, SharedStep, SharedResults DEF SuiteInv, SharedNext
<1>4. CASE JudgeNext
  BY <1>4, JudgeStep, SharedUnchanged DEF SuiteInv, JudgeNext
<1> QED
  BY <1>1, <1>2, <1>3, <1>4 DEF SuiteNext

LEMMA SuiteStutter == SuiteInv /\ UNCHANGED suiteVars => SuiteInv'
<1> SUFFICES ASSUME SuiteInv, UNCHANGED suiteVars PROVE SuiteInv'
  OBVIOUS
<1>0. which' = which /\ SharedInv'
  BY SharedUnchanged DEF suiteVars, SuiteInv
<1>1. CASE which = "sequential"
  BY <1>0, <1>1 DEF SuiteInv, suiteVars, Sequential!TypeOK
<1>2. CASE which = "linked"
  BY <1>0, <1>2 DEF SuiteInv, suiteVars, linkedOnly, LinkedInv, Linked!TypeOK
<1>3. CASE which = "shared"
  BY <1>0, <1>3 DEF SuiteInv, suiteVars
<1>4. CASE which = "judge"
  BY <1>0, <1>4 DEF SuiteInv, suiteVars, linkedOnly, judgeOnly, JudgeInv, Judge!TypeOK, Judge!Stack!TypeOK,
       Judge!LeaksMismatched
<1> QED
  BY <1>1, <1>2, <1>3, <1>4 DEF SuiteInv

THEOREM SuiteInvariant == SuiteSpec => []SuiteInv
<1>1. SuiteInv /\ [SuiteNext]_suiteVars => SuiteInv'
  BY SuiteStep, SuiteStutter
<1> QED
  BY SuiteStarts, <1>1, PTL DEF SuiteSpec

(***************************************************************************)
(* The variables of each program keep their types, for any sizes.          *)
(***************************************************************************)
THEOREM TypeCorrect == SuiteSpec => []SuiteTypeOK
<1>1. SuiteInv => SuiteTypeOK
  <2>1. SuiteInv /\ which = "shared" => TypeOK
    BY DEF SuiteInv, SharedInv, Tops, OneIntact, TwoIntact, TypeOK, Elem
  <2> QED
    BY <2>1 DEF SuiteInv, SuiteTypeOK, LinkedInv, JudgeInv
<1> QED
  BY SuiteInvariant, <1>1, PTL

(***************************************************************************)
(* For an array of any size, reading down from top[0] and up from top[1]   *)
(* gives what was pushed on each stack of chapter_3_1/q5.c and not popped  *)
(* since: the zero tops that a static variable starts with corrupt neither.*)
(***************************************************************************)
THEOREM StacksStayIntact == SuiteSpec => []BothIntact
<1>1. SuiteInv => BothIntact
  BY SharedIntact DEF SuiteInv
<1> QED
  BY SuiteInvariant, <1>1, PTL

(***************************************************************************)
(* For an array of any size, a push of chapter_3_1/q5.c is refused exactly *)
(* when the stacks together hold MAX_SIZE elements or more, and once apart *)
(* they never share a cell again.                                          *)
(***************************************************************************)
THEOREM StacksShareAllCells == SuiteSpec => SharesAllCells
<1>1. SuiteInv /\ [SuiteNext]_suiteVars => [RefusedWhenTaken /\ StayApart]_vars
  <2> SUFFICES ASSUME SuiteInv, SuiteNext, ~(UNCHANGED vars) PROVE RefusedWhenTaken /\ StayApart
    BY DEF suiteVars, vars, sharedOnly
  <2>1. CASE SharedNext
    BY <2>1, SharedShares DEF SuiteInv, SharedNext
  <2>2. ASSUME UNCHANGED sharedOnly, out' = out \/ out'.op \notin {"push1", "push2"}
        PROVE  RefusedWhenTaken /\ StayApart
    <3>1. out'.op \notin {"push1", "push2"}
      BY <2>2 DEF vars, sharedOnly
    <3>2. Len(one) \in Nat /\ Len(two) \in Nat /\ Len(one') = Len(one) /\ Len(two') = Len(two)
      BY <2>2 DEF SuiteInv, SharedInv, OneIntact, TwoIntact, sharedOnly
    <3>3. StayApart
      BY <2>2 DEF StayApart, sharedOnly
    <3> QED
      BY <3>1, <3>2, <3>3 DEF RefusedWhenTaken
  <2>3. CASE SequentialNext
    <3>1. out' = out \/ out'.op \notin {"push1", "push2"}
      <4>1. ASSUME NEW x \in Value, Sequential!Push(x) PROVE out'.op = "push"
        BY <4>1 DEF Sequential!Push, Sequential!Call
      <4>2. ASSUME Sequential!PushFull PROVE out'.op = "push"
        BY <4>2 DEF Sequential!PushFull, Sequential!Call
      <4>3. ASSUME Sequential!Pop \/ Sequential!PopEmpty PROVE out'.op = "pop"
        BY <4>3 DEF Sequential!Pop, Sequential!PopEmpty, Sequential!Call
      <4>4. ASSUME Sequential!Destory PROVE out'.op = "destory"
        BY <4>4 DEF Sequential!Destory, Sequential!Call
      <4>5. ASSUME Sequential!InitAgain PROVE out'.op = "init"
        BY <4>5 DEF Sequential!InitAgain, Sequential!Call
      <4>6. ASSUME Sequential!InitFails PROVE out'.op = "no memory"
        BY <4>6 DEF Sequential!InitFails, Sequential!Call
      <4> QED
        BY <2>3, <4>1, <4>2, <4>3, <4>4, <4>5, <4>6 DEF SequentialNext, Sequential!Next
    <3> QED
      BY <2>2, <2>3, <3>1 DEF SequentialNext
  <2>4. CASE LinkedNext
    <3>1. out' = out \/ out'.op \notin {"push1", "push2"}
      BY <2>4 DEF LinkedNext, Linked!Next, Linked!Push, Linked!Pop, Linked!PopEmpty, Linked!Free,
         Linked!Destory, Linked!InitAgain, Linked!Result
    <3> QED
      BY <2>2, <2>4, <3>1 DEF LinkedNext
  <2>5. CASE JudgeNext
    <3>1. out' = out \/ out'.op \notin {"push1", "push2"}
      BY <2>5 DEF JudgeNext, Judge!Next, Judge!ReadOpening, Judge!ReadOther, Judge!ReadClosing, Judge!Match,
         Judge!Mismatch, Judge!EndOfText, Judge!stack, Judge!Stack!Push, Judge!Stack!Pop, Judge!Stack!PopEmpty,
         Judge!Stack!Free, Judge!Stack!Destory, Judge!Stack!Result
    <3> QED
      BY <2>2, <2>5, <3>1 DEF JudgeNext
  <2> QED
    BY <2>1, <2>3, <2>4, <2>5 DEF SuiteNext
<1> QED
  BY SuiteInvariant, <1>1, PTL DEF SuiteSpec, SharesAllCells

(***************************************************************************)
(* Refinement: every step of the sequential and of the linked stack is a   *)
(* step of BoundedLifo on their contents, and linked_stack_destory frees   *)
(* the nodes on the stack and no other, for any capacity and any number of *)
(* nodes.                                                                  *)
(***************************************************************************)
THEOREM LifoKept == SuiteSpec => AnswersAreLifo
<1> DEFINE Step == CASE which = "sequential" -> Sequential!LifoStep
                     [] which = "linked" -> Linked!LifoStep /\ Linked!DestoryStep
                     [] OTHER -> TRUE
<1>1. SuiteInv /\ [SuiteNext]_suiteVars => [Step]_suiteVars
  <2> SUFFICES ASSUME SuiteInv, SuiteNext PROVE Step
    OBVIOUS
  <2>1. CASE SequentialNext
    BY <2>1, SequentialLifo DEF SuiteInv, SequentialNext
  <2>2. CASE LinkedNext
    BY <2>2, LinkedLifo DEF SuiteInv, LinkedNext
  <2>3. CASE SharedNext \/ JudgeNext
    BY <2>3 DEF SharedNext, JudgeNext
  <2> QED
    BY <2>1, <2>2, <2>3 DEF SuiteNext
<1> QED
  BY SuiteInvariant, <1>1, PTL DEF SuiteSpec, AnswersAreLifo

(***************************************************************************)
(* brackets_judge frees every node but that of an opening bracket that a   *)
(* closing one does not match, for texts of any length.                    *)
(***************************************************************************)
THEOREM JudgeLeaks == SuiteSpec => []LeaksMismatched
<1>1. SuiteInv => LeaksMismatched
  BY DEF SuiteInv, LeaksMismatched, JudgeInv
<1> QED
  BY SuiteInvariant, <1>1, PTL
=============================================================================
