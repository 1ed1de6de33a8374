---------------------------- MODULE TreesProofs ------------------------------
(***************************************************************************)
(* Proofs about the walks in level order (MCTrees): the traversal of       *)
(* bitree.c and the exercises q4.c and q7.c of chapter_5_3, over the       *)
(* linked queue of linked_queue.c and the linked stack of linked_stack.c,  *)
(* for trees and memories of every size.                                   *)
(*                                                                         *)
(* The argument is one for the three.  The nodes waiting in the queue are  *)
(* those of the tree whose places lie beyond the node of this turn, q, up  *)
(* to an edge c, each once and in rising order (Covers).  A turn moves the *)
(* edge over the places 2q and 2q + 1 of the children, one enq each; as    *)
(* every node but the root has its parent in the tree, no node lies        *)
(* between q and the node that the next deq gives (CoverTake).             *)
(***************************************************************************)
EXTENDS MCTrees, Counting, SequenceTheorems

Rising(w) == \A j, k \in 1 .. Len(w) : j < k => w[j] < w[k]

\* w lists the nodes of T beyond q and up to c, in rising order
Covers(w, T, q, c) ==
  /\ w \in Seq(T) /\ Rising(w)
  /\ \A x \in T : (\E j \in 1 .. Len(w) : w[j] = x) <=> (q < x /\ x <= c)

-----------------------------------------------------------------------------
(***************************************************************************)
(* Trees as sets of places.                                                *)
(***************************************************************************)
LEMMA TreeFacts ==
  ASSUME NEW T \in Trees
  PROVE  /\ T \subseteq Nat \ {0} /\ IsFiniteSet(T) /\ None \notin T
         /\ \A x \in T : x # 1 => x \div 2 \in T
<1>1. T \in SUBSET (1 .. Last) /\ IsTree(T)
  BY DEF Trees, TreesUpTo
<1>2. IsFiniteSet(1 .. Last)
  BY Bounds, FS_Interval
<1>3. IsFiniteSet(T)
  BY <1>1, <1>2, FS_Subset
<1>4. T \subseteq Nat \ {0}
  BY <1>1, Bounds
<1>5. None \notin T
  BY <1>4, NullIsApart
<1> QED
  BY <1>1, <1>3, <1>4, <1>5 DEF IsTree, Parent

\* as many places as the edge leaves open: nothing hides between q and c
LEMMA NoGap ==
  ASSUME NEW T \in Trees, NEW q \in Nat, NEW c \in Nat,
         \A x \in T : q < x /\ x <= 2 * q + 1 => c < x
  PROVE  \A x \in T : q < x => c < x
<1> DEFINE Hidden == {x \in T : q < x /\ x <= c}
<1>a. T \subseteq Nat \ {0} /\ \A x \in T : x # 1 => x \div 2 \in T
  BY TreeFacts
<1> SUFFICES ASSUME Hidden # {} PROVE FALSE
  BY <1>a
<1>1. PICK x \in Hidden : \A y \in Hidden : x <= y
  <2>1. Hidden \subseteq Nat
    BY <1>a
  <2> HIDE DEF Hidden
  <2> QED
    BY <2>1, LeastIn
<1>2. x \in T /\ x \in Nat /\ q < x /\ x <= c /\ 2 * q + 1 < x
  BY <1>1, <1>a
<1>3. x # 1 /\ x \div 2 \in Nat /\ x \div 2 < x /\ q < x \div 2 /\ x \div 2 <= c
  BY <1>2
<1>4. x \div 2 \in Hidden
  BY <1>a, <1>2, <1>3
<1> QED
  BY <1>1, <1>2, <1>3, <1>4

LEMMA RootIn == ASSUME NEW T \in Trees, T # {} PROVE 1 \in T
<1>a. T \subseteq Nat \ {0}
  BY TreeFacts
<1>1. PICK y \in T : TRUE
  OBVIOUS
<1>2. SUFFICES ASSUME 1 \notin T PROVE FALSE
  OBVIOUS
<1>3. \A x \in T : 0 < x /\ x <= 2 * 0 + 1 => y < x
  BY <1>a, <1>2
<1>4. \A x \in T : 0 < x => y < x
  BY <1>a, <1>3, NoGap, 0 \in Nat
<1> QED
  BY <1>a, <1>4

(***************************************************************************)
(* How what waits covers the tree: nothing at first; one place more with   *)
(* an enq, or without one if the place is no node's; and one deq.          *)
(***************************************************************************)
LEMMA CoverNone == ASSUME NEW T \in Trees PROVE Covers(<<>>, T, 0, 0)
  BY TreeFacts DEF Covers, Rising

LEMMA CoverMore ==
  ASSUME NEW T \in Trees, NEW q \in Nat, NEW c \in Nat, q <= c, c + 1 \in T,
         NEW w, Covers(w, T, q, c)
  PROVE  Covers(Append(w, c + 1), T, q, c + 1)
<1>a. T \subseteq Nat \ {0}
  BY TreeFacts
<1>b. w \in Seq(T) /\ Rising(w) /\ Len(w) \in Nat /\ \A j \in 1 .. Len(w) : w[j] \in T
  BY DEF Covers
<1>c. \A x \in T : (\E j \in 1 .. Len(w) : w[j] = x) <=> (q < x /\ x <= c)
  BY DEF Covers
<1> DEFINE v == Append(w, c + 1)
<1>1. /\ v \in Seq(T) /\ Len(v) = Len(w) + 1
      /\ \A j \in 1 .. Len(w) + 1 : v[j] = IF j = Len(w) + 1 THEN c + 1 ELSE w[j]
  BY <1>b
<1> HIDE DEF v
<1>2. \A j \in 1 .. Len(w) : v[j] = w[j] /\ w[j] <= c /\ w[j] \in Nat
  <2>1. \A j \in 1 .. Len(w) : j \in 1 .. Len(w) + 1 /\ j # Len(w) + 1
    BY <1>b
  <2>2. \A j \in 1 .. Len(w) : w[j] <= c /\ w[j] \in Nat
    BY <1>a, <1>b, <1>c
  <2> QED
    BY <1>1, <2>1, <2>2
<1>3. v[Len(w) + 1] = c + 1
  BY <1>b, <1>1
<1>4. Rising(v)
  <2> SUFFICES ASSUME NEW j \in 1 .. Len(v), NEW k \in 1 .. Len(v), j < k PROVE v[j] < v[k]
    BY DEF Rising
  <2>1. j \in 1 .. Len(w)
    BY <1>b, <1>1
  <2>2. CASE k = Len(w) + 1
    BY <1>2, <1>3, <2>1, <2>2
  <2>3. CASE k # Len(w) + 1
    <3>1. k \in 1 .. Len(w)
      BY <1>b, <1>1, <2>3
    <3> QED
      BY <1>2, <1>b, <2>1, <3>1 DEF Rising
  <2> QED
    BY <2>2, <2>3
<1>5. ASSUME NEW x \in T PROVE (\E j \in 1 .. Len(v) : v[j] = x) <=> (q < x /\ x <= c + 1)
  <2>1. CASE x = c + 1
    BY <1>1, <1>3, <1>b, <2>1
  <2>2. CASE x # c + 1
    <3>1. (\E j \in 1 .. Len(v) : v[j] = x) <=> (\E j \in 1 .. Len(w) : w[j] = x)
      <4>1. ASSUME NEW j \in 1 .. Len(v), v[j] = x PROVE j \in 1 .. Len(w) /\ w[j] = x
        <5>1. j # Len(w) + 1
          BY <1>3, <2>2, <4>1
        <5>2. j \in 1 .. Len(w)
          BY <1>1, <1>b, <5>1
        <5> QED
          BY <1>2, <4>1, <5>2
      <4>2. ASSUME NEW j \in 1 .. Len(w), w[j] = x PROVE j \in 1 .. Len(v) /\ v[j] = x
        BY <1>1, <1>2, <1>b, <4>2
      <4> QED
        BY <4>1, <4>2
    <3>2. x \in Nat /\ (x <= c <=> x <= c + 1)
      BY <1>a, <2>2
    <3> QED
      BY <1>c, <3>1, <3>2
  <2> QED
    BY <2>1, <2>2
<1> QED
  BY <1>1, <1>4, <1>5 DEF Covers, v

LEMMA CoverSame ==
  ASSUME NEW T \in Trees, NEW q \in Nat, NEW c \in Nat, c + 1 \notin T,
         NEW w, Covers(w, T, q, c)
  PROVE  Covers(w, T, q, c + 1)
<1>1. \A x \in T : x \in Nat /\ (x <= c <=> x <= c + 1)
  BY TreeFacts
<1> QED
  BY <1>1 DEF Covers

LEMMA CoverTake ==
  ASSUME NEW T \in Trees, NEW q \in Nat, NEW w, w # <<>>, Covers(w, T, q, 2 * q + 1)
  PROVE  /\ w[1] \in T /\ q < w[1] /\ w[1] <= 2 * q + 1
         /\ \A x \in T : q < x => w[1] <= x
         /\ Covers(Tail(w), T, w[1], 2 * w[1] - 1)
<1>a. T \subseteq Nat \ {0} /\ \A x \in T : x # 1 => x \div 2 \in T
  BY TreeFacts
<1>b. w \in Seq(T) /\ Rising(w) /\ Len(w) \in Nat \ {0} /\ \A j \in 1 .. Len(w) : w[j] \in T
  <2>1. w \in Seq(T) /\ Rising(w)
    BY DEF Covers
  <2>2. Len(w) \in Nat /\ Len(w) # 0 /\ \A j \in 1 .. Len(w) : w[j] \in T
    BY <2>1, EmptySeq
  <2> QED
    BY <2>1, <2>2
<1>c. \A x \in T : (\E j \in 1 .. Len(w) : w[j] = x) <=> (q < x /\ x <= 2 * q + 1)
  BY DEF Covers
<1>1. 1 \in 1 .. Len(w) /\ w[1] \in T /\ w[1] \in Nat
  <2>1. 1 \in 1 .. Len(w)
    BY <1>b
  <2> QED
    BY <1>a, <1>b, <2>1
<1>2. q < w[1] /\ w[1] <= 2 * q + 1
  BY <1>c, <1>1
<1>3. \A j \in 1 .. Len(w) : j # 1 => w[1] < w[j]
  BY <1>b, <1>1 DEF Rising
<1>4. \A x \in T : q < x => w[1] <= x
  <2>1. \A x \in T : q < x /\ x <= 2 * q + 1 => w[1] - 1 < x
    <3> SUFFICES ASSUME NEW x \in T, q < x, x <= 2 * q + 1 PROVE w[1] - 1 < x
      OBVIOUS
    <3>1. PICK j \in 1 .. Len(w) : w[j] = x
      BY <1>c
    <3> QED
      BY <1>1, <1>3, <3>1, <1>a
  <2>2. w[1] - 1 \in Nat
    BY <1>1, <1>2
  <2>3. \A x \in T : q < x => w[1] - 1 < x
    BY <2>1, <2>2, NoGap
  <2> QED
    BY <2>3, <1>1, <1>a
<1> DEFINE v == Tail(w)
<1>5. /\ v \in Seq(T) /\ Len(v) = Len(w) - 1
      /\ \A j \in 1 .. Len(w) - 1 : v[j] = w[j + 1]
  BY <1>b
<1> HIDE DEF v
<1>6. \A j \in 1 .. Len(w) - 1 : j + 1 \in 1 .. Len(w) /\ j + 1 # 1
  BY <1>b
<1>7. Rising(v)
  <2> SUFFICES ASSUME NEW j \in 1 .. Len(v), NEW k \in 1 .. Len(v), j < k PROVE v[j] < v[k]
    BY DEF Rising
  <2>1. j + 1 < k + 1 /\ j + 1 \in 1 .. Len(w) /\ k + 1 \in 1 .. Len(w)
    BY <1>5, <1>6
  <2>2. w[j + 1] < w[k + 1]
    BY <1>b, <2>1 DEF Rising
  <2> QED
    BY <1>5, <2>2
<1>8. ASSUME NEW x \in T
      PROVE (\E j \in 1 .. Len(v) : v[j] = x) <=> (w[1] < x /\ x <= 2 * w[1] - 1)
  <2>0. x \in Nat
    BY <1>a
  <2>1. ASSUME NEW j \in 1 .. Len(v), v[j] = x PROVE w[1] < x /\ x <= 2 * w[1] - 1
    <3>1. j + 1 \in 1 .. Len(w) /\ j + 1 # 1 /\ x = w[j + 1]
      BY <1>5, <1>6, <2>1
    <3>2. w[1] < x /\ x <= 2 * q + 1
      BY <1>3, <1>c, <3>1
    <3> QED
      BY <1>1, <1>2, <2>0, <3>2
  <2>2. ASSUME w[1] < x, x <= 2 * w[1] - 1 PROVE \E j \in 1 .. Len(v) : v[j] = x
    <3>1. x <= 2 * q + 1
      <4>1. SUFFICES ASSUME 2 * q + 1 < x PROVE FALSE
        BY <2>0
      <4>2. x # 1 /\ x \div 2 \in Nat /\ q < x \div 2 /\ x \div 2 < w[1]
        BY <1>1, <2>0, <2>2, <4>1
      <4>3. w[1] <= x \div 2
        BY <1>4, <1>a, <4>2
      <4> QED
        BY <1>1, <4>2, <4>3
    <3>2. q < x
      BY <1>1, <1>2, <2>0, <2>2
    <3>3. PICK i \in 1 .. Len(w) : w[i] = x
      BY <1>c, <3>1, <3>2
    <3>4. i # 1 /\ i - 1 \in 1 .. Len(w) - 1 /\ (i - 1) + 1 = i
      BY <1>b, <1>1, <2>0, <2>2, <3>3
    <3> QED
      BY <1>5, <3>3, <3>4
  <2> QED
    BY <2>1, <2>2
<1> QED
  BY <1>1, <1>2, <1>4, <1>5, <1>7, <1>8 DEF Covers, v

LEMMA CoverEmpty ==
  ASSUME NEW T \in Trees, NEW q \in Nat, Covers(<<>>, T, q, 2 * q + 1)
  PROVE  \A x \in T : x <= q
<1>a. T \subseteq Nat \ {0}
  BY TreeFacts
<1> SUFFICES ASSUME NEW x \in T, q < x PROVE FALSE
  BY <1>a
<1>1. \A y \in T : ~(q < y /\ y <= 2 * q + 1)
  BY DEF Covers
<1>2. x < x
  BY <1>1, <1>a, NoGap
<1> QED
  BY <1>2, <1>a
-----------------------------------------------------------------------------
(***************************************************************************)
(* The line of a place: the place and the line of its parent.  Lineage is  *)
(* recursive; the function that has that shape is the least set closed     *)
(* under Parent.                                                           *)
(***************************************************************************)
Closed(S, x) == x \in S /\ \A y \in S : y > 1 => y \div 2 \in S
Line(x) == {a \in 1 .. x : \A S \in SUBSET Nat : Closed(S, x) => a \in S}

LEMMA LineGrows ==
  ASSUME NEW x \in Nat
  PROVE  Line(x) = IF x = 0 THEN {} ELSE {x} \cup Line(x \div 2)
<1>1. CASE x = 0
  BY <1>1 DEF Line
<1>2. CASE x # 0
  <2>0. x \div 2 \in Nat /\ x \div 2 < x /\ (x = 1 => x \div 2 = 0)
    BY <1>2
  <2>1. x \in Line(x)
    BY <1>2 DEF Line, Closed
  <2>2. ASSUME NEW a \in Line(x \div 2) PROVE a \in Line(x)
    <3>1. a \in 1 .. x \div 2 /\ x # 1
      BY <2>0 DEF Line
    <3>2. ASSUME NEW S \in SUBSET Nat, Closed(S, x) PROVE a \in S
      <4>1. Closed(S, x \div 2)
        BY <1>2, <3>1, <3>2 DEF Closed
      <4> QED
        BY <4>1 DEF Line
    <3> QED
      BY <2>0, <3>1, <3>2 DEF Line
  <2>3. ASSUME NEW a \in Line(x), a # x PROVE a \in Line(x \div 2)
    <3>1. a \in 1 .. x
      BY DEF Line
    <3>2. ASSUME NEW S \in SUBSET Nat, Closed(S, x \div 2) PROVE a \in S
      <4>1. Closed(S \cup {x}, x) /\ S \cup {x} \in SUBSET Nat
        BY <3>2 DEF Closed
      <4>2. a \in S \cup {x}
        BY <4>1 DEF Line
      <4> QED
        BY <2>3, <4>2
    <3>3. a \in 1 .. x \div 2
      <4>1. x # 1
        BY <2>3, <3>1
      <4>2. Closed(1 .. x \div 2, x \div 2) /\ 1 .. x \div 2 \in SUBSET Nat
        <5>1. x \div 2 \in 1 .. x \div 2
          BY <1>2, <4>1
        <5>2. \A y \in 1 .. x \div 2 : y > 1 => y \div 2 \in 1 .. x \div 2
          BY <2>0
        <5> QED
          BY <2>0, <5>1, <5>2 DEF Closed
      <4> QED
        BY <3>2, <4>2
    <3> QED
      BY <3>2, <3>3 DEF Line
  <2> QED
    BY <1>2, <2>1, <2>2, <2>3
<1> QED
  BY <1>1, <1>2

LEMMA LineageGrows ==
  \A x \in Nat : Entire!Lineage[x] = IF x = 0 THEN {} ELSE {x} \cup Entire!Lineage[x \div 2]
<1> DEFINE Lined(f) == f = [x \in Nat |-> IF x = 0 THEN {} ELSE {x} \cup f[Entire!Parent(x)]]
<1>1. Entire!Lineage = CHOOSE f : Lined(f)
  BY Zenon DEF Entire!Lineage
<1>2. Lined([x \in Nat |-> Line(x)])
  <2>1. \A x \in Nat : Entire!Parent(x) = x \div 2 /\ x \div 2 \in Nat
    BY DEF Entire!Parent
  <2> QED
    BY <2>1, LineGrows
<1>3. Lined(Entire!Lineage)
  <2> HIDE DEF Lined
  <2> QED
    BY <1>1, <1>2
<1>4. \A x \in Nat : Entire!Parent(x) = x \div 2
  BY DEF Entire!Parent
<1> QED
  BY <1>3, <1>4

(***************************************************************************)
(* If no node beyond q has a parent before q, all nodes beyond q are below *)
(* it.                                                                     *)
(***************************************************************************)
LEMMA AllUnder ==
  ASSUME NEW T \in Trees, NEW q \in T,
         \A x \in T : ~(q < x /\ x <= 2 * q - 1)
  PROVE  \A x \in T : x > q => Entire!Under(x, q)
<1> DEFINE Strays == {x \in T : x > q /\ ~Entire!Under(x, q)}
<1>a. T \subseteq Nat \ {0} /\ \A x \in T : x # 1 => x \div 2 \in T
  BY TreeFacts
<1> SUFFICES ASSUME Strays # {} PROVE FALSE
  OBVIOUS
<1>1. PICK x \in Strays : \A y \in Strays : x <= y
  <2>1. Strays \subseteq Nat
    BY <1>a
  <2> HIDE DEF Strays
  <2> QED
    BY <2>1, LeastIn
<1>2. /\ x \in T /\ x \in Nat /\ q \in Nat \ {0} /\ x > q /\ ~Entire!Under(x, q)
  BY <1>1, <1>a
<1>3. x # 1 /\ x \div 2 \in T /\ x \div 2 < x /\ q <= x \div 2 /\ x \div 2 \in Nat
  BY <1>2, <1>a
<1>4. Entire!Lineage[x] = {x} \cup Entire!Lineage[x \div 2]
  <2>1. x \in Nat /\ x # 0
    BY <1>2
  <2> QED
    BY <2>1, LineageGrows
<1>5. q \in Entire!Lineage[x \div 2]
  <2>1. CASE x \div 2 = q
    BY <1>2, <2>1, LineageGrows
  <2>2. CASE x \div 2 # q
    <3>1. x \div 2 \notin Strays /\ x \div 2 > q
      BY <1>1, <1>2, <1>3, <2>2
    <3> QED
      BY <1>3, <3>1 DEF Entire!Under
  <2> QED
    BY <2>1, <2>2
<1> QED
  BY <1>2, <1>4, <1>5 DEF Entire!Under
-----------------------------------------------------------------------------
(***************************************************************************)
(* The linked queue, in memory that malloc returns zeroed: the list from   *)
(* front is the queued nodes in order, and the last leads nowhere.  The    *)
(* three programs share its variables and steps.                           *)
(***************************************************************************)
QueueOK ==
  /\ strayed = FALSE
  /\ held \in Seq(Node) /\ Distinct(held)
  /\ used \subseteq Node /\ \A j \in 1 .. Len(held) : held[j] \in used
  /\ next \in [Node -> Node \cup {None}] /\ data \in [Node -> Nat \cup {None}]
  /\ held = <<>> => front = None /\ rear = None
  /\ held # <<>> => front = held[1] /\ rear = held[Len(held)] /\ next[rear] = None
  /\ \A j \in 1 .. Len(held) - 1 : next[held[j]] = held[j + 1]

Queued == {held[j] : j \in 1 .. Len(held)}
Lent == used \ Queued
Waits == [j \in 1 .. Len(held) |-> data[held[j]]]

EnqStep(v) ==
  \E n \in Node \ used :
    /\ used' = used \cup {n} /\ held' = Append(held, n) /\ data' = [data EXCEPT ![n] = v]
    /\ rear' = n /\ front' = IF rear = None THEN n ELSE front
    /\ next' = IF rear = None THEN [next EXCEPT ![n] = None]
                              ELSE [next EXCEPT ![n] = None, ![rear] = n]
    /\ UNCHANGED strayed

UnlinkStep ==
  /\ front # None
  /\ front' = next[front] /\ rear' = IF next[front] = None THEN None ELSE rear
  /\ held' = Tail(held) /\ strayed' = (Len(held) = 1 /\ next[front] # None)
  /\ UNCHANGED <<next, data>>

LEMMA ListIsArray ==
  ASSUME NEW S, NEW s \in Seq(S)
  PROVE  s = [j \in 1 .. Len(s) |-> s[j]]
<1>1. s \in [1 .. Len(s) -> S]
  OBVIOUS
<1> QED
  BY <1>1

LEMMA WaitsSeq ==
  ASSUME QueueOK
  PROVE  Waits \in Seq(Nat \cup {None}) /\ Len(Waits) = Len(held) /\ Len(held) \in Nat
<1>1. Len(held) \in Nat /\ \A j \in 1 .. Len(held) : held[j] \in Node
  BY DEF QueueOK
<1>2. Waits \in [1 .. Len(held) -> Nat \cup {None}]
  BY <1>1 DEF QueueOK, Waits
<1> QED
  BY <1>1, <1>2

LEMMA QueueEnq ==
  ASSUME QueueOK, NEW v \in Nat \cup {None}, EnqStep(v)
  PROVE  /\ QueueOK' /\ Waits' = Append(Waits, v) /\ Lent' = Lent
         /\ \A x \in Lent : data'[x] = data[x] /\ next'[x] = next[x]
<1>a. /\ held \in Seq(Node) /\ Len(held) \in Nat /\ \A j \in 1 .. Len(held) : held[j] \in Node
      /\ used \subseteq Node /\ \A j \in 1 .. Len(held) : held[j] \in used
      /\ next \in [Node -> Node \cup {None}] /\ data \in [Node -> Nat \cup {None}]
  BY DEF QueueOK
<1>b. /\ held = <<>> => front = None /\ rear = None
      /\ held # <<>> => front = held[1] /\ rear = held[Len(held)]
      /\ \A j \in 1 .. Len(held) - 1 : next[held[j]] = held[j + 1]
      /\ Distinct(held) /\ strayed = FALSE
  BY DEF QueueOK
<1>1. PICK n \in Node \ used :
        /\ used' = used \cup {n} /\ held' = Append(held, n) /\ data' = [data EXCEPT ![n] = v]
        /\ rear' = n /\ front' = IF rear = None THEN n ELSE front
        /\ next' = IF rear = None THEN [next EXCEPT ![n] = None]
                                  ELSE [next EXCEPT ![n] = None, ![rear] = n]
        /\ UNCHANGED strayed
  BY DEF EnqStep
<1>2. n \in Node /\ n \notin used
  BY <1>1
<1>c. held # <<>> => /\ Len(held) \in 1 .. Len(held) /\ 1 \in 1 .. Len(held)
                     /\ rear \in used /\ rear # None /\ rear # n
  <2> SUFFICES ASSUME held # <<>> PROVE /\ Len(held) \in 1 .. Len(held) /\ 1 \in 1 .. Len(held)
                                        /\ rear \in used /\ rear # None /\ rear # n
    OBVIOUS
  <2>1. Len(held) \in 1 .. Len(held) /\ 1 \in 1 .. Len(held)
    BY <1>a, EmptySeq
  <2> QED
    BY <1>a, <1>b, <1>2, <2>1, NullIsApart
<1>3. /\ held' \in Seq(Node) /\ Len(held') = Len(held) + 1
      /\ \A j \in 1 .. Len(held) + 1 : held'[j] = IF j = Len(held) + 1 THEN n ELSE held[j]
  BY <1>a, <1>1, <1>2
<1>4. \A j \in 1 .. Len(held) : held[j] # n /\ held'[j] = held[j] /\ j \in 1 .. Len(held) + 1
  <2>1. \A j \in 1 .. Len(held) : j \in 1 .. Len(held) + 1 /\ j # Len(held) + 1
    BY <1>a
  <2> QED
    BY <1>a, <1>2, <1>3, <2>1
<1>5. held'[Len(held) + 1] = n /\ Len(held) + 1 \in 1 .. Len(held) + 1
  BY <1>a, <1>3
<1>6. \A j \in 1 .. Len(held) + 1 : j \in 1 .. Len(held) \/ j = Len(held) + 1
  BY <1>a
<1>7. Distinct(held')
  BY <1>a, <1>b, <1>3, <1>4, <1>5, <1>6 DEF Distinct
<1>8. used' \subseteq Node /\ \A j \in 1 .. Len(held') : held'[j] \in used'
  BY <1>a, <1>1, <1>2, <1>3, <1>4, <1>5, <1>6
<1>9. next' \in [Node -> Node \cup {None}] /\ data' \in [Node -> Nat \cup {None}]
  BY <1>a, <1>1, <1>2
<1>10. next'[n] = None
  BY <1>a, <1>1, <1>2, <1>b, <1>c
<1>11. held' # <<>> /\ front' = held'[1] /\ rear' = held'[Len(held')] /\ next'[rear'] = None
  <2>1. held' # <<>> /\ rear' = held'[Len(held')]
    BY <1>a, <1>1, <1>3, <1>5
  <2>2. CASE held = <<>>
    <3>1. Len(held) = 0
      BY <2>2
    <3> QED
      BY <1>1, <1>b, <1>5, <1>10, <2>1, <2>2, <3>1
  <2>3. CASE held # <<>>
    BY <1>1, <1>b, <1>c, <1>4, <1>10, <2>1, <2>3
  <2> QED
    BY <2>2, <2>3
<1>12. ASSUME NEW j \in 1 .. Len(held') - 1 PROVE next'[held'[j]] = held'[j + 1]
  <2>1. j \in 1 .. Len(held) /\ held # <<>>
    BY <1>3, <1>a
  <2>2. held'[j] = held[j] /\ held[j] # n /\ held[j] \in Node
    BY <1>a, <1>4, <2>1
  <2>3. next' = [next EXCEPT ![n] = None, ![rear] = n] /\ rear = held[Len(held)] /\ rear \in Node
    BY <1>1, <1>a, <1>b, <1>c, <2>1
  <2>4. CASE j = Len(held)
    BY <1>a, <1>5, <2>2, <2>3, <2>4
  <2>5. CASE j # Len(held)
    <3>1. j \in 1 .. Len(held) - 1 /\ j + 1 \in 1 .. Len(held)
      BY <1>a, <2>1, <2>5
    <3>2. held[j] # rear
      BY <1>b, <1>c, <2>1, <2>3, <2>5 DEF Distinct
    <3> QED
      BY <1>a, <1>b, <1>4, <2>2, <2>3, <3>1, <3>2
  <2> QED
    BY <2>4, <2>5
<1>13. strayed' = FALSE
  BY <1>1, <1>b
<1>14. QueueOK'
  BY <1>3, <1>7, <1>8, <1>9, <1>11, <1>12, <1>13 DEF QueueOK
<1>15. Waits' = Append(Waits, v)
  <2>1. Waits \in Seq(Nat \cup {None}) /\ Len(Waits) = Len(held)
    BY WaitsSeq
  <2>2. Waits' = [j \in 1 .. Len(held) + 1 |-> data'[held'[j]]]
    BY <1>3 DEF Waits
  <2>3. /\ Append(Waits, v) \in Seq(Nat \cup {None}) /\ Len(Append(Waits, v)) = Len(held) + 1
        /\ \A j \in 1 .. Len(held) + 1 :
             Append(Waits, v)[j] = IF j = Len(held) + 1 THEN v ELSE Waits[j]
    BY <2>1, <1>a
  <2>4. Append(Waits, v) = [j \in 1 .. Len(held) + 1 |-> Append(Waits, v)[j]]
    BY <2>3, ListIsArray
  <2>5. ASSUME NEW j \in 1 .. Len(held) + 1 PROVE data'[held'[j]] = Append(Waits, v)[j]
    <3>1. CASE j = Len(held) + 1
      BY <1>a, <1>1, <1>2, <1>5, <2>3, <3>1
    <3>2. CASE j # Len(held) + 1
      <4>1. j \in 1 .. Len(held)
        BY <1>6, <3>2
      <4>2. Waits[j] = data[held[j]]
        BY <4>1 DEF Waits
      <4>3. data'[held[j]] = data[held[j]]
        BY <1>a, <1>1, <1>4, <4>1
      <4> QED
        BY <1>4, <2>3, <3>2, <4>1, <4>2, <4>3
    <3> QED
      BY <3>1, <3>2
  <2> QED
    BY <2>2, <2>4, <2>5
<1>16. Lent' = Lent
  <2>1. Queued' = Queued \cup {n}
    BY <1>3, <1>4, <1>5, <1>6 DEF Queued
  <2> QED
    BY <1>1, <1>2, <2>1 DEF Lent
<1>17. ASSUME NEW x \in Lent PROVE data'[x] = data[x] /\ next'[x] = next[x]
  <2>1. x \in Node /\ x # n /\ x \notin Queued
    BY <1>a, <1>2 DEF Lent
  <2>2. held # <<>> => rear \in Queued
    BY <1>b, <1>c DEF Queued
  <2> QED
    BY <1>a, <1>b, <1>1, <2>1, <2>2
<1> QED
  BY <1>14, <1>15, <1>16, <1>17

LEMMA QueueUnlink ==
  ASSUME QueueOK, UnlinkStep, used' = used \/ used' = used \ {front}
  PROVE  /\ QueueOK' /\ held # <<>> /\ Waits # <<>> /\ front \in Queued /\ front \in used
         /\ data[front] = Waits[1] /\ Waits' = Tail(Waits)
         /\ Queued' = Queued \ {front} /\ front \in Node
<1>a. /\ held \in Seq(Node) /\ Len(held) \in Nat /\ \A j \in 1 .. Len(held) : held[j] \in Node
      /\ used \subseteq Node /\ \A j \in 1 .. Len(held) : held[j] \in used
      /\ next \in [Node -> Node \cup {None}] /\ data \in [Node -> Nat \cup {None}]
  BY DEF QueueOK
<1>b. /\ held = <<>> => front = None /\ rear = None
      /\ held # <<>> => front = held[1] /\ rear = held[Len(held)] /\ next[rear] = None
      /\ \A j \in 1 .. Len(held) - 1 : next[held[j]] = held[j + 1]
      /\ Distinct(held)
  BY DEF QueueOK
<1>1. /\ front # None
      /\ front' = next[front] /\ rear' = IF next[front] = None THEN None ELSE rear
      /\ held' = Tail(held) /\ strayed' = (Len(held) = 1 /\ next[front] # None)
      /\ UNCHANGED <<next, data>>
  BY DEF UnlinkStep
<1>2. held # <<>> /\ Len(held) \in Nat \ {0} /\ 1 \in 1 .. Len(held) /\ Len(held) \in 1 .. Len(held)
  <2>1. held # <<>>
    BY <1>b, <1>1
  <2>2. Len(held) # 0
    BY <2>1, <1>a, EmptySeq
  <2> QED
    BY <2>1, <2>2, <1>a
<1>3. front = held[1] /\ front \in Node /\ front \in used /\ front \in Queued
  BY <1>a, <1>b, <1>2 DEF Queued
<1>4. /\ held' \in Seq(Node) /\ Len(held') = Len(held) - 1
      /\ \A j \in 1 .. Len(held) - 1 : held'[j] = held[j + 1]
  BY <1>a, <1>1, <1>2
<1>5. \A j \in 1 .. Len(held) - 1 : j + 1 \in 1 .. Len(held) /\ j + 1 # 1
  BY <1>2
<1>6. \A j \in 1 .. Len(held) - 1 : held[j + 1] # front /\ held[j + 1] \in Node /\ held[j + 1] \in used
  BY <1>a, <1>b, <1>2, <1>3, <1>5 DEF Distinct
<1>7. Distinct(held')
  <2>1. \A j, k \in 1 .. Len(held) - 1 : j + 1 = k + 1 => j = k
    BY <1>a
  <2> QED
    BY <1>b, <1>4, <1>5, <2>1 DEF Distinct
<1>8. used' \subseteq Node /\ \A j \in 1 .. Len(held') : held'[j] \in used'
  BY <1>a, <1>4, <1>6
<1>9. strayed' = FALSE
  BY <1>1, <1>b, <1>3
<1>10. ASSUME Len(held) = 1 PROVE QueueOK'
  <2>1. next[front] = None
    BY <1>b, <1>2, <1>3, <1>10
  <2>2. held' = <<>> /\ Len(held') = 0
    BY <1>4, <1>10, EmptySeq
  <2>3. front' = None /\ rear' = None
    BY <1>1, <2>1
  <2>4. next' \in [Node -> Node \cup {None}] /\ data' \in [Node -> Nat \cup {None}]
    BY <1>a, <1>1
  <2>5. \A j \in 1 .. Len(held') - 1 : FALSE
    BY <2>2
  <2> QED
    BY <1>4, <1>7, <1>8, <1>9, <2>2, <2>3, <2>4, <2>5 DEF QueueOK
<1>11. ASSUME Len(held) # 1 PROVE QueueOK'
  <2>1. 1 \in 1 .. Len(held) - 1 /\ Len(held) - 1 \in 1 .. Len(held) - 1 /\ Len(held') # 0
    BY <1>2, <1>4, <1>11
  <2>2. held' # <<>>
    BY <2>1
  <2>3. front' = held'[1] /\ front' # None
    BY <1>a, <1>b, <1>1, <1>3, <1>4, <1>6, <2>1, NullIsApart
  <2>4. rear' = rear /\ rear' = held'[Len(held')] /\ next'[rear'] = None
    <3>1. held'[Len(held) - 1] = held[(Len(held) - 1) + 1] /\ (Len(held) - 1) + 1 = Len(held)
      BY <1>2, <1>4, <2>1
    <3>2. rear' = rear
      BY <1>1, <2>3
    <3> QED
      BY <1>1, <1>b, <1>2, <1>4, <3>1, <3>2
  <2>5. ASSUME NEW j \in 1 .. Len(held') - 1 PROVE next'[held'[j]] = held'[j + 1]
    <3>1. j \in 1 .. Len(held) - 1 /\ j + 1 \in 1 .. Len(held) - 1
      BY <1>2, <1>4
    <3>2. held'[j] = held[j + 1] /\ held'[j + 1] = held[(j + 1) + 1]
      BY <1>4, <3>1
    <3> QED
      BY <1>b, <1>1, <3>1, <3>2
  <2>6. next' \in [Node -> Node \cup {None}] /\ data' \in [Node -> Nat \cup {None}]
    BY <1>a, <1>1
  <2> QED
    BY <1>4, <1>7, <1>8, <1>9, <2>2, <2>3, <2>4, <2>5, <2>6 DEF QueueOK
<1>12. QueueOK'
  BY <1>10, <1>11
<1>13. /\ Waits \in Seq(Nat \cup {None}) /\ Len(Waits) = Len(held) /\ Waits # <<>>
       /\ data[front] = Waits[1]
  <2>1. Waits \in Seq(Nat \cup {None}) /\ Len(Waits) = Len(held)
    BY WaitsSeq
  <2>2. Waits # <<>>
    BY <2>1, <1>2
  <2>3. Waits[1] = data[held[1]]
    BY <1>2 DEF Waits
  <2> QED
    BY <2>1, <2>2, <2>3, <1>3
<1>14. Waits' = Tail(Waits)
  <2>1. Waits' = [j \in 1 .. Len(held) - 1 |-> data[held[j + 1]]]
    BY <1>1, <1>4 DEF Waits
  <2>2. \A j \in 1 .. Len(held) - 1 : Waits[j + 1] = data[held[j + 1]]
    BY <1>5 DEF Waits
  <2>3. /\ Tail(Waits) \in Seq(Nat \cup {None}) /\ Len(Tail(Waits)) = Len(held) - 1
        /\ \A j \in 1 .. Len(held) - 1 : Tail(Waits)[j] = Waits[j + 1]
    BY <1>13, <1>2
  <2>4. Tail(Waits) = [j \in 1 .. Len(held) - 1 |-> Tail(Waits)[j]]
    BY <2>3, ListIsArray
  <2> QED
    BY <2>1, <2>2, <2>3, <2>4
<1>15. Queued' = Queued \ {front}
  <2>1. ASSUME NEW x \in Queued' PROVE x \in Queued \ {front}
    BY <1>4, <1>5, <1>6 DEF Queued
  <2>2. ASSUME NEW x \in Queued, x # front PROVE x \in Queued'
    <3>1. PICK j \in 1 .. Len(held) : held[j] = x
      BY DEF Queued
    <3>2. j # 1 /\ j - 1 \in 1 .. Len(held) - 1 /\ (j - 1) + 1 = j
      BY <1>2, <1>3, <2>2, <3>1
    <3> QED
      BY <1>4, <3>1, <3>2 DEF Queued
  <2> QED
    BY <2>1, <2>2
<1> QED
  BY <1>2, <1>3, <1>12, <1>13, <1>14, <1>15

\* the queue stands while nodes that are not its own come, go or change
LEMMA QueueFrame ==
  ASSUME QueueOK, UNCHANGED <<front, rear, held, strayed>>,
         used' \subseteq Node, Queued \subseteq used',
         next' \in [Node -> Node \cup {None}], data' \in [Node -> Nat \cup {None}],
         \A x \in Queued : next'[x] = next[x] /\ data'[x] = data[x]
  PROVE  QueueOK' /\ Waits' = Waits /\ Queued' = Queued
<1>a. held \in Seq(Node) /\ Len(held) \in Nat /\ \A j \in 1 .. Len(held) : held[j] \in Queued
  BY DEF QueueOK, Queued
<1>1. \A j \in 1 .. Len(held) - 1 : j \in 1 .. Len(held)
  BY <1>a
<1>2. held # <<>> => rear \in Queued
  <2>1. held # <<>> => Len(held) \in 1 .. Len(held)
    BY <1>a, EmptySeq
  <2> QED
    BY <1>a, <2>1 DEF QueueOK
<1>3. QueueOK'
  BY <1>a, <1>1, <1>2 DEF QueueOK
<1> QED
  BY <1>a, <1>3 DEF Waits, Queued

\* enq of the next place if it is a node's
LEMMA EnqPlace ==
  ASSUME QueueOK, tree \in Trees, NEW q \in Nat, NEW c \in Nat, q <= c,
         Covers(Waits, tree, q, c),
         IF c + 1 \in tree THEN EnqStep(c + 1)
                          ELSE UNCHANGED <<front, rear, next, data, used, held, strayed>>
  PROVE  /\ QueueOK' /\ Lent' = Lent /\ Covers(Waits', tree, q, c + 1)
         /\ \A x \in Lent : data'[x] = data[x] /\ next'[x] = next[x]
<1>1. CASE c + 1 \in tree
  <2>1. EnqStep(c + 1) /\ c + 1 \in Nat \cup {None}
    BY <1>1
  <2>2. /\ QueueOK' /\ Waits' = Append(Waits, c + 1) /\ Lent' = Lent
        /\ \A x \in Lent : data'[x] = data[x] /\ next'[x] = next[x]
    BY <2>1, QueueEnq
  <2>3. Covers(Append(Waits, c + 1), tree, q, c + 1)
    <3>1. PICK w : w = Waits
      OBVIOUS
    <3> QED
      BY <1>1, <3>1, CoverMore
  <2> QED
    BY <2>2, <2>3
<1>2. CASE c + 1 \notin tree
  <2>1. UNCHANGED <<front, rear, next, data, used, held, strayed>>
    BY <1>2
  <2>2. QueueOK' /\ Waits' = Waits /\ Lent' = Lent
    BY <2>1 DEF QueueOK, Waits, Lent, Queued
  <2>3. Covers(Waits, tree, q, c + 1)
    <3>1. PICK w : w = Waits
      OBVIOUS
    <3> QED
      BY <1>2, <3>1, CoverSame
  <2> QED
    BY <2>1, <2>2, <2>3
<1> QED
  BY <1>1, <1>2

\* deq between two turns: the next node of the tree
LEMMA TakePlace ==
  ASSUME QueueOK, tree \in Trees, NEW q \in Nat, Covers(Waits, tree, q, 2 * q + 1),
         UnlinkStep, used' = used
  PROVE  /\ QueueOK' /\ data[front] \in tree /\ q < data[front] /\ data[front] <= 2 * q + 1
         /\ \A x \in tree : q < x => data[front] <= x
         /\ Covers(Waits', tree, data[front], 2 * data[front] - 1)
         /\ front \in Node /\ front \notin Lent /\ Lent' = Lent \cup {front}
<1>1. /\ QueueOK' /\ Waits # <<>> /\ front \in Queued /\ front \in used /\ front \in Node
      /\ data[front] = Waits[1] /\ Waits' = Tail(Waits) /\ Queued' = Queued \ {front}
  BY QueueUnlink
<1>2. PICK w : w = Waits
  OBVIOUS
<1>3. /\ w[1] \in tree /\ q < w[1] /\ w[1] <= 2 * q + 1 /\ \A x \in tree : q < x => w[1] <= x
      /\ Covers(Tail(w), tree, w[1], 2 * w[1] - 1)
  BY <1>1, <1>2, CoverTake
<1>4. front \notin Lent /\ Lent' = Lent \cup {front}
  BY <1>1 DEF Lent
<1> QED
  BY <1>1, <1>2, <1>3, <1>4

LEMMA CoverSkip ==
  ASSUME NEW T \in Trees, NEW w, NEW q \in Nat, NEW c \in Nat, NEW d \in Nat, c <= d,
         Covers(w, T, q, c), \A x \in T : c < x => d < x
  PROVE  Covers(w, T, q, d)
<1>1. \A x \in T : x \in Nat /\ (x <= c <=> x <= d)
  BY TreeFacts
<1> QED
  BY <1>1 DEF Covers

\* the nodes passed are one more with every turn
LEMMA CoverPassed ==
  ASSUME NEW T \in Trees, NEW w, NEW q \in Nat, NEW x \in T, q < x,
         Covers(w, T, 0, q), \A y \in T : q < y => x <= y
  PROVE  Covers(Append(w, x), T, 0, x)
<1>a. T \subseteq Nat \ {0}
  BY TreeFacts
<1>1. PICK d \in Nat : x = d + 1
  <2>1. x - 1 \in Nat /\ x = (x - 1) + 1
    BY <1>a
  <2> QED
    BY <2>1
<1>2. q <= d /\ \A y \in T : q < y => d < y
  BY <1>1, <1>a
<1>3. Covers(w, T, 0, d)
  BY <1>2, CoverSkip, 0 \in Nat
<1> QED
  BY <1>1, <1>3, CoverMore, 0 \in Nat

Mark == IF p = None THEN 0 ELSE p

\* how far the children have been put in the queue
Edge == CASE at = "start" -> 0
          [] at \in {"loop", "pop", "freepop", "done"} -> 2 * Mark + 1
          [] at = "right" -> 2 * Mark
          [] OTHER -> 2 * Mark - 1
-----------------------------------------------------------------------------
(***************************************************************************)
(* bitree_floor_traverse.                                                  *)
(***************************************************************************)
LevelInv ==
  /\ tree \in Trees
  /\ at \in {"start", "loop", "free", "left", "right", "done", "segv"}
  /\ QueueOK
  /\ at # "segv" => Lent = IF at = "free" THEN {node} ELSE {}
  /\ tree = {} => /\ p = None /\ at \in {"start", "loop", "segv"}
                  /\ Waits = IF at = "loop" THEN <<None>> ELSE <<>>
                  /\ order = IF at = "segv" THEN <<None>> ELSE <<>>
  /\ tree # {} => /\ at # "segv" /\ p \in tree \cup {None}
                  /\ at = "start" => p = None
                  /\ at \in {"free", "left", "right"} => p \in tree
                  /\ Covers(Waits, tree, Mark, Edge)
                  /\ Covers(order, tree, 0, Mark)

LEMMA LevelEnqStep ==
  ASSUME NEW v, Level!Queue!Enq(v)
  PROVE  EnqStep(v) /\ pc' = pc
<1>1. CASE Level!Queue!EnqFirst(v)
  BY <1>1 DEF Level!Queue!EnqFirst, Level!Queue!Put, Leftover, EnqStep
<1>2. CASE Level!Queue!EnqNext(v)
  BY <1>2 DEF Level!Queue!EnqNext, Level!Queue!Put, Leftover, EnqStep
<1> QED
  BY <1>1, <1>2 DEF Level!Queue!Enq

LEMMA LevelInit == Level!Init => LevelInv
<1> SUFFICES ASSUME Level!Init PROVE LevelInv
  OBVIOUS
<1>1. /\ tree \in Trees /\ at = "start" /\ p = None /\ order = <<>> /\ used = {}
      /\ front = None /\ rear = None /\ held = <<>> /\ strayed = FALSE
      /\ next = [n \in Node |-> None] /\ data = [n \in Node |-> None]
  BY DEF Level!Init, Level!Queue!Init
<1>2. QueueOK
  BY <1>1 DEF QueueOK, Distinct
<1>3. Waits = <<>> /\ Lent = {}
  BY <1>1 DEF Waits, Lent
<1>4. Mark = 0 /\ Edge = 0
  BY <1>1 DEF Mark, Edge
<1>5. Covers(<<>>, tree, 0, 0)
  BY <1>1, CoverNone
<1> QED
  BY <1>1, <1>2, <1>3, <1>4, <1>5 DEF LevelInv

LEMMA LevelStep ==
  ASSUME LevelInv, Level!Next PROVE LevelInv'
<1>a. /\ tree \in Trees /\ QueueOK /\ tree \subseteq Nat \ {0} /\ None \notin tree
      /\ tree' = tree
  <2>1. tree' = tree
    BY DEF Level!Next, Level!EnqRoot, Level!Crash, Level!Take, Level!Release, Level!EnqLeft,
           Level!EnqRight, Level!Return
  <2> QED
    BY <2>1, TreeFacts DEF LevelInv
<1>b. /\ at # "segv" => Lent = IF at = "free" THEN {node} ELSE {}
      /\ tree = {} => /\ p = None /\ at \in {"start", "loop", "segv"}
                      /\ Waits = IF at = "loop" THEN <<None>> ELSE <<>>
                      /\ order = IF at = "segv" THEN <<None>> ELSE <<>>
      /\ tree # {} => /\ at # "segv" /\ p \in tree \cup {None}
                      /\ at = "start" => p = None
                      /\ at \in {"free", "left", "right"} => p \in tree
                      /\ Covers(Waits, tree, Mark, Edge)
                      /\ Covers(order, tree, 0, Mark)
  BY DEF LevelInv
<1>c. tree # {} => Mark \in Nat /\ (p \in tree => Mark = p /\ p \in Nat \ {0})
  BY <1>a, <1>b DEF Mark
<1>1. CASE Level!EnqRoot
  <2>1. /\ at = "start" /\ at' = "loop" /\ p' = p /\ order' = order
        /\ EnqStep(IF tree = {} THEN None ELSE 1)
    BY <1>1, LevelEnqStep DEF Level!EnqRoot, Level!Root
  <2>2. CASE tree = {}
    <3>1. QueueOK' /\ Waits' = Append(Waits, None) /\ Lent' = Lent
      BY <1>a, <2>1, <2>2, QueueEnq
    <3>2. Waits' = <<None>>
      BY <1>b, <2>1, <2>2, <3>1
    <3> QED
      BY <1>a, <1>b, <2>1, <2>2, <3>1, <3>2 DEF LevelInv
  <2>3. CASE tree # {}
    <3>1. 0 + 1 = 1 /\ 1 \in tree /\ EnqStep(1)
      BY <1>a, <2>1, <2>3, RootIn
    <3>2. Mark = 0 /\ Mark' = 0 /\ Edge = 0 /\ Edge' = 1 /\ p = None
      BY <1>b, <2>1, <2>3 DEF Mark, Edge
    <3>3. QueueOK' /\ Lent' = Lent /\ Covers(Waits', tree, 0, 0 + 1)
      BY <1>a, <1>b, <2>3, <3>1, <3>2, EnqPlace, 0 \in Nat, 0 <= 0
    <3> QED
      BY <1>a, <1>b, <2>1, <2>3, <3>1, <3>2, <3>3 DEF LevelInv
  <2> QED
    BY <2>2, <2>3
<1>2. CASE Level!Crash
  <2>1. /\ at = "loop" /\ data[front] = None /\ UnlinkStep /\ used' = used
        /\ at' = "segv" /\ p' = None /\ order' = Append(order, None)
    BY <1>2 DEF Level!Crash, Level!Queue!Deq, Level!Queue!Unlink, UnlinkStep
  <2>2. tree = {}
    <3> SUFFICES ASSUME tree # {} PROVE FALSE
      OBVIOUS
    <3>1. Edge = 2 * Mark + 1
      BY <2>1 DEF Edge
    <3>2. PICK q \in Nat : q = Mark
      BY <1>c
    <3>3. data[front] \in tree
      BY <1>a, <1>b, <2>1, <3>1, <3>2, TakePlace
    <3> QED
      BY <1>a, <2>1, <3>3
  <2>3. QueueOK' /\ Waits' = Tail(Waits)
    BY <1>a, <2>1, QueueUnlink
  <2>4. Waits' = <<>> /\ order' = <<None>>
    <3>1. Waits = <<None>> /\ order = <<>>
      BY <1>b, <2>1, <2>2
    <3>2. Tail(<<None>>) = <<>>
      OBVIOUS
    <3> QED
      BY <2>1, <2>3, <3>1, <3>2
  <2> QED
    BY <1>a, <2>1, <2>2, <2>3, <2>4 DEF LevelInv
<1>3. CASE Level!Take
  <2>1. /\ at = "loop" /\ data[front] # None /\ UnlinkStep /\ used' = used
        /\ at' = "free" /\ p' = data[front] /\ node' = front /\ order' = Append(order, p')
    BY <1>3 DEF Level!Take, Level!Queue!Deq, Level!Queue!Unlink, UnlinkStep
  <2>2. tree # {}
    <3> SUFFICES ASSUME tree = {} PROVE FALSE
      OBVIOUS
    <3>1. data[front] = Waits[1]
      BY <1>a, <2>1, QueueUnlink
    <3> QED
      BY <1>b, <2>1, <3>1
  <2>3. PICK q \in Nat : q = Mark /\ Edge = 2 * q + 1
    BY <1>c, <2>1, <2>2 DEF Edge
  <2>4. /\ QueueOK' /\ p' \in tree /\ q < p'
        /\ \A x \in tree : q < x => p' <= x
        /\ Covers(Waits', tree, p', 2 * p' - 1)
        /\ Lent' = Lent \cup {front}
    BY <1>a, <1>b, <2>1, <2>2, <2>3, TakePlace
  <2>5. Covers(order', tree, 0, p')
    <3>1. PICK x \in tree : x = p'
      BY <2>4
    <3>3. PICK w : w = order
      OBVIOUS
    <3>2. Covers(w, tree, 0, q)
      BY <1>b, <2>2, <2>3, <3>3
    <3> QED
      BY <1>a, <2>1, <2>4, <3>1, <3>2, <3>3, CoverPassed
  <2>6. Mark' = p' /\ Edge' = 2 * p' - 1
    BY <1>a, <2>1, <2>4 DEF Mark, Edge
  <2>7. Lent' = {node'}
    BY <1>b, <2>1, <2>4
  <2> QED
    BY <1>a, <2>1, <2>2, <2>4, <2>5, <2>6, <2>7 DEF LevelInv
<1>4. CASE Level!Release
  <2>1. /\ at = "free" /\ at' = "left" /\ p' = p /\ order' = order /\ node \in Lent
        /\ used' = used \ {node} /\ UNCHANGED <<front, rear, next, data, held, strayed>>
    BY <1>4 DEF Level!Release, Level!Queue!Free, Level!Queue!Lent, Lent, Queued
  <2>2. used' \subseteq Node /\ Queued \subseteq used'
    <3>1. used \subseteq Node /\ Queued \subseteq used
      BY <1>a DEF QueueOK, Queued
    <3> QED
      BY <2>1, <3>1 DEF Lent
  <2>3. QueueOK' /\ Waits' = Waits /\ Queued' = Queued
    BY <1>a, <2>1, <2>2, QueueFrame DEF QueueOK
  <2>4. Lent' = {}
    BY <1>b, <2>1, <2>3 DEF Lent
  <2>5. Mark' = Mark /\ Edge' = Edge
    BY <2>1 DEF Mark, Edge
  <2> QED
    BY <1>a, <1>b, <2>1, <2>3, <2>4, <2>5 DEF LevelInv
<1>5. CASE Level!EnqLeft
  <2>1. /\ at = "left" /\ at' = "right" /\ p' = p /\ order' = order
        /\ Level!EnqChild(IF 2 * p \in tree THEN 2 * p ELSE None)
    BY <1>5 DEF Level!EnqLeft, Level!LeftChild
  <2>2. tree # {} /\ p \in tree /\ p \in Nat \ {0} /\ Mark = p /\ Edge = 2 * p - 1
    BY <1>a, <1>b, <1>c, <2>1 DEF Edge
  <2>3. PICK c \in Nat : c = 2 * p - 1 /\ p <= c /\ 2 * p = c + 1
    BY <2>2
  <2>4. IF c + 1 \in tree THEN EnqStep(c + 1)
                         ELSE UNCHANGED <<front, rear, next, data, used, held, strayed>>
    BY <1>a, <2>1, <2>3, LevelEnqStep DEF Level!EnqChild, Level!queue
  <2>5. QueueOK' /\ Lent' = Lent /\ Covers(Waits', tree, p, c + 1)
    BY <1>a, <1>b, <2>2, <2>3, <2>4, EnqPlace
  <2>6. Mark' = Mark /\ Edge' = 2 * p
    BY <2>1, <2>2 DEF Mark, Edge
  <2> QED
    BY <1>a, <1>b, <2>1, <2>2, <2>3, <2>5, <2>6 DEF LevelInv
<1>6. CASE Level!EnqRight
  <2>1. /\ at = "right" /\ at' = "loop" /\ p' = p /\ order' = order
        /\ Level!EnqChild(IF 2 * p + 1 \in tree THEN 2 * p + 1 ELSE None)
    BY <1>6 DEF Level!EnqRight, Level!RightChild
  <2>2. tree # {} /\ p \in tree /\ p \in Nat \ {0} /\ Mark = p /\ Edge = 2 * p
    BY <1>a, <1>b, <1>c, <2>1 DEF Edge
  <2>3. PICK c \in Nat : c = 2 * p /\ p <= c
    BY <2>2
  <2>4. IF c + 1 \in tree THEN EnqStep(c + 1)
                         ELSE UNCHANGED <<front, rear, next, data, used, held, strayed>>
    BY <1>a, <2>1, <2>3, LevelEnqStep DEF Level!EnqChild, Level!queue
  <2>5. QueueOK' /\ Lent' = Lent /\ Covers(Waits', tree, p, c + 1)
    BY <1>a, <1>b, <2>2, <2>3, <2>4, EnqPlace
  <2>6. Mark' = Mark /\ Edge' = 2 * p + 1
    BY <2>1, <2>2 DEF Mark, Edge
  <2> QED
    BY <1>a, <1>b, <2>1, <2>2, <2>3, <2>5, <2>6 DEF LevelInv
<1>7. CASE Level!Return
  <2>1. /\ at = "loop" /\ at' = "done" /\ front = None /\ UNCHANGED <<p, node, order>>
        /\ UNCHANGED <<front, rear, next, data, used, held, strayed>>
    BY <1>7 DEF Level!Return, Level!Queue!Empty, Level!queue
  <2>2. QueueOK' /\ Waits' = Waits /\ Lent' = Lent
    BY <1>a, <2>1 DEF QueueOK, Waits, Lent, Queued
  <2>3. tree # {}
    <3> SUFFICES ASSUME tree = {} PROVE FALSE
      OBVIOUS
    <3>1. Len(held) = 1 /\ held \in Seq(Node)
      BY <1>a, <1>b, <2>1, WaitsSeq DEF QueueOK
    <3>2. held # <<>> /\ held[1] \in Node
      BY <3>1
    <3> QED
      BY <1>a, <2>1, <3>2, NullIsApart DEF QueueOK
  <2>4. Mark' = Mark /\ Edge' = Edge
    BY <2>1 DEF Mark, Edge
  <2> QED
    BY <1>a, <1>b, <2>1, <2>2, <2>3, <2>4 DEF LevelInv
<1> QED
  BY <1>1, <1>2, <1>3, <1>4, <1>5, <1>6, <1>7 DEF Level!Next

LEMMA LevelShows ==
  LevelInv => Level!ByLevels /\ Level!HoldsFrontier /\ Level!NothingLeaked
<1> SUFFICES ASSUME LevelInv
             PROVE  Level!ByLevels /\ Level!HoldsFrontier /\ Level!NothingLeaked
  OBVIOUS
<1>a. tree \in Trees /\ tree \subseteq Nat \ {0} /\ QueueOK /\ \A x \in tree : x # 1 => x \div 2 \in tree
  BY TreeFacts DEF LevelInv
<1>1. CASE tree = {}
  <2>1. /\ at \in {"start", "loop", "segv"}
        /\ order = IF at = "segv" THEN <<None>> ELSE <<>>
        /\ at = "loop" => Lent = {}
    BY <1>1 DEF LevelInv
  <2>2. Len(order) \in 0 .. 1
    BY <2>1
  <2>3. Level!ByLevels
    BY <1>1, <2>2 DEF Level!ByLevels
  <2>4. Level!HoldsFrontier
    BY <1>1 DEF Level!HoldsFrontier
  <2>5. Level!NothingLeaked
    BY <1>a, <2>1 DEF Level!NothingLeaked, Lent, Queued, QueueOK
  <2> QED
    BY <2>3, <2>4, <2>5
<1>2. CASE tree # {}
  <2>1. /\ p \in tree \cup {None} /\ Covers(Waits, tree, Mark, Edge) /\ Covers(order, tree, 0, Mark)
        /\ at \in {"loop", "done"} => Lent = {} /\ Edge = 2 * Mark + 1
    BY <1>2 DEF LevelInv, Edge
  <2>2. Mark \in Nat
    BY <1>a, <2>1 DEF Mark
  <2>3. Level!Visited = {x \in tree : x <= Mark}
    <3>1. \A j \in 1 .. Len(order) : order[j] \in tree
      BY <2>1 DEF Covers
    <3>2. \A x \in tree : (\E j \in 1 .. Len(order) : order[j] = x) <=> x <= Mark
      BY <1>a, <2>1, <2>2 DEF Covers
    <3> QED
      BY <3>1, <3>2 DEF Level!Visited
  <2>4. Level!ByLevels
    <3>1. \A j, k \in 1 .. Len(order) : j < k => order[j] < order[k]
      BY <2>1 DEF Covers, Rising
    <3>2. \A x \in tree \ Level!Visited, y \in Level!Visited : y < x
      BY <1>a, <2>2, <2>3
    <3> QED
      BY <3>1, <3>2 DEF Level!ByLevels
  <2>5. Level!HoldsFrontier
    <3> SUFFICES ASSUME at = "loop"
                 PROVE  /\ Level!Waiting = {x \in tree \ Level!Visited : x = 1 \/ Level!Parent(x) \in Level!Visited}
                        /\ Level!Cardinality(Level!Waiting) = Len(held)
      BY DEF Level!HoldsFrontier
    <3>1. Covers(Waits, tree, Mark, 2 * Mark + 1) /\ Len(Waits) = Len(held) /\ Len(held) \in Nat
      BY <1>a, <2>1, WaitsSeq
    <3>2. Waits \in Seq(tree) /\ Rising(Waits) /\ \A j \in 1 .. Len(held) : Waits[j] \in tree
      BY <3>1 DEF Covers
    <3>3. Level!Waiting = {x \in tree : Mark < x /\ x <= 2 * Mark + 1}
      <4>1. Level!Waiting = {Waits[j] : j \in 1 .. Len(held)}
        BY DEF Level!Waiting, Waits
      <4>2. \A x \in tree : (\E j \in 1 .. Len(held) : Waits[j] = x) <=> (Mark < x /\ x <= 2 * Mark + 1)
        BY <3>1 DEF Covers
      <4> QED
        BY <3>2, <4>1, <4>2
    <3>4. ASSUME NEW x \in tree
          PROVE  (Mark < x /\ x <= 2 * Mark + 1) <=> (x \notin Level!Visited /\ (x = 1 \/ x \div 2 \in Level!Visited))
      <4>1. x \notin Level!Visited <=> Mark < x
        BY <1>a, <2>2, <2>3
      <4>2. CASE x = 1
        BY <2>2, <4>1, <4>2
      <4>3. CASE x # 1
        <5>1. x \div 2 \in Level!Visited <=> x \div 2 <= Mark
          BY <1>a, <2>3, <4>3
        <5>2. x \div 2 <= Mark <=> x <= 2 * Mark + 1
          BY <1>a, <2>2
        <5> QED
          BY <4>1, <4>3, <5>1, <5>2
      <4> QED
        BY <4>2, <4>3
    <3>5. Level!Waiting = {x \in tree \ Level!Visited : x = 1 \/ Level!Parent(x) \in Level!Visited}
      BY <3>3, <3>4 DEF Level!Parent
    <3>6. Cardinality(Level!Waiting) = Len(held)
      <4>1. PICK S, w : S = Level!Waiting /\ w = Waits
        OBVIOUS
      <4>2. w \in Seq(S) /\ \A x \in S : \E j \in 1 .. Len(w) : w[j] = x
        <5>1. S = {w[j] : j \in 1 .. Len(w)}
          BY <3>1, <4>1 DEF Level!Waiting, Waits
        <5>2. w \in [1 .. Len(w) -> tree]
          BY <3>2, <4>1
        <5>3. w \in [1 .. Len(w) -> S] /\ Len(w) \in Nat
          BY <3>1, <4>1, <5>1, <5>2
        <5> QED
          BY <5>1, <5>3
      <4>3. Distinct(w)
        <5>1. \A j, k \in 1 .. Len(w) : j < k => w[j] < w[k]
          BY <3>2, <4>1 DEF Rising
        <5>2. \A j \in 1 .. Len(w) : w[j] \in Nat
          BY <1>a, <3>1, <3>2, <4>1
        <5> QED
          BY <5>1, <5>2 DEF Distinct
      <4> QED
        BY <3>1, <4>1, <4>2, <4>3, DistinctCounts
    <3>7. Level!Cardinality(Level!Waiting) = Cardinality(Level!Waiting)
      BY DEF Level!Cardinality, Cardinality
    <3> QED
      BY <3>5, <3>6, <3>7
  <2>6. Level!NothingLeaked
    BY <1>a, <2>1 DEF Level!NothingLeaked, Lent, Queued, QueueOK
  <2> QED
    BY <2>4, <2>5, <2>6
<1> QED
  BY <1>1, <1>2
-----------------------------------------------------------------------------
(***************************************************************************)
(* is_entire_bitree.  Up to the edge the tree has no gap (Solid), and      *)
(* before `fail' is set it has every place (Full); `fail' stands for a     *)
(* node that lacks a child (Lacks).                                        *)
(***************************************************************************)
Solid(T, c) == \A x \in T : x <= c => 1 .. x \subseteq T
Full(T, c) == 1 .. c \subseteq T
Lacks(T, c) == \E x \in T : x <= c /\ (2 * x \notin T \/ 2 * x + 1 \notin T)

YesTells == /\ Entire!Complete({x \in tree : x <= p})
            /\ \A x \in tree : x > p => Entire!Under(x, p)

Walking == at \notin {"destory", "done"}

EntireInv ==
  /\ tree \in Trees /\ tree # {}
  /\ at \in {"start", "loop", "free", "judge", "right", "break", "destory", "done"}
  /\ QueueOK
  /\ Lent = IF at = "free" THEN {node} ELSE {}
  /\ p \in tree \cup {None} /\ (at \notin {"start", "loop"} => p \in tree) /\ (at = "start" => p = None)
  /\ fail \in BOOLEAN /\ (at = "start" => ~fail)
  /\ at = "done" => held = <<>>
  /\ Walking => /\ Covers(Waits, tree, Mark, Edge) /\ result = None
                /\ Solid(tree, Edge) /\ (~fail => Full(tree, Edge))
                /\ fail => Lacks(tree, IF at \in {"free", "judge"} THEN Mark - 1 ELSE Mark)
  /\ at = "right" /\ fail => 2 * p \notin tree
  /\ at \in {"break", "destory"} \/ result = FALSE => ~Entire!Complete(tree)
  /\ result = TRUE => YesTells

LEMMA CompleteIs ==
  ASSUME NEW T \in Trees, Entire!Complete(T)
  PROVE  \E n \in Nat : T = 1 .. n
<1>1. IsFiniteSet(T)
  BY TreeFacts
<1>2. Cardinality(T) \in Nat
  BY <1>1, FS_CardinalityType
<1>3. Entire!Cardinality(T) = Cardinality(T)
  BY DEF Entire!Cardinality, Cardinality
<1> QED
  BY <1>2, <1>3 DEF Entire!Complete

LEMMA CompleteUpTo ==
  ASSUME NEW T \in Trees, NEW q \in T, 1 .. q \subseteq T
  PROVE  Entire!Complete({x \in T : x <= q})
<1>1. q \in Nat /\ {x \in T : x <= q} = 1 .. q
  BY TreeFacts
<1>2. Cardinality(1 .. q) = q
  BY <1>1, FS_Interval
<1>3. Entire!Cardinality(1 .. q) = Cardinality(1 .. q)
  BY DEF Entire!Cardinality, Cardinality
<1> QED
  BY <1>1, <1>2, <1>3 DEF Entire!Complete

LEMMA FullIsSolid ==
  ASSUME NEW T \in Trees, NEW c \in Nat, Full(T, c)
  PROVE  Solid(T, c)
<1>1. \A x \in T : x \in Nat
  BY TreeFacts
<1> QED
  BY <1>1 DEF Full, Solid

LEMMA FullMore ==
  ASSUME NEW T \in Trees, NEW c \in Nat, Full(T, c), c + 1 \in T
  PROVE  Full(T, c + 1) /\ Solid(T, c + 1)
<1>1. 1 .. c + 1 = (1 .. c) \cup {c + 1}
  OBVIOUS
<1>2. Full(T, c + 1)
  BY <1>1 DEF Full
<1>3. c + 1 \in Nat
  OBVIOUS
<1> QED
  BY <1>2, <1>3, FullIsSolid

LEMMA SolidSame ==
  ASSUME NEW T \in Trees, NEW c \in Nat, Solid(T, c), c + 1 \notin T
  PROVE  Solid(T, c + 1)
<1>1. \A x \in T : x \in Nat /\ (x <= c <=> x <= c + 1)
  BY TreeFacts
<1> QED
  BY <1>1 DEF Solid

LEMMA CoverLess ==
  ASSUME NEW T \in Trees, NEW q \in Nat, NEW c \in Nat, c + 1 \notin T,
         NEW w, Covers(w, T, q, c + 1)
  PROVE  Covers(w, T, q, c)
<1>1. \A x \in T : x \in Nat /\ (x <= c <=> x <= c + 1)
  BY TreeFacts
<1> QED
  BY <1>1 DEF Covers

LEMMA EntireEnqStep ==
  ASSUME NEW v, Entire!Queue!Enq(v)
  PROVE  EnqStep(v) /\ pc' = pc
<1>1. CASE Entire!Queue!EnqFirst(v)
  BY <1>1 DEF Entire!Queue!EnqFirst, Entire!Queue!Put, Leftover, EnqStep
<1>2. CASE Entire!Queue!EnqNext(v)
  BY <1>2 DEF Entire!Queue!EnqNext, Entire!Queue!Put, Leftover, EnqStep
<1> QED
  BY <1>1, <1>2 DEF Entire!Queue!Enq

LEMMA EntireInit == Entire!Init => EntireInv
<1> SUFFICES ASSUME Entire!Init PROVE EntireInv
  OBVIOUS
<1>1. /\ tree \in Trees /\ tree # {} /\ at = "start" /\ p = None /\ fail = FALSE /\ result = None
      /\ used = {} /\ front = None /\ rear = None /\ held = <<>> /\ strayed = FALSE
      /\ next = [n \in Node |-> None] /\ data = [n \in Node |-> None]
  BY DEF Entire!Init, Entire!Queue!Init
<1>2. QueueOK
  BY <1>1 DEF QueueOK, Distinct
<1>3. Waits = <<>> /\ Lent = {}
  BY <1>1 DEF Waits, Lent
<1>4. Mark = 0 /\ Edge = 0
  BY <1>1 DEF Mark, Edge
<1>5. Covers(<<>>, tree, 0, 0)
  BY <1>1, CoverNone
<1>6. Full(tree, 0) /\ Solid(tree, 0)
  BY <1>1, FullIsSolid DEF Full
<1>7. result # TRUE /\ result # FALSE /\ fail \in BOOLEAN
  BY <1>1, NullIsApart
<1> QED
  BY <1>1, <1>2, <1>3, <1>4, <1>5, <1>6, <1>7 DEF EntireInv

(***************************************************************************)
(* What the steps of is_entire_bitree find, by the place the code is at.   *)
(***************************************************************************)
LEMMA EntireFacts ==
  ASSUME EntireInv
  PROVE  /\ tree \in Trees /\ tree # {} /\ QueueOK /\ tree \subseteq Nat \ {0} /\ None \notin tree
         /\ 1 \in tree /\ fail \in BOOLEAN
         /\ Mark \in Nat /\ (p \in tree => Mark = p /\ p \in Nat \ {0})
<1>1. tree \in Trees /\ tree # {} /\ QueueOK /\ fail \in BOOLEAN /\ p \in tree \cup {None}
  BY DEF EntireInv
<1>2. tree \subseteq Nat \ {0} /\ None \notin tree /\ 1 \in tree
  BY <1>1, TreeFacts, RootIn
<1> QED
  BY <1>1, <1>2 DEF Mark

LEMMA EntireRoot ==
  ASSUME EntireInv, Entire!EnqRoot PROVE EntireInv'
<1>a. /\ tree \in Trees /\ tree # {} /\ QueueOK /\ tree \subseteq Nat \ {0} /\ None \notin tree
      /\ 1 \in tree /\ fail \in BOOLEAN
  BY EntireFacts
<1>1. /\ at = "start" /\ at' = "loop" /\ UNCHANGED <<tree, p, node, fail, result>> /\ EnqStep(1)
  BY <1>a, EntireEnqStep DEF Entire!EnqRoot, Entire!Root
<1>2. /\ Lent = {} /\ p = None /\ ~fail /\ Covers(Waits, tree, Mark, Edge) /\ result = None
  BY <1>1 DEF EntireInv, Walking
<1>3. Mark = 0 /\ Mark' = 0 /\ Edge = 0 /\ Edge' = 1 /\ 0 + 1 = 1
  BY <1>1, <1>2 DEF Mark, Edge
<1>4. QueueOK' /\ Lent' = Lent /\ Covers(Waits', tree, 0, 0 + 1)
  BY <1>a, <1>1, <1>2, <1>3, EnqPlace, 0 \in Nat, 0 <= 0
<1>5. Full(tree, 0 + 1) /\ Solid(tree, 0 + 1)
  <2>1. Full(tree, 0)
    BY DEF Full
  <2> QED
    BY <1>a, <1>3, <2>1, FullMore, 0 \in Nat
<1>6. result # TRUE /\ result # FALSE
  BY <1>2, NullIsApart
<1> QED
  BY <1>a, <1>1, <1>2, <1>3, <1>4, <1>5, <1>6 DEF EntireInv, Walking

LEMMA EntireTake ==
  ASSUME EntireInv, Entire!Take PROVE EntireInv'
<1>a. /\ tree \in Trees /\ tree # {} /\ QueueOK /\ tree \subseteq Nat \ {0} /\ None \notin tree
      /\ fail \in BOOLEAN /\ Mark \in Nat
  BY EntireFacts
<1>1. /\ at = "loop" /\ at' = "free" /\ p' = data[front] /\ node' = front
      /\ UNCHANGED <<tree, fail, result>> /\ UnlinkStep /\ used' = used
  BY DEF Entire!Take, Entire!Queue!Deq, Entire!Queue!Unlink, UnlinkStep
<1>2. PICK q \in Nat : q = Mark /\ Edge = 2 * q + 1
  BY <1>a, <1>1 DEF Edge
<1>3. /\ Lent = {} /\ Covers(Waits, tree, q, 2 * q + 1) /\ result = None
      /\ Solid(tree, 2 * q + 1) /\ (~fail => Full(tree, 2 * q + 1)) /\ (fail => Lacks(tree, q))
  BY <1>1, <1>2 DEF EntireInv, Walking
<1>4. /\ QueueOK' /\ p' \in tree /\ q < p' /\ p' <= 2 * q + 1
      /\ \A x \in tree : q < x => p' <= x
      /\ Covers(Waits', tree, p', 2 * p' - 1)
      /\ Lent' = Lent \cup {front}
  BY <1>a, <1>1, <1>3, TakePlace
<1>5. p' = q + 1
  <2>1. p' \in Nat /\ q + 1 \in 1 .. p'
    BY <1>a, <1>4
  <2>2. q + 1 \in tree
    BY <1>3, <1>4, <2>1 DEF Solid
  <2> QED
    BY <1>4, <2>1, <2>2
<1>6. Mark' = p' /\ Edge' = 2 * p' - 1 /\ 2 * p' - 1 = 2 * q + 1 /\ Mark' - 1 = q
  BY <1>a, <1>1, <1>4, <1>5 DEF Mark, Edge
<1>7. result # TRUE /\ result # FALSE
  BY <1>3, NullIsApart
<1> QED
  BY <1>a, <1>1, <1>3, <1>4, <1>6, <1>7 DEF EntireInv, Walking

LEMMA EntireRelease ==
  ASSUME EntireInv, Entire!Release PROVE EntireInv'
<1>1. /\ at = "free" /\ at' = "judge" /\ UNCHANGED <<tree, p, node, fail, result>> /\ node \in Lent
      /\ used' = used \ {node} /\ UNCHANGED <<front, rear, next, data, held, strayed>>
  BY DEF Entire!Release, Entire!Queue!Free, Entire!Queue!Lent, Lent, Queued
<1>2. QueueOK /\ Lent = {node}
  BY <1>1 DEF EntireInv
<1>3. used' \subseteq Node /\ Queued \subseteq used'
  <2>1. used \subseteq Node /\ Queued \subseteq used
    BY <1>2 DEF QueueOK, Queued
  <2> QED
    BY <1>1, <2>1 DEF Lent
<1>4. QueueOK' /\ Waits' = Waits /\ Queued' = Queued
  BY <1>1, <1>2, <1>3, QueueFrame DEF QueueOK
<1>5. Lent' = {}
  BY <1>1, <1>2, <1>4 DEF Lent
<1>6. Mark' = Mark /\ Edge' = Edge
  BY <1>1 DEF Mark, Edge
<1>7. result # TRUE /\ result # FALSE
  BY <1>1, NullIsApart DEF EntireInv, Walking
<1> QED
  BY <1>1, <1>4, <1>5, <1>6, <1>7 DEF EntireInv, Walking

LEMMA EntireJudgeLate ==
  ASSUME EntireInv, Entire!JudgeLate PROVE EntireInv'
<1>a. /\ tree \in Trees /\ tree # {} /\ QueueOK /\ tree \subseteq Nat \ {0} /\ None \notin tree
      /\ fail \in BOOLEAN
  BY EntireFacts
<1>1. /\ at = "judge" /\ fail
      /\ at' = IF Entire!Left = None /\ Entire!Right = None THEN "loop" ELSE "break"
      /\ UNCHANGED <<tree, p, node, fail, result>>
      /\ UNCHANGED <<front, rear, next, data, used, held, strayed>>
  BY DEF Entire!JudgeLate, Entire!queue
<1>2. /\ p \in tree /\ p \in Nat \ {0} /\ Mark = p /\ Edge = 2 * p - 1 /\ Lent = {} /\ result = None
  BY <1>1, EntireFacts DEF EntireInv, Edge, Walking
<1>3. /\ Covers(Waits, tree, p, 2 * p - 1) /\ Solid(tree, 2 * p - 1) /\ Lacks(tree, p - 1)
  BY <1>1, <1>2 DEF EntireInv, Walking
<1>4. /\ Entire!Left = None <=> 2 * p \notin tree
      /\ Entire!Right = None <=> 2 * p + 1 \notin tree
  BY <1>a DEF Entire!Left, Entire!Right, Entire!LeftChild, Entire!RightChild
<1>5. QueueOK' /\ Waits' = Waits /\ Lent' = Lent /\ Mark' = Mark
  BY <1>a, <1>1 DEF QueueOK, Waits, Lent, Queued, Mark
<1>6. result # TRUE /\ result # FALSE
  BY <1>2, NullIsApart
<1>7. Lacks(tree, p)
  <2>1. PICK x \in tree : x <= p - 1 /\ (2 * x \notin tree \/ 2 * x + 1 \notin tree)
    BY <1>3 DEF Lacks
  <2>2. x <= p
    BY <1>a, <1>2, <2>1
  <2> QED
    BY <2>1, <2>2 DEF Lacks
<1>8. CASE 2 * p \notin tree /\ 2 * p + 1 \notin tree
  <2>1. PICK c \in Nat : c = 2 * p - 1 /\ c + 1 = 2 * p /\ (c + 1) + 1 = 2 * p + 1 /\ c + 1 \in Nat
    BY <1>2
  <2>2. Covers(Waits, tree, p, (c + 1) + 1) /\ Solid(tree, (c + 1) + 1)
    <3>1. PICK q \in Nat, w \in {Waits} : q = p
      BY <1>2
    <3>2. Covers(w, tree, q, c + 1) /\ Solid(tree, c + 1)
      BY <1>a, <1>3, <1>8, <2>1, <3>1, CoverSame, SolidSame
    <3>3. Covers(w, tree, q, (c + 1) + 1) /\ Solid(tree, (c + 1) + 1)
      BY <1>a, <1>8, <2>1, <3>2, CoverSame, SolidSame
    <3> QED
      BY <3>1, <3>3
  <2>3. at' = "loop" /\ Edge' = 2 * p + 1
    BY <1>1, <1>2, <1>4, <1>5, <1>8 DEF Edge
  <2> QED
    BY <1>a, <1>1, <1>2, <1>5, <1>6, <1>7, <2>1, <2>2, <2>3 DEF EntireInv, Walking
<1>9. CASE 2 * p \in tree \/ 2 * p + 1 \in tree
  <2>1. at' = "break" /\ Edge' = 2 * p - 1
    BY <1>1, <1>2, <1>4, <1>5, <1>9 DEF Edge
  <2>2. ~Entire!Complete(tree)
    <3> SUFFICES ASSUME Entire!Complete(tree) PROVE FALSE
      OBVIOUS
    <3>1. PICK n \in Nat : tree = 1 .. n
      BY <1>a, CompleteIs
    <3>2. PICK x \in tree : x <= p - 1 /\ (2 * x \notin tree \/ 2 * x + 1 \notin tree)
      BY <1>3 DEF Lacks
    <3>3. x \in Nat /\ 2 * x + 1 > n
      BY <1>a, <3>1, <3>2
    <3> QED
      BY <1>2, <1>9, <3>1, <3>2, <3>3
  <2> QED
    BY <1>a, <1>1, <1>2, <1>3, <1>5, <1>6, <1>7, <2>1, <2>2 DEF EntireInv, Walking
<1> QED
  BY <1>8, <1>9

LEMMA EntireJudgeLeft ==
  ASSUME EntireInv, Entire!JudgeLeft PROVE EntireInv'
<1>a. /\ tree \in Trees /\ tree # {} /\ QueueOK /\ tree \subseteq Nat \ {0} /\ None \notin tree
  BY EntireFacts
<1>0. /\ Entire!Left = IF 2 * p \in tree THEN 2 * p ELSE None
      /\ Entire!Left = None <=> 2 * p \notin tree
  BY <1>a DEF Entire!Left, Entire!LeftChild
<1>1. /\ at = "judge" /\ ~fail /\ at' = "right" /\ UNCHANGED <<tree, p, node, result>>
      /\ IF 2 * p \in tree THEN EnqStep(2 * p)
                           ELSE UNCHANGED <<front, rear, next, data, used, held, strayed>>
  BY <1>0, EntireEnqStep DEF Entire!JudgeLeft, Entire!queue
<1>b. fail' = (2 * p \notin tree)
  BY <1>0 DEF Entire!JudgeLeft
<1>2. /\ p \in tree /\ p \in Nat \ {0} /\ Mark = p /\ Edge = 2 * p - 1 /\ Lent = {} /\ result = None
  BY <1>1, EntireFacts DEF EntireInv, Edge, Walking
<1>3. /\ Covers(Waits, tree, p, 2 * p - 1) /\ Solid(tree, 2 * p - 1) /\ Full(tree, 2 * p - 1)
  BY <1>1, <1>2 DEF EntireInv, Walking
<1>4. PICK c \in Nat : c = 2 * p - 1 /\ p <= c /\ 2 * p = c + 1
  BY <1>2
<1>5. QueueOK' /\ Lent' = Lent /\ Covers(Waits', tree, p, c + 1)
  BY <1>a, <1>1, <1>2, <1>3, <1>4, EnqPlace
<1>6. Mark' = Mark /\ Edge' = 2 * p
  BY <1>1, <1>2 DEF Mark, Edge
<1>7. result # TRUE /\ result # FALSE
  BY <1>2, NullIsApart
<1>8. Solid(tree, 2 * p)
  BY <1>a, <1>3, <1>4, FullMore, SolidSame
<1>9. ~fail' => Full(tree, 2 * p)
  BY <1>a, <1>b, <1>3, <1>4, FullMore
<1>10. fail' => Lacks(tree, p)
  <2>1. p <= p
    BY <1>2
  <2>2. 2 * p \notin tree => Lacks(tree, p)
    BY <1>2, <2>1 DEF Lacks
  <2> QED
    BY <1>b, <2>2
<1>11. fail' \in BOOLEAN /\ (fail' => 2 * p \notin tree)
  BY <1>b
<1> QED
  BY <1>a, <1>1, <1>2, <1>4, <1>5, <1>6, <1>7, <1>8, <1>9, <1>10, <1>11 DEF EntireInv, Walking

LEMMA EntireJudgeRight ==
  ASSUME EntireInv, Entire!JudgeRight PROVE EntireInv'
<1>a. /\ tree \in Trees /\ tree # {} /\ QueueOK /\ tree \subseteq Nat \ {0} /\ None \notin tree
      /\ fail \in BOOLEAN
  BY EntireFacts
<1>0. /\ Entire!Right = IF 2 * p + 1 \in tree THEN 2 * p + 1 ELSE None
      /\ Entire!Right = None <=> 2 * p + 1 \notin tree
  BY <1>a DEF Entire!Right, Entire!RightChild
<1>1. /\ at = "right" /\ UNCHANGED <<tree, p, node, result>>
      /\ at' = IF 2 * p + 1 \in tree /\ fail THEN "break" ELSE "loop"
      /\ IF 2 * p + 1 \in tree /\ ~fail
         THEN EnqStep(2 * p + 1) ELSE UNCHANGED <<front, rear, next, data, used, held, strayed>>
  BY <1>0, EntireEnqStep DEF Entire!JudgeRight, Entire!queue
<1>b. fail' = (fail \/ 2 * p + 1 \notin tree)
  BY <1>0 DEF Entire!JudgeRight
<1>2. /\ p \in tree /\ p \in Nat \ {0} /\ Mark = p /\ Edge = 2 * p /\ Lent = {} /\ result = None
  BY <1>1, EntireFacts DEF EntireInv, Edge, Walking
<1>3. /\ Covers(Waits, tree, p, 2 * p) /\ Solid(tree, 2 * p) /\ (~fail => Full(tree, 2 * p))
      /\ fail => Lacks(tree, p) /\ 2 * p \notin tree
  BY <1>1, <1>2 DEF EntireInv, Walking
<1>4. result # TRUE /\ result # FALSE
  BY <1>2, NullIsApart
<1>5. Mark' = Mark
  BY <1>1 DEF Mark
<1>6. fail' \in BOOLEAN
  BY <1>b
<1>7. CASE 2 * p + 1 \in tree /\ fail
  <2>1. at' = "break" /\ Edge' = 2 * p - 1 /\ fail'
    BY <1>1, <1>2, <1>5, <1>7, <1>b DEF Edge
  <2>2. QueueOK' /\ Waits' = Waits /\ Lent' = Lent
    BY <1>a, <1>1, <1>7 DEF QueueOK, Waits, Lent, Queued
  <2>3. PICK c \in Nat : c = 2 * p - 1 /\ c + 1 = 2 * p
    BY <1>2
  <2>4. Covers(Waits, tree, p, c)
    <3>1. PICK q \in Nat, w \in {Waits} : q = p
      BY <1>2
    <3> QED
      BY <1>a, <1>3, <1>7, <2>3, <3>1, CoverLess
  <2>5. Solid(tree, c)
    <3>1. \A x \in tree : x <= c => x <= c + 1
      BY <1>a
    <3> QED
      BY <1>3, <2>3, <3>1 DEF Solid
  <2>6. ~Entire!Complete(tree)
    <3> SUFFICES ASSUME Entire!Complete(tree) PROVE FALSE
      OBVIOUS
    <3>1. PICK n \in Nat : tree = 1 .. n
      BY <1>a, CompleteIs
    <3> QED
      BY <1>2, <1>3, <1>7, <3>1
  <2> QED
    BY <1>a, <1>1, <1>2, <1>3, <1>4, <1>5, <1>6, <1>7, <2>1, <2>2, <2>3, <2>4, <2>5, <2>6
    DEF EntireInv, Walking
<1>8. CASE ~(2 * p + 1 \in tree /\ fail)
  <2>1. at' = "loop" /\ Edge' = 2 * p + 1
    BY <1>1, <1>2, <1>5, <1>8 DEF Edge
  <2>2. PICK c \in Nat : c = 2 * p /\ p <= c
    BY <1>2
  <2>3. IF c + 1 \in tree THEN EnqStep(c + 1)
                         ELSE UNCHANGED <<front, rear, next, data, used, held, strayed>>
    BY <1>1, <1>8, <2>2
  <2>4. QueueOK' /\ Lent' = Lent /\ Covers(Waits', tree, p, c + 1)
    BY <1>a, <1>2, <1>3, <2>2, <2>3, EnqPlace
  <2>5. Solid(tree, 2 * p + 1)
    <3>1. CASE 2 * p + 1 \in tree
      BY <1>a, <1>3, <1>8, <2>2, <3>1, FullMore
    <3>2. CASE 2 * p + 1 \notin tree
      BY <1>a, <1>3, <2>2, <3>2, SolidSame
    <3> QED
      BY <3>1, <3>2
  <2>6. ~fail' => Full(tree, 2 * p + 1)
    BY <1>a, <1>b, <1>3, <2>2, FullMore
  <2>7. fail' => Lacks(tree, p)
    <3>1. p <= p
      BY <1>2
    <3>2. 2 * p + 1 \notin tree => Lacks(tree, p)
      BY <1>2, <3>1 DEF Lacks
    <3> QED
      BY <1>b, <1>3, <3>2
  <2> QED
    BY <1>a, <1>1, <1>2, <1>4, <1>5, <1>6, <2>1, <2>2, <2>4, <2>5, <2>6, <2>7 DEF EntireInv, Walking
<1> QED
  BY <1>7, <1>8

LEMMA EntireSayYes ==
  ASSUME EntireInv, Entire!SayYes PROVE EntireInv'
<1>a. /\ tree \in Trees /\ tree # {} /\ QueueOK /\ tree \subseteq Nat \ {0} /\ 1 \in tree
      /\ Mark \in Nat /\ (p \in tree => Mark = p)
  BY EntireFacts
<1>1. /\ at \in {"loop", "break"} /\ front = None /\ result' = TRUE /\ at' = "done"
      /\ UNCHANGED <<tree, p, node, fail>>
      /\ UNCHANGED <<front, rear, next, data, used, held, strayed>>
  BY DEF Entire!SayYes, Entire!Queue!Empty, Entire!queue
<1>2. held = <<>> /\ Waits = <<>>
  <2>1. held \in Seq(Node) /\ (held # <<>> => front = held[1])
    BY <1>a DEF QueueOK
  <2>2. held # <<>> => Len(held) \in Nat \ {0} /\ held[1] \in Node
    BY <2>1, EmptySeq
  <2>3. held = <<>>
    BY <1>1, <2>1, <2>2, NullIsApart
  <2> QED
    BY <2>3 DEF Waits
<1>3. /\ Lent = {} /\ Covers(<<>>, tree, Mark, Edge) /\ Solid(tree, Edge) /\ p \in tree \cup {None}
      /\ at = "break" => p \in tree
  BY <1>1, <1>2 DEF EntireInv, Walking
<1>4. at = "loop" => Edge = 2 * Mark + 1 /\ \A x \in tree : x <= Mark
  <2> SUFFICES ASSUME at = "loop" PROVE Edge = 2 * Mark + 1 /\ \A x \in tree : x <= Mark
    OBVIOUS
  <2>1. PICK q \in Nat : q = Mark /\ Edge = 2 * q + 1
    BY <1>a DEF Edge
  <2>2. \A x \in tree : x <= q
    BY <1>a, <1>3, <2>1, CoverEmpty
  <2> QED
    BY <2>1, <2>2
<1>5. at = "break" => Edge = 2 * p - 1 /\ \A x \in tree : ~(p < x /\ x <= 2 * p - 1)
  <2> SUFFICES ASSUME at = "break" PROVE Edge = 2 * p - 1 /\ \A x \in tree : ~(p < x /\ x <= 2 * p - 1)
    OBVIOUS
  <2>1. Edge = 2 * p - 1 /\ Mark = p
    BY <1>a, <1>3 DEF Edge
  <2> QED
    BY <1>3, <2>1 DEF Covers
<1>6. p \in tree /\ p \in Nat \ {0} /\ Mark = p
  <2>1. at = "loop" => p \in tree
    BY <1>a, <1>3, <1>4 DEF Mark
  <2> QED
    BY <1>a, <1>1, <1>3, <2>1
<1>7. 1 .. p \subseteq tree
  <2>1. p <= Edge
    BY <1>1, <1>4, <1>5, <1>6
  <2> QED
    BY <1>3, <1>6, <2>1 DEF Solid
<1>8. Entire!Complete({x \in tree : x <= p})
  BY <1>a, <1>6, <1>7, CompleteUpTo
<1>9. \A x \in tree : x > p => Entire!Under(x, p)
  <2>1. CASE at = "loop"
    <3>1. \A x \in tree : ~(x > p)
      BY <1>a, <1>4, <1>6, <2>1
    <3> QED
      BY <3>1
  <2>2. CASE at = "break"
    BY <1>a, <1>5, <1>6, <2>2, AllUnder
  <2> QED
    BY <1>1, <2>1, <2>2
<1>10. YesTells
  BY <1>8, <1>9 DEF YesTells
<1>11. QueueOK' /\ Waits' = Waits /\ Lent' = Lent /\ YesTells'
  <2>1. YesTells'
    BY <1>1, <1>10 DEF YesTells
  <2> QED
    BY <1>a, <1>1, <2>1 DEF QueueOK, Waits, Lent, Queued
<1>12. fail' \in BOOLEAN /\ result' # FALSE
  BY <1>1 DEF EntireInv
<1> QED
  BY <1>a, <1>1, <1>2, <1>3, <1>6, <1>11, <1>12 DEF EntireInv, Walking

LEMMA EntireSayNo ==
  ASSUME EntireInv, Entire!SayNo PROVE EntireInv'
<1>1. /\ at = "break" /\ at' = "destory" /\ UNCHANGED <<tree, p, node, fail, result>>
      /\ UNCHANGED <<front, rear, next, data, used, held, strayed>>
  BY DEF Entire!SayNo, Entire!Queue!Destory
<1>2. QueueOK' /\ Lent' = Lent
  BY <1>1 DEF EntireInv, QueueOK, Lent, Queued
<1>3. result # TRUE
  BY <1>1, NullIsApart DEF EntireInv, Walking
<1> QED
  BY <1>1, <1>2, <1>3 DEF EntireInv, Walking

LEMMA EntireEmptyQueue ==
  ASSUME EntireInv, Entire!EmptyQueue PROVE EntireInv'
<1>1. at = "destory" /\ UNCHANGED <<tree, p, node, fail>>
  BY DEF Entire!EmptyQueue
<1>a. /\ tree \in Trees /\ tree # {} /\ QueueOK /\ Lent = {} /\ p \in tree /\ ~Entire!Complete(tree)
      /\ fail \in BOOLEAN /\ (result = TRUE => YesTells)
  BY <1>1 DEF EntireInv
<1>2. CASE front = None
  <2>1. /\ at' = "done" /\ result' = FALSE /\ UNCHANGED <<front, rear, next, data, used, held, strayed>>
    BY <1>2 DEF Entire!EmptyQueue, Entire!Queue!Empty, Entire!Queue!Drained
  <2>2. held = <<>>
    <3>1. held \in Seq(Node) /\ (held # <<>> => front = held[1])
      BY <1>a DEF QueueOK
    <3>2. held # <<>> => Len(held) \in Nat \ {0} /\ held[1] \in Node
      BY <3>1, EmptySeq
    <3> QED
      BY <1>2, <3>1, <3>2, NullIsApart
  <2>3. QueueOK' /\ Lent' = Lent
    BY <1>a, <2>1 DEF QueueOK, Lent, Queued
  <2>4. result' # TRUE
    BY <2>1
  <2> QED
    BY <1>a, <1>1, <2>1, <2>2, <2>3, <2>4 DEF EntireInv, Walking
<1>3. CASE front # None
  <2>1. UnlinkStep /\ used' = used \ {front} /\ result' = result /\ at' = at
    BY <1>3 DEF Entire!EmptyQueue, Entire!Queue!Empty, Entire!Queue!Drain, Entire!Queue!Unlink, UnlinkStep
  <2>2. QueueOK' /\ front \in Queued /\ Queued' = Queued \ {front}
    BY <1>a, <2>1, QueueUnlink
  <2>3. Lent' = {}
    BY <1>a, <2>1, <2>2 DEF Lent
  <2>4. result = TRUE => YesTells'
    BY <1>a, <1>1 DEF YesTells
  <2> QED
    BY <1>a, <1>1, <2>1, <2>2, <2>3, <2>4 DEF EntireInv, Walking
<1> QED
  BY <1>2, <1>3

LEMMA EntireStep ==
  ASSUME EntireInv, Entire!Next PROVE EntireInv'
BY EntireRoot, EntireTake, EntireRelease, EntireJudgeLate, EntireJudgeLeft, EntireJudgeRight,
   EntireSayYes, EntireSayNo, EntireEmptyQueue DEF Entire!Next

LEMMA EntireShows ==
  EntireInv => Entire!CompleteAccepted /\ Entire!AllButOneSubtree /\ Entire!NothingLeaked
<1> SUFFICES ASSUME EntireInv
             PROVE  Entire!CompleteAccepted /\ Entire!AllButOneSubtree /\ Entire!NothingLeaked
  OBVIOUS
<1>1. Entire!CompleteAccepted
  BY DEF EntireInv, Entire!CompleteAccepted
<1>2. Entire!AllButOneSubtree
  BY DEF EntireInv, Entire!AllButOneSubtree, YesTells
<1>3. Entire!NothingLeaked
  <2> SUFFICES ASSUME at = "done" PROVE used = {}
    BY DEF Entire!NothingLeaked
  <2>1. held = <<>> /\ Lent = {}
    BY DEF EntireInv
  <2>2. Queued = {}
    BY <2>1 DEF Queued
  <2> QED
    BY <2>1, <2>2 DEF Lent
<1> QED
  BY <1>1, <1>2, <1>3
-----------------------------------------------------------------------------
(***************************************************************************)
(* reverse_floor_traverse.  The stack takes its nodes from the memory of   *)
(* the queue: for the queue they are lent nodes.                           *)
(***************************************************************************)
StackOK ==
  /\ piled \in Seq(Node) /\ Distinct(piled)
  /\ top = IF piled = <<>> THEN None ELSE piled[Len(piled)]
  /\ piled # <<>> => next[piled[1]] = None
  /\ \A j \in 1 .. Len(piled) - 1 : next[piled[j + 1]] = piled[j]

Stacked == {piled[j] : j \in 1 .. Len(piled)}
Piles == [j \in 1 .. Len(piled) |-> data[piled[j]]]

\* s has been printed of the tree T, and w is left on the stack
PrintedFrom(T, w, s) ==
  /\ w \in Seq(T) /\ Rising(w) /\ s \in Seq(T)
  /\ \A j, k \in 1 .. Len(s) : j < k => s[j] > s[k]
  /\ \A j \in 1 .. Len(s), k \in 1 .. Len(w) : s[j] > w[k]
  /\ \A x \in T : (\E j \in 1 .. Len(w) : w[j] = x) \/ (\E j \in 1 .. Len(s) : s[j] = x)

Temp == IF at \in {"free", "freepop"} THEN {node} ELSE {}
Popping == at \in {"pop", "freepop", "done"}

ReverseInv ==
  /\ tree \in Trees /\ tree # {}
  /\ at \in {"start", "loop", "free", "pile", "left", "right", "pop", "freepop", "done"}
  /\ QueueOK /\ StackOK
  /\ Lent = Stacked \cup Temp /\ Stacked \cap Temp = {}
  /\ p \in tree \cup {None} /\ (at = "start" => p = None)
  /\ at \in {"free", "pile", "left", "right"} => p \in tree
  /\ Covers(Waits, tree, Mark, Edge)
  /\ Popping => held = <<>> /\ PrintedFrom(tree, Piles, printed)
  /\ ~Popping => printed = <<>> /\ Covers(IF at \in {"free", "pile"} THEN Append(Piles, p) ELSE Piles,
                                          tree, 0, Mark)
  /\ at = "done" => piled = <<>>

LEMMA PrintNext ==
  ASSUME NEW T \in Trees, NEW w, w # <<>>, NEW s, PrintedFrom(T, w, s),
         NEW v \in Seq(T), Len(v) = Len(w) - 1, \A j \in 1 .. Len(w) - 1 : v[j] = w[j]
  PROVE  PrintedFrom(T, v, Append(s, w[Len(w)]))
<1>a. T \subseteq Nat \ {0}
  BY TreeFacts
<1>b. /\ w \in Seq(T) /\ Rising(w) /\ s \in Seq(T) /\ Len(s) \in Nat
      /\ \A j, k \in 1 .. Len(s) : j < k => s[j] > s[k]
      /\ \A j \in 1 .. Len(s), k \in 1 .. Len(w) : s[j] > w[k]
      /\ \A x \in T : (\E j \in 1 .. Len(w) : w[j] = x) \/ (\E j \in 1 .. Len(s) : s[j] = x)
  BY DEF PrintedFrom
<1>c. Len(w) \in Nat \ {0} /\ Len(w) \in 1 .. Len(w) /\ \A j \in 1 .. Len(w) : w[j] \in T
  <2>1. Len(w) \in Nat /\ Len(w) # 0
    BY <1>b, EmptySeq
  <2> QED
    BY <1>b, <2>1
<1>p. PICK l1 \in T : l1 = w[Len(w)]
  BY <1>c
<1> DEFINE s1 == Append(s, l1)
<1>1. /\ l1 \in T /\ l1 \in Nat /\ s1 \in Seq(T) /\ Len(s1) = Len(s) + 1
      /\ \A j \in 1 .. Len(s) + 1 : s1[j] = IF j = Len(s) + 1 THEN l1 ELSE s[j]
  BY <1>a, <1>b, <1>c
<1>2. \A j \in 1 .. Len(w) - 1 : j \in 1 .. Len(w) /\ w[j] < l1
  BY <1>b, <1>c, <1>p DEF Rising
<1>3. \A j \in 1 .. Len(s) : s[j] > l1
  BY <1>b, <1>c, <1>p
<1> HIDE DEF s1
<1>4. \A j \in 1 .. Len(s) : s1[j] = s[j] /\ j \in 1 .. Len(s) + 1 /\ s[j] \in Nat
  <2>1. \A j \in 1 .. Len(s) : j \in 1 .. Len(s) + 1 /\ j # Len(s) + 1 /\ s[j] \in T
    BY <1>b
  <2> QED
    BY <1>a, <1>1, <2>1
<1>5. s1[Len(s) + 1] = l1 /\ Len(s) + 1 \in 1 .. Len(s) + 1
  BY <1>b, <1>1
<1>6. \A j \in 1 .. Len(s1) : j \in 1 .. Len(s) \/ j = Len(s) + 1
  BY <1>b, <1>1
<1>7. Rising(v)
  BY <1>b, <1>2 DEF Rising
<1>8. ASSUME NEW j \in 1 .. Len(s1), NEW k \in 1 .. Len(s1), j < k PROVE s1[j] > s1[k]
  <2>1. j \in 1 .. Len(s)
    BY <1>b, <1>1, <1>8
  <2>2. CASE k = Len(s) + 1
    BY <1>3, <1>4, <1>5, <2>1, <2>2
  <2>3. CASE k \in 1 .. Len(s)
    BY <1>b, <1>4, <1>8, <2>1, <2>3
  <2> QED
    BY <1>6, <2>2, <2>3
<1>9. ASSUME NEW j \in 1 .. Len(s1), NEW k \in 1 .. Len(v) PROVE s1[j] > v[k]
  <2>1. k \in 1 .. Len(w) - 1 /\ k \in 1 .. Len(w) /\ v[k] = w[k] /\ w[k] < l1 /\ w[k] \in Nat
    BY <1>a, <1>2, <1>c
  <2>2. CASE j \in 1 .. Len(s)
    BY <1>b, <1>4, <2>1, <2>2
  <2>3. CASE j = Len(s) + 1
    BY <1>1, <1>5, <2>1, <2>3
  <2> QED
    BY <1>6, <2>2, <2>3
<1>10. ASSUME NEW x \in T
       PROVE  (\E j \in 1 .. Len(v) : v[j] = x) \/ (\E j \in 1 .. Len(s1) : s1[j] = x)
  <2>1. CASE \E j \in 1 .. Len(w) : w[j] = x
    <3>1. PICK j \in 1 .. Len(w) : w[j] = x
      BY <2>1
    <3>2. CASE j = Len(w)
      BY <1>1, <1>5, <1>p, <3>1, <3>2
    <3>3. CASE j # Len(w)
      <4>1. j \in 1 .. Len(w) - 1
        BY <1>c, <3>3
      <4> QED
        BY <3>1, <4>1
    <3> QED
      BY <3>2, <3>3
  <2>2. CASE \E j \in 1 .. Len(s) : s[j] = x
    BY <1>1, <1>4, <2>2
  <2> QED
    BY <1>b, <2>1, <2>2
<1>11. PrintedFrom(T, v, s1)
  BY <1>1, <1>7, <1>8, <1>9, <1>10 DEF PrintedFrom
<1> QED
  BY <1>11, <1>p DEF s1

LEMMA Popped ==
  ASSUME NEW S, NEW w \in Seq(S), Len(w) # 0
  PROVE  /\ SubSeq(w, 1, Len(w) - 1) \in Seq(S) /\ Len(SubSeq(w, 1, Len(w) - 1)) = Len(w) - 1
         /\ \A j \in 1 .. Len(w) - 1 : SubSeq(w, 1, Len(w) - 1)[j] = w[j]
<1>1. PICK m \in Nat : Len(w) = m + 1 /\ Len(w) - 1 = m
  <2>1. Len(w) - 1 \in Nat /\ Len(w) = (Len(w) - 1) + 1
    OBVIOUS
  <2> QED
    BY <2>1
<1>2. \A j \in 1 .. m : w[j] \in S
  BY <1>1
<1>3. /\ SubSeq(w, 1, m) \in Seq(S)
      /\ Len(SubSeq(w, 1, m)) = IF 1 <= m THEN m - 1 + 1 ELSE 0
      /\ \A j \in 1 .. m - 1 + 1 : SubSeq(w, 1, m)[j] = w[1 + j - 1]
  BY <1>2, SubSeqProperties
<1>4. m - 1 + 1 = m /\ \A j \in 1 .. m : 1 + j - 1 = j
  OBVIOUS
<1>5. Len(SubSeq(w, 1, m)) = m
  BY <1>3
<1> QED
  BY <1>1, <1>3, <1>4, <1>5

LEMMA StackFrame ==
  ASSUME StackOK, UNCHANGED <<top, piled>>,
         \A x \in Stacked : next'[x] = next[x] /\ data'[x] = data[x]
  PROVE  StackOK' /\ Stacked' = Stacked /\ Piles' = Piles
<1>1. piled \in Seq(Node) /\ Len(piled) \in Nat /\ \A j \in 1 .. Len(piled) : piled[j] \in Stacked
  BY DEF StackOK, Stacked
<1>2. \A j \in 1 .. Len(piled) - 1 : j + 1 \in 1 .. Len(piled)
  BY <1>1
<1>3. piled # <<>> => 1 \in 1 .. Len(piled)
  BY <1>1, EmptySeq
<1>4. StackOK'
  BY <1>1, <1>2, <1>3 DEF StackOK
<1>5. Stacked' = Stacked /\ Piles' = Piles
  BY <1>1 DEF Stacked, Piles
<1> QED
  BY <1>4, <1>5

LEMMA PilesSeq ==
  ASSUME StackOK, QueueOK
  PROVE  Piles \in Seq(Nat \cup {None}) /\ Len(Piles) = Len(piled) /\ Len(piled) \in Nat
<1>1. Len(piled) \in Nat /\ \A j \in 1 .. Len(piled) : piled[j] \in Node
  BY DEF StackOK
<1>2. Piles \in [1 .. Len(piled) -> Nat \cup {None}]
  BY <1>1 DEF QueueOK, Piles
<1> QED
  BY <1>1, <1>2

LEMMA StackPush ==
  ASSUME QueueOK, StackOK, Stacked \subseteq Lent, NEW v \in Nat, Reverse!Stack!Push(v),
         UNCHANGED <<front, rear, held, strayed>>
  PROVE  /\ QueueOK' /\ Waits' = Waits /\ StackOK' /\ Piles' = Append(Piles, v)
         /\ \E n : Stacked' = Stacked \cup {n} /\ Lent' = Lent \cup {n}
<1>1. PICK n \in Node \ used :
        /\ used' = used \cup {n} /\ next' = [next EXCEPT ![n] = top]
        /\ data' = [data EXCEPT ![n] = v] /\ top' = n /\ piled' = Append(piled, n)
  BY DEF Reverse!Stack!Push
<1>a. /\ used \subseteq Node /\ Queued \subseteq used /\ n \in Node /\ n \notin used
      /\ next \in [Node -> Node \cup {None}] /\ data \in [Node -> Nat \cup {None}]
      /\ Stacked \subseteq used /\ Queued \subseteq Node
  BY <1>1 DEF QueueOK, Queued, Lent
<1>b. /\ piled \in Seq(Node) /\ Len(piled) \in Nat /\ \A j \in 1 .. Len(piled) : piled[j] \in Stacked
      /\ Distinct(piled)
      /\ top = IF piled = <<>> THEN None ELSE piled[Len(piled)]
      /\ piled # <<>> => next[piled[1]] = None
      /\ \A j \in 1 .. Len(piled) - 1 : next[piled[j + 1]] = piled[j]
  BY DEF StackOK, Stacked
<1>c. piled # <<>> => 1 \in 1 .. Len(piled) /\ Len(piled) \in 1 .. Len(piled)
  <2>1. piled # <<>> => Len(piled) # 0
    BY <1>b, EmptySeq
  <2> QED
    BY <1>b, <2>1
<1>d. top \in Node \cup {None}
  BY <1>a, <1>b, <1>c
<1>2. next' \in [Node -> Node \cup {None}] /\ data' \in [Node -> Nat \cup {None}]
  BY <1>1, <1>a, <1>d
<1>3. \A x \in Queued \cup Stacked : next'[x] = next[x] /\ data'[x] = data[x]
  BY <1>1, <1>a
<1>4. QueueOK' /\ Waits' = Waits /\ Queued' = Queued
  BY <1>1, <1>2, <1>3, <1>a, QueueFrame
<1>5. /\ piled' \in Seq(Node) /\ Len(piled') = Len(piled) + 1
      /\ \A j \in 1 .. Len(piled) + 1 : piled'[j] = IF j = Len(piled) + 1 THEN n ELSE piled[j]
  BY <1>1, <1>a, <1>b
<1>6. \A j \in 1 .. Len(piled) : piled'[j] = piled[j] /\ piled[j] # n /\ j \in 1 .. Len(piled) + 1
  <2>1. \A j \in 1 .. Len(piled) : j \in 1 .. Len(piled) + 1 /\ j # Len(piled) + 1
    BY <1>b
  <2> QED
    BY <1>a, <1>b, <1>5, <2>1
<1>7. piled'[Len(piled) + 1] = n /\ Len(piled) + 1 \in 1 .. Len(piled) + 1
  BY <1>b, <1>5
<1>8. \A j \in 1 .. Len(piled') : j \in 1 .. Len(piled) \/ j = Len(piled) + 1
  BY <1>b, <1>5
<1>9. Distinct(piled')
  BY <1>b, <1>5, <1>6, <1>7, <1>8 DEF Distinct
<1>10. piled' # <<>> /\ top' = piled'[Len(piled')]
  BY <1>1, <1>b, <1>5, <1>7
<1>11. next'[n] = top
  BY <1>1, <1>a, <1>d
<1>12. next'[piled'[1]] = None
  <2>1. CASE piled = <<>>
    <3>1. Len(piled) + 1 = 1
      BY <2>1
    <3> QED
      BY <1>7, <1>11, <1>b, <2>1, <3>1
  <2>2. CASE piled # <<>>
    BY <1>3, <1>6, <1>b, <1>c, <2>2
  <2> QED
    BY <2>1, <2>2
<1>13. ASSUME NEW j \in 1 .. Len(piled') - 1 PROVE next'[piled'[j + 1]] = piled'[j]
  <2>1. j \in 1 .. Len(piled) /\ piled # <<>> /\ piled'[j] = piled[j]
    BY <1>b, <1>5, <1>6
  <2>2. CASE j = Len(piled)
    BY <1>7, <1>11, <1>b, <2>1, <2>2
  <2>3. CASE j # Len(piled)
    <3>1. j \in 1 .. Len(piled) - 1 /\ j + 1 \in 1 .. Len(piled)
      BY <1>b, <2>1, <2>3
    <3> QED
      BY <1>3, <1>6, <1>b, <2>1, <3>1
  <2> QED
    BY <2>2, <2>3
<1>14. StackOK'
  BY <1>5, <1>9, <1>10, <1>12, <1>13 DEF StackOK
<1>15. Piles' = Append(Piles, v)
  <2>1. Piles \in Seq(Nat \cup {None}) /\ Len(Piles) = Len(piled)
    BY PilesSeq
  <2>2. Piles' = [j \in 1 .. Len(piled) + 1 |-> data'[piled'[j]]]
    BY <1>5 DEF Piles
  <2>3. /\ Append(Piles, v) \in Seq(Nat \cup {None}) /\ Len(Append(Piles, v)) = Len(piled) + 1
        /\ \A j \in 1 .. Len(piled) + 1 :
             Append(Piles, v)[j] = IF j = Len(piled) + 1 THEN v ELSE Piles[j]
    BY <2>1, <1>b
  <2>4. Append(Piles, v) = [j \in 1 .. Len(piled) + 1 |-> Append(Piles, v)[j]]
    BY <2>3, ListIsArray
  <2>5. ASSUME NEW j \in 1 .. Len(piled) + 1 PROVE data'[piled'[j]] = Append(Piles, v)[j]
    <3>1. CASE j = Len(piled) + 1
      BY <1>1, <1>7, <1>a, <2>3, <3>1
    <3>2. CASE j # Len(piled) + 1
      <4>1. j \in 1 .. Len(piled)
        BY <1>b, <3>2
      <4>2. Piles[j] = data[piled[j]]
        BY <4>1 DEF Piles
      <4>3. data'[piled[j]] = data[piled[j]]
        BY <1>3, <1>b, <4>1
      <4> QED
        BY <1>6, <2>3, <3>2, <4>1, <4>2, <4>3
    <3> QED
      BY <3>1, <3>2
  <2> QED
    BY <2>2, <2>4, <2>5
<1>16. Stacked' = Stacked \cup {n}
  BY <1>5, <1>6, <1>7, <1>8 DEF Stacked
<1>17. Lent' = Lent \cup {n}
  BY <1>1, <1>4, <1>a DEF Lent
<1> QED
  BY <1>4, <1>14, <1>15, <1>16, <1>17

LEMMA StackPop ==
  ASSUME QueueOK, StackOK, Reverse!Stack!Pop
  PROVE  /\ StackOK' /\ Piles # <<>> /\ data[top] = Piles[Len(Piles)] /\ top \in Stacked
         /\ Stacked' = Stacked \ {top} /\ Len(Piles') = Len(Piles) - 1 /\ Len(Piles) \in Nat \ {0}
         /\ \A j \in 1 .. Len(Piles) - 1 : Piles'[j] = Piles[j]
<1>1. /\ top # None /\ top' = next[top] /\ piled' = SubSeq(piled, 1, Len(piled) - 1)
      /\ UNCHANGED <<next, data>>
  BY DEF Reverse!Stack!Pop, Reverse!Stack!Empty
<1>b. /\ piled \in Seq(Node) /\ Len(piled) \in Nat /\ \A j \in 1 .. Len(piled) : piled[j] \in Node
      /\ Distinct(piled)
      /\ top = IF piled = <<>> THEN None ELSE piled[Len(piled)]
      /\ piled # <<>> => next[piled[1]] = None
      /\ \A j \in 1 .. Len(piled) - 1 : next[piled[j + 1]] = piled[j]
  BY DEF StackOK
<1>2. piled # <<>> /\ top = piled[Len(piled)]
  BY <1>1, <1>b
<1>c. Len(piled) \in Nat \ {0} /\ Len(piled) \in 1 .. Len(piled) /\ 1 \in 1 .. Len(piled)
  <2>1. Len(piled) # 0
    BY <1>2, <1>b, EmptySeq
  <2> QED
    BY <1>b, <2>1
<1>3. /\ piled' \in Seq(Node) /\ Len(piled') = Len(piled) - 1
      /\ \A j \in 1 .. Len(piled) - 1 : piled'[j] = piled[j] /\ j \in 1 .. Len(piled)
  <2>1. Len(piled) # 0
    BY <1>c
  <2>2. \A j \in 1 .. Len(piled) - 1 : j \in 1 .. Len(piled)
    BY <1>c
  <2> QED
    BY <1>1, <1>b, <2>1, <2>2, Popped
<1>4. Distinct(piled')
  BY <1>b, <1>3 DEF Distinct
<1>5. top' = IF piled' = <<>> THEN None ELSE piled'[Len(piled')]
  <2>1. CASE Len(piled) = 1
    <3>1. piled' = <<>>
      BY <1>3, <2>1, EmptySeq
    <3> QED
      BY <1>1, <1>2, <1>b, <2>1, <3>1
  <2>2. CASE Len(piled) # 1
    <3>1. Len(piled) - 1 \in 1 .. Len(piled) - 1 /\ (Len(piled) - 1) + 1 = Len(piled) /\ Len(piled') # 0
      BY <1>c, <1>3, <2>2
    <3>2. piled' # <<>>
      BY <3>1
    <3>3. next[piled[(Len(piled) - 1) + 1]] = piled[Len(piled) - 1]
      BY <1>b, <3>1
    <3> QED
      BY <1>1, <1>2, <1>3, <3>1, <3>2, <3>3
  <2> QED
    BY <2>1, <2>2
<1>6. piled' # <<>> => next'[piled'[1]] = None
  <2>1. piled' # <<>> => 1 \in 1 .. Len(piled) - 1
    BY <1>3, <1>c, EmptySeq
  <2> QED
    BY <1>1, <1>2, <1>b, <1>3, <2>1
<1>7. ASSUME NEW j \in 1 .. Len(piled') - 1 PROVE next'[piled'[j + 1]] = piled'[j]
  <2>1. j \in 1 .. Len(piled) - 1 /\ j + 1 \in 1 .. Len(piled) - 1
    BY <1>c, <1>3
  <2> QED
    BY <1>1, <1>b, <1>3, <2>1
<1>8. StackOK'
  BY <1>3, <1>4, <1>5, <1>6, <1>7 DEF StackOK
<1>9. Len(Piles) = Len(piled) /\ Piles \in Seq(Nat \cup {None})
  BY PilesSeq
<1>10. Piles # <<>> /\ data[top] = Piles[Len(Piles)]
  <2>1. Piles # <<>>
    BY <1>9, <1>c
  <2>2. Piles[Len(piled)] = data[piled[Len(piled)]]
    BY <1>c DEF Piles
  <2> QED
    BY <1>2, <1>9, <2>1, <2>2
<1>11. Len(Piles') = Len(Piles) - 1 /\ \A j \in 1 .. Len(Piles) - 1 : Piles'[j] = Piles[j]
  <2>1. Piles' = [j \in 1 .. Len(piled) - 1 |-> data[piled[j]]]
    BY <1>1, <1>3 DEF Piles
  <2>2. \A j \in 1 .. Len(piled) - 1 : Piles[j] = data[piled[j]]
    BY <1>3 DEF Piles
  <2>3. Len(piled) - 1 \in Nat
    BY <1>c
  <2> QED
    BY <1>9, <2>1, <2>2, <2>3
<1>12. top \in Stacked
  BY <1>2, <1>c DEF Stacked
<1>13. Stacked' = Stacked \ {top}
  <2>1. \A j \in 1 .. Len(piled) - 1 : piled[j] # top /\ j \in 1 .. Len(piled)
    <3>1. \A j \in 1 .. Len(piled) - 1 : j # Len(piled)
      BY <1>c
    <3> QED
      BY <1>2, <1>3, <1>b, <1>c, <3>1 DEF Distinct
  <2>2. \A j \in 1 .. Len(piled) : j \in 1 .. Len(piled) - 1 \/ j = Len(piled)
    BY <1>c
  <2>3. Stacked' = {piled[j] : j \in 1 .. Len(piled) - 1}
    BY <1>3 DEF Stacked
  <2>4. Stacked = {piled[j] : j \in 1 .. Len(piled)}
    BY DEF Stacked
  <2> QED
    BY <1>2, <2>1, <2>2, <2>3, <2>4
<1> QED
  BY <1>8, <1>9, <1>10, <1>11, <1>12, <1>13, <1>c

LEMMA ReverseEnqStep ==
  ASSUME NEW v, Reverse!Queue!Enq(v)
  PROVE  EnqStep(v) /\ pc' = pc
<1>1. CASE Reverse!Queue!EnqFirst(v)
  BY <1>1 DEF Reverse!Queue!EnqFirst, Reverse!Queue!Put, Leftover, EnqStep
<1>2. CASE Reverse!Queue!EnqNext(v)
  BY <1>2 DEF Reverse!Queue!EnqNext, Reverse!Queue!Put, Leftover, EnqStep
<1> QED
  BY <1>1, <1>2 DEF Reverse!Queue!Enq

LEMMA ReverseInit == Reverse!Init => ReverseInv
<1> SUFFICES ASSUME Reverse!Init PROVE ReverseInv
  OBVIOUS
<1>1. /\ at = "start" /\ p = None /\ printed = <<>>
      /\ used = {} /\ front = None /\ rear = None /\ held = <<>> /\ strayed = FALSE
      /\ top = None /\ piled = <<>>
      /\ next = [n \in Node |-> None] /\ data = [n \in Node |-> None]
  BY DEF Reverse!Init, Reverse!Queue!Init, Reverse!Stack!Init
<1>2. tree \in Trees /\ tree # {}
  <2>1. tree \in {t \in Trees : Cardinality(t) \in 1 .. MostPiled}
    BY DEF Reverse!Init
  <2>2. Cardinality({}) = 0
    BY FS_EmptySet
  <2> QED
    BY <2>1, <2>2
<1>3. QueueOK /\ StackOK
  BY <1>1 DEF QueueOK, StackOK, Distinct
<1>4. Waits = <<>> /\ Lent = {} /\ Piles = <<>> /\ Stacked = {} /\ Temp = {}
  BY <1>1 DEF Waits, Lent, Piles, Stacked, Temp
<1>5. Mark = 0 /\ Edge = 0
  BY <1>1 DEF Mark, Edge
<1>6. Covers(<<>>, tree, 0, 0)
  BY <1>2, CoverNone
<1> QED
  BY <1>1, <1>2, <1>3, <1>4, <1>5, <1>6 DEF ReverseInv, Popping

LEMMA ReverseFacts ==
  ASSUME ReverseInv
  PROVE  /\ tree \in Trees /\ tree # {} /\ QueueOK /\ StackOK
         /\ tree \subseteq Nat \ {0} /\ None \notin tree /\ 1 \in tree
         /\ Lent = Stacked \cup Temp /\ Stacked \cap Temp = {} /\ Stacked \subseteq Lent
         /\ Mark \in Nat /\ (p \in tree => Mark = p /\ p \in Nat \ {0})
         /\ Covers(Waits, tree, Mark, Edge)
<1>1. /\ tree \in Trees /\ tree # {} /\ QueueOK /\ StackOK /\ p \in tree \cup {None}
      /\ Lent = Stacked \cup Temp /\ Stacked \cap Temp = {} /\ Covers(Waits, tree, Mark, Edge)
  BY DEF ReverseInv
<1>2. tree \subseteq Nat \ {0} /\ None \notin tree /\ 1 \in tree
  BY <1>1, TreeFacts, RootIn
<1> QED
  BY <1>1, <1>2 DEF Mark

\* an enq, or none, of the place next to the edge
LEMMA ReversePlace ==
  ASSUME ReverseInv, at \in {"start", "left", "right"}, at' \in {"loop", "left", "right"},
         UNCHANGED <<tree, p, node, printed, top, live, out, piled>>,
         NEW c \in Nat, Mark <= c, Edge = c, Edge' = c + 1,
         IF c + 1 \in tree THEN EnqStep(c + 1)
                          ELSE UNCHANGED <<front, rear, next, data, used, held, strayed>>,
         at' # "loop" => p \in tree
  PROVE  ReverseInv'
<1>a. /\ tree \in Trees /\ tree # {} /\ QueueOK /\ StackOK
      /\ Lent = Stacked \cup Temp /\ Stacked \cap Temp = {} /\ Stacked \subseteq Lent
      /\ Mark \in Nat /\ Covers(Waits, tree, Mark, Edge)
  BY ReverseFacts
<1>1. PICK q \in Nat : q = Mark
  BY <1>a
<1>2. /\ QueueOK' /\ Lent' = Lent /\ Covers(Waits', tree, q, c + 1)
      /\ \A x \in Lent : data'[x] = data[x] /\ next'[x] = next[x]
  BY <1>a, <1>1, EnqPlace
<1>3. StackOK' /\ Stacked' = Stacked /\ Piles' = Piles
  BY <1>a, <1>2, StackFrame
<1>4. Mark' = Mark /\ Temp = {} /\ Temp' = {}
  BY DEF Mark, Temp
<1>5. printed = <<>> /\ Covers(Piles, tree, 0, Mark) /\ p \in tree \cup {None}
  BY DEF ReverseInv, Popping
<1> QED
  BY <1>a, <1>1, <1>2, <1>3, <1>4, <1>5 DEF ReverseInv, Popping

LEMMA ReverseTake ==
  ASSUME ReverseInv, Reverse!Take PROVE ReverseInv'
<1>a. /\ tree \in Trees /\ tree # {} /\ QueueOK /\ StackOK /\ tree \subseteq Nat \ {0} /\ None \notin tree
      /\ Lent = Stacked \cup Temp /\ Mark \in Nat /\ Covers(Waits, tree, Mark, Edge)
  BY ReverseFacts
<1>1. /\ at = "loop" /\ at' = "free" /\ p' = data[front] /\ node' = front /\ UnlinkStep /\ used' = used
      /\ UNCHANGED <<tree, printed, top, piled>>
  BY DEF Reverse!Take, Reverse!Queue!Deq, Reverse!Queue!Unlink, UnlinkStep, Reverse!stack
<1>2. PICK q \in Nat : q = Mark /\ Edge = 2 * q + 1
  BY <1>a, <1>1 DEF Edge
<1>3. /\ QueueOK' /\ p' \in tree /\ q < p'
      /\ \A x \in tree : q < x => p' <= x
      /\ Covers(Waits', tree, p', 2 * p' - 1)
      /\ front \notin Lent /\ Lent' = Lent \cup {front}
  BY <1>a, <1>1, <1>2, TakePlace
<1>4. StackOK' /\ Stacked' = Stacked /\ Piles' = Piles
  <2>1. next' = next /\ data' = data
    BY <1>1 DEF UnlinkStep
  <2> QED
    BY <1>a, <1>1, <2>1, StackFrame
<1>5. printed = <<>> /\ Covers(Piles, tree, 0, q)
  BY <1>1, <1>2 DEF ReverseInv, Popping
<1>6. Covers(Append(Piles, p'), tree, 0, p')
  <2>1. PICK x \in tree, w \in {Piles} : x = p'
    BY <1>3
  <2> QED
    BY <1>a, <1>3, <1>5, <2>1, CoverPassed
<1>7. Mark' = p' /\ Edge' = 2 * p' - 1
  BY <1>a, <1>1, <1>3 DEF Mark, Edge
<1>8. Temp = {} /\ Temp' = {front}
  BY <1>1 DEF Temp
<1> QED
  BY <1>a, <1>1, <1>3, <1>4, <1>5, <1>6, <1>7, <1>8 DEF ReverseInv, Popping

\* free of the node taken from the queue or from the stack
LEMMA ReverseFree ==
  ASSUME ReverseInv, at \in {"free", "freepop"}, used' = used \ {node},
         at' = (IF at = "free" THEN "pile" ELSE "pop"),
         UNCHANGED <<tree, p, node, printed, front, rear, next, data, held, strayed, top, piled>>
  PROVE  ReverseInv'
<1>a. /\ tree \in Trees /\ tree # {} /\ QueueOK /\ StackOK
      /\ Lent = Stacked \cup Temp /\ Stacked \cap Temp = {} /\ Covers(Waits, tree, Mark, Edge)
  BY ReverseFacts
<1>1. Temp = {node} /\ Temp' = {}
  BY DEF Temp
<1>2. used' \subseteq Node /\ Queued \subseteq used'
  <2>1. used \subseteq Node /\ Queued \subseteq used
    BY <1>a DEF QueueOK, Queued
  <2> QED
    BY <1>a, <1>1, <2>1 DEF Lent
<1>3. QueueOK' /\ Waits' = Waits /\ Queued' = Queued
  BY <1>a, <1>2, QueueFrame DEF QueueOK
<1>4. StackOK' /\ Stacked' = Stacked /\ Piles' = Piles
  BY <1>a, StackFrame
<1>5. Lent' = Stacked
  BY <1>a, <1>1, <1>3 DEF Lent
<1>6. Mark' = Mark /\ Edge' = Edge
  BY DEF Mark, Edge
<1>7. CASE at = "free"
  <2>1. at' = "pile" /\ printed = <<>> /\ p \in tree /\ Covers(Append(Piles, p), tree, 0, Mark)
    BY <1>7 DEF ReverseInv, Popping
  <2> QED
    BY <1>a, <1>1, <1>3, <1>4, <1>5, <1>6, <1>7, <2>1 DEF ReverseInv, Popping
<1>8. CASE at = "freepop"
  <2>1. at' = "pop" /\ held = <<>> /\ PrintedFrom(tree, Piles, printed) /\ p \in tree \cup {None}
    BY <1>8 DEF ReverseInv, Popping
  <2> QED
    BY <1>a, <1>1, <1>3, <1>4, <1>5, <1>6, <1>8, <2>1 DEF ReverseInv, Popping
<1> QED
  BY <1>7, <1>8

LEMMA ReversePile ==
  ASSUME ReverseInv, Reverse!Pile PROVE ReverseInv'
<1>a. /\ tree \in Trees /\ tree # {} /\ QueueOK /\ StackOK /\ tree \subseteq Nat \ {0}
      /\ Lent = Stacked \cup Temp /\ Stacked \subseteq Lent /\ Covers(Waits, tree, Mark, Edge)
  BY ReverseFacts
<1>1. /\ at = "pile" /\ at' = "left" /\ Reverse!Stack!Push(p)
      /\ UNCHANGED <<tree, p, node, printed, front, rear, held, strayed>>
  BY DEF Reverse!Pile, Reverse!queue
<1>2. p \in tree /\ p \in Nat /\ printed = <<>> /\ Covers(Append(Piles, p), tree, 0, Mark)
  BY <1>a, <1>1 DEF ReverseInv, Popping
<1>3. QueueOK' /\ Waits' = Waits /\ StackOK' /\ Piles' = Append(Piles, p)
  BY <1>a, <1>1, <1>2, StackPush
<1>4. PICK n : Stacked' = Stacked \cup {n} /\ Lent' = Lent \cup {n}
  BY <1>a, <1>1, <1>2, StackPush
<1>5. Mark' = Mark /\ Edge' = Edge /\ Temp = {} /\ Temp' = {}
  BY <1>1 DEF Mark, Edge, Temp
<1> QED
  BY <1>a, <1>1, <1>2, <1>3, <1>4, <1>5 DEF ReverseInv, Popping

LEMMA ReverseLastTaken ==
  ASSUME ReverseInv, Reverse!LastTaken PROVE ReverseInv'
<1>a. /\ tree \in Trees /\ tree # {} /\ QueueOK /\ StackOK /\ tree \subseteq Nat \ {0}
      /\ Lent = Stacked \cup Temp /\ Mark \in Nat /\ Covers(Waits, tree, Mark, Edge)
  BY ReverseFacts
<1>1. /\ at = "loop" /\ at' = "pop" /\ front = None /\ UNCHANGED <<tree, p, node, printed, top, piled>>
      /\ UNCHANGED <<front, rear, next, data, used, held, strayed>>
  BY DEF Reverse!LastTaken, Reverse!Queue!Empty, Reverse!queue, Reverse!memory, Reverse!stack
<1>2. held = <<>> /\ Waits = <<>>
  <2>1. held \in Seq(Node) /\ (held # <<>> => front = held[1])
    BY <1>a DEF QueueOK
  <2>2. held # <<>> => Len(held) \in Nat \ {0} /\ held[1] \in Node
    BY <2>1, EmptySeq
  <2>3. held = <<>>
    BY <1>1, <2>1, <2>2, NullIsApart
  <2> QED
    BY <2>3 DEF Waits
<1>3. PICK q \in Nat : q = Mark /\ Edge = 2 * q + 1
  BY <1>a, <1>1 DEF Edge
<1>4. \A x \in tree : x <= q
  BY <1>a, <1>2, <1>3, CoverEmpty
<1>5. printed = <<>> /\ Covers(Piles, tree, 0, q) /\ p \in tree \cup {None}
  BY <1>1, <1>3 DEF ReverseInv, Popping
<1>6. PrintedFrom(tree, Piles, <<>>)
  BY <1>a, <1>4, <1>5 DEF PrintedFrom, Covers
<1>7. QueueOK' /\ StackOK' /\ Waits' = Waits /\ Piles' = Piles /\ Lent' = Lent /\ Stacked' = Stacked
  BY <1>a, <1>1 DEF QueueOK, StackOK, Waits, Piles, Lent, Queued, Stacked
<1>8. Mark' = Mark /\ Edge' = Edge /\ Temp = {} /\ Temp' = {}
  BY <1>1 DEF Mark, Edge, Temp
<1> QED
  BY <1>a, <1>1, <1>2, <1>5, <1>6, <1>7, <1>8 DEF ReverseInv, Popping

LEMMA ReverseShow ==
  ASSUME ReverseInv, Reverse!Show PROVE ReverseInv'
<1>a. /\ tree \in Trees /\ tree # {} /\ QueueOK /\ StackOK /\ tree \subseteq Nat \ {0}
      /\ Lent = Stacked \cup Temp /\ Covers(Waits, tree, Mark, Edge)
  BY ReverseFacts
<1>1. /\ at = "pop" /\ at' = "freepop" /\ Reverse!Stack!Pop
      /\ printed' = Append(printed, data[top]) /\ node' = top
      /\ UNCHANGED <<tree, p, front, rear, next, data, used, held, strayed>>
  BY DEF Reverse!Show, Reverse!queue, Reverse!Stack!Pop
<1>2. held = <<>> /\ PrintedFrom(tree, Piles, printed) /\ p \in tree \cup {None}
  BY <1>1 DEF ReverseInv, Popping
<1>3. /\ StackOK' /\ Piles # <<>> /\ data[top] = Piles[Len(Piles)] /\ top \in Stacked
      /\ Stacked' = Stacked \ {top} /\ Len(Piles') = Len(Piles) - 1 /\ Len(Piles) \in Nat \ {0}
      /\ \A j \in 1 .. Len(Piles) - 1 : Piles'[j] = Piles[j]
  BY <1>a, <1>1, StackPop
<1>4. QueueOK' /\ Waits' = Waits /\ Lent' = Lent
  BY <1>a, <1>1 DEF QueueOK, Waits, Lent, Queued
<1>5. Piles' \in Seq(tree)
  <2>1. Piles \in Seq(tree) /\ \A j \in 1 .. Len(Piles) : Piles[j] \in tree
    BY <1>2 DEF PrintedFrom
  <2>2. \A j \in 1 .. Len(Piles) - 1 : j \in 1 .. Len(Piles)
    BY <1>3
  <2>3. Len(Piles') \in Nat /\ \A j \in 1 .. Len(Piles') : Piles'[j] \in tree
    BY <1>3, <2>1, <2>2
  <2>4. Len(piled') \in Nat /\ Len(Piles') = Len(piled')
    <3>1. piled' \in Seq(Node)
      BY <1>3 DEF StackOK
    <3> QED
      BY <3>1 DEF Piles
  <2>5. Piles' \in [1 .. Len(piled') -> tree]
    BY <2>3, <2>4 DEF Piles
  <2> QED
    BY <2>4, <2>5
<1>6. PrintedFrom(tree, Piles', printed')
  <2>1. PICK v \in Seq(tree), w \in {Piles} : v = Piles'
    BY <1>5
  <2>2. PrintedFrom(tree, v, Append(printed, w[Len(w)]))
    BY <1>a, <1>2, <1>3, <2>1, PrintNext
  <2> QED
    BY <1>1, <1>3, <2>1, <2>2
<1>7. Mark' = Mark /\ Edge' = Edge /\ Temp = {} /\ Temp' = {top}
  BY <1>1 DEF Mark, Edge, Temp
<1> QED
  BY <1>a, <1>1, <1>2, <1>3, <1>4, <1>6, <1>7 DEF ReverseInv, Popping

LEMMA ReverseReturn ==
  ASSUME ReverseInv, Reverse!Return PROVE ReverseInv'
<1>a. /\ tree \in Trees /\ tree # {} /\ QueueOK /\ StackOK /\ tree \subseteq Nat \ {0}
      /\ Lent = Stacked \cup Temp /\ Covers(Waits, tree, Mark, Edge)
  BY ReverseFacts
<1>1. /\ at = "pop" /\ at' = "done" /\ top = None /\ piled' = <<>> /\ used' \subseteq used
      /\ UNCHANGED <<tree, p, node, printed, front, rear, next, data, held, strayed, top>>
  BY DEF Reverse!Return, Reverse!queue, Reverse!Stack!Destory, Reverse!Stack!Empty
<1>2. held = <<>> /\ PrintedFrom(tree, Piles, printed) /\ p \in tree \cup {None}
  BY <1>1 DEF ReverseInv, Popping
<1>3. piled = <<>>
  <2>1. piled \in Seq(Node) /\ (piled # <<>> => top = piled[Len(piled)])
    BY <1>a DEF StackOK
  <2>2. piled # <<>> => Len(piled) \in 1 .. Len(piled)
    BY <2>1, EmptySeq
  <2> QED
    BY <1>1, <2>1, <2>2, NullIsApart
<1>4. Queued = {} /\ Stacked = {} /\ Temp = {} /\ Temp' = {} /\ used = {}
  <2>1. Queued = {} /\ Stacked = {} /\ Temp = {} /\ Temp' = {}
    BY <1>1, <1>2, <1>3 DEF Queued, Stacked, Temp
  <2> QED
    BY <1>a, <2>1 DEF Lent
<1>5. StackOK' /\ Stacked' = {} /\ Piles' = Piles
  BY <1>a, <1>1, <1>3 DEF StackOK, Stacked, Piles
<1>6. QueueOK' /\ Waits' = Waits /\ Lent' = {}
  <2>1. used' = {} /\ held' = held
    BY <1>1, <1>4
  <2>2. QueueOK' /\ Waits' = Waits
    BY <1>a, <1>1, <1>4 DEF QueueOK, Waits
  <2> QED
    BY <2>1, <2>2 DEF Lent
<1>7. Mark' = Mark /\ Edge' = Edge
  BY <1>1 DEF Mark, Edge
<1> QED
  BY <1>a, <1>1, <1>2, <1>4, <1>5, <1>6, <1>7 DEF ReverseInv, Popping

LEMMA ReverseStep ==
  ASSUME ReverseInv, Reverse!Next PROVE ReverseInv'
<1>a. /\ tree \subseteq Nat \ {0} /\ None \notin tree /\ 1 \in tree /\ tree # {}
      /\ Mark \in Nat /\ (p \in tree => Mark = p /\ p \in Nat \ {0})
  BY ReverseFacts
<1>1. CASE Reverse!EnqRoot
  <2>1. /\ at = "start" /\ at' = "loop" /\ EnqStep(1)
        /\ UNCHANGED <<tree, p, node, printed, top, live, out, piled>>
    BY <1>1, <1>a, ReverseEnqStep DEF Reverse!EnqRoot, Reverse!Root, Reverse!stack
  <2>2. p = None
    BY <2>1 DEF ReverseInv
  <2>3. Mark = 0 /\ Edge = 0 /\ Edge' = 0 + 1 /\ 0 + 1 \in tree /\ EnqStep(0 + 1) /\ 0 <= 0
    BY <1>a, <2>1, <2>2 DEF Mark, Edge
  <2>4. PICK c \in Nat : c = 0
    OBVIOUS
  <2> QED
    BY <2>1, <2>3, <2>4, ReversePlace
<1>2. CASE Reverse!EnqLeft
  <2>1. /\ at = "left" /\ at' = "right" /\ UNCHANGED <<tree, p, node, printed, top, live, out, piled>>
        /\ Reverse!EnqChild(IF 2 * p \in tree THEN 2 * p ELSE None)
    BY <1>2 DEF Reverse!EnqLeft, Reverse!LeftChild, Reverse!stack
  <2>2. p \in tree /\ p \in Nat \ {0} /\ Mark = p /\ Edge = 2 * p - 1 /\ Edge' = 2 * p
    BY <1>a, <2>1 DEF ReverseInv, Edge, Mark
  <2>3. PICK c \in Nat : c = 2 * p - 1 /\ p <= c /\ 2 * p = c + 1
    BY <2>2
  <2>4. IF c + 1 \in tree THEN EnqStep(c + 1)
                         ELSE UNCHANGED <<front, rear, next, data, used, held, strayed>>
    BY <1>a, <2>1, <2>3, ReverseEnqStep DEF Reverse!EnqChild, Reverse!queue, Reverse!memory
  <2> QED
    BY <2>1, <2>2, <2>3, <2>4, ReversePlace
<1>3. CASE Reverse!EnqRight
  <2>1. /\ at = "right" /\ at' = "loop" /\ UNCHANGED <<tree, p, node, printed, top, live, out, piled>>
        /\ Reverse!EnqChild(IF 2 * p + 1 \in tree THEN 2 * p + 1 ELSE None)
    BY <1>3 DEF Reverse!EnqRight, Reverse!RightChild, Reverse!stack
  <2>2. p \in tree /\ p \in Nat \ {0} /\ Mark = p /\ Edge = 2 * p /\ Edge' = 2 * p + 1
    BY <1>a, <2>1 DEF ReverseInv, Edge, Mark
  <2>3. PICK c \in Nat : c = 2 * p /\ p <= c
    BY <2>2
  <2>4. IF c + 1 \in tree THEN EnqStep(c + 1)
                         ELSE UNCHANGED <<front, rear, next, data, used, held, strayed>>
    BY <1>a, <2>1, <2>3, ReverseEnqStep DEF Reverse!EnqChild, Reverse!queue, Reverse!memory
  <2> QED
    BY <2>1, <2>2, <2>3, <2>4, ReversePlace
<1>4. CASE Reverse!Release
  <2>1. /\ at = "free" /\ at' = "pile" /\ used' = used \ {node}
        /\ UNCHANGED <<tree, p, node, printed, front, rear, next, data, held, strayed, top, piled>>
    BY <1>4 DEF Reverse!Release, Reverse!Queue!Free, Reverse!stack
  <2> QED
    BY <2>1, ReverseFree
<1>5. CASE Reverse!ReleasePopped
  <2>1. /\ at = "freepop" /\ at' = "pop" /\ used' = used \ {node}
        /\ UNCHANGED <<tree, p, node, printed, front, rear, next, data, held, strayed, top, piled>>
    BY <1>5 DEF Reverse!ReleasePopped, Reverse!Stack!Free, Reverse!queue
  <2> QED
    BY <2>1, ReverseFree
<1> QED
  BY <1>1, <1>2, <1>3, <1>4, <1>5, ReverseTake, ReversePile, ReverseLastTaken, ReverseShow,
     ReverseReturn DEF Reverse!Next

LEMMA ReverseShows == ReverseInv => Reverse!FromTheEnd /\ Reverse!OneHolder
<1> SUFFICES ASSUME ReverseInv PROVE Reverse!FromTheEnd /\ Reverse!OneHolder
  OBVIOUS
<1>a. /\ QueueOK /\ StackOK /\ tree \subseteq Nat \ {0}
      /\ Lent = Stacked \cup Temp /\ Stacked \cap Temp = {}
  BY ReverseFacts
<1>1. Reverse!FromTheEnd
  <2>1. CASE ~Popping
    <3>1. printed = <<>>
      BY <2>1 DEF ReverseInv
    <3> QED
      BY <3>1 DEF Reverse!FromTheEnd, Reverse!Printed
  <2>2. CASE Popping
    <3>1. PrintedFrom(tree, Piles, printed)
      BY <2>2 DEF ReverseInv
    <3>2. ASSUME NEW x \in tree \ Reverse!Printed, NEW y \in Reverse!Printed PROVE x < y
      <4>1. PICK j \in 1 .. Len(Piles) : Piles[j] = x
        BY <3>1, <3>2 DEF PrintedFrom, Reverse!Printed
      <4>2. PICK k \in 1 .. Len(printed) : printed[k] = y
        BY DEF Reverse!Printed
      <4>3. y > x /\ y \in tree
        BY <3>1, <4>1, <4>2 DEF PrintedFrom
      <4> QED
        BY <1>a, <4>3
    <3>3. \A j, k \in 1 .. Len(printed) : j < k => printed[j] > printed[k]
      BY <3>1 DEF PrintedFrom
    <3> QED
      BY <3>2, <3>3 DEF Reverse!FromTheEnd
  <2> QED
    BY <2>1, <2>2
<1>2. Reverse!OneHolder
  <2>1. used = Queued \cup Lent /\ Lent \cap Queued = {}
    <3>1. Queued \subseteq used
      BY <1>a DEF QueueOK, Queued
    <3> QED
      BY <3>1 DEF Lent
  <2>2. Stacked \cap Queued = {} /\ Temp \cap Queued = {} /\ used = Queued \cup Stacked \cup Temp
    BY <1>a, <2>1
  <2>3. at = "done" => used = {}
    <3> SUFFICES ASSUME at = "done" PROVE used = {}
      OBVIOUS
    <3>1. held = <<>> /\ piled = <<>> /\ Temp = {}
      BY DEF ReverseInv, Popping, Temp
    <3> QED
      BY <2>2, <3>1 DEF Queued, Stacked
  <2> QED
    BY <1>a, <2>2, <2>3 DEF Reverse!OneHolder, Queued, Stacked, Temp
<1> QED
  BY <1>1, <1>2
-----------------------------------------------------------------------------
(***************************************************************************)
(* The suite: the invariant of the walk in level order that runs.          *)
(***************************************************************************)
SuiteInv == /\ which = "level" => LevelInv
            /\ which = "reverse" => ReverseInv
            /\ which = "entire" => EntireInv

LEMMA SuiteInit == Init => SuiteInv
BY LevelInit, ReverseInit, EntireInit DEF Init, SuiteInv

LEMMA SuiteStep == SuiteInv /\ Next => SuiteInv'
<1> SUFFICES ASSUME SuiteInv, Next PROVE SuiteInv'
  OBVIOUS
<1>1. CASE LevelNext
  BY <1>1, LevelStep DEF SuiteInv, LevelNext
<1>2. CASE ReverseNext
  BY <1>2, ReverseStep DEF SuiteInv, ReverseNext
<1>3. CASE EntireNext
  BY <1>3, EntireStep DEF SuiteInv, EntireNext
<1>4. CASE RecursiveNext \/ ThreadsNext \/ ExerciseNext
  <2>1. which' \notin {"level", "reverse", "entire"}
    BY <1>4 DEF RecursiveNext, ThreadsNext, ExerciseNext
  <2> QED
    BY <2>1 DEF SuiteInv
<1> QED
  BY <1>1, <1>2, <1>3, <1>4 DEF Next

LEMMA SuiteStutter == SuiteInv /\ UNCHANGED vars => SuiteInv'
<1> SUFFICES ASSUME SuiteInv, UNCHANGED vars PROVE SuiteInv'
  OBVIOUS
<1>1. /\ which' = which /\ tree' = tree /\ at' = at /\ node' = node /\ order' = order /\ p' = p
      /\ front' = front /\ rear' = rear /\ next' = next /\ data' = data /\ used' = used
      /\ held' = held /\ strayed' = strayed /\ printed' = printed /\ top' = top
      /\ piled' = piled /\ fail' = fail /\ result' = result
  BY DEF vars, walk, queueOnly, reverseOnly, entireOnly
<1>2. /\ QueueOK' = QueueOK /\ Lent' = Lent /\ Waits' = Waits /\ Mark' = Mark /\ Edge' = Edge
  BY <1>1 DEF QueueOK, Lent, Queued, Waits, Mark, Edge
<1>3. /\ StackOK' = StackOK /\ Stacked' = Stacked /\ Piles' = Piles /\ Temp' = Temp
      /\ Popping' = Popping /\ Walking' = Walking /\ YesTells' = YesTells
  BY <1>1 DEF StackOK, Stacked, Piles, Temp, Popping, Walking, YesTells
<1>4. CASE which = "level"
  BY <1>1, <1>2, <1>4 DEF SuiteInv, LevelInv
<1>5. CASE which = "reverse"
  BY <1>1, <1>2, <1>3, <1>5 DEF SuiteInv, ReverseInv
<1>6. CASE which = "entire"
  BY <1>1, <1>2, <1>3, <1>6 DEF SuiteInv, EntireInv
<1>7. CASE which \notin {"level", "reverse", "entire"}
  BY <1>1, <1>7 DEF SuiteInv
<1> QED
  BY <1>4, <1>5, <1>6, <1>7

(***************************************************************************)
(* While a program walks a tree of any size in level order, the invariant  *)
(* of that program holds: its linked queue is a list in memory that leads  *)
(* from front to rear, and waiting in it, each once and in rising order,   *)
(* are the nodes beyond the one of this turn whose parents have had theirs.*)
(***************************************************************************)
THEOREM SuiteInvariant == Spec => []SuiteInv
<1>1. SuiteInv /\ [Next]_vars => SuiteInv'
  BY SuiteStep, SuiteStutter
<1> QED
  BY SuiteInit, <1>1, PTL DEF Spec

(***************************************************************************)
(* bitree_floor_traverse calls func level by level and from left to right; *)
(* reverse_floor_traverse prints that order from its end; and no linked    *)
(* node is in two places or left behind, by them or by is_entire_bitree,   *)
(* for a tree and a memory of any size.                                    *)
(***************************************************************************)
THEOREM WalkedByLevels == Spec => []LevelWalks
<1>1. SuiteInv => LevelWalks
  BY LevelShows, ReverseShows, EntireShows DEF SuiteInv, LevelWalks
<1> QED
  BY SuiteInvariant, <1>1, PTL

(***************************************************************************)
(* is_entire_bitree accepts every complete tree of any size, and another   *)
(* tree only if all its nodes up to one make a complete tree and all other *)
(* nodes are below that one.                                               *)
(***************************************************************************)
THEOREM CompleteTold == Spec => []AllButOneSubtree
<1>1. SuiteInv => AllButOneSubtree
  BY EntireShows DEF SuiteInv, AllButOneSubtree
<1> QED
  BY SuiteInvariant, <1>1, PTL
=============================================================================
