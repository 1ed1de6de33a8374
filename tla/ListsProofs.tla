----------------------------- MODULE ListsProofs -----------------------------
(***************************************************************************)
(* Theorems of MCLists for all its constants: lists of any size over any   *)
(* elements.  One part for each list with its inductive invariant, and the *)
(* theorems of the suite at the end.                                       *)
(***************************************************************************)
EXTENDS MCLists, Counting, SequenceTheorems, SequencesExt

LEMMA SeqShape ==
  ASSUME NEW T, NEW s \in Seq(T)
  PROVE  /\ Len(s) \in Nat /\ DOMAIN s = 1 .. Len(s)
         /\ \A j \in 1 .. Len(s) : s[j] \in T
         /\ s = <<>> <=> Len(s) = 0
BY EmptySeq

\* two sequences with the same elements are the same
LEMMA SameSeq ==
  ASSUME NEW T, NEW s \in Seq(T), NEW U, NEW t \in Seq(U), Len(s) = Len(t),
         \A j \in 1 .. Len(s) : s[j] = t[j]
  PROVE  s = t
BY SeqEqual

\* an element put at place k moves those from k on up by one
LEMMA InsertAtIs ==
  ASSUME NEW T, NEW s \in Seq(T), NEW e \in T, NEW k \in 1 .. Len(s) + 1
  PROVE  /\ InsertAt(s, k, e) \in Seq(T)
         /\ Len(InsertAt(s, k, e)) = Len(s) + 1
         /\ \A j \in 1 .. k - 1 : InsertAt(s, k, e)[j] = s[j]
         /\ InsertAt(s, k, e)[k] = e
         /\ \A j \in k .. Len(s) : InsertAt(s, k, e)[j + 1] = s[j]
<1> DEFINE a == SubSeq(s, 1, k - 1)
           b == <<e>>
           c == SubSeq(s, k, Len(s))
<1>1. Len(s) \in Nat /\ k \in Int /\ \A j \in 1 .. Len(s) : s[j] \in T
  OBVIOUS
<1>2. /\ a \in Seq(T) /\ Len(a) = k - 1 /\ \A j \in 1 .. k - 1 : a[j] = s[j]
  <2>1. \A j \in 1 .. k - 1 : s[j] \in T
    BY <1>1
  <2>2. /\ a \in Seq(T) /\ Len(a) = IF 1 <= k - 1 THEN k - 1 - 1 + 1 ELSE 0
        /\ \A j \in 1 .. k - 1 - 1 + 1 : a[j] = s[1 + j - 1]
    BY <1>1, <2>1, SubSeqProperties
  <2> HIDE DEF a
  <2> QED
    BY <1>1, <2>2
<1>3. b \in Seq(T) /\ Len(b) = 1 /\ b[1] = e
  OBVIOUS
<1>4. /\ c \in Seq(T) /\ Len(c) = Len(s) - k + 1
      /\ \A j \in 1 .. Len(s) - k + 1 : c[j] = s[k + j - 1]
  <2>1. \A j \in k .. Len(s) : s[j] \in T
    BY <1>1
  <2>2. /\ c \in Seq(T) /\ Len(c) = IF k <= Len(s) THEN Len(s) - k + 1 ELSE 0
        /\ \A j \in 1 .. Len(s) - k + 1 : c[j] = s[k + j - 1]
    BY <1>1, <2>1, SubSeqProperties
  <2> HIDE DEF c
  <2> QED
    BY <1>1, <2>2
<1> HIDE DEF a, b, c
<1>5. /\ a \o b \in Seq(T) /\ Len(a \o b) = k
      /\ \A j \in 1 .. k : (a \o b)[j] = IF j <= k - 1 THEN a[j] ELSE b[j - (k - 1)]
  <2>1. /\ a \o b \in Seq(T) /\ Len(a \o b) = Len(a) + Len(b)
        /\ \A j \in 1 .. Len(a) + Len(b) : (a \o b)[j] = IF j <= Len(a) THEN a[j] ELSE b[j - Len(a)]
    BY <1>2, <1>3, ConcatProperties
  <2> QED
    BY <1>1, <1>2, <1>3, <2>1
<1>6. /\ a \o b \o c \in Seq(T) /\ Len(a \o b \o c) = Len(s) + 1
      /\ \A j \in 1 .. Len(s) + 1 : (a \o b \o c)[j] = IF j <= k THEN (a \o b)[j] ELSE c[j - k]
  <2>1. /\ a \o b \o c \in Seq(T) /\ Len(a \o b \o c) = Len(a \o b) + Len(c)
        /\ \A j \in 1 .. Len(a \o b) + Len(c) :
             (a \o b \o c)[j] = IF j <= Len(a \o b) THEN (a \o b)[j] ELSE c[j - Len(a \o b)]
    BY <1>4, <1>5, ConcatProperties
  <2> QED
    BY <1>1, <1>4, <1>5, <2>1
<1>7. InsertAt(s, k, e) = a \o b \o c
  BY DEF InsertAt, a, b, c
<1>8. ASSUME NEW j \in 1 .. k - 1 PROVE (a \o b \o c)[j] = s[j]
  <2>1. j \in 1 .. Len(s) + 1 /\ j \in 1 .. k /\ j <= k /\ j <= k - 1
    BY <1>1
  <2>2. (a \o b \o c)[j] = (a \o b)[j] /\ (a \o b)[j] = a[j]
    BY <1>5, <1>6, <2>1
  <2> QED
    BY <1>2, <2>2
<1>9. (a \o b \o c)[k] = e
  <2>1. k <= k /\ ~(k <= k - 1) /\ k - (k - 1) = 1 /\ k \in 1 .. k /\ k \in 1 .. Len(s) + 1
    BY <1>1
  <2> QED
    BY <1>3, <1>5, <1>6, <2>1
<1>10. ASSUME NEW j \in k .. Len(s) PROVE (a \o b \o c)[j + 1] = s[j]
  <2>1. j + 1 \in 1 .. Len(s) + 1 /\ ~(j + 1 <= k) /\ (j + 1) - k \in 1 .. Len(s) - k + 1
        /\ k + ((j + 1) - k) - 1 = j
    BY <1>1
  <2>2. (a \o b \o c)[j + 1] = c[(j + 1) - k]
    BY <1>6, <2>1
  <2>3. c[(j + 1) - k] = s[k + ((j + 1) - k) - 1]
    BY <1>4, <2>1
  <2> QED
    BY <2>1, <2>2, <2>3
<1> QED
  BY <1>6, <1>7, <1>8, <1>9, <1>10

\* an element taken from place k moves those after it down by one
LEMMA RemoveAtIs ==
  ASSUME NEW T, NEW s \in Seq(T), NEW k \in 1 .. Len(s)
  PROVE  /\ RemoveAt(s, k) \in Seq(T)
         /\ Len(RemoveAt(s, k)) = Len(s) - 1
         /\ \A j \in 1 .. k - 1 : RemoveAt(s, k)[j] = s[j]
         /\ \A j \in k .. Len(s) - 1 : RemoveAt(s, k)[j] = s[j + 1]
<1> DEFINE a == SubSeq(s, 1, k - 1)
           c == SubSeq(s, k + 1, Len(s))
<1>1. Len(s) \in Nat /\ k \in Int /\ \A j \in 1 .. Len(s) : s[j] \in T
  OBVIOUS
<1>2. /\ a \in Seq(T) /\ Len(a) = k - 1 /\ \A j \in 1 .. k - 1 : a[j] = s[j]
  <2>1. \A j \in 1 .. k - 1 : s[j] \in T
    BY <1>1
  <2>2. /\ a \in Seq(T) /\ Len(a) = IF 1 <= k - 1 THEN k - 1 - 1 + 1 ELSE 0
        /\ \A j \in 1 .. k - 1 - 1 + 1 : a[j] = s[1 + j - 1]
    BY <1>1, <2>1, SubSeqProperties
  <2> HIDE DEF a
  <2> QED
    BY <1>1, <2>2
<1>4. /\ c \in Seq(T) /\ Len(c) = Len(s) - k
      /\ \A j \in 1 .. Len(s) - k : c[j] = s[k + j]
  <2>1. \A j \in k + 1 .. Len(s) : s[j] \in T
    BY <1>1
  <2>2. /\ c \in Seq(T) /\ Len(c) = IF k + 1 <= Len(s) THEN Len(s) - (k + 1) + 1 ELSE 0
        /\ \A j \in 1 .. Len(s) - (k + 1) + 1 : c[j] = s[(k + 1) + j - 1]
    BY <1>1, <2>1, SubSeqProperties
  <2>3. \A j \in 1 .. Len(s) - k : j \in 1 .. Len(s) - (k + 1) + 1 /\ (k + 1) + j - 1 = k + j
    BY <1>1
  <2> HIDE DEF c
  <2>4. Len(c) = Len(s) - k
    BY <1>1, <2>2
  <2> QED
    BY <2>2, <2>3, <2>4
<1> HIDE DEF a, c
<1>6. /\ a \o c \in Seq(T) /\ Len(a \o c) = Len(s) - 1
      /\ \A j \in 1 .. Len(s) - 1 : (a \o c)[j] = IF j <= k - 1 THEN a[j] ELSE c[j - (k - 1)]
  <2>1. /\ a \o c \in Seq(T) /\ Len(a \o c) = Len(a) + Len(c)
        /\ \A j \in 1 .. Len(a) + Len(c) : (a \o c)[j] = IF j <= Len(a) THEN a[j] ELSE c[j - Len(a)]
    BY <1>2, <1>4, ConcatProperties
  <2> QED
    BY <1>1, <1>2, <1>4, <2>1
<1>7. RemoveAt(s, k) = a \o c
  BY DEF RemoveAt, a, c
<1>8. \A j \in 1 .. k - 1 : (a \o c)[j] = s[j]
  BY <1>1, <1>2, <1>6
<1>9. ASSUME NEW j \in k .. Len(s) - 1 PROVE (a \o c)[j] = s[j + 1]
  <2>1. j \in 1 .. Len(s) - 1 /\ ~(j <= k - 1) /\ j - (k - 1) \in 1 .. Len(s) - k
        /\ k + (j - (k - 1)) = j + 1
    BY <1>1
  <2>2. (a \o c)[j] = c[j - (k - 1)]
    BY <1>6, <2>1
  <2>3. c[j - (k - 1)] = s[k + (j - (k - 1))]
    BY <1>4, <2>1
  <2> QED
    BY <2>1, <2>2, <2>3
<1> QED
  BY <1>6, <1>7, <1>8, <1>9

\* the part of a sequence up to place k
LEMMA PrefixIs ==
  ASSUME NEW T, NEW s \in Seq(T), NEW k \in 0 .. Len(s)
  PROVE  /\ SubSeq(s, 1, k) \in Seq(T)
         /\ Len(SubSeq(s, 1, k)) = k
         /\ \A j \in 1 .. k : SubSeq(s, 1, k)[j] = s[j]
<1>1. Len(s) \in Nat /\ k \in Int /\ \A j \in 1 .. k : s[j] \in T
  OBVIOUS
<1>2. /\ SubSeq(s, 1, k) \in Seq(T)
      /\ Len(SubSeq(s, 1, k)) = IF 1 <= k THEN k - 1 + 1 ELSE 0
      /\ \A j \in 1 .. k - 1 + 1 : SubSeq(s, 1, k)[j] = s[1 + j - 1]
  BY <1>1, SubSeqProperties
<1> QED
  BY <1>1, <1>2

-----------------------------------------------------------------------------
(***************************************************************************)
(* The sequential list (sq_list.c).                                        *)
(***************************************************************************)
ArrayInv == /\ Array!TypeOK
            /\ Array!FollowsItems
            /\ Array!CrashAtEnd
            /\ Array!MissesLast

\* the list in the first n of the cells d
Held(n, d) == [j \in 1 .. n |-> d[j - 1]]

LEMMA ArrayShape ==
  ASSUME ArrayInv
  PROVE  /\ length \in Nat /\ length <= Capacity /\ Capacity \in Nat
         /\ data \in [Array!Cells -> Element \cup {None}]
         /\ \A c \in 0 .. Capacity - 1 : c \in Array!Cells
         /\ items \in Seq(Element) /\ Len(items) = length
         /\ \A j \in 1 .. length : items[j] = data[j - 1]
         /\ items = <<>> <=> length = 0
<1>1. /\ length \in 0 .. Capacity /\ Capacity \in Nat
      /\ data \in [Array!Cells -> Element \cup {None}]
      /\ items \in Seq(Element)
  BY Sizes DEF ArrayInv, Array!TypeOK
<1>2. items = [j \in 1 .. length |-> data[j - 1]]
  BY DEF ArrayInv, Array!FollowsItems
<1>3. Len(items) = length
  BY <1>1, <1>2
<1> QED
  BY <1>1, <1>2, <1>3, EmptySeq DEF Array!Cells

\* a step makes the list the one it should be
LEMMA ArrayFollows ==
  ASSUME NEW s \in Seq(Element), items' = s, length' = Len(s),
         \A j \in 1 .. Len(s) : s[j] = data'[j - 1]
  PROVE  Array!FollowsItems'
<1> DEFINE t == [j \in 1 .. Len(s) |-> data'[j - 1]]
<1>1. Len(s) \in Nat /\ \A j \in 1 .. Len(s) : s[j] \in Element
  OBVIOUS
<1>2. t \in Seq(Element) /\ Len(t) = Len(s) /\ \A j \in 1 .. Len(s) : t[j] = s[j]
  BY <1>1
<1>3. s = t
  <2> HIDE DEF t
  <2> QED
    BY <1>2, SameSeq
<1> QED
  BY <1>3 DEF Array!FollowsItems

LEMMA ArrayStarts == Array!Init => ArrayInv
<1> SUFFICES ASSUME Array!Init PROVE ArrayInv
  OBVIOUS
<1>1. /\ length = 0 /\ items = <<>> /\ pc = "open" /\ out.op = "init"
      /\ data = [c \in Array!Cells |-> None]
  BY DEF Array!Init, Array!Result
<1>2. Array!TypeOK
  BY <1>1, Sizes DEF Array!TypeOK
<1>3. Array!FollowsItems
  BY <1>1 DEF Array!FollowsItems
<1> QED
  BY <1>1, <1>2, <1>3 DEF ArrayInv, Array!CrashAtEnd, Array!MissesLast

\* a call that changes the list is no search and does not crash
LEMMA ArrayChanged ==
  ASSUME pc' = "open", out'.op # "index_of"
  PROVE  Array!CrashAtEnd' /\ Array!MissesLast'
BY DEF Array!CrashAtEnd, Array!MissesLast

LEMMA ArrayPush ==
  ASSUME ArrayInv, NEW v \in Element, Array!Push(v)
  PROVE  ArrayInv'
<1>1. /\ pc = "open" /\ pc' = pc /\ length < Capacity /\ length' = length + 1
      /\ data' = [data EXCEPT ![length] = v]
      /\ items' = Append(items, v) /\ out'.op = "push"
  BY DEF Array!Push, Array!Result
<1>2. /\ items' \in Seq(Element) /\ Len(items') = length + 1
      /\ items'[length + 1] = v
      /\ \A j \in 1 .. length : items'[j] = items[j]
  BY <1>1, ArrayShape, AppendProperties
<1>3. length' \in 0 .. Capacity /\ data' \in [Array!Cells -> Element \cup {None}]
  BY <1>1, ArrayShape
<1>4. ASSUME NEW j \in 1 .. length + 1 PROVE items'[j] = data'[j - 1]
  <2>1. CASE j = length + 1
    <3>1. j - 1 = length /\ length \in Array!Cells
      BY <1>1, <2>1, ArrayShape
    <3> QED
      BY <1>1, <1>2, <2>1, <3>1, ArrayShape
  <2>2. CASE j # length + 1
    <3>1. j \in 1 .. length /\ j - 1 \in Array!Cells /\ j - 1 # length
      BY <1>1, <2>2, ArrayShape
    <3> QED
      BY <1>1, <1>2, <3>1, ArrayShape
  <2> QED
    BY <2>1, <2>2
<1>5. Array!FollowsItems'
  <2>1. PICK s : s = items'
    OBVIOUS
  <2> QED
    BY <1>1, <1>2, <1>4, <2>1, ArrayFollows
<1>6. Array!TypeOK'
  BY <1>1, <1>2, <1>3 DEF Array!TypeOK, Array!Cells
<1> QED
  BY <1>1, <1>5, <1>6, ArrayChanged DEF ArrayInv

LEMMA ArrayInsert ==
  ASSUME ArrayInv, NEW v \in Element, NEW idx \in Array!Cells, Array!Insert(v, idx)
  PROVE  ArrayInv'
<1>1. /\ pc = "open" /\ pc' = pc /\ length < Capacity /\ length' = length + 1
      /\ idx \in 0 .. length /\ out'.op = "insert"
      /\ data' = [c \in Array!Cells |->
                    IF c = idx THEN v
                    ELSE IF c \in idx + 1 .. length THEN data[c - 1] ELSE data[c]]
      /\ items' = InsertAt(items, idx + 1, v)
  BY DEF Array!Insert, Array!Result, Array!InsertAt, InsertAt
<1>2. /\ items' \in Seq(Element) /\ Len(items') = length + 1
      /\ \A j \in 1 .. idx : items'[j] = items[j]
      /\ items'[idx + 1] = v
      /\ \A j \in idx + 1 .. length : items'[j + 1] = items[j]
  <2>1. PICK k \in 1 .. Len(items) + 1 : k = idx + 1 /\ k - 1 = idx
    BY <1>1, ArrayShape
  <2>2. items \in Seq(Element) /\ Len(items) = length
    BY ArrayShape
  <2>3. PICK s, T : s = items /\ T = Element /\ s \in Seq(T) /\ v \in T /\ k \in 1 .. Len(s) + 1
    BY <2>1, <2>2
  <2>4. items' = InsertAt(s, k, v)
    BY <1>1, <2>1, <2>3
  <2>5. /\ items' \in Seq(T) /\ Len(items') = Len(s) + 1
        /\ items'[k] = v
    BY <2>3, <2>4, InsertAtIs
  <2>6. \A j \in 1 .. k - 1 : items'[j] = s[j]
    BY <2>3, <2>4, InsertAtIs
  <2>7. \A j \in k .. Len(s) : items'[j + 1] = s[j]
    BY <2>3, <2>4, InsertAtIs
  <2> QED
    BY <2>1, <2>2, <2>3, <2>5, <2>6, <2>7
<1>3. length' \in 0 .. Capacity /\ data' \in [Array!Cells -> Element \cup {None}]
  <2>1. \A c \in Array!Cells : c \in idx + 1 .. length => c - 1 \in Array!Cells
    BY <1>1, ArrayShape DEF Array!Cells
  <2> QED
    BY <1>1, <2>1, ArrayShape
<1>4. ASSUME NEW j \in 1 .. length + 1 PROVE items'[j] = data'[j - 1]
  <2>0. j - 1 \in Array!Cells
    BY <1>1, ArrayShape
  <2>1. CASE j = idx + 1
    <3>1. j - 1 = idx
      BY <1>1, <2>1
    <3> QED
      BY <1>1, <1>2, <2>0, <2>1, <3>1
  <2>2. CASE j < idx + 1
    <3>1. j \in 1 .. idx /\ j \in 1 .. length /\ j - 1 # idx /\ j - 1 \notin idx + 1 .. length
      BY <1>1, <2>2, ArrayShape
    <3> QED
      BY <1>1, <1>2, <2>0, <3>1, ArrayShape
  <2>3. CASE j > idx + 1
    <3>1. PICK i \in idx + 1 .. length : j = i + 1
      <4>1. j - 1 \in idx + 1 .. length /\ j = (j - 1) + 1
        BY <1>1, <2>3, ArrayShape
      <4> QED
        BY <4>1
    <3>2. i \in 1 .. length /\ j - 1 = i /\ i # idx
      BY <1>1, <3>1, ArrayShape
    <3>3. data'[i] = data[i - 1]
      BY <1>1, <2>0, <3>1, <3>2
    <3> QED
      BY <1>2, <3>1, <3>2, <3>3, ArrayShape
  <2> QED
    BY <1>1, <2>1, <2>2, <2>3, ArrayShape
<1>5. Array!FollowsItems'
  <2>1. PICK s : s = items'
    OBVIOUS
  <2> QED
    BY <1>1, <1>2, <1>4, <2>1, ArrayFollows
<1>6. Array!TypeOK'
  BY <1>1, <1>2, <1>3 DEF Array!TypeOK, Array!Cells
<1> QED
  BY <1>1, <1>5, <1>6, ArrayChanged DEF ArrayInv

LEMMA ArrayDelete ==
  ASSUME ArrayInv, NEW idx \in Int, Array!Delete(idx)
  PROVE  ArrayInv'
<1>1. /\ pc = "open" /\ pc' = pc /\ length' = length - 1
      /\ idx \in 0 .. length - 1 /\ out'.op = "delete"
      /\ data' = [c \in Array!Cells |-> IF c \in idx .. length - 2 THEN data[c + 1] ELSE data[c]]
      /\ items' = RemoveAt(items, idx + 1)
  BY DEF Array!Delete, Array!Result, Array!RemoveAt, RemoveAt
<1>2. /\ items' \in Seq(Element) /\ Len(items') = length - 1
      /\ \A j \in 1 .. idx : items'[j] = items[j]
      /\ \A j \in idx + 1 .. length - 1 : items'[j] = items[j + 1]
  <2>1. idx + 1 \in 1 .. Len(items) /\ (idx + 1) - 1 = idx
    BY <1>1, ArrayShape
  <2> QED
    BY <1>1, <2>1, ArrayShape, RemoveAtIs, Zenon
<1>3. length' \in 0 .. Capacity /\ data' \in [Array!Cells -> Element \cup {None}]
  <2>1. \A c \in Array!Cells : c \in idx .. length - 2 => c + 1 \in Array!Cells
    BY <1>1, ArrayShape DEF Array!Cells
  <2>2. length' \in 0 .. Capacity
    BY <1>1, ArrayShape
  <2> QED
    BY <1>1, <2>1, <2>2, ArrayShape
<1>4. ASSUME NEW j \in 1 .. length - 1 PROVE items'[j] = data'[j - 1]
  <2>0. j - 1 \in Array!Cells /\ j \in 1 .. length /\ j + 1 \in 1 .. length
    BY <1>1, ArrayShape
  <2>1. CASE j <= idx
    <3>1. j \in 1 .. idx /\ j - 1 \notin idx .. length - 2
      BY <1>1, <2>1, ArrayShape
    <3> QED
      BY <1>1, <1>2, <2>0, <3>1, ArrayShape
  <2>2. CASE j > idx
    <3>1. j \in idx + 1 .. length - 1 /\ j - 1 \in idx .. length - 2 /\ (j - 1) + 1 = (j + 1) - 1
      BY <1>1, <2>2, ArrayShape
    <3>2. data'[j - 1] = data[(j + 1) - 1]
      BY <1>1, <2>0, <3>1
    <3> QED
      BY <1>2, <2>0, <3>1, <3>2, ArrayShape
  <2> QED
    BY <1>1, <2>1, <2>2, ArrayShape
<1>5. Array!FollowsItems'
  <2>1. PICK s : s = items'
    OBVIOUS
  <2> QED
    BY <1>1, <1>2, <1>4, <2>1, ArrayFollows
<1>6. Array!TypeOK'
  BY <1>1, <1>2, <1>3 DEF Array!TypeOK, Array!Cells
<1> QED
  BY <1>1, <1>5, <1>6, ArrayChanged DEF ArrayInv

\* a call without effect that is no search
LEMMA ArrayAnswered ==
  ASSUME ArrayInv, UNCHANGED <<length, data, pc, items>>, pc = "open", out'.op # "index_of"
  PROVE  ArrayInv'
<1>1. Array!TypeOK' /\ Array!FollowsItems'
  BY DEF ArrayInv, Array!TypeOK, Array!FollowsItems, Array!Cells
<1> QED
  BY <1>1, ArrayChanged DEF ArrayInv

(***************************************************************************)
(* What index_of compares is all of the list but its last element.         *)
(***************************************************************************)
LEMMA ArraySearch ==
  ASSUME ArrayInv, NEW v \in Element, Array!IndexOf(v)
  PROVE  ArrayInv'
<1>1. pc = "open" /\ UNCHANGED <<length, data, items>>
  BY DEF Array!IndexOf, Array!Answer, Array!Crash
<1>2. Array!TypeOK' /\ Array!FollowsItems'
  <2>1. pc' \in {"open", "wild"}
    BY DEF Array!IndexOf, Array!Answer, Array!Crash
  <2> QED
    BY <1>1, <2>1 DEF ArrayInv, Array!TypeOK, Array!FollowsItems, Array!Cells
<1>3. CASE length = 0
  <2>1. items' = <<>> /\ (pc' = "wild" => out'.op = "index_of")
    BY <1>1, <1>3, ArrayShape DEF Array!IndexOf, Array!Answer, Array!Crash, Array!Result
  <2>2. pc' \in {"open", "wild"}
    BY DEF Array!IndexOf, Array!Answer, Array!Crash
  <2>3. Array!CrashAtEnd'
    BY <2>1, <2>2 DEF Array!CrashAtEnd
  <2>4. Array!MissesLast'
    BY <2>1 DEF Array!MissesLast
  <2> QED
    BY <1>2, <2>3, <2>4 DEF ArrayInv
<1>4. CASE length # 0
  <2> DEFINE found == {c \in 0 .. length - 2 : data[c] = v}
             least == CHOOSE c \in found : \A d \in found : c <= d
             elems == SubSeq(items, 1, Len(items) - 1)
  <2>1. /\ pc' = "open" /\ out'.op = "index_of" /\ out'.arg = v
        /\ found # {} => out'.res = least
        /\ found = {} => out'.res = -1
    BY <1>1, <1>4 DEF Array!IndexOf, Array!Answer, Array!Crash, Array!Result, Array!Compared
  <2>2. /\ Len(elems) = length - 1 /\ elems \in Seq(Element)
        /\ \A j \in 1 .. length - 1 : elems[j] = data[j - 1]
    <3>1. Len(items) - 1 \in 0 .. Len(items)
      BY <1>4, ArrayShape
    <3>2. /\ elems \in Seq(Element) /\ Len(elems) = Len(items) - 1
          /\ \A j \in 1 .. Len(items) - 1 : elems[j] = items[j]
      BY <3>1, ArrayShape, PrefixIs
    <3>3. Len(items) = length /\ \A j \in 1 .. length : items[j] = data[j - 1]
      BY ArrayShape
    <3> HIDE DEF elems
    <3>4. \A j \in 1 .. length - 1 : elems[j] = items[j] /\ j \in 1 .. length
      BY <3>2, <3>3, ArrayShape
    <3> QED
      BY <3>2, <3>3, <3>4
  <2>3. found # {} => least \in found /\ \A d \in found : least <= d
    <3> SUFFICES ASSUME found # {} PROVE \E c \in found : \A d \in found : c <= d
      OBVIOUS
    <3>1. found \subseteq Nat
      BY ArrayShape
    <3> HIDE DEF found
    <3> QED
      BY <3>1, LeastIn
  <2>4. Array!CrashAtEnd'
    BY <2>1 DEF Array!CrashAtEnd
  <2>5. SubSeq(items', 1, Len(items') - 1) = elems
    BY <1>1
  <2> HIDE DEF elems, least
  <2>6. \/ out'.res = -1 /\ ~Array!Contains(elems, v)
        \/ /\ out'.res \in 0 .. Len(elems) - 1 /\ elems[out'.res + 1] = v
           /\ ~Array!Contains(SubSeq(elems, 1, out'.res), v)
    <3>1. CASE found = {}
      <4>1. ASSUME NEW j \in 1 .. Len(elems) PROVE elems[j] # v
        <5>1. j \in 1 .. length - 1 /\ j - 1 \in 0 .. length - 2
          BY <2>2, ArrayShape
        <5> QED
          BY <2>2, <3>1, <5>1
      <4> QED
        BY <2>1, <3>1, <4>1 DEF Array!Contains
    <3>2. CASE found # {}
      <4>1. /\ out'.res = least /\ least \in 0 .. length - 2 /\ data[least] = v
            /\ \A d \in 0 .. length - 2 : data[d] = v => least <= d
        BY <2>1, <2>3, <3>2
      <4>2. /\ least \in 0 .. Len(elems) - 1 /\ least + 1 \in 1 .. length - 1
            /\ (least + 1) - 1 = least /\ least \in 0 .. Len(elems)
        BY <2>2, <4>1, ArrayShape
      <4>3. elems[least + 1] = v
        BY <2>2, <4>1, <4>2
      <4>4. /\ Len(SubSeq(elems, 1, least)) = least
            /\ \A j \in 1 .. least : SubSeq(elems, 1, least)[j] = elems[j]
        BY <2>2, <4>2, PrefixIs
      <4>5. ASSUME NEW j \in 1 .. Len(SubSeq(elems, 1, least))
            PROVE  SubSeq(elems, 1, least)[j] # v
        <5>1. j \in 1 .. least /\ j \in 1 .. length - 1 /\ j - 1 \in 0 .. length - 2
              /\ ~(least <= j - 1)
          BY <4>2, <4>4, ArrayShape
        <5> QED
          BY <2>2, <4>1, <4>4, <5>1
      <4> QED
        BY <4>1, <4>2, <4>3, <4>5 DEF Array!Contains
    <3> QED
      BY <3>1, <3>2
  <2>7. Array!MissesLast'
    BY <2>1, <2>5, <2>6 DEF Array!MissesLast, Array!Contains
  <2> QED
    BY <1>2, <2>4, <2>7 DEF ArrayInv
<1> QED
  BY <1>3, <1>4

LEMMA ArrayStep == ArrayInv /\ Array!Next => ArrayInv'
<1> SUFFICES ASSUME ArrayInv, Array!Next PROVE ArrayInv'
  OBVIOUS
<1>1. ASSUME NEW v \in Element, Array!Push(v) \/ Array!PushFull(v) \/ Array!IndexOf(v)
      PROVE  ArrayInv'
  <2>1. CASE Array!PushFull(v)
    BY <2>1, ArrayAnswered DEF Array!PushFull, Array!Answer, Array!Result
  <2> QED
    BY <1>1, <2>1, ArrayPush, ArraySearch
<1>2. ASSUME NEW idx \in -1 .. Capacity + 1,
             Array!InsertRefused(idx) \/ Array!Delete(idx) \/ Array!DeleteRefused(idx)
      PROVE  ArrayInv'
  <2>1. CASE Array!InsertRefused(idx)
    BY <2>1, ArrayAnswered DEF Array!InsertRefused, Array!Answer, Array!Result
  <2>2. CASE Array!DeleteRefused(idx)
    BY <2>2, ArrayAnswered DEF Array!DeleteRefused, Array!Answer, Array!Result
  <2>3. idx \in Int
    BY Sizes
  <2> QED
    BY <1>2, <2>1, <2>2, <2>3, ArrayDelete
<1>3. CASE Array!DeleteEnd
  <2>1. /\ pc' = "segv" /\ out'.op = "delete" /\ out'.arg = length
        /\ UNCHANGED <<length, data, items>>
    BY <1>3 DEF Array!DeleteEnd, Array!Crash, Array!Result
  <2>2. Array!TypeOK' /\ Array!FollowsItems'
    BY <2>1 DEF ArrayInv, Array!TypeOK, Array!FollowsItems, Array!Cells
  <2>3. Len(items') = length
    BY <2>1, ArrayShape
  <2> QED
    BY <2>1, <2>2, <2>3 DEF ArrayInv, Array!CrashAtEnd, Array!MissesLast
<1>4. CASE Array!Destory
  <2>1. /\ pc' = "closed" /\ out'.op = "destory" /\ UNCHANGED <<length, data, items>>
    BY <1>4 DEF Array!Destory, Array!Result
  <2>2. Array!TypeOK' /\ Array!FollowsItems'
    BY <2>1 DEF ArrayInv, Array!TypeOK, Array!FollowsItems, Array!Cells
  <2> QED
    BY <2>1, <2>2 DEF ArrayInv, Array!CrashAtEnd, Array!MissesLast
<1>5. CASE Array!InitAgain
  <2>1. /\ pc' = "open" /\ out'.op = "init" /\ length' = 0 /\ data' = data /\ items' = <<>>
    BY <1>5 DEF Array!InitAgain, Array!Result
  <2>2. Array!TypeOK'
    BY <2>1, Sizes DEF ArrayInv, Array!TypeOK, Array!Cells
  <2>3. Array!FollowsItems'
    BY <2>1 DEF Array!FollowsItems
  <2> QED
    BY <2>1, <2>2, <2>3, ArrayChanged DEF ArrayInv
<1> QED
  BY <1>1, <1>2, <1>3, <1>4, <1>5, ArrayInsert DEF Array!Next

-----------------------------------------------------------------------------
(***************************************************************************)
(* Linked lists: p, the nodes of the list in their order, are different    *)
(* ones, h is the first, and nx leads from each to the one after it.       *)
(***************************************************************************)
IsList(nodes, p, h, nx) ==
  /\ p \in Seq(nodes)
  /\ Distinct(p)
  /\ p = <<>> => h = None
  /\ p # <<>> => h = p[1] /\ nx[p[Len(p)]] = None
  /\ \A j \in 1 .. Len(p) - 1 : nx[p[j]] = p[j + 1]

NodesOf(p) == {p[j] : j \in 1 .. Len(p)}

LEMMA ListShape ==
  ASSUME NEW nodes, NEW p, NEW h, NEW nx, IsList(nodes, p, h, nx)
  PROVE  /\ p \in Seq(nodes) /\ Distinct(p) /\ Len(p) \in Nat
         /\ \A j \in 1 .. Len(p) : p[j] \in nodes
         /\ p = <<>> <=> Len(p) = 0
         /\ Len(p) # 0 => h = p[1] /\ nx[p[Len(p)]] = None
         /\ \A j \in 1 .. Len(p) - 1 : nx[p[j]] = p[j + 1]
BY EmptySeq DEF IsList

LEMMA EmptyList == ASSUME NEW nodes, NEW nx PROVE IsList(nodes, <<>>, None, nx) /\ NodesOf(<<>>) = {}
BY DEF IsList, NodesOf, Distinct

\* q is p with n put in after place k, or without the one after place k
Inserted(p, q, k, n) == /\ Len(q) = Len(p) + 1 /\ q[k + 1] = n
                        /\ \A j \in 1 .. k : q[j] = p[j]
                        /\ \A j \in k + 1 .. Len(p) : q[j + 1] = p[j]
Removed(p, q, k) == /\ Len(q) = Len(p) - 1
                    /\ \A j \in 1 .. k : q[j] = p[j]
                    /\ \A j \in k + 1 .. Len(p) - 1 : q[j] = p[j + 1]

LEMMA PrependIs ==
  ASSUME NEW nodes, NEW p \in Seq(nodes), NEW n \in nodes, NEW q, q = <<n>> \o p
  PROVE  q \in Seq(nodes) /\ Inserted(p, q, 0, n)
<1>1. Len(p) \in Nat
  OBVIOUS
<1>2. /\ q \in Seq(nodes) /\ Len(q) = Len(p) + 1 /\ q[1] = n
      /\ \A j \in 1 .. Len(p) : q[j + 1] = p[j]
  <2>1. <<n>> \in Seq(nodes) /\ Len(<<n>>) = 1 /\ <<n>>[1] = n
    OBVIOUS
  <2>2. /\ q \in Seq(nodes) /\ Len(q) = 1 + Len(p)
        /\ \A j \in 1 .. 1 + Len(p) : q[j] = IF j <= 1 THEN <<n>>[j] ELSE p[j - 1]
    BY <1>1, <2>1, ConcatProperties
  <2>3. q[1] = n
    BY <1>1, <2>1, <2>2
  <2>4. ASSUME NEW j \in 1 .. Len(p) PROVE q[j + 1] = p[j]
    <3>1. j + 1 \in 1 .. 1 + Len(p) /\ ~(j + 1 <= 1) /\ (j + 1) - 1 = j
      BY <1>1
    <3> QED
      BY <2>2, <3>1
  <2> QED
    BY <1>1, <2>2, <2>3, <2>4
<1> QED
  BY <1>1, <1>2 DEF Inserted

LEMMA PutInIs ==
  ASSUME NEW nodes, NEW p \in Seq(nodes), NEW n \in nodes, NEW k \in 0 .. Len(p),
         NEW q, q = InsertAt(p, k + 1, n)
  PROVE  q \in Seq(nodes) /\ Inserted(p, q, k, n)
<1>1. Len(p) \in Nat
  OBVIOUS
<1>2. PICK m \in 1 .. Len(p) + 1 : m = k + 1 /\ m - 1 = k
  BY <1>1
<1>3. /\ InsertAt(p, m, n) \in Seq(nodes)
      /\ Len(InsertAt(p, m, n)) = Len(p) + 1
      /\ \A j \in 1 .. m - 1 : InsertAt(p, m, n)[j] = p[j]
      /\ InsertAt(p, m, n)[m] = n
      /\ \A j \in m .. Len(p) : InsertAt(p, m, n)[j + 1] = p[j]
  BY InsertAtIs
<1>4. q = InsertAt(p, m, n)
  BY <1>2
<1> QED
  BY <1>2, <1>3, <1>4 DEF Inserted

\* q is p up to its place k, and then n
Appended(p, q, k, n) == /\ Len(q) = k + 1 /\ q[k + 1] = n
                        /\ \A j \in 1 .. k : q[j] = p[j]
                        /\ NodesOf(q) \subseteq NodesOf(p) \cup {n}
                        /\ k = Len(p) => q = Append(p, n) /\ NodesOf(q) = NodesOf(p) \cup {n}

LEMMA AppendIs ==
  ASSUME NEW nodes, NEW p \in Seq(nodes), NEW n \in nodes, NEW k \in 1 .. Len(p),
         NEW q, q = Append(SubSeq(p, 1, k), n)
  PROVE  q \in Seq(nodes) /\ Appended(p, q, k, n)
<1>1. Len(p) \in Nat /\ k \in 0 .. Len(p)
  OBVIOUS
<1>2. /\ q \in Seq(nodes) /\ Len(q) = k + 1 /\ q[k + 1] = n
      /\ \A j \in 1 .. k : q[j] = p[j]
  <2>1. /\ SubSeq(p, 1, k) \in Seq(nodes) /\ Len(SubSeq(p, 1, k)) = k
        /\ \A j \in 1 .. k : SubSeq(p, 1, k)[j] = p[j]
    BY <1>1, PrefixIs
  <2> QED
    BY <2>1, AppendProperties
<1>3. /\ \A j \in 1 .. Len(q) : j \in 1 .. k \/ j = k + 1
      /\ \A j \in 1 .. k : j \in 1 .. Len(q) /\ j \in 1 .. Len(p)
      /\ k + 1 \in 1 .. Len(q)
  BY <1>1, <1>2
<1>4. NodesOf(q) \subseteq NodesOf(p) \cup {n}
  BY <1>2, <1>3 DEF NodesOf
<1>5. k = Len(p) => NodesOf(p) \cup {n} \subseteq NodesOf(q)
  BY <1>2, <1>3 DEF NodesOf
<1>6. k = Len(p) => q = Append(p, n)
  OBVIOUS
<1> QED
  BY <1>2, <1>4, <1>5, <1>6 DEF Appended

LEMMA TakenOutIs ==
  ASSUME NEW nodes, NEW p \in Seq(nodes), NEW k \in 0 .. Len(p) - 1,
         NEW q, q = RemoveAt(p, k + 1)
  PROVE  q \in Seq(nodes) /\ Removed(p, q, k)
<1>1. Len(p) \in Nat
  OBVIOUS
<1>2. PICK m \in 1 .. Len(p) : m = k + 1 /\ m - 1 = k
  BY <1>1
<1>3. /\ RemoveAt(p, m) \in Seq(nodes)
      /\ Len(RemoveAt(p, m)) = Len(p) - 1
      /\ \A j \in 1 .. m - 1 : RemoveAt(p, m)[j] = p[j]
      /\ \A j \in m .. Len(p) - 1 : RemoveAt(p, m)[j] = p[j + 1]
  BY RemoveAtIs
<1>4. q = RemoveAt(p, m)
  BY <1>2
<1> QED
  BY <1>2, <1>3, <1>4 DEF Removed

\* the nodes of a list with a new one, wherever it is put
LEMMA Lengthened ==
  ASSUME NEW nodes, NEW p \in Seq(nodes), Distinct(p), NEW n \in nodes, n \notin NodesOf(p),
         NEW k \in 0 .. Len(p), NEW q, Inserted(p, q, k, n)
  PROVE  Distinct(q) /\ NodesOf(q) = NodesOf(p) \cup {n}
<1>1. /\ Len(p) \in Nat /\ \A j \in 1 .. Len(p) : p[j] \in nodes /\ p[j] # n
  BY DEF NodesOf
<1>2. /\ Len(q) = Len(p) + 1 /\ q[k + 1] = n
      /\ \A j \in 1 .. k : q[j] = p[j]
      /\ \A j \in k + 1 .. Len(p) : q[j + 1] = p[j]
  BY DEF Inserted
\* where the nodes of p are in q, and which node of p each of q is
<1> DEFINE up(j) == IF j <= k THEN j ELSE j + 1
<1>a. \A j \in 1 .. Len(p) : up(j) \in 1 .. Len(q) /\ q[up(j)] = p[j] /\ up(j) # k + 1
  <2> SUFFICES ASSUME NEW j \in 1 .. Len(p)
               PROVE up(j) \in 1 .. Len(q) /\ q[up(j)] = p[j] /\ up(j) # k + 1
    OBVIOUS
  <2>1. CASE j <= k
    <3>1. j \in 1 .. k /\ j \in 1 .. Len(q) /\ j # k + 1
      BY <1>1, <1>2, <2>1
    <3> QED
      BY <1>2, <2>1, <3>1
  <2>2. CASE ~(j <= k)
    <3>1. j \in k + 1 .. Len(p) /\ j + 1 \in 1 .. Len(q) /\ j + 1 # k + 1
      BY <1>1, <1>2, <2>2
    <3> QED
      BY <1>2, <2>2, <3>1
  <2> QED
    BY <2>1, <2>2
<1>b. \A j \in 1 .. Len(q) : j = k + 1 \/ \E i \in 1 .. Len(p) : j = up(i)
  <2> SUFFICES ASSUME NEW j \in 1 .. Len(q), j # k + 1 PROVE \E i \in 1 .. Len(p) : j = up(i)
    OBVIOUS
  <2>1. CASE j <= k
    <3>1. j \in 1 .. Len(p) /\ up(j) = j
      BY <1>1, <1>2, <2>1
    <3> QED
      BY <3>1
  <2>2. CASE ~(j <= k)
    <3>1. PICK i \in Int : j = i + 1
      <4>1. j - 1 \in Int /\ j = (j - 1) + 1
        BY <1>1, <1>2
      <4> QED
        BY <4>1
    <3>2. i \in 1 .. Len(p) /\ ~(i <= k)
      BY <1>1, <1>2, <2>2, <3>1
    <3> QED
      BY <3>1, <3>2
  <2> QED
    BY <2>1, <2>2
<1> HIDE DEF up
<1>3. NodesOf(q) = NodesOf(p) \cup {n}
  <2>1. k + 1 \in 1 .. Len(q)
    BY <1>1, <1>2
  <2>2. n \in NodesOf(q)
    BY <1>2, <2>1 DEF NodesOf
  <2>3. NodesOf(p) \subseteq NodesOf(q)
    <3> SUFFICES ASSUME NEW j \in 1 .. Len(p) PROVE \E i \in 1 .. Len(q) : p[j] = q[i]
      BY DEF NodesOf
    <3> QED
      BY <1>a
  <2>4. ASSUME NEW j \in 1 .. Len(q) PROVE q[j] \in NodesOf(p) \cup {n}
    <3>1. CASE j = k + 1
      BY <1>2, <3>1
    <3>2. CASE j # k + 1
      <4>1. PICK i \in 1 .. Len(p) : j = up(i)
        BY <1>b, <3>2
      <4>2. q[j] = p[i]
        BY <1>a, <4>1
      <4> QED
        BY <4>2 DEF NodesOf
    <3> QED
      BY <3>1, <3>2
  <2>5. NodesOf(q) \subseteq NodesOf(p) \cup {n}
    BY <2>4 DEF NodesOf
  <2> QED
    BY <2>2, <2>3, <2>5
<1>4. Distinct(q)
  <2> SUFFICES ASSUME NEW j \in 1 .. Len(q), NEW j2 \in 1 .. Len(q), q[j] = q[j2] PROVE j = j2
    BY DEF Distinct
  <2>1. CASE j = k + 1 /\ j2 # k + 1
    <3>1. PICK i \in 1 .. Len(p) : j2 = up(i)
      BY <1>b, <2>1
    <3> QED
      BY <1>1, <1>2, <1>a, <2>1, <3>1
  <2>2. CASE j # k + 1 /\ j2 = k + 1
    <3>1. PICK i \in 1 .. Len(p) : j = up(i)
      BY <1>b, <2>2
    <3> QED
      BY <1>1, <1>2, <1>a, <2>2, <3>1
  <2>3. CASE j # k + 1 /\ j2 # k + 1
    <3>1. PICK i \in 1 .. Len(p), i2 \in 1 .. Len(p) : j = up(i) /\ j2 = up(i2)
      BY <1>b, <2>3
    <3>2. p[i] = p[i2]
      BY <1>a, <3>1
    <3> QED
      BY <3>1, <3>2 DEF Distinct
  <2> QED
    BY <2>1, <2>2, <2>3
<1> QED
  BY <1>3, <1>4

\* and without one
LEMMA Shortened ==
  ASSUME NEW nodes, NEW p \in Seq(nodes), Distinct(p), NEW k \in 0 .. Len(p) - 1,
         NEW q, Removed(p, q, k)
  PROVE  Distinct(q) /\ NodesOf(q) = NodesOf(p) \ {p[k + 1]}
<1>1. /\ Len(p) \in Nat /\ k + 1 \in 1 .. Len(p)
  OBVIOUS
<1>2. /\ Len(q) = Len(p) - 1
      /\ \A j \in 1 .. k : q[j] = p[j]
      /\ \A j \in k + 1 .. Len(p) - 1 : q[j] = p[j + 1]
  BY DEF Removed
<1> DEFINE up(j) == IF j <= k THEN j ELSE j + 1
<1>3. \A j \in 1 .. Len(q) : up(j) \in 1 .. Len(p) /\ q[j] = p[up(j)] /\ up(j) # k + 1
  <2> SUFFICES ASSUME NEW j \in 1 .. Len(q)
               PROVE  up(j) \in 1 .. Len(p) /\ q[j] = p[up(j)] /\ up(j) # k + 1
    OBVIOUS
  <2>1. CASE j <= k
    <3>1. j \in 1 .. k /\ j \in 1 .. Len(p) /\ j # k + 1
      BY <1>1, <1>2, <2>1
    <3> QED
      BY <1>2, <2>1, <3>1
  <2>2. CASE ~(j <= k)
    <3>1. j \in k + 1 .. Len(p) - 1 /\ j + 1 \in 1 .. Len(p) /\ j + 1 # k + 1
      BY <1>1, <1>2, <2>2
    <3> QED
      BY <1>2, <2>2, <3>1
  <2> QED
    BY <2>1, <2>2
<1>4. \A j \in 1 .. Len(p) : j = k + 1 \/ \E i \in 1 .. Len(q) : j = up(i)
  <2> SUFFICES ASSUME NEW j \in 1 .. Len(p), j # k + 1 PROVE \E i \in 1 .. Len(q) : j = up(i)
    OBVIOUS
  <2>1. CASE j <= k
    <3>1. j \in 1 .. Len(q) /\ up(j) = j
      BY <1>1, <1>2, <2>1
    <3> QED
      BY <3>1
  <2>2. CASE ~(j <= k)
    <3>1. j - 1 \in 1 .. Len(q) /\ up(j - 1) = j
      BY <1>1, <1>2, <2>2
    <3> QED
      BY <3>1
  <2> QED
    BY <2>1, <2>2
<1>5. \A i, j \in 1 .. Len(q) : up(i) = up(j) => i = j
  BY <1>1, <1>2
<1> HIDE DEF up
<1>6. \A i, j \in 1 .. Len(p) : p[i] = p[j] => i = j
  BY DEF Distinct
<1>7. NodesOf(q) = NodesOf(p) \ {p[k + 1]}
  <2>1. ASSUME NEW j \in 1 .. Len(q) PROVE q[j] \in NodesOf(p) /\ q[j] # p[k + 1]
    BY <1>1, <1>3, <1>6 DEF NodesOf
  <2>2. ASSUME NEW j \in 1 .. Len(p), p[j] # p[k + 1] PROVE p[j] \in NodesOf(q)
    <3>1. PICK i \in 1 .. Len(q) : j = up(i)
      BY <1>4, <2>2
    <3> QED
      BY <1>3, <3>1 DEF NodesOf
  <2> QED
    BY <2>1, <2>2 DEF NodesOf
<1>8. Distinct(q)
  <2> SUFFICES ASSUME NEW j \in 1 .. Len(q), NEW j2 \in 1 .. Len(q), q[j] = q[j2] PROVE j = j2
    BY DEF Distinct
  <2>1. p[up(j)] = p[up(j2)] /\ up(j) \in 1 .. Len(p) /\ up(j2) \in 1 .. Len(p)
    BY <1>3
  <2> QED
    BY <1>5, <1>6, <2>1
<1> QED
  BY <1>7, <1>8

\* a new node before the first
LEMMA ListPrepend ==
  ASSUME NEW nodes, NEW nx \in [nodes -> nodes \cup {None}], NEW p, NEW h,
         IsList(nodes, p, h, nx), NEW n \in nodes, n \notin NodesOf(p),
         NEW q \in Seq(nodes), Inserted(p, q, 0, n),
         NEW nx2, nx2 = [nx EXCEPT ![n] = h]
  PROVE  IsList(nodes, q, n, nx2)
<1>1. /\ p \in Seq(nodes) /\ Distinct(p) /\ Len(p) \in Nat
      /\ \A j \in 1 .. Len(p) : p[j] \in nodes /\ p[j] # n
  BY ListShape DEF NodesOf
<1>2. /\ Len(q) = Len(p) + 1 /\ q[1] = n
      /\ \A j \in 1 .. Len(p) : q[j + 1] = p[j]
  BY DEF Inserted
<1>5. Distinct(q)
  BY <1>1, Lengthened
<1>6. nx2[n] = h /\ \A j \in 1 .. Len(p) : nx2[p[j]] = nx[p[j]]
  BY <1>1
<1>7. q # <<>> /\ n = q[1] /\ nx2[q[Len(q)]] = None
  <2>1. CASE Len(p) = 0
    <3>1. Len(q) = 1 /\ h = None
      BY <1>2, <2>1, ListShape DEF IsList
    <3>2. q # <<>>
      <4>1. q = <<>> <=> Len(q) = 0
        BY SeqShape
      <4> QED
        BY <3>1, <4>1
    <3>3. q[Len(q)] = n
      BY <1>2, <3>1
    <3> QED
      BY <1>2, <1>6, <3>1, <3>2, <3>3
  <2>2. CASE Len(p) # 0
    <3>1. Len(p) \in 1 .. Len(p) /\ q[Len(q)] = p[Len(p)]
      BY <1>1, <1>2, <2>2
    <3> QED
      BY <1>2, <1>6, <2>2, <3>1, ListShape
  <2> QED
    BY <2>1, <2>2
<1>8. ASSUME NEW j \in 1 .. Len(q) - 1 PROVE nx2[q[j]] = q[j + 1]
  <2>1. j \in 1 .. Len(p) /\ q[j + 1] = p[j]
    BY <1>1, <1>2
  <2>2. CASE j = 1
    <3>1. Len(p) # 0
      BY <1>1, <2>1
    <3> QED
      BY <1>2, <1>6, <2>1, <2>2, <3>1, ListShape
  <2>3. CASE j # 1
    <3>1. PICK i \in 1 .. Len(p) : j = i + 1
      <4>1. j - 1 \in 1 .. Len(p) /\ j = (j - 1) + 1
        BY <1>1, <2>1, <2>3
      <4> QED
        BY <4>1
    <3>2. i \in 1 .. Len(p) - 1
      BY <1>1, <2>1, <3>1
    <3> QED
      BY <1>2, <1>6, <2>1, <3>1, <3>2, ListShape
  <2> QED
    BY <2>2, <2>3
<1> QED
  BY <1>5, <1>7, <1>8 DEF IsList

\* a new node after the one at place k
LEMMA ListInsert ==
  ASSUME NEW nodes, NEW nx \in [nodes -> nodes \cup {None}], NEW p, NEW h,
         IsList(nodes, p, h, nx), NEW n \in nodes, n \notin NodesOf(p),
         NEW k \in 1 .. Len(p), NEW q \in Seq(nodes), Inserted(p, q, k, n),
         NEW nx2, nx2 = [nx EXCEPT ![n] = nx[p[k]], ![p[k]] = n]
  PROVE  IsList(nodes, q, h, nx2)
<1>1. /\ p \in Seq(nodes) /\ Distinct(p) /\ Len(p) \in Nat
      /\ \A j \in 1 .. Len(p) : p[j] \in nodes /\ p[j] # n
  BY ListShape DEF NodesOf
<1>2. /\ Len(q) = Len(p) + 1 /\ q[k + 1] = n
      /\ \A j \in 1 .. k : q[j] = p[j]
      /\ \A j \in k + 1 .. Len(p) : q[j + 1] = p[j]
  BY DEF Inserted
<1>5. Distinct(q)
  <2>1. k \in 0 .. Len(p)
    BY <1>1
  <2> QED
    BY <1>1, <2>1, Lengthened
<1>6. /\ nx2[n] = nx[p[k]] /\ nx2[p[k]] = n
      /\ \A j \in 1 .. Len(p) : j # k => nx2[p[j]] = nx[p[j]]
  <2>1. \A j \in 1 .. Len(p) : j # k => p[j] # p[k]
    BY ListShape DEF Distinct
  <2> QED
    BY <1>1, <2>1
<1>7. q # <<>> /\ h = q[1] /\ nx2[q[Len(q)]] = None
  <2>0. q # <<>> /\ Len(p) # 0 /\ 1 \in 1 .. k
    BY <1>1, <1>2, EmptySeq
  <2>1. h = q[1]
    BY <1>2, <2>0, ListShape
  <2>2. CASE k = Len(p)
    <3>1. Len(q) = k + 1
      BY <1>2, <2>2
    <3> QED
      BY <1>2, <1>6, <2>0, <2>1, <2>2, <3>1, ListShape
  <2>3. CASE k # Len(p)
    <3>1. Len(p) \in k + 1 .. Len(p) /\ Len(p) \in 1 .. Len(p)
      BY <1>1, <2>3
    <3>2. q[Len(q)] = p[Len(p)]
      BY <1>2, <3>1
    <3>3. nx2[p[Len(p)]] = nx[p[Len(p)]]
      BY <1>6, <2>3, <3>1
    <3>4. nx[p[Len(p)]] = None
      BY <2>0, ListShape
    <3> QED
      BY <2>0, <2>1, <3>2, <3>3, <3>4
  <2> QED
    BY <2>2, <2>3
<1>8. ASSUME NEW j \in 1 .. Len(q) - 1 PROVE nx2[q[j]] = q[j + 1]
  <2>1. CASE j < k
    <3>1. j \in 1 .. k /\ j + 1 \in 1 .. k /\ j \in 1 .. Len(p) - 1 /\ j # k /\ j \in 1 .. Len(p)
      BY <1>1, <2>1
    <3> QED
      BY <1>2, <1>6, <3>1, ListShape
  <2>2. CASE j = k
    <3>1. k \in 1 .. k
      OBVIOUS
    <3> QED
      BY <1>2, <1>6, <2>2, <3>1
  <2>3. CASE j = k + 1
    <3>1. k \in 1 .. Len(p) - 1 /\ k + 1 \in k + 1 .. Len(p)
      BY <1>1, <1>2, <2>3
    <3> QED
      BY <1>2, <1>6, <2>3, <3>1, ListShape
  <2>4. CASE j > k + 1
    <3>1. PICK i \in k + 1 .. Len(p) : j = i + 1
      <4>1. j - 1 \in k + 1 .. Len(p) /\ j = (j - 1) + 1
        BY <1>1, <1>2, <2>4
      <4> QED
        BY <4>1
    <3>2. i \in 1 .. Len(p) - 1 /\ i \in 1 .. Len(p) /\ i # k /\ i + 1 \in k + 1 .. Len(p)
      BY <1>1, <1>2, <3>1
    <3>3. q[j] = p[i] /\ q[j + 1] = p[i + 1]
      BY <1>2, <3>1, <3>2
    <3>4. nx2[p[i]] = nx[p[i]] /\ nx[p[i]] = p[i + 1]
      BY <1>6, <3>2, ListShape
    <3> QED
      BY <3>3, <3>4
  <2> QED
    BY <1>1, <2>1, <2>2, <2>3, <2>4
<1> QED
  BY <1>5, <1>7, <1>8 DEF IsList

\* a new node after the one at place k, which becomes the last
LEMMA ListAppend ==
  ASSUME NEW nodes, NEW nx \in [nodes -> nodes \cup {None}], NEW p, NEW h,
         IsList(nodes, p, h, nx), NEW n \in nodes, n \notin NodesOf(p),
         NEW k \in 1 .. Len(p), NEW q, q = Append(SubSeq(p, 1, k), n),
         NEW nx2, nx2 = [nx EXCEPT ![n] = None, ![p[k]] = n]
  PROVE  IsList(nodes, q, h, nx2)
<1>1. /\ p \in Seq(nodes) /\ Len(p) \in Nat /\ \A j \in 1 .. Len(p) : p[j] \in nodes /\ p[j] # n
  BY ListShape DEF NodesOf
<1>2. /\ q \in Seq(nodes) /\ Len(q) = k + 1 /\ q[k + 1] = n /\ q # <<>>
      /\ \A j \in 1 .. k : q[j] = p[j]
  <2>1. q \in Seq(nodes)
    BY <1>1, AppendIs
  <2>2. Appended(p, q, k, n)
    BY <1>1, AppendIs
  <2>3. Len(q) # 0 /\ Len(q) = k + 1
    BY <2>2 DEF Appended
  <2> QED
    BY <2>1, <2>2, <2>3, EmptySeq DEF Appended
<1>3. /\ \A j \in 1 .. Len(q) : j \in 1 .. k \/ j = k + 1
      /\ \A j \in 1 .. k : j \in 1 .. Len(q) /\ j \in 1 .. Len(p)
      /\ k + 1 \in 1 .. Len(q) /\ k \in 1 .. k
  BY <1>1, <1>2
<1>6. Distinct(q)
  <2> SUFFICES ASSUME NEW j \in 1 .. Len(q), NEW j2 \in 1 .. Len(q), q[j] = q[j2] PROVE j = j2
    BY DEF Distinct
  <2>1. CASE j \in 1 .. k /\ j2 \in 1 .. k
    <3>1. p[j] = p[j2]
      BY <1>2, <2>1
    <3> QED
      BY <1>3, <2>1, <3>1, ListShape DEF Distinct
  <2> QED
    BY <1>1, <1>2, <1>3, <2>1
<1>7. /\ nx2[n] = None /\ nx2[p[k]] = n
      /\ \A j \in 1 .. Len(p) : j # k => nx2[p[j]] = nx[p[j]]
  <2>1. \A j \in 1 .. Len(p) : j # k => p[j] # p[k]
    BY ListShape DEF Distinct
  <2> QED
    BY <1>1, <2>1
<1>8. h = q[1] /\ nx2[q[Len(q)]] = None
  <2>1. 1 \in 1 .. k /\ Len(p) # 0
    BY <1>1
  <2> QED
    BY <1>2, <1>7, <2>1, ListShape
<1>9. ASSUME NEW j \in 1 .. Len(q) - 1 PROVE nx2[q[j]] = q[j + 1]
  <2>1. CASE j = k
    BY <1>2, <1>3, <1>7, <2>1
  <2>2. CASE j # k
    <3>1. j \in 1 .. k /\ j + 1 \in 1 .. k /\ j \in 1 .. Len(p) - 1 /\ j \in 1 .. Len(p)
      BY <1>1, <1>2, <2>2
    <3> QED
      BY <1>2, <1>7, <2>2, <3>1, ListShape
  <2> QED
    BY <2>1, <2>2
<1> QED
  BY <1>2, <1>6, <1>8, <1>9 DEF IsList

\* the node at place k + 1 unlinked from the one before
LEMMA ListRemove ==
  ASSUME NEW nodes, NEW nx \in [nodes -> nodes \cup {None}], NEW p, NEW h,
         IsList(nodes, p, h, nx), NEW k \in 1 .. Len(p) - 1,
         NEW q \in Seq(nodes), Removed(p, q, k),
         NEW nx2, nx2 = [nx EXCEPT ![p[k]] = nx[p[k + 1]]]
  PROVE  IsList(nodes, q, h, nx2)
<1>1. /\ p \in Seq(nodes) /\ Distinct(p) /\ Len(p) \in Nat /\ \A j \in 1 .. Len(p) : p[j] \in nodes
      /\ k \in 1 .. Len(p) /\ k + 1 \in 1 .. Len(p) /\ k \in 0 .. Len(p) - 1
  BY ListShape
<1>2. /\ Len(q) = Len(p) - 1
      /\ \A j \in 1 .. k : q[j] = p[j]
      /\ \A j \in k + 1 .. Len(p) - 1 : q[j] = p[j + 1]
  BY DEF Removed
<1>6. \A i, j \in 1 .. Len(p) : p[i] = p[j] => i = j
  BY <1>1 DEF Distinct
<1>8. Distinct(q)
  BY <1>1, Shortened
<1>9. /\ nx2[p[k]] = nx[p[k + 1]]
      /\ \A j \in 1 .. Len(p) : j # k => nx2[p[j]] = nx[p[j]]
  BY <1>1, <1>6
<1>10. q # <<>> /\ h = q[1] /\ nx2[q[Len(q)]] = None
  <2>1. q # <<>> /\ 1 \in 1 .. k /\ Len(p) # 0
    BY <1>1, <1>2, EmptySeq
  <2>2. CASE k + 1 = Len(p)
    <3>1. Len(q) = k /\ k \in 1 .. k
      BY <1>1, <1>2, <2>2
    <3>2. q[Len(q)] = p[k] /\ nx[p[k + 1]] = None
      BY <1>2, <2>1, <2>2, <3>1, ListShape
    <3> QED
      BY <1>2, <1>9, <2>1, <3>2, ListShape
  <2>3. CASE k + 1 # Len(p)
    <3>1. Len(p) - 1 \in k + 1 .. Len(p) - 1 /\ Len(p) \in 1 .. Len(p) /\ Len(p) # k
          /\ (Len(p) - 1) + 1 = Len(p)
      BY <1>1, <2>3
    <3>2. q[Len(q)] = p[Len(p)]
      BY <1>2, <3>1
    <3> QED
      BY <1>2, <1>9, <2>1, <3>1, <3>2, ListShape
  <2> QED
    BY <2>2, <2>3
<1>11. ASSUME NEW j \in 1 .. Len(q) - 1 PROVE nx2[q[j]] = q[j + 1]
  <2>1. CASE j < k
    <3>1. j \in 1 .. k /\ j + 1 \in 1 .. k /\ j \in 1 .. Len(p) - 1 /\ j # k /\ j \in 1 .. Len(p)
      BY <1>1, <2>1
    <3> QED
      BY <1>2, <1>9, <3>1, ListShape
  <2>2. CASE j = k
    <3>1. k \in 1 .. k /\ k + 1 \in k + 1 .. Len(p) - 1 /\ k + 1 \in 1 .. Len(p) - 1
      BY <1>1, <1>2, <2>2
    <3> QED
      BY <1>2, <1>9, <2>2, <3>1, ListShape
  <2>3. CASE j > k
    <3>1. j \in k + 1 .. Len(p) - 1 /\ j + 1 \in k + 1 .. Len(p) - 1
          /\ j + 1 \in 1 .. Len(p) /\ j + 1 # k /\ j + 1 \in 1 .. Len(p) - 1
      BY <1>1, <1>2, <2>3
    <3>2. q[j] = p[j + 1] /\ q[j + 1] = p[(j + 1) + 1]
      BY <1>2, <3>1
    <3>3. nx2[p[j + 1]] = nx[p[j + 1]] /\ nx[p[j + 1]] = p[(j + 1) + 1]
      BY <1>9, <3>1, ListShape
    <3> QED
      BY <3>2, <3>3
  <2> QED
    BY <1>1, <1>2, <2>1, <2>2, <2>3
<1> QED
  BY <1>8, <1>10, <1>11 DEF IsList

\* the first node taken off
LEMMA ListBehead ==
  ASSUME NEW nodes, NEW p, NEW h, NEW nx, IsList(nodes, p, h, nx), p # <<>>,
         NEW q \in Seq(nodes), Removed(p, q, 0)
  PROVE  IsList(nodes, q, nx[h], nx)
<1>1. /\ p \in Seq(nodes) /\ Distinct(p) /\ Len(p) \in Nat /\ Len(p) # 0
      /\ \A j \in 1 .. Len(p) : p[j] \in nodes
      /\ 1 \in 1 .. Len(p) /\ h = p[1] /\ 0 \in 0 .. Len(p) - 1
  BY ListShape
<1>2. /\ Len(q) = Len(p) - 1
      /\ \A j \in 1 .. Len(p) - 1 : q[j] = p[j + 1]
  BY DEF Removed
<1>6. Distinct(q)
  BY <1>1, Shortened
<1>7. CASE Len(p) = 1
  <2>1. q = <<>> /\ nx[h] = None
    BY <1>1, <1>2, <1>7, ListShape, EmptySeq
  <2> QED
    BY <2>1, EmptyList
<1>8. CASE Len(p) # 1
  <2>1. q # <<>> /\ 1 \in 1 .. Len(p) - 1 /\ Len(q) \in 1 .. Len(p) - 1 /\ Len(q) + 1 = Len(p)
    BY <1>1, <1>2, <1>8, EmptySeq
  <2>2. nx[h] = q[1] /\ nx[q[Len(q)]] = None
    BY <1>1, <1>2, <2>1, ListShape
  <2>3. ASSUME NEW j \in 1 .. Len(q) - 1 PROVE nx[q[j]] = q[j + 1]
    <3>1. j \in 1 .. Len(p) - 1 /\ j + 1 \in 1 .. Len(p) - 1
      BY <1>1, <1>2
    <3> QED
      BY <1>2, <3>1, ListShape
  <2>4. IsList(nodes, q, nx[h], nx)
    BY <1>2, <1>6, <2>1, <2>2, <2>3 DEF IsList
  <2> QED
    BY <2>4
<1> QED
  BY <1>7, <1>8

(***************************************************************************)
(* Walks along a pointer field: where a step leads from x if u are the     *)
(* nodes in use, and that a walk told as a recursive function makes these  *)
(* steps.                                                                  *)
(***************************************************************************)
Onward(u, nx, x) == IF x \in u THEN nx[x] ELSE IF x \in {None, "segv"} THEN "segv" ELSE "wild"

IsWalk(w, u, nx, h) == w[0] = h /\ \A k \in Nat : w[k + 1] = Onward(u, nx, w[k])

Meets(w, u, p) == /\ \A k \in 0 .. Len(p) - 1 : w[k] = p[k + 1] /\ w[k] \in u
                  /\ w[Len(p)] = None
                  /\ \A k \in Nat : k > Len(p) => w[k] = "segv"

MetBy(w, u) == [k \in 1 .. Cardinality({j \in 0 .. Cardinality(Node) : w[j] \in u}) |-> w[k - 1]]

LEMMA Apart == /\ None \notin Node /\ "segv" \notin Node /\ "wild" \notin Node
               /\ None # "segv" /\ None # "wild"
BY NullIsApart

LEMMA Walks ==
  ASSUME NEW u, u \subseteq Node, NEW U, NEW nx \in [Node -> U], NEW h,
         NEW w, w = CHOOSE f : f = [k \in Nat |-> IF k = 0 THEN h ELSE Onward(u, nx, f[k - 1])]
  PROVE  IsWalk(w, u, nx, h)
<1> DEFINE Rule(f) == f = [k \in Nat |-> IF k = 0 THEN h ELSE Onward(u, nx, f[k - 1])]
           T == U \cup {h, "segv", "wild"}
           F == [x \in T |-> Onward(u, nx, x)]
<1>1. F \in [T -> T] /\ h \in T
  BY DEF Onward
<1>2. PICK g \in [Nat -> T] : g[0] = h /\ \A n \in Nat : g[n + 1] = F[g[n]]
  <2>1. PICK T1, F1 : T1 = T /\ F1 = F
    OBVIOUS
  <2>2. F1 \in [T1 -> T1] /\ h \in T1
    BY <1>1, <2>1
  <2>3. PICK g : Iteration(g, T1, F1, h)
    BY <2>2, Iterates
  <2> HIDE DEF F, T
  <2> QED
    BY <2>1, <2>3 DEF Iteration
<1>3. \A n \in Nat : g[n + 1] = Onward(u, nx, g[n])
  <2> SUFFICES ASSUME NEW n \in Nat PROVE g[n + 1] = Onward(u, nx, g[n])
    OBVIOUS
  <2>1. g[n] \in T
    BY <1>2
  <2>2. F[g[n]] = Onward(u, nx, g[n])
    <3> HIDE DEF T
    <3> QED
      BY <2>1
  <2> HIDE DEF F
  <2> QED
    BY <1>2, <2>2
<1>4. Rule(g)
  <2>1. ASSUME NEW n \in Nat
        PROVE  g[n] = IF n = 0 THEN h ELSE Onward(u, nx, g[n - 1])
    <3>1. CASE n = 0
      BY <1>2, <3>1
    <3>2. CASE n # 0
      <4>1. n - 1 \in Nat /\ (n - 1) + 1 = n
        BY <3>2
      <4> QED
        BY <1>3, <3>2, <4>1
    <3> QED
      BY <3>1, <3>2
  <2> HIDE DEF T
  <2> QED
    BY <1>2, <2>1
<1>5. Rule(w)
  <2>1. w = CHOOSE f : Rule(f)
    OBVIOUS
  <2> HIDE DEF Rule
  <2> QED
    BY <1>4, <2>1
<1>6. w[0] = h
  BY <1>5
<1>7. ASSUME NEW n \in Nat PROVE w[n + 1] = Onward(u, nx, w[n])
  <2>1. n + 1 \in Nat /\ n + 1 # 0 /\ (n + 1) - 1 = n
    OBVIOUS
  <2> QED
    BY <1>5, <2>1
<1> QED
  BY <1>6, <1>7 DEF IsWalk

\* a walk meets the nodes of the list, then NULL, and then it crashes
LEMMA ListWalk ==
  ASSUME NEW u, u \subseteq Node, NEW nx, NEW p, NEW h, IsList(Node, p, h, nx),
         NodesOf(p) \subseteq u,
         NEW w, IsWalk(w, u, nx, h)
  PROVE  Meets(w, u, p)
<1> DEFINE right(k) == /\ k < Len(p) => w[k] = p[k + 1]
                       /\ k = Len(p) => w[k] = None
                       /\ k > Len(p) => w[k] = "segv"
           Right == {k \in Nat : right(k)}
<1>1. /\ Len(p) \in Nat /\ \A j \in 1 .. Len(p) : p[j] \in u
      /\ None \notin u /\ "segv" \notin u
  <2>1. Len(p) \in Nat
    BY ListShape
  <2> QED
    BY <2>1, Apart DEF NodesOf
<1>0. w[0] = h /\ \A k \in Nat : w[k + 1] = Onward(u, nx, w[k])
  BY DEF IsWalk
<1>9. \A j \in 1 .. Len(p) - 1 : nx[p[j]] = p[j + 1]
  BY ListShape
<1>2. 0 \in Right
  <2>1. Len(p) = 0 => h = None
    BY ListShape DEF IsList
  <2>2. Len(p) # 0 => h = p[1]
    BY ListShape
  <2> QED
    BY <1>0, <1>1, <2>1, <2>2
<1>3. ASSUME NEW k \in Nat, k \in Right PROVE k + 1 \in Right
  <2>1. CASE k + 1 < Len(p)
    <3>0. k < Len(p) /\ k + 1 \in 1 .. Len(p) - 1 /\ k + 1 \in 1 .. Len(p)
      BY <1>1, <2>1
    <3>1. w[k] = p[k + 1]
      BY <1>3, <3>0
    <3>2. w[k + 1] = nx[p[k + 1]]
      BY <1>0, <1>1, <3>0, <3>1 DEF Onward
    <3>3. nx[p[k + 1]] = p[(k + 1) + 1]
      BY <1>9, <3>0
    <3> QED
      BY <1>1, <2>1, <3>2, <3>3
  <2>2. CASE k + 1 = Len(p)
    <3>1. w[k] = p[k + 1] /\ k + 1 \in 1 .. Len(p) /\ Len(p) # 0
      BY <1>1, <1>3, <2>2
    <3>2. w[k + 1] = nx[p[k + 1]] /\ nx[p[k + 1]] = None
      <4>1. nx[p[Len(p)]] = None
        BY <3>1, ListShape
      <4>2. w[k + 1] = Onward(u, nx, p[k + 1]) /\ p[k + 1] \in u
        BY <1>0, <1>1, <3>1
      <4> QED
        BY <2>2, <4>1, <4>2 DEF Onward
    <3> QED
      BY <1>1, <2>2, <3>2
  <2>3. CASE k + 1 > Len(p)
    <3>0. k = Len(p) \/ k > Len(p)
      BY <1>1, <2>3
    <3>1. w[k] = None \/ w[k] = "segv"
      BY <1>3, <3>0
    <3>2. w[k + 1] = "segv"
      BY <1>0, <1>1, <3>1 DEF Onward
    <3>3. ~(k + 1 < Len(p)) /\ k + 1 # Len(p) /\ k + 1 \in Nat
      BY <1>1, <2>3
    <3> QED
      BY <2>3, <3>2, <3>3
  <2> QED
    BY <1>1, <2>1, <2>2, <2>3
<1>4. Nat \subseteq Right
  <2> HIDE DEF Right
  <2> QED
    BY <1>2, <1>3, Induct
<1>5. ASSUME NEW k \in Nat PROVE right(k)
  <2> HIDE DEF right
  <2> QED
    BY <1>4
<1>6. ASSUME NEW k \in 0 .. Len(p) - 1 PROVE w[k] = p[k + 1] /\ w[k] \in u
  <2>1. k \in Nat /\ k < Len(p) /\ k + 1 \in 1 .. Len(p)
    BY <1>1
  <2>2. w[k] = p[k + 1]
    BY <1>5, <2>1
  <2> QED
    BY <1>1, <2>1, <2>2
<1> QED
  BY <1>1, <1>5, <1>6 DEF Meets

\* the nodes that such a walk meets are the list
LEMMA ListMet ==
  ASSUME NEW u, u \subseteq Node, NEW nx, NEW p, NEW h, IsList(Node, p, h, nx),
         NodesOf(p) \subseteq u,
         NEW w, IsWalk(w, u, nx, h)
  PROVE  MetBy(w, u) = p
<1> DEFINE met == {j \in 0 .. Cardinality(Node) : w[j] \in u}
<1>1. Len(p) \in Nat /\ p \in Seq(Node) /\ Distinct(p) /\ None \notin u /\ "segv" \notin u
  BY ListShape, Apart
<1>2. Len(p) <= Cardinality(Node) /\ Cardinality(Node) \in Nat
  BY <1>1, DistinctIsShort, FS_CardinalityType, FiniteMemory
<1>3. /\ \A k \in 0 .. Len(p) - 1 : w[k] = p[k + 1] /\ w[k] \in u
      /\ w[Len(p)] = None
      /\ \A k \in Nat : k > Len(p) => w[k] = "segv"
  <2>1. Meets(w, u, p)
    BY ListWalk
  <2> QED
    BY <2>1 DEF Meets
<1>4. \A j \in Nat : w[j] \in u <=> j \in 0 .. Len(p) - 1
  <2> SUFFICES ASSUME NEW j \in Nat, j \notin 0 .. Len(p) - 1 PROVE w[j] \notin u
    BY <1>3
  <2>1. j = Len(p) \/ j > Len(p)
    BY <1>1
  <2> QED
    BY <1>1, <1>3, <2>1
<1>5. met = 0 .. Len(p) - 1
  <2>1. 0 .. Len(p) - 1 \subseteq 0 .. Cardinality(Node)
    BY <1>1, <1>2
  <2>2. 0 .. Cardinality(Node) \subseteq Nat
    BY <1>2
  <2> QED
    BY <1>4, <2>1, <2>2
<1>6. Cardinality(met) = Len(p)
  <2>1. Cardinality(0 .. Len(p) - 1) = (Len(p) - 1) - 0 + 1
    <3>1. PICK m \in Int : m = Len(p) - 1
      BY <1>1
    <3>2. Cardinality(0 .. m) = IF 0 > m THEN 0 ELSE m - 0 + 1
      BY FS_Interval
    <3> QED
      BY <1>1, <3>1, <3>2
  <2>2. (Len(p) - 1) - 0 + 1 = Len(p)
    BY <1>1
  <2> HIDE DEF met
  <2> QED
    BY <1>5, <2>1, <2>2
<1> HIDE DEF met
<1> DEFINE c == [k \in 1 .. Len(p) |-> w[k - 1]]
<1>7. \A k \in 1 .. Len(p) : w[k - 1] = p[k] /\ p[k] \in Node
  <2> SUFFICES ASSUME NEW k \in 1 .. Len(p) PROVE w[k - 1] = p[k]
    BY <1>1
  <2>1. k - 1 \in 0 .. Len(p) - 1 /\ (k - 1) + 1 = k
    BY <1>1
  <2> QED
    BY <1>3, <2>1
<1>8. c \in Seq(Node) /\ Len(c) = Len(p) /\ \A k \in 1 .. Len(p) : c[k] = p[k]
  <2>1. \A k \in 1 .. Len(p) : w[k - 1] \in Node
    BY <1>7
  <2>2. c \in [1 .. Len(p) -> Node]
    BY <2>1
  <2>3. c \in Seq(Node) /\ Len(c) = Len(p)
    BY <1>1, <2>2
  <2> QED
    BY <1>7, <2>3
<1>9. c = p
  <2> HIDE DEF c
  <2> QED
    BY <1>1, <1>8, SameSeq
<1> QED
  BY <1>6, <1>9 DEF met, MetBy

-----------------------------------------------------------------------------
(***************************************************************************)
(* The singly linked list (linked_list.c), which the doubly linked one     *)
(* shares: the nodes from head on are a list of nodes in use, tail is one  *)
(* of them.  While no insert has put a node after tail the list is items,  *)
(* tail its last node, and there are no other nodes in use.                *)
(***************************************************************************)
Holds(p) ==
  /\ IsList(Node, p, head, next)
  /\ NodesOf(p) \subseteq used
  /\ p # <<>> => tail \in NodesOf(p)
  /\ ~stale => /\ p = items /\ used = NodesOf(p)
               /\ p # <<>> => tail = p[Len(p)]

SingleInv ==
  /\ Single!TypeOK
  /\ pc # "closed" => \E p : Holds(p)
  /\ pc = "closed" /\ ~stale => used = {}
  /\ Single!LengthDrifts
  /\ Single!CrashNeedsDrift
  /\ Single!AtIsOneBefore

LEMMA SingleWalks ==
  ASSUME used \subseteq Node, NEW U, next \in [Node -> U]
  PROVE  IsWalk(Single!Walk, used, next, head)
<1> DEFINE w == CHOOSE f : f = [k \in Nat |-> IF k = 0 THEN head ELSE Onward(used, next, f[k - 1])]
<1>1. Single!Walk = w
  BY DEF Single!Walk, Single!Follow, Single!Fault, Onward
<1>2. IsWalk(w, used, next, head)
  BY Walks
<1> HIDE DEF w
<1> QED
  BY <1>1, <1>2

LEMMA SingleWalk ==
  ASSUME used \subseteq Node, next \in [Node -> Node \cup {None}], NEW p, Holds(p)
  PROVE  Meets(Single!Walk, used, p) /\ Single!Chain = p
<1>1. PICK w : w = Single!Walk
  OBVIOUS
<1>2. IsWalk(w, used, next, head)
  BY <1>1, SingleWalks
<1>3. IsList(Node, p, head, next) /\ NodesOf(p) \subseteq used
  BY DEF Holds
<1>4. MetBy(w, used) = p
  BY <1>2, <1>3, ListMet
<1>5. Single!Chain = p
  <2>1. \A S : Single!Cardinality(S) = Cardinality(S)
    BY DEF Single!Cardinality, Cardinality
  <2>2. Single!Chain = MetBy(w, used)
    BY <1>1, <2>1 DEF Single!Chain, MetBy
  <2> QED
    BY <1>4, <2>2
<1>6. Meets(w, used, p)
  BY <1>2, <1>3, ListWalk
<1> QED
  BY <1>1, <1>5, <1>6

\* the types, in the words of the proofs
LEMMA SingleTypes ==
  ASSUME Single!TypeOK
  PROVE  /\ head \in Node \cup {None} /\ tail \in Node \cup {None} /\ (head = None <=> tail = None)
         /\ length \in Nat /\ length <= MaxLength /\ MaxLength \in Nat
         /\ next \in [Node -> Node \cup {None}] /\ data \in [Node -> Value \cup {None}]
         /\ used \subseteq Node /\ None \notin used
         /\ items \in Seq(Node) /\ Len(items) \in Nat /\ kept \in Nat /\ stale \in BOOLEAN
  BY Sizes, Apart DEF Single!TypeOK

\* what a list in hand says of head and tail
LEMMA HoldsShape ==
  ASSUME Single!TypeOK, NEW p, Holds(p)
  PROVE  /\ p \in Seq(Node) /\ Distinct(p) /\ Len(p) \in Nat
         /\ IsList(Node, p, head, next)
         /\ \A j \in 1 .. Len(p) : p[j] \in Node /\ p[j] \in used
         /\ p = <<>> <=> Len(p) = 0
         /\ p = <<>> <=> head = None
         /\ p = <<>> => tail = None
         /\ p # <<>> => head = p[1] /\ \E k \in 1 .. Len(p) : tail = p[k]
         /\ ~stale => p = items /\ used = NodesOf(p) /\ (p # <<>> => tail = p[Len(p)])
<1>1. IsList(Node, p, head, next) /\ NodesOf(p) \subseteq used
  BY DEF Holds
<1>2. /\ p \in Seq(Node) /\ Distinct(p) /\ Len(p) \in Nat
      /\ \A j \in 1 .. Len(p) : p[j] \in Node
      /\ p = <<>> <=> Len(p) = 0
      /\ Len(p) # 0 => head = p[1]
  BY <1>1, ListShape
<1>3. p = <<>> => head = None
  BY <1>1 DEF IsList
<1>4. p # <<>> => head # None
  <2>1. p # <<>> => head \in Node
    BY <1>2
  <2> QED
    BY <2>1, Apart
<1>5. p = <<>> => tail = None
  BY <1>3, SingleTypes
<1>6. p # <<>> => \E k \in 1 .. Len(p) : tail = p[k]
  BY DEF Holds, NodesOf
<1>7. \A j \in 1 .. Len(p) : p[j] \in used
  BY <1>1 DEF NodesOf
<1>8. ~stale => p = items /\ used = NodesOf(p) /\ (p # <<>> => tail = p[Len(p)])
  BY DEF Holds
<1> QED
  BY <1>1, <1>2, <1>3, <1>4, <1>5, <1>6, <1>7, <1>8

\* a call that neither crashes nor is a lookup
LEMMA SingleChanged ==
  ASSUME pc' \in {"open", "closed"}, out'.op # "at"
  PROVE  Single!CrashNeedsDrift' /\ Single!AtIsOneBefore'
BY DEF Single!CrashNeedsDrift, Single!AtIsOneBefore

\* a call that changes the list: what is to be shown
LEMMA SingleAfter ==
  ASSUME Single!TypeOK', pc' = "open", out'.op # "at",
         NEW q, Holds(q)',
         ~stale' => length' = Len(items') + kept'
  PROVE  SingleInv'
<1>1. \E p : Holds(p)'
  OBVIOUS
<1> QED
  BY <1>1, SingleChanged DEF SingleInv, Single!LengthDrifts

LEMMA SingleStarts == Single!Init => SingleInv
<1> SUFFICES ASSUME Single!Init PROVE SingleInv
  OBVIOUS
<1>1. /\ head = None /\ tail = None /\ length = 0 /\ used = {} /\ pc = "open" /\ out.op = "init"
      /\ next = [n \in Node |-> None] /\ data = [n \in Node |-> None]
      /\ items = <<>> /\ kept = 0 /\ stale = FALSE
  BY DEF Single!Init, Single!Result
<1>2. Single!TypeOK
  <2>1. MaxLength \in Nat /\ items \in Seq(Node)
    BY <1>1, Sizes
  <2>2. next \in [Node -> Node \cup {None}] /\ data \in [Node -> Value \cup {None}]
    BY <1>1
  <2>3. (head = None <=> tail = None) /\ length \in 0 .. MaxLength /\ used \subseteq Node
    BY <1>1, <2>1
  <2> QED
    BY <1>1, <2>1, <2>2, <2>3 DEF Single!TypeOK
<1>3. Holds(<<>>)
  BY <1>1, EmptyList DEF Holds
<1>4. \E p : Holds(p)
  BY <1>3
<1> QED
  BY <1>1, <1>2, <1>4 DEF SingleInv, Single!LengthDrifts, Single!CrashNeedsDrift, Single!AtIsOneBefore

\* what the insert functions have in common
LEMMA SingleAdd ==
  ASSUME Single!TypeOK, NEW n \in Node, NEW v \in Value, NEW idx, NEW links, Single!Add(n, v, idx, links),
         length < MaxLength
  PROVE  /\ n \in Node /\ n \notin used /\ used' = used \cup {n} /\ next' = links
         /\ length' = length + 1 /\ length' \in 0 .. MaxLength
         /\ data' \in [Node -> Value \cup {None}] /\ used' \subseteq Node
         /\ pc' = pc /\ kept' = kept /\ kept' \in Nat /\ out'.op = "insert"
BY SingleTypes DEF Single!Add, Single!Result

\* the operators of the community modules, as the instances have them
LEMMA SameOperators ==
  /\ \A s, k, e : Single!InsertAt(s, k, e) = InsertAt(s, k, e)
  /\ \A s, k : Single!RemoveAt(s, k) = RemoveAt(s, k)
  /\ \A s : Single!ToSet(s) = {s[j] : j \in DOMAIN s}
  /\ \A s : Single!Last(s) = s[Len(s)]
BY DEF Single!InsertAt, InsertAt, Single!RemoveAt, RemoveAt, Single!ToSet, Single!Last

\* the walk from head: the nodes of the list, and NULL or worse after them
LEMMA SingleSteps ==
  ASSUME Single!TypeOK, NEW p, Holds(p)
  PROVE  /\ \A k \in Nat : Single!Walk[k] \in used <=> k < Len(p)
         /\ \A k \in Nat : k < Len(p) => Single!Walk[k] = p[k + 1]
         /\ \A k \in Nat : Single!Walk[k] \notin used => Single!Walk[k] \in {None, "segv"}
         /\ \A k \in Nat : Single!Walk[k] = "segv" => k > Len(p)
         /\ Single!Chain = p
<1>1. used \subseteq Node /\ next \in [Node -> Node \cup {None}]
  BY SingleTypes
<1>2. PICK w : w = Single!Walk
  OBVIOUS
<1>3. Meets(w, used, p) /\ Single!Chain = p
  BY <1>1, <1>2, SingleWalk
<1>4. Len(p) \in Nat /\ None \notin used /\ "segv" \notin used
  BY <1>1, HoldsShape, Apart
<1>5. \A k \in Nat : k < Len(p) => w[k] = p[k + 1] /\ w[k] \in used
  <2> SUFFICES ASSUME NEW k \in Nat, k < Len(p) PROVE w[k] = p[k + 1] /\ w[k] \in used
    OBVIOUS
  <2>1. k \in 0 .. Len(p) - 1
    BY <1>4
  <2> QED
    BY <1>3, <2>1 DEF Meets
<1>6. \A k \in Nat : ~(k < Len(p)) => w[k] = (IF k = Len(p) THEN None ELSE "segv")
  BY <1>3, <1>4 DEF Meets
<1>7. \A k \in Nat : w[k] \in used <=> k < Len(p)
  BY <1>4, <1>5, <1>6
<1>8. \A k \in Nat : w[k] \notin used => w[k] \in {None, "segv"}
  BY <1>6, <1>7
<1>9. \A k \in Nat : w[k] = "segv" => k > Len(p)
  BY <1>4, <1>5, <1>6, Apart
<1> QED
  BY <1>2, <1>3, <1>5, <1>7, <1>8, <1>9

\* a call that changes no field and crashes, or does not
LEMMA SingleStays ==
  ASSUME SingleInv, pc = "open", UNCHANGED <<head, tail, length, next, data, used, items, kept, stale>>,
         pc' \in {"open", "segv", "assert"},
         Single!CrashNeedsDrift', Single!AtIsOneBefore'
  PROVE  SingleInv'
<1>1. Single!TypeOK'
  BY DEF SingleInv, Single!TypeOK
<1>2. PICK p : Holds(p)
  BY DEF SingleInv
<1>3. Holds(p)'
  BY <1>2 DEF Holds
<1>4. Single!LengthDrifts'
  BY DEF SingleInv, Single!LengthDrifts
<1> QED
  BY <1>1, <1>3, <1>4 DEF SingleInv

LEMMA SingleAnswered ==
  ASSUME SingleInv, pc = "open", NEW op, NEW idx, NEW res, Single!Answer(op, idx, res),
         op = "at" /\ res # None /\ ~stale => res = items[idx]
  PROVE  SingleInv'
<1>1. /\ UNCHANGED <<head, tail, length, next, data, used, items, kept, stale>> /\ pc' = "open"
      /\ out'.op = op /\ out'.idx = idx /\ out'.res = res
  BY DEF Single!Answer, Single!Result, Single!fields, Single!nodes, Single!history
<1>2. Single!CrashNeedsDrift' /\ Single!AtIsOneBefore'
  BY <1>1 DEF Single!CrashNeedsDrift, Single!AtIsOneBefore
<1> QED
  BY <1>1, <1>2, SingleStays

LEMMA SingleCrashed ==
  ASSUME SingleInv, pc = "open", NEW how \in {"segv", "assert"}, NEW op, NEW idx,
         Single!Crash(how, op, idx),
         (op = "at" /\ idx = 0) \/ (kept > 0 /\ idx >= Len(items)) \/ stale
  PROVE  SingleInv'
<1>1. /\ UNCHANGED <<head, tail, length, next, data, used, items, kept, stale>> /\ pc' = how
      /\ out'.op = op /\ out'.idx = idx /\ out'.res = None
  BY DEF Single!Crash, Single!Result, Single!fields, Single!nodes, Single!history
<1>2. Single!CrashNeedsDrift' /\ Single!AtIsOneBefore'
  BY <1>1 DEF Single!CrashNeedsDrift, Single!AtIsOneBefore
<1> QED
  BY <1>1, <1>2, SingleStays

LEMMA SingleInsertHead ==
  ASSUME SingleInv, NEW v \in Value, Single!InsertHead(v)
  PROVE  SingleInv'
<1>0. Single!TypeOK /\ Single!LengthDrifts
  BY DEF SingleInv
<1>1. pc = "open" /\ length < MaxLength /\ stale' = stale
  BY DEF Single!InsertHead, Single!Believed
<1>2. PICK n \in Node : /\ Single!Add(n, v, 0, [next EXCEPT ![n] = head])
                        /\ head' = n
                        /\ tail' = IF head = None THEN n ELSE tail
                        /\ items' = <<n>> \o items
  BY DEF Single!InsertHead
<1>3. /\ n \notin used /\ used' = used \cup {n} /\ next' = [next EXCEPT ![n] = head]
      /\ length' = length + 1 /\ length' \in 0 .. MaxLength
      /\ data' \in [Node -> Value \cup {None}] /\ used' \subseteq Node
      /\ pc' = pc /\ kept' = kept /\ kept' \in Nat /\ out'.op = "insert"
  <2>1. PICK links : links = [next EXCEPT ![n] = head]
    OBVIOUS
  <2>2. Single!Add(n, v, 0, links)
    BY <1>2, <2>1
  <2> QED
    BY <1>0, <1>1, <2>1, <2>2, SingleAdd
<1>a. next \in [Node -> Node \cup {None}]
  BY <1>0, SingleTypes
<1>4. PICK p : Holds(p)
  BY <1>1 DEF SingleInv
<1>5. PICK q : q = <<n>> \o p
  OBVIOUS
<1>6. n \notin NodesOf(p) /\ IsList(Node, p, head, next) /\ p \in Seq(Node) /\ Distinct(p) /\ Len(p) \in Nat
  BY <1>3, <1>4, ListShape DEF Holds
<1>d. q \in Seq(Node) /\ Inserted(p, q, 0, n)
  BY <1>5, <1>6, PrependIs
<1>b. IsList(Node, q, n, next')
  BY <1>a, <1>3, <1>d, <1>6, ListPrepend
<1>c. NodesOf(q) = NodesOf(p) \cup {n}
  <2>1. 0 \in 0 .. Len(p)
    BY <1>6
  <2> QED
    BY <1>d, <1>6, <2>1, Lengthened
<1>7. /\ Len(q) = Len(p) + 1 /\ q[1] = n
      /\ \A j \in 1 .. Len(p) : q[j + 1] = p[j]
  BY <1>d DEF Inserted
<1>8. /\ p \in Seq(Node) /\ Len(p) \in Nat
      /\ p = <<>> <=> Len(p) = 0
      /\ p = <<>> <=> head = None
      /\ ~stale => p = items /\ used = NodesOf(p) /\ (p # <<>> => tail = p[Len(p)])
  BY <1>0, <1>4, HoldsShape
<1>9. items' \in Seq(Node) /\ Len(items') = Len(items) + 1
  <2>1. <<n>> \in Seq(Node) /\ Len(<<n>>) = 1
    OBVIOUS
  <2> QED
    BY <1>0, <1>2, <2>1, SingleTypes, ConcatProperties
<1>10. Single!TypeOK'
  BY <1>0, <1>1, <1>2, <1>3, <1>9, SingleTypes, Apart DEF Single!TypeOK
<1>11. tail' \in NodesOf(q) /\ (~stale => tail' = q[Len(q)])
  <2>1. CASE p = <<>>
    <3>1. tail' = n /\ Len(q) = 1
      BY <1>2, <1>7, <1>8, <2>1
    <3> QED
      BY <1>7, <1>c, <3>1
  <2>2. CASE p # <<>>
    <3>1. tail' = tail /\ Len(p) \in 1 .. Len(p)
      BY <1>2, <1>8, <2>2
    <3>2. tail \in NodesOf(p)
      BY <1>4, <2>2 DEF Holds
    <3>3. q[Len(q)] = p[Len(p)]
      BY <1>7, <3>1
    <3> QED
      BY <1>8, <1>c, <2>2, <3>1, <3>2, <3>3
  <2> QED
    BY <2>1, <2>2
<1>12. Holds(q)'
  <2>1. IsList(Node, q, head', next') /\ NodesOf(q) \subseteq used'
    BY <1>2, <1>3, <1>4, <1>b, <1>c DEF Holds
  <2>2. ~stale' => q = items' /\ used' = NodesOf(q)
    BY <1>1, <1>2, <1>3, <1>5, <1>8, <1>c
  <2> QED
    BY <1>1, <1>11, <2>1, <2>2 DEF Holds
<1>13. ~stale' => length' = Len(items') + kept'
  BY <1>0, <1>1, <1>3, <1>9, SingleTypes DEF Single!LengthDrifts
<1> QED
  BY <1>1, <1>3, <1>10, <1>12, <1>13, SingleAfter

LEMMA SingleInsertTail ==
  ASSUME SingleInv, NEW v \in Value, Single!InsertTail(v)
  PROVE  SingleInv'
<1>0. Single!TypeOK /\ Single!LengthDrifts
  BY DEF SingleInv
<1>1. pc = "open" /\ length < MaxLength /\ stale' = stale
  BY DEF Single!InsertTail, Single!Believed
<1> DEFINE links(n) == IF tail = None THEN [next EXCEPT ![n] = None]
                       ELSE [next EXCEPT ![n] = None, ![tail] = n]
<1>2. PICK n \in Node : /\ Single!Add(n, v, length, links(n))
                        /\ tail' = n
                        /\ head' = IF tail = None THEN n ELSE head
                        /\ items' = Append(items, n)
  BY DEF Single!InsertTail
<1>3. /\ n \notin used /\ used' = used \cup {n} /\ next' = links(n)
      /\ length' = length + 1 /\ length' \in 0 .. MaxLength
      /\ data' \in [Node -> Value \cup {None}] /\ used' \subseteq Node
      /\ pc' = pc /\ kept' = kept /\ kept' \in Nat /\ out'.op = "insert"
  <2>1. PICK l : l = links(n)
    OBVIOUS
  <2>2. Single!Add(n, v, length, l)
    BY <1>2, <2>1
  <2> HIDE DEF links
  <2> QED
    BY <1>0, <1>1, <2>1, <2>2, SingleAdd
<1>a. next \in [Node -> Node \cup {None}]
  BY <1>0, SingleTypes
<1>4. PICK p : Holds(p)
  BY <1>1 DEF SingleInv
<1>6. n \notin NodesOf(p) /\ IsList(Node, p, head, next) /\ p \in Seq(Node) /\ Distinct(p) /\ Len(p) \in Nat
  BY <1>3, <1>4, ListShape DEF Holds
<1>8. /\ p \in Seq(Node) /\ Len(p) \in Nat
      /\ p = <<>> <=> Len(p) = 0
      /\ p = <<>> <=> head = None
      /\ p # <<>> => \E k \in 1 .. Len(p) : tail = p[k]
      /\ ~stale => p = items /\ used = NodesOf(p) /\ (p # <<>> => tail = p[Len(p)])
  BY <1>0, <1>4, HoldsShape
<1>9. items' \in Seq(Node) /\ Len(items') = Len(items) + 1
  BY <1>0, <1>2, SingleTypes, AppendProperties
<1>10. Single!TypeOK'
  <2>1. next' \in [Node -> Node \cup {None}]
    BY <1>0, <1>3, SingleTypes
  <2> HIDE DEF links
  <2> QED
    BY <1>0, <1>1, <1>2, <1>3, <1>9, <2>1, SingleTypes, Apart DEF Single!TypeOK
<1>11. \E q : Holds(q)'
  <2>1. CASE p = <<>>
    <3>1. tail = None /\ head = None
      BY <1>0, <1>8, <2>1, SingleTypes
    <3>2. next' = [next EXCEPT ![n] = head] /\ head' = n
      BY <1>2, <1>3, <3>1
    <3>3. PICK q : q = <<n>> \o p
      OBVIOUS
    <3>c. q \in Seq(Node) /\ Inserted(p, q, 0, n)
      BY <1>6, <3>3, PrependIs
    <3>a. IsList(Node, q, n, next')
      BY <1>a, <1>6, <3>2, <3>c, ListPrepend
    <3>b. NodesOf(q) = NodesOf(p) \cup {n}
      <4>1. 0 \in 0 .. Len(p)
        BY <1>6
      <4> QED
        BY <1>6, <3>c, <4>1, Lengthened
    <3>4. Len(q) = Len(p) + 1 /\ q[1] = n
      BY <3>c DEF Inserted
    <3>5. q = Append(p, n)
      BY <2>1, <3>3
    <3>6. Len(q) = 1
      BY <1>8, <2>1, <3>4
    <3>7. IsList(Node, q, head', next') /\ NodesOf(q) \subseteq used' /\ tail' \in NodesOf(q)
      BY <1>2, <1>3, <1>4, <3>2, <3>a, <3>b DEF Holds
    <3>8. ~stale' => q = items' /\ used' = NodesOf(q) /\ tail' = q[Len(q)]
      BY <1>1, <1>2, <1>3, <1>8, <3>4, <3>5, <3>6, <3>b
    <3> QED
      BY <3>7, <3>8 DEF Holds
  <2>2. CASE p # <<>>
    <3>1. PICK k \in 1 .. Len(p) : tail = p[k] /\ (~stale => k = Len(p))
      <4>1. CASE stale
        BY <1>8, <2>2, <4>1
      <4>2. CASE ~stale
        <5>1. Len(p) \in 1 .. Len(p)
          BY <1>8, <2>2
        <5> QED
          BY <1>8, <2>2, <4>2, <5>1
      <4> QED
        BY <4>1, <4>2
    <3>2. tail # None /\ head # None
      BY <1>0, <1>8, <2>2, SingleTypes
    <3>3. next' = [next EXCEPT ![n] = None, ![p[k]] = n] /\ head' = head
      BY <1>2, <1>3, <3>1, <3>2
    <3>4. PICK q : q = Append(SubSeq(p, 1, k), n)
      OBVIOUS
    <3>a. IsList(Node, q, head, next')
      BY <1>a, <1>6, <3>3, <3>4, ListAppend
    <3>c. Appended(p, q, k, n)
      BY <1>6, <3>4, AppendIs
    <3>b. NodesOf(q) \subseteq NodesOf(p) \cup {n} /\ (k = Len(p) => NodesOf(q) = NodesOf(p) \cup {n})
      BY <3>c DEF Appended
    <3>5. Len(q) = k + 1 /\ q[k + 1] = n
      BY <3>c DEF Appended
    <3>6. IsList(Node, q, head', next') /\ NodesOf(q) \subseteq used'
      BY <1>3, <1>4, <3>3, <3>a, <3>b DEF Holds
    <3>7. tail' \in NodesOf(q) /\ tail' = q[Len(q)]
      <4>1. k + 1 \in 1 .. Len(q)
        BY <3>5
      <4> QED
        BY <1>2, <3>5, <4>1 DEF NodesOf
    <3>8. ~stale' => q = items' /\ used' = NodesOf(q)
      <4>1. k = Len(p) => SubSeq(p, 1, k) = p
        BY <1>8
      <4> QED
        BY <1>1, <1>2, <1>3, <1>8, <3>1, <3>4, <3>b, <4>1
    <3> QED
      BY <3>6, <3>7, <3>8 DEF Holds
  <2> QED
    BY <2>1, <2>2
<1>12. PICK q : Holds(q)'
  BY <1>11
<1>13. ~stale' => length' = Len(items') + kept'
  BY <1>0, <1>1, <1>3, <1>9, SingleTypes DEF Single!LengthDrifts
<1> HIDE DEF links
<1> QED
  BY <1>1, <1>3, <1>10, <1>12, <1>13, SingleAfter
LEMMA SingleInsertMiddle ==
  ASSUME SingleInv, NEW v \in Value, NEW idx \in Single!Indices, Single!InsertMiddle(v, idx)
  PROVE  SingleInv'
<1>0. Single!TypeOK /\ Single!LengthDrifts
  BY DEF SingleInv
<1>1. /\ pc = "open" /\ length < MaxLength /\ idx \in 1 .. length
      /\ Single!Walk[idx - 1] \in used
      /\ stale' = (stale \/ idx >= Len(items)) /\ head' = head /\ tail' = tail
  BY <1>0, SingleTypes DEF Single!InsertMiddle, Single!Believed
<1>2. PICK p : Holds(p)
  BY <1>1 DEF SingleInv
<1>3. /\ p \in Seq(Node) /\ Distinct(p) /\ Len(p) \in Nat
      /\ IsList(Node, p, head, next)
      /\ p = <<>> <=> Len(p) = 0
      /\ p = <<>> <=> head = None
      /\ ~stale => p = items /\ used = NodesOf(p) /\ (p # <<>> => tail = p[Len(p)])
  BY <1>0, <1>2, HoldsShape
<1>4. idx \in 1 .. Len(p) /\ Single!Walk[idx - 1] = p[idx]
  <2>1. idx - 1 \in Nat /\ (idx - 1) + 1 = idx
    BY <1>0, <1>1, SingleTypes
  <2>2. idx - 1 < Len(p)
    BY <1>0, <1>1, <1>2, <2>1, SingleSteps
  <2>3. Single!Walk[idx - 1] = p[(idx - 1) + 1]
    BY <1>0, <1>2, <2>1, <2>2, SingleSteps
  <2> QED
    BY <1>3, <2>1, <2>2, <2>3
<1>5. PICK n \in Node :
        /\ Single!Add(n, v, idx, [next EXCEPT ![n] = next[p[idx]], ![p[idx]] = n])
        /\ items' = InsertAt(items, IF idx < Len(items) THEN idx + 1 ELSE Len(items) + 1, n)
  BY <1>4, SameOperators DEF Single!InsertMiddle
<1>6. /\ n \notin used /\ used' = used \cup {n}
      /\ next' = [next EXCEPT ![n] = next[p[idx]], ![p[idx]] = n]
      /\ length' = length + 1 /\ length' \in 0 .. MaxLength
      /\ data' \in [Node -> Value \cup {None}] /\ used' \subseteq Node
      /\ pc' = pc /\ kept' = kept /\ kept' \in Nat /\ out'.op = "insert"
  <2>1. PICK links : links = [next EXCEPT ![n] = next[p[idx]], ![p[idx]] = n]
    OBVIOUS
  <2>2. Single!Add(n, v, idx, links)
    BY <1>5, <2>1
  <2> QED
    BY <1>0, <1>1, <2>1, <2>2, SingleAdd
<1>7. n \notin NodesOf(p) /\ next \in [Node -> Node \cup {None}]
  BY <1>0, <1>2, <1>6, SingleTypes DEF Holds
<1>8. PICK q : q = InsertAt(p, idx + 1, n)
  OBVIOUS
<1>9. idx \in 0 .. Len(p)
  BY <1>3, <1>4
<1>10. q \in Seq(Node) /\ Inserted(p, q, idx, n)
  BY <1>3, <1>8, <1>9, PutInIs
<1>11. NodesOf(q) = NodesOf(p) \cup {n}
  BY <1>3, <1>7, <1>9, <1>10, Lengthened
<1>12. IsList(Node, q, head', next')
  <2>1. IsList(Node, q, head, next')
    BY <1>3, <1>4, <1>6, <1>7, <1>10, ListInsert
  <2> QED
    BY <1>1, <2>1
<1>13. items' \in Seq(Node) /\ Len(items') = Len(items) + 1
  <2>1. PICK k \in 0 .. Len(items) : k + 1 = IF idx < Len(items) THEN idx + 1 ELSE Len(items) + 1
    <3>1. CASE idx < Len(items)
      <4>1. idx \in 0 .. Len(items)
        BY <1>0, <1>4, <3>1, SingleTypes
      <4> QED
        BY <3>1, <4>1
    <3>2. CASE ~(idx < Len(items))
      <4>1. Len(items) \in 0 .. Len(items)
        BY <1>0, SingleTypes
      <4> QED
        BY <3>2, <4>1
    <3> QED
      BY <3>1, <3>2
  <2>2. items' = InsertAt(items, k + 1, n) /\ items \in Seq(Node)
    BY <1>0, <1>5, <2>1, SingleTypes
  <2>3. PICK t : t = items'
    OBVIOUS
  <2>4. t \in Seq(Node) /\ Inserted(items, t, k, n)
    BY <2>2, <2>3, PutInIs
  <2> QED
    BY <2>3, <2>4 DEF Inserted
<1>14. Single!TypeOK'
  <2>0. p[idx] \in Node /\ next[p[idx]] \in Node \cup {None}
    BY <1>3, <1>4, <1>7, SeqShape
  <2>1. next' \in [Node -> Node \cup {None}]
    BY <1>6, <1>7, <2>0
  <2>2. stale' \in BOOLEAN
    BY <1>1
  <2>3. head' \in Node \cup {None} /\ tail' \in Node \cup {None} /\ (head' = None <=> tail' = None)
    BY <1>0, <1>1, SingleTypes
  <2>4. pc' = "open"
    BY <1>1, <1>6
  <2> QED
    BY <1>6, <1>13, <2>1, <2>2, <2>3, <2>4 DEF Single!TypeOK
<1>15. Holds(q)'
  <2>1. NodesOf(q) \subseteq used'
    BY <1>2, <1>6, <1>11 DEF Holds
  <2>2. tail' \in NodesOf(q)
    BY <1>1, <1>2, <1>3, <1>4, <1>11 DEF Holds
  <2>3. ASSUME ~stale' PROVE q = items' /\ used' = NodesOf(q) /\ tail' = q[Len(q)]
    <3>0. ~stale /\ ~(idx >= Len(items))
      BY <1>1, <2>3
    <3>1. ~stale /\ idx < Len(items) /\ p = items
      BY <1>0, <1>3, <1>4, <3>0, SingleTypes
    <3>2. q = items'
      BY <1>5, <1>8, <3>1
    <3>3. Len(p) \in idx + 1 .. Len(p) /\ p # <<>>
      BY <1>3, <1>4, <3>1
    <3>4. q[Len(q)] = p[Len(p)]
      BY <1>10, <3>3 DEF Inserted
    <3> QED
      BY <1>1, <1>3, <1>6, <1>11, <3>1, <3>2, <3>3, <3>4
  <2> QED
    BY <1>12, <2>1, <2>2, <2>3 DEF Holds
<1>16. ~stale' => length' = Len(items') + kept'
  BY <1>0, <1>1, <1>6, <1>13, SingleTypes DEF Single!LengthDrifts
<1> QED
  BY <1>1, <1>6, <1>14, <1>15, <1>16, SingleAfter

LEMMA SingleInsertLost ==
  ASSUME SingleInv, NEW idx \in Single!Indices, Single!InsertLost(idx)
  PROVE  SingleInv'
<1>0. Single!TypeOK /\ Single!LengthDrifts
  BY DEF SingleInv
<1>1. /\ pc = "open" /\ idx \in 1 .. length - 1
      /\ Single!Walk[idx - 1] \notin used
      /\ Single!Crash(IF Single!Walk[idx - 1] = None THEN "assert" ELSE Single!Fault(Single!Walk[idx - 1]), "insert", idx)
  BY <1>0, SingleTypes DEF Single!InsertLost, Single!Believed
<1>2. PICK p : Holds(p)
  BY <1>1 DEF SingleInv
<1>3. idx - 1 \in Nat
  BY <1>0, <1>1, SingleTypes
<1>4. PICK how \in {"segv", "assert"} :
        how = IF Single!Walk[idx - 1] = None THEN "assert" ELSE Single!Fault(Single!Walk[idx - 1])
  <2>1. Single!Walk[idx - 1] \in {None, "segv"}
    BY <1>0, <1>1, <1>2, <1>3, SingleSteps
  <2> QED
    BY <2>1 DEF Single!Fault
<1>5. (kept > 0 /\ idx >= Len(items)) \/ stale
  <2>1. ~(idx - 1 < Len(p)) /\ (~stale => p = items)
    BY <1>0, <1>1, <1>2, <1>3, SingleSteps, HoldsShape
  <2> QED
    BY <1>0, <1>1, <2>1, SingleTypes DEF Single!LengthDrifts
<1>6. Single!Crash(how, "insert", idx)
  BY <1>1, <1>4
<1> QED
  BY <1>1, <1>4, <1>5, <1>6, SingleCrashed

LEMMA SingleDeleteLost ==
  ASSUME SingleInv, NEW idx \in Single!Indices, Single!DeleteLost(idx)
  PROVE  SingleInv'
<1>0. Single!TypeOK /\ Single!LengthDrifts
  BY DEF SingleInv
<1>1. /\ pc = "open" /\ idx \in 0 .. length - 1 /\ idx \in Nat
      /\ Single!Walk[idx] \notin used
      /\ Single!Crash(Single!Fault(Single!Walk[idx]), "delete", idx)
  BY <1>0, SingleTypes DEF Single!DeleteLost
<1>2. PICK p : Holds(p)
  BY <1>1 DEF SingleInv
<1>3. Single!Fault(Single!Walk[idx]) = "segv"
  <2>1. Single!Walk[idx] \in {None, "segv"}
    BY <1>0, <1>1, <1>2, SingleSteps
  <2> QED
    BY <2>1 DEF Single!Fault
<1>4. (kept > 0 /\ idx >= Len(items)) \/ stale
  <2>1. ~(idx < Len(p)) /\ (~stale => p = items)
    BY <1>0, <1>1, <1>2, SingleSteps, HoldsShape
  <2> QED
    BY <1>0, <1>1, <2>1, SingleTypes DEF Single!LengthDrifts
<1>5. PICK how \in {"segv", "assert"} : how = "segv"
  OBVIOUS
<1>6. Single!Crash(how, "delete", idx)
  BY <1>1, <1>3, <1>5
<1> QED
  BY <1>1, <1>4, <1>6, SingleCrashed

LEMMA SingleAt ==
  ASSUME SingleInv, NEW idx \in Single!Indices, Single!At(idx)
  PROVE  SingleInv'
<1>0. Single!TypeOK /\ Single!LengthDrifts /\ pc = "open"
  BY DEF SingleInv, Single!At
<1>1. PICK p : Holds(p)
  BY <1>0 DEF SingleInv
<1>2. ~stale => p = items
  BY <1>0, <1>1, HoldsShape
<1>3. PICK op : op = "at"
  OBVIOUS
<1>4. CASE idx \notin 0 .. length - 1
  <2>1. Single!Answer(op, idx, None)
    BY <1>3, <1>4 DEF Single!At
  <2> QED
    BY <1>0, <2>1, SingleAnswered
<1>5. CASE idx \in 0 .. length - 1 /\ idx = 0
  <2>1. PICK how \in {"segv", "assert"} : how = "segv"
    OBVIOUS
  <2>2. Single!Crash(how, op, idx)
    BY <1>3, <1>5, <2>1 DEF Single!At
  <2> QED
    BY <1>0, <1>3, <1>5, <2>2, SingleCrashed
<1>6. ASSUME idx \in 0 .. length - 1, idx # 0 PROVE idx - 1 \in Nat /\ (idx - 1) + 1 = idx /\ idx \in Nat
  BY <1>0, <1>6, SingleTypes
<1>7. CASE idx \in 0 .. length - 1 /\ idx # 0 /\ Single!Walk[idx - 1] = "segv"
  <2>1. PICK how \in {"segv", "assert"} : how = "segv"
    OBVIOUS
  <2>2. Single!Crash(how, op, idx)
    BY <1>3, <1>7, <2>1 DEF Single!At
  <2>3. idx - 1 > Len(p)
    BY <1>0, <1>1, <1>6, <1>7, SingleSteps
  <2>4. (kept > 0 /\ idx >= Len(items)) \/ stale
    BY <1>0, <1>2, <1>6, <1>7, <2>3, SingleTypes DEF Single!LengthDrifts
  <2> QED
    BY <1>0, <2>2, <2>4, SingleCrashed
<1>8. CASE idx \in 0 .. length - 1 /\ idx # 0 /\ Single!Walk[idx - 1] # "segv"
  <2>1. PICK res : res = Single!Walk[idx - 1]
    OBVIOUS
  <2>2. Single!Answer(op, idx, res)
    BY <1>3, <1>8, <2>1 DEF Single!At
  <2>3. ASSUME res # None, ~stale PROVE res = items[idx]
    <3>1. res \in used
      BY <1>0, <1>1, <1>6, <1>8, <2>1, <2>3, SingleSteps
    <3>2. idx - 1 < Len(p)
      BY <1>0, <1>1, <1>6, <1>8, <2>1, <3>1, SingleSteps
    <3>3. res = p[(idx - 1) + 1]
      BY <1>0, <1>1, <1>6, <1>8, <2>1, <3>2, SingleSteps
    <3> QED
      BY <1>2, <1>6, <1>8, <2>3, <3>3
  <2> QED
    BY <1>0, <2>2, <2>3, SingleAnswered
<1> QED
  BY <1>4, <1>5, <1>7, <1>8

LEMMA SingleOtherAnswers ==
  ASSUME SingleInv,
         \/ \E idx \in Single!Indices : Single!InsertRefused(idx) \/ Single!DeleteRefused(idx)
         \/ \E v \in Value : Single!IndexOf(v)
  PROVE  SingleInv'
<1>1. PICK op, idx, res : Single!Answer(op, idx, res) /\ op # "at" /\ pc = "open"
  <2>1. ASSUME NEW i \in Single!Indices, Single!InsertRefused(i)
        PROVE  Single!Answer("insert", i, None) /\ pc = "open"
    BY <2>1 DEF Single!InsertRefused
  <2>2. ASSUME NEW i \in Single!Indices, Single!DeleteRefused(i)
        PROVE  Single!Answer("delete", i, None) /\ pc = "open"
    BY <2>2 DEF Single!DeleteRefused
  <2>3. ASSUME NEW v \in Value, Single!IndexOf(v)
        PROVE  Single!Answer("index_of", v, -1) /\ pc = "open"
    BY <2>3 DEF Single!IndexOf
  <2> QED
    BY <2>1, <2>2, <2>3
<1> QED
  BY <1>1, SingleAnswered
\* what the delete functions have in common
LEMMA SingleUnlink ==
  ASSUME Single!TypeOK, NEW n \in used, NEW idx \in Nat, Single!Unlink(n, idx)
  PROVE  /\ used' = used \ {n} /\ data' = data /\ pc' = pc /\ out'.op = "delete"
         /\ items' \in Seq(Node)
         /\ items' = IF idx < Len(items) THEN RemoveAt(items, idx + 1) ELSE items
         /\ idx < Len(items) => Len(items') = Len(items) - 1
<1>1. /\ used' = used \ {n} /\ data' = data /\ pc' = pc /\ out'.op = "delete"
      /\ items' = IF idx < Len(items) THEN RemoveAt(items, idx + 1) ELSE items
  BY SameOperators DEF Single!Unlink, Single!Result
<1>2. items \in Seq(Node) /\ Len(items) \in Nat
  BY SingleTypes
<1>3. CASE idx < Len(items)
  <2>1. idx \in 0 .. Len(items) - 1
    BY <1>2, <1>3
  <2>2. PICK t : t = items'
    OBVIOUS
  <2>3. t = RemoveAt(items, idx + 1)
    BY <1>1, <1>3, <2>2
  <2>4. t \in Seq(Node) /\ Removed(items, t, idx)
    BY <1>2, <2>1, <2>3, TakenOutIs
  <2> QED
    BY <1>1, <2>2, <2>4 DEF Removed
<1> QED
  BY <1>1, <1>2, <1>3

LEMMA SingleDeleteHead ==
  ASSUME SingleInv, Single!DeleteHead
  PROVE  SingleInv'
<1>0. Single!TypeOK /\ Single!LengthDrifts
  BY DEF SingleInv
<1>1. /\ pc = "open" /\ 0 < length /\ head # None /\ Single!Unlink(head, 0)
      /\ IF head = tail THEN head' = None /\ tail' = None
         ELSE head' = next[head] /\ tail' = tail
      /\ length' = length - 1 /\ next' = next /\ kept' = kept /\ stale' = stale
  BY DEF Single!DeleteHead
<1>2. PICK p : Holds(p)
  BY <1>1 DEF SingleInv
<1>3. /\ p \in Seq(Node) /\ Distinct(p) /\ Len(p) \in Nat
      /\ IsList(Node, p, head, next)
      /\ \A j \in 1 .. Len(p) : p[j] \in Node /\ p[j] \in used
      /\ p # <<>> /\ Len(p) # 0 /\ head = p[1]
      /\ ~stale => p = items /\ used = NodesOf(p) /\ (p # <<>> => tail = p[Len(p)])
  BY <1>0, <1>1, <1>2, HoldsShape
<1>4. 1 \in 1 .. Len(p) /\ 0 \in 0 .. Len(p) - 1 /\ head \in used
  BY <1>3
<1>5. /\ used' = used \ {head} /\ data' = data /\ pc' = "open" /\ out'.op = "delete"
      /\ items' \in Seq(Node)
      /\ items' = IF 0 < Len(items) THEN RemoveAt(items, 1) ELSE items
      /\ 0 < Len(items) => Len(items') = Len(items) - 1
  BY <1>0, <1>1, <1>4, SingleUnlink
<1>6. PICK q : q = RemoveAt(p, 0 + 1)
  OBVIOUS
<1>7. q \in Seq(Node) /\ Removed(p, q, 0)
  BY <1>3, <1>4, <1>6, TakenOutIs
<1>8. NodesOf(q) = NodesOf(p) \ {head}
  <2>1. NodesOf(q) = NodesOf(p) \ {p[0 + 1]}
    BY <1>3, <1>4, <1>7, Shortened
  <2> QED
    BY <1>3, <2>1
<1>9. IsList(Node, q, next[head], next)
  BY <1>3, <1>7, ListBehead
<1>10. ~stale' => length' = Len(items') + kept'
  <2> SUFFICES ASSUME ~stale' PROVE length' = Len(items') + kept'
    OBVIOUS
  <2>1. length = Len(items) + kept /\ 0 < Len(items)
    BY <1>0, <1>1, <1>3 DEF Single!LengthDrifts
  <2>2. length \in Nat /\ kept \in Nat /\ Len(items) \in Nat
    BY <1>0, SingleTypes
  <2>3. Len(items') = Len(items) - 1
    BY <1>5, <2>1
  <2>4. length' = length - 1 /\ kept' = kept
    BY <1>1
  <2> QED
    BY <2>1, <2>2, <2>3, <2>4
<1>a. /\ next' \in [Node -> Node \cup {None}] /\ data' \in [Node -> Value \cup {None}]
      /\ used' \subseteq Node /\ length' \in 0 .. MaxLength /\ kept' \in Nat /\ stale' \in BOOLEAN
  BY <1>0, <1>1, <1>5, SingleTypes
<1>11. CASE head = tail
  <2>1. Single!TypeOK'
    BY <1>1, <1>5, <1>11, <1>a DEF Single!TypeOK
  <2>2. IsList(Node, <<>>, head', next') /\ NodesOf(<<>>) = {}
    BY <1>1, <1>11, EmptyList
  <2>3. ASSUME ~stale' PROVE <<>> = items' /\ used' = {}
    <3>1. p = items /\ used = NodesOf(p) /\ tail = p[Len(p)] /\ Len(p) \in 1 .. Len(p)
      BY <1>1, <1>3, <2>3
    <3>2. Len(p) = 1
      BY <1>3, <1>4, <1>11, <3>1 DEF Distinct
    <3>3. items' = <<>>
      BY <1>5, <3>1, <3>2, EmptySeq
    <3>4. NodesOf(p) \subseteq {head}
      BY <1>3, <3>2 DEF NodesOf
    <3> QED
      BY <1>5, <3>1, <3>3, <3>4
  <2>4. Holds(<<>>)'
    BY <2>2, <2>3 DEF Holds
  <2> QED
    BY <1>5, <1>10, <2>1, <2>4, SingleAfter
<1>12. CASE head # tail
  <2>1. head' = next[head] /\ tail' = tail
    BY <1>1, <1>12
  <2>2. tail \in NodesOf(q)
    BY <1>2, <1>3, <1>8, <1>12 DEF Holds
  <2>3. q # <<>> /\ Len(q) \in Nat /\ Len(q) # 0 /\ head' = q[1] /\ head' \in Node
    <3>1. Len(q) \in Nat /\ Len(q) # 0
      BY <1>7, <2>2 DEF NodesOf
    <3>2. 1 \in 1 .. Len(q)
      BY <3>1
    <3> QED
      BY <1>7, <1>9, <2>1, <3>1, <3>2, ListShape, SeqShape
  <2>4. Single!TypeOK'
    <3>1. head' # None /\ tail' # None /\ head' \in Node \cup {None} /\ tail' \in Node \cup {None}
      BY <1>0, <1>1, <2>1, <2>3, SingleTypes, Apart
    <3> QED
      BY <1>5, <1>a, <3>1 DEF Single!TypeOK
  <2>5. ASSUME ~stale' PROVE q = items' /\ used' = NodesOf(q) /\ tail' = q[Len(q)]
    <3>1. p = items /\ used = NodesOf(p) /\ tail = p[Len(p)]
      BY <1>1, <1>3, <2>5
    <3>2. q = items'
      BY <1>3, <1>5, <1>6, <3>1
    <3>3. Len(q) = Len(p) - 1 /\ \A j \in 0 + 1 .. Len(p) - 1 : q[j] = p[j + 1]
      BY <1>7 DEF Removed
    <3>4. Len(q) \in 0 + 1 .. Len(p) - 1 /\ Len(q) + 1 = Len(p)
      BY <1>3, <2>3, <3>3
    <3>5. q[Len(q)] = p[Len(p)]
      BY <3>3, <3>4
    <3> QED
      BY <1>5, <1>8, <2>1, <3>1, <3>2, <3>5
  <2>6. Holds(q)'
    <3>1. IsList(Node, q, head', next') /\ NodesOf(q) \subseteq used' /\ tail' \in NodesOf(q)
      BY <1>1, <1>2, <1>5, <1>8, <1>9, <2>1, <2>2 DEF Holds
    <3> QED
      BY <2>5, <3>1 DEF Holds
  <2> QED
    BY <1>5, <1>10, <2>4, <2>6, SingleAfter
<1> QED
  BY <1>11, <1>12

LEMMA SingleDeleteNext ==
  ASSUME SingleInv, NEW idx \in Single!Indices, Single!DeleteNext(idx)
  PROVE  SingleInv'
<1>0. Single!TypeOK /\ Single!LengthDrifts
  BY DEF SingleInv
<1>1. /\ pc = "open" /\ idx \in 1 .. length - 1 /\ idx \in Nat /\ Single!Walk[idx] \in used
      /\ tail' = IF Single!Walk[idx] = tail THEN Single!Walk[idx - 1] ELSE tail
      /\ next' = [next EXCEPT ![Single!Walk[idx - 1]] = next[Single!Walk[idx]]]
      /\ Single!Unlink(Single!Walk[idx], idx)
      /\ kept' = kept + 1 /\ head' = head /\ length' = length /\ stale' = stale
  <2>1. /\ pc = "open" /\ idx \in 1 .. length - 1 /\ Single!Walk[idx] \in used
        /\ kept' = kept + 1 /\ head' = head /\ length' = length /\ stale' = stale
    BY DEF Single!DeleteNext
  <2>2. idx \in Nat
    BY <1>0, <2>1, SingleTypes
  <2>3. PICK cur \in {Single!Walk[idx - 1]}, gone \in {Single!Walk[idx]} :
          /\ tail' = IF gone = tail THEN cur ELSE tail
          /\ next' = [next EXCEPT ![cur] = next[gone]]
          /\ Single!Unlink(gone, idx)
    BY DEF Single!DeleteNext
  <2>4. cur = Single!Walk[idx - 1] /\ gone = Single!Walk[idx]
    OBVIOUS
  <2> QED
    BY <2>1, <2>2, <2>3, <2>4
<1>2. PICK p : Holds(p)
  BY <1>1 DEF SingleInv
<1>3. /\ p \in Seq(Node) /\ Distinct(p) /\ Len(p) \in Nat
      /\ IsList(Node, p, head, next)
      /\ \A j \in 1 .. Len(p) : p[j] \in Node /\ p[j] \in used
      /\ ~stale => p = items /\ used = NodesOf(p) /\ (p # <<>> => tail = p[Len(p)])
  BY <1>0, <1>2, HoldsShape
<1>4. /\ idx \in 1 .. Len(p) - 1 /\ idx \in 0 .. Len(p) - 1 /\ idx \in 1 .. Len(p) /\ idx + 1 \in 1 .. Len(p)
      /\ Single!Walk[idx] = p[idx + 1] /\ Single!Walk[idx - 1] = p[idx]
  <2>1. idx < Len(p)
    BY <1>0, <1>1, <1>2, SingleSteps
  <2>2. idx - 1 \in Nat /\ (idx - 1) + 1 = idx /\ idx - 1 < Len(p)
    BY <1>1, <1>3, <2>1
  <2>3. Single!Walk[idx] = p[idx + 1]
    BY <1>0, <1>1, <1>2, <2>1, SingleSteps
  <2>4. Single!Walk[idx - 1] = p[(idx - 1) + 1]
    BY <1>0, <1>2, <2>2, SingleSteps
  <2> QED
    BY <1>1, <1>3, <2>1, <2>2, <2>3, <2>4
<1>a. p # <<>>
  BY <1>3, <1>4, EmptySeq
<1>5. PICK gone : gone = p[idx + 1]
  OBVIOUS
<1>6. /\ tail' = IF gone = tail THEN p[idx] ELSE tail
      /\ next' = [next EXCEPT ![p[idx]] = next[p[idx + 1]]]
      /\ Single!Unlink(gone, idx) /\ gone \in used /\ gone \in Node
      /\ p[idx] \in Node /\ p[idx] # gone
  BY <1>1, <1>3, <1>4, <1>5 DEF Distinct
<1>7. /\ used' = used \ {gone} /\ data' = data /\ pc' = "open" /\ out'.op = "delete"
      /\ items' \in Seq(Node)
      /\ items' = IF idx < Len(items) THEN RemoveAt(items, idx + 1) ELSE items
      /\ idx < Len(items) => Len(items') = Len(items) - 1
  BY <1>0, <1>1, <1>6, SingleUnlink
<1>8. PICK q : q = RemoveAt(p, idx + 1)
  OBVIOUS
<1>9. q \in Seq(Node) /\ Removed(p, q, idx)
  BY <1>3, <1>4, <1>8, TakenOutIs
<1>10. NodesOf(q) = NodesOf(p) \ {gone}
  BY <1>3, <1>4, <1>5, <1>9, Shortened
<1>11. next \in [Node -> Node \cup {None}] /\ next[gone] \in Node \cup {None}
  BY <1>0, <1>6, SingleTypes
<1>12. IsList(Node, q, head', next')
  <2>1. IsList(Node, q, head, next')
    BY <1>3, <1>4, <1>6, <1>9, <1>11, ListRemove
  <2> QED
    BY <1>1, <2>1
<1>13. tail \in NodesOf(p) /\ p[idx] \in NodesOf(p)
  BY <1>2, <1>4, <1>a DEF Holds, NodesOf
<1>14. tail' \in NodesOf(q)
  BY <1>6, <1>10, <1>13
<1>15. Single!TypeOK'
  <2>1. next' \in [Node -> Node \cup {None}]
    BY <1>5, <1>6, <1>11
  <2>2. tail' \in Node
    BY <1>9, <1>14 DEF NodesOf
  <2>3. head' \in Node
    BY <1>1, <1>3, <1>a, HoldsShape, SeqShape, ListShape
  <2>4. /\ data' \in [Node -> Value \cup {None}] /\ used' \subseteq Node
        /\ length' \in 0 .. MaxLength /\ kept' \in Nat /\ stale' \in BOOLEAN
    BY <1>0, <1>1, <1>7, SingleTypes
  <2>5. tail' \in Node \cup {None} /\ head' \in Node \cup {None} /\ head' # None /\ tail' # None
    BY <2>2, <2>3, Apart
  <2> QED
    BY <1>7, <2>1, <2>4, <2>5 DEF Single!TypeOK
<1>16. ASSUME ~stale' PROVE q = items' /\ used' = NodesOf(q) /\ tail' = q[Len(q)]
  <2>1. p = items /\ used = NodesOf(p) /\ tail = p[Len(p)]
    BY <1>1, <1>3, <1>a, <1>16
  <2>2. q = items'
    BY <1>3, <1>4, <1>7, <1>8, <2>1
  <2>3. /\ Len(q) = Len(p) - 1
        /\ \A j \in 1 .. idx : q[j] = p[j]
        /\ \A j \in idx + 1 .. Len(p) - 1 : q[j] = p[j + 1]
    BY <1>9 DEF Removed
  <2>4. CASE idx + 1 = Len(p)
    <3>1. Len(q) = idx /\ idx \in 1 .. idx
      BY <1>3, <1>4, <2>3, <2>4
    <3> QED
      BY <1>5, <1>6, <1>7, <1>10, <2>1, <2>2, <2>3, <2>4, <3>1
  <2>5. CASE idx + 1 # Len(p)
    <3>1. Len(p) \in 1 .. Len(p) /\ Len(q) \in idx + 1 .. Len(p) - 1 /\ Len(q) + 1 = Len(p)
      BY <1>3, <1>4, <2>3, <2>5
    <3>2. gone # tail
      BY <1>3, <1>4, <1>5, <2>1, <2>5, <3>1 DEF Distinct
    <3>3. q[Len(q)] = p[Len(p)]
      BY <2>3, <3>1
    <3> QED
      BY <1>6, <1>7, <1>10, <2>1, <2>2, <3>2, <3>3
  <2> QED
    BY <2>4, <2>5
<1>17. Holds(q)'
  <2>1. NodesOf(q) \subseteq used'
    BY <1>2, <1>7, <1>10 DEF Holds
  <2> QED
    BY <1>12, <1>14, <1>16, <2>1 DEF Holds
<1>18. ~stale' => length' = Len(items') + kept'
  <2> SUFFICES ASSUME ~stale' PROVE length' = Len(items') + kept'
    OBVIOUS
  <2>1. length = Len(items) + kept /\ idx < Len(items)
    BY <1>0, <1>1, <1>3, <1>4 DEF Single!LengthDrifts
  <2>2. length \in Nat /\ kept \in Nat /\ Len(items) \in Nat
    BY <1>0, SingleTypes
  <2>3. Len(items') = Len(items) - 1
    BY <1>7, <2>1
  <2>4. length' = length /\ kept' = kept + 1
    BY <1>1
  <2> QED
    BY <2>1, <2>2, <2>3, <2>4
<1> QED
  BY <1>7, <1>15, <1>17, <1>18, SingleAfter

LEMMA SingleDestory ==
  ASSUME SingleInv, Single!Destory
  PROVE  SingleInv'
<1>1. /\ pc = "open" /\ pc' = "closed" /\ out'.op = "destory"
      /\ used' = used \ {Single!Chain[j] : j \in DOMAIN Single!Chain}
      /\ UNCHANGED <<head, tail, length, next, data, items, kept, stale>>
  BY SameOperators DEF Single!Destory, Single!Result, Single!fields, Single!history
<1>2. Single!TypeOK'
  BY <1>1 DEF SingleInv, Single!TypeOK
<1>3. PICK p : Holds(p)
  BY <1>1 DEF SingleInv
<1>4. ASSUME ~stale' PROVE used' = {}
  <2>1. used = NodesOf(p) /\ p \in Seq(Node) /\ Single!Chain = p
    BY <1>1, <1>3, <1>4, HoldsShape, SingleSteps DEF SingleInv
  <2>2. DOMAIN p = 1 .. Len(p)
    BY <2>1
  <2> QED
    BY <1>1, <2>1, <2>2 DEF NodesOf
<1>5. Single!LengthDrifts'
  BY <1>1 DEF SingleInv, Single!LengthDrifts
<1>6. Single!CrashNeedsDrift' /\ Single!AtIsOneBefore'
  BY <1>1, SingleChanged
<1> QED
  BY <1>1, <1>2, <1>4, <1>5, <1>6 DEF SingleInv

LEMMA SingleInitAgain ==
  ASSUME SingleInv, Single!InitAgain
  PROVE  SingleInv'
<1>1. /\ pc = "closed" /\ head' = None /\ tail' = None /\ length' = 0 /\ pc' = "open"
      /\ out'.op = "init" /\ items' = <<>> /\ kept' = 0
      /\ UNCHANGED <<next, data, used, stale>>
  BY DEF Single!InitAgain, Single!Result, Single!nodes
<1>2. Single!TypeOK'
  <2>1. length' \in 0 .. MaxLength /\ items' \in Seq(Node)
    BY <1>1, Sizes
  <2> QED
    BY <1>1, <2>1 DEF SingleInv, Single!TypeOK
<1>3. Holds(<<>>)'
  <2>1. IsList(Node, <<>>, head', next') /\ NodesOf(<<>>) = {}
    BY <1>1, EmptyList
  <2>2. ~stale => used = {}
    BY <1>1 DEF SingleInv
  <2> QED
    BY <1>1, <2>1, <2>2 DEF Holds
<1>4. length' = Len(items') + kept'
  BY <1>1
<1> QED
  BY <1>1, <1>2, <1>3, <1>4, SingleAfter

LEMMA SingleStep == SingleInv /\ Single!Next => SingleInv'
<1> SUFFICES ASSUME SingleInv, Single!Next PROVE SingleInv'
  OBVIOUS
<1>1. ASSUME NEW v \in Value, Single!InsertHead(v) \/ Single!InsertTail(v) \/ Single!IndexOf(v)
      PROVE  SingleInv'
  BY <1>1, SingleInsertHead, SingleInsertTail, SingleOtherAnswers
<1>2. ASSUME NEW v \in Value, NEW idx \in Single!Indices, Single!InsertMiddle(v, idx)
      PROVE  SingleInv'
  BY <1>2, SingleInsertMiddle
<1>3. ASSUME NEW idx \in Single!Indices,
             \/ Single!InsertLost(idx) \/ Single!InsertRefused(idx) \/ Single!DeleteNext(idx)
             \/ Single!DeleteLost(idx) \/ Single!DeleteRefused(idx) \/ Single!At(idx)
      PROVE  SingleInv'
  BY <1>3, SingleInsertLost, SingleOtherAnswers, SingleDeleteNext, SingleDeleteLost, SingleAt
<1>4. Single!DeleteHead \/ Single!Destory \/ Single!InitAgain => SingleInv'
  BY SingleDeleteHead, SingleDestory, SingleInitAgain
<1> QED
  BY <1>1, <1>2, <1>3, <1>4 DEF Single!Next

\* what the list answers to a caller that follows it
LEMMA SingleFollows == SingleInv => Single!FollowsItems
<1> SUFFICES ASSUME SingleInv, ~stale, pc # "closed"
             PROVE  /\ Single!Chain = items
                    /\ tail = IF items = <<>> THEN None ELSE Single!Last(items)
                    /\ used = Single!ToSet(items)
  BY DEF Single!FollowsItems, SingleInv
<1>0. Single!TypeOK
  BY DEF SingleInv
<1>1. PICK p : Holds(p)
  BY DEF SingleInv
<1>2. /\ p = items /\ used = NodesOf(p) /\ (p # <<>> => tail = p[Len(p)])
      /\ (p = <<>> => tail = None) /\ p \in Seq(Node)
  BY <1>0, <1>1, HoldsShape
<1>3. Single!Chain = items
  BY <1>0, <1>1, <1>2, SingleSteps
<1>4. DOMAIN p = 1 .. Len(p)
  BY <1>2
<1> QED
  BY <1>2, <1>3, <1>4, SameOperators DEF NodesOf
-----------------------------------------------------------------------------
(***************************************************************************)
(* The doubly linked list (dlinked_list.c).  While no call has acted on    *)
(* another node than its index names it is a singly linked list, and its   *)
(* own steps are steps of that one as far as the shared state goes; the    *)
(* prev links are the inverse of next where no node has been put in        *)
(* between.                                                                *)
(***************************************************************************)
BackLinks ==
  \A j \in 1 .. Len(items) :
    Double!BackLink(j) \/ (j > 1 /\ {items[j - 1], items[j]} \cap middle # {})

DoubleInv ==
  /\ Double!TypeOK
  /\ ~stale => /\ head = None <=> tail = None
               /\ pc # "closed" => Holds(items)
               /\ pc = "closed" => used = {}
               /\ length = Len(items) + kept
               /\ BackLinks
  /\ Double!CrashNeedsDrift
  /\ Single!AtIsOneBefore

\* the operators of LinkedList, as DLinkedList has them
LEMMA SameFollow ==
  /\ \A x : Double!Single!Fault(x) = Single!Fault(x)
  /\ \A x, f : Double!Single!Follow(x, f) = Single!Follow(x, f)
  /\ \A x : Double!Single!Believed(x) <=> Single!Believed(x)
  /\ \A op, idx, res : Double!Single!Result(op, idx, res) = Single!Result(op, idx, res)
  /\ Double!Single!Indices = Single!Indices
BY DEF Double!Single!Fault, Single!Fault, Double!Single!Follow, Single!Follow,
       Double!Single!Believed, Single!Believed, Double!Single!Result, Single!Result,
       Double!Single!Indices, Single!Indices

LEMMA SameWalk ==
  /\ Double!Single!Walk = Single!Walk
  /\ Double!Single!Chain = Single!Chain
<1>1. Double!Single!Walk = Single!Walk
  BY DEF Double!Single!Fault, Single!Fault, Double!Single!Follow, Single!Follow, Double!Single!Walk, Single!Walk
<1>2. \A S : Double!Single!Cardinality(S) = Single!Cardinality(S)
  BY DEF Double!Single!Cardinality, Single!Cardinality
<1> QED
  BY <1>1, <1>2 DEF Double!Single!Chain, Single!Chain

LEMMA SameSequences ==
  /\ \A t, k, e : Double!InsertAt(t, k, e) = InsertAt(t, k, e)
  /\ \A t, k : Double!Single!RemoveAt(t, k) = RemoveAt(t, k)
  /\ \A t : Double!Single!ToSet(t) = Single!ToSet(t)
  /\ \A t : Double!Single!Last(t) = Single!Last(t)
BY DEF Double!InsertAt, InsertAt, Double!Single!RemoveAt, RemoveAt, Double!Single!ToSet, Single!ToSet,
       Double!Single!Last, Single!Last

LEMMA SameCalls ==
  /\ \A op, idx, res : Double!Single!Answer(op, idx, res) <=> Single!Answer(op, idx, res)
  /\ \A how, op, idx : Double!Single!Crash(how, op, idx) <=> Single!Crash(how, op, idx)
  /\ \A n, v, idx, links : Double!Single!Add(n, v, idx, links) <=> Single!Add(n, v, idx, links)
  /\ \A n, idx : Double!Single!Unlink(n, idx) <=> Single!Unlink(n, idx)
<1>1. \A op, idx, res : Double!Single!Answer(op, idx, res) <=> Single!Answer(op, idx, res)
  BY SameFollow DEF Double!Single!Answer, Single!Answer, Double!Single!fields, Single!fields,
       Double!Single!nodes, Single!nodes, Double!Single!history, Single!history
<1>2. \A how, op, idx : Double!Single!Crash(how, op, idx) <=> Single!Crash(how, op, idx)
  BY SameFollow DEF Double!Single!Crash, Single!Crash, Double!Single!fields, Single!fields,
       Double!Single!nodes, Single!nodes, Double!Single!history, Single!history
<1>3. \A n, v, idx, links : Double!Single!Add(n, v, idx, links) <=> Single!Add(n, v, idx, links)
  BY SameFollow DEF Double!Single!Add, Single!Add
<1>4. \A n, idx : Double!Single!Unlink(n, idx) <=> Single!Unlink(n, idx)
  BY SameFollow, SameSequences, SameOperators DEF Double!Single!Unlink, Single!Unlink
<1> QED
  BY <1>1, <1>2, <1>3, <1>4

LEMMA SameActions ==
  /\ Double!Single!Init <=> Single!Init
  /\ Double!Single!InitAgain <=> Single!InitAgain
  /\ \A v : Double!Single!InsertHead(v) <=> Single!InsertHead(v)
  /\ \A v : Double!Single!InsertTail(v) <=> Single!InsertTail(v)
  /\ \A idx : Double!Single!InsertRefused(idx) <=> Single!InsertRefused(idx)
  /\ \A idx : Double!Single!DeleteRefused(idx) <=> Single!DeleteRefused(idx)
  /\ \A idx : Double!Single!At(idx) <=> Single!At(idx)
  /\ \A v : Double!Single!IndexOf(v) <=> Single!IndexOf(v)
  /\ Double!Single!Destory <=> Single!Destory
<1>1. Double!Single!Init <=> Single!Init
  BY SameFollow DEF Double!Single!Init, Single!Init
<1>2. Double!Single!InitAgain <=> Single!InitAgain
  BY SameFollow DEF Double!Single!InitAgain, Single!InitAgain, Double!Single!nodes, Single!nodes
<1>3. \A v : Double!Single!InsertHead(v) <=> Single!InsertHead(v)
  BY SameFollow, SameCalls DEF Double!Single!InsertHead, Single!InsertHead
<1>4. \A v : Double!Single!InsertTail(v) <=> Single!InsertTail(v)
  BY SameFollow, SameCalls DEF Double!Single!InsertTail, Single!InsertTail
<1>5. \A idx : Double!Single!InsertRefused(idx) <=> Single!InsertRefused(idx)
  BY SameCalls DEF Double!Single!InsertRefused, Single!InsertRefused
<1>6. \A idx : Double!Single!DeleteRefused(idx) <=> Single!DeleteRefused(idx)
  BY SameCalls DEF Double!Single!DeleteRefused, Single!DeleteRefused
<1>7. \A idx : Double!Single!At(idx) <=> Single!At(idx)
  BY SameWalk, SameCalls DEF Double!Single!At, Single!At
<1>8. \A v : Double!Single!IndexOf(v) <=> Single!IndexOf(v)
  BY SameCalls DEF Double!Single!IndexOf, Single!IndexOf
<1>9. Double!Single!Destory <=> Single!Destory
  BY SameFollow, SameWalk, SameSequences DEF Double!Single!Destory, Single!Destory,
     Double!Single!fields, Single!fields, Double!Single!history, Single!history
<1> QED
  BY <1>1, <1>2, <1>3, <1>4, <1>5, <1>6, <1>7, <1>8, <1>9

\* the state that it shares with the singly linked list
LEMMA DoubleIsSingle ==
  ASSUME DoubleInv, ~stale, pc \in {"open", "closed"}
  PROVE  SingleInv /\ BackLinks /\ prev \in [Node -> Node \cup {None, Unwritten}] /\ middle \subseteq Node
<1>1. Single!TypeOK
  BY DEF DoubleInv, Double!TypeOK, Single!TypeOK
<1>2. pc # "closed" => \E p : Holds(p)
  BY DEF DoubleInv
<1>3. Single!LengthDrifts /\ Single!AtIsOneBefore /\ Single!CrashNeedsDrift
  BY DEF DoubleInv, Single!LengthDrifts, Single!CrashNeedsDrift
<1> QED
  BY <1>1, <1>2, <1>3 DEF DoubleInv, SingleInv, Double!TypeOK

\* a step that is one of the singly linked list: what else is to be shown
LEMMA DoubleAfter ==
  ASSUME SingleInv', prev' \in [Node -> Node \cup {None, Unwritten}], middle' \subseteq Node,
         ~stale' => BackLinks'
  PROVE  DoubleInv'
<1>1. Double!TypeOK'
  BY DEF SingleInv, Single!TypeOK, Double!TypeOK
<1>2. ASSUME ~stale', pc' # "closed" PROVE Holds(items)'
  <2>1. PICK p : Holds(p)'
    BY <1>2 DEF SingleInv
  <2>2. p = items'
    BY <1>2, <2>1 DEF Holds
  <2> QED
    BY <2>1, <2>2
<1>3. ~stale' => length' = Len(items') + kept'
  BY DEF SingleInv, Single!LengthDrifts
<1>4. Double!CrashNeedsDrift'
  BY DEF SingleInv, Single!TypeOK, Single!CrashNeedsDrift, Double!CrashNeedsDrift
<1>5. /\ ~stale' => (head' = None <=> tail' = None)
      /\ ~stale' => (pc' = "closed" => used' = {})
      /\ Single!AtIsOneBefore'
  BY DEF SingleInv, Single!TypeOK
<1> QED
  BY <1>1, <1>2, <1>3, <1>4, <1>5 DEF DoubleInv

LEMMA DoubleStarts == Double!Init => DoubleInv
<1> SUFFICES ASSUME Double!Init PROVE DoubleInv
  OBVIOUS
<1>1. Single!Init /\ prev = [n \in Node |-> None] /\ middle = {}
  BY SameActions DEF Double!Init
<1>2. SingleInv
  BY <1>1, SingleStarts
<1>3. items = <<>> /\ stale = FALSE /\ pc = "open" /\ head = None /\ tail = None
  BY <1>1 DEF Single!Init
<1>4. BackLinks
  BY <1>3 DEF BackLinks
<1>5. Double!TypeOK
  BY <1>1, <1>2, <1>3 DEF SingleInv, Single!TypeOK, Double!TypeOK
<1>6. PICK p : Holds(p)
  BY <1>2, <1>3 DEF SingleInv
<1>7. p = items
  BY <1>3, <1>6 DEF Holds
<1>8. Holds(items)
  BY <1>6, <1>7
<1>9. length = Len(items) + kept
  BY <1>2, <1>3 DEF SingleInv, Single!LengthDrifts
<1>10. Double!CrashNeedsDrift /\ Single!AtIsOneBefore
  BY <1>2, <1>3 DEF SingleInv, Double!CrashNeedsDrift
<1> QED
  BY <1>3, <1>4, <1>5, <1>8, <1>9, <1>10 DEF DoubleInv

\* what the two lists have in common and changes no node
LEMMA DoubleStays ==
  ASSUME DoubleInv, ~stale, pc \in {"open", "closed"}, SingleInv',
         UNCHANGED <<prev, items>>, middle' = middle
  PROVE  DoubleInv'
<1>1. BackLinks'
  BY DoubleIsSingle DEF BackLinks, Double!BackLink
<1>2. prev' \in [Node -> Node \cup {None, Unwritten}] /\ middle' \subseteq Node
  BY DoubleIsSingle
<1> QED
  BY <1>1, <1>2, DoubleAfter

LEMMA DoubleShares ==
  ASSUME DoubleInv, ~stale,
         \/ \E v \in Value : Double!IndexOf(v)
         \/ \E idx \in Single!Indices : \/ Double!InsertRefused(idx) \/ Double!DeleteRefused(idx)
                                        \/ Double!At(idx)
         \/ Double!Destory
  PROVE  DoubleInv'
<1>1. pc = "open" /\ UNCHANGED <<prev, items>> /\ middle' = middle
      /\ \/ \E v \in Value : Single!IndexOf(v)
         \/ \E idx \in Single!Indices : Single!InsertRefused(idx) \/ Single!DeleteRefused(idx) \/ Single!At(idx)
         \/ Single!Destory
  <2>1. ASSUME NEW v \in Value, Double!IndexOf(v)
        PROVE  pc = "open" /\ UNCHANGED <<prev, items>> /\ middle' = middle /\ Single!IndexOf(v)
    <3>1. Single!IndexOf(v) /\ UNCHANGED prev /\ middle' = middle
      BY <2>1, SameActions DEF Double!IndexOf
    <3> QED
      BY <3>1 DEF Single!IndexOf, Single!Answer, Single!history
  <2>2. ASSUME NEW idx \in Single!Indices, Double!InsertRefused(idx)
        PROVE  pc = "open" /\ UNCHANGED <<prev, items>> /\ middle' = middle /\ Single!InsertRefused(idx)
    <3>1. Single!InsertRefused(idx) /\ UNCHANGED prev /\ middle' = middle
      BY <2>2, SameActions DEF Double!InsertRefused
    <3> QED
      BY <3>1 DEF Single!InsertRefused, Single!Answer, Single!history
  <2>3. ASSUME NEW idx \in Single!Indices, Double!DeleteRefused(idx)
        PROVE  pc = "open" /\ UNCHANGED <<prev, items>> /\ middle' = middle /\ Single!DeleteRefused(idx)
    <3>1. Single!DeleteRefused(idx) /\ UNCHANGED prev /\ middle' = middle
      BY <2>3, SameActions DEF Double!DeleteRefused
    <3> QED
      BY <3>1 DEF Single!DeleteRefused, Single!Answer, Single!history
  <2>4. ASSUME NEW idx \in Single!Indices, Double!At(idx)
        PROVE  pc = "open" /\ UNCHANGED <<prev, items>> /\ middle' = middle /\ Single!At(idx)
    <3>1. Single!At(idx) /\ UNCHANGED prev /\ middle' = middle
      BY <2>4, SameActions DEF Double!At
    <3> QED
      BY <3>1 DEF Single!At, Single!Answer, Single!Crash, Single!history
  <2>5. ASSUME Double!Destory
        PROVE  pc = "open" /\ UNCHANGED <<prev, items>> /\ middle' = middle /\ Single!Destory
    <3>1. Single!Destory /\ UNCHANGED prev /\ middle' = middle
      BY <2>5, SameActions DEF Double!Destory
    <3> QED
      BY <3>1 DEF Single!Destory, Single!history
  <2> QED
    BY <2>1, <2>2, <2>3, <2>4, <2>5
<1>2. SingleInv
  BY <1>1, DoubleIsSingle
<1>3. SingleInv'
  BY <1>1, <1>2, SingleOtherAnswers, SingleAt, SingleDestory
<1> QED
  BY <1>1, <1>3, DoubleStays

LEMMA DoubleInitAgain ==
  ASSUME DoubleInv, ~stale, Double!InitAgain
  PROVE  DoubleInv'
<1>1. Single!InitAgain /\ middle' = {} /\ prev' = prev
  BY SameActions DEF Double!InitAgain
<1>2. pc = "closed" /\ items' = <<>>
  BY <1>1 DEF Single!InitAgain
<1>3. SingleInv /\ prev \in [Node -> Node \cup {None, Unwritten}]
  BY <1>2, DoubleIsSingle
<1>4. SingleInv'
  BY <1>1, <1>3, SingleInitAgain
<1>5. BackLinks'
  BY <1>2 DEF BackLinks
<1> QED
  BY <1>1, <1>3, <1>4, <1>5, DoubleAfter

LEMMA DoubleInsertHead ==
  ASSUME DoubleInv, ~stale, NEW v \in Value, Double!InsertHead(v)
  PROVE  DoubleInv'
<1>1. /\ Single!InsertHead(v) /\ middle' = middle
      /\ prev' = IF head = None THEN [prev EXCEPT ![head'] = None]
                 ELSE [prev EXCEPT ![head'] = None, ![head] = head']
  BY SameActions DEF Double!InsertHead
<1>2. pc = "open"
  BY <1>1 DEF Single!InsertHead, Single!Believed
<1>3. SingleInv /\ BackLinks /\ prev \in [Node -> Node \cup {None, Unwritten}] /\ middle \subseteq Node
  BY <1>2, DoubleIsSingle
<1>4. SingleInv'
  BY <1>1, <1>3, SingleInsertHead
<1>5. PICK n \in Node : head' = n /\ items' = <<n>> \o items /\ n \notin used
  BY <1>1 DEF Single!InsertHead, Single!Add
<1>6. PICK p : Holds(p)
  BY <1>2, <1>3 DEF SingleInv
<1>7. /\ p = items /\ p \in Seq(Node) /\ Distinct(p) /\ Len(p) \in Nat
      /\ \A j \in 1 .. Len(p) : p[j] \in Node /\ p[j] \in used
      /\ p = <<>> <=> head = None
      /\ p = <<>> <=> Len(p) = 0
      /\ p # <<>> => head = p[1]
  BY <1>3, <1>6, HoldsShape DEF SingleInv
<1>8. prev' \in [Node -> Node \cup {None, Unwritten}]
  <2>1. head # None => head \in Node
    BY <1>7
  <2> QED
    BY <1>1, <1>3, <1>5, <2>1
<1>9. PICK q : q = items'
  OBVIOUS
<1>10. q \in Seq(Node) /\ Inserted(p, q, 0, n)
  BY <1>5, <1>7, <1>9, PrependIs
<1>11. Len(q) = Len(p) + 1 /\ q[1] = n /\ \A j \in 1 .. Len(p) : q[j + 1] = p[j]
  BY <1>10 DEF Inserted
<1>12. ASSUME NEW j \in 1 .. Len(q)
       PROVE  prev'[q[j]] = (IF j = 1 THEN None ELSE q[j - 1])
              \/ (j > 1 /\ {q[j - 1], q[j]} \cap middle # {})
  <2>1. CASE j = 1
    <3>1. head # None => head # n
      BY <1>5, <1>7
    <3> QED
      BY <1>1, <1>3, <1>5, <1>11, <2>1, <3>1
  <2>2. CASE j = 2
    <3>1. 1 \in 1 .. Len(p) /\ head = p[1] /\ head # None /\ head \in Node
      BY <1>7, <1>11, <2>2
    <3>2. q[2] = head
      BY <1>11, <3>1
    <3>3. prev'[head] = n
      BY <1>1, <1>3, <1>5, <3>1
    <3> QED
      BY <1>11, <2>2, <3>2, <3>3
  <2>3. CASE j > 2
    <3>1. PICK i \in 2 .. Len(p) : j = i + 1
      <4>1. j - 1 \in 2 .. Len(p) /\ j = (j - 1) + 1
        BY <1>7, <1>11, <2>3
      <4> QED
        BY <4>1
    <3>2. i \in 1 .. Len(p) /\ i - 1 \in 1 .. Len(p) /\ (i - 1) + 1 = i /\ 1 \in 1 .. Len(p) /\ i # 1
      BY <1>7, <3>1
    <3>3. q[j] = p[i] /\ q[j - 1] = p[i - 1]
      BY <1>11, <3>1, <3>2
    <3>4. p[i] # head /\ p[i] # n /\ p[i] \in Node
      BY <1>5, <1>7, <3>2 DEF Distinct
    <3>5. prev'[p[i]] = prev[p[i]]
      BY <1>1, <1>3, <1>5, <3>4
    <3>6. prev[p[i]] = p[i - 1] \/ {p[i - 1], p[i]} \cap middle # {}
      BY <1>3, <1>7, <3>2 DEF BackLinks, Double!BackLink
    <3> QED
      BY <2>3, <3>3, <3>5, <3>6
  <2> QED
    BY <1>7, <1>11, <2>1, <2>2, <2>3
<1>13. BackLinks'
  BY <1>1, <1>9, <1>12 DEF BackLinks, Double!BackLink
<1> QED
  BY <1>1, <1>3, <1>4, <1>8, <1>13, DoubleAfter
LEMMA DoubleInsertTail ==
  ASSUME DoubleInv, ~stale, NEW v \in Value, Double!InsertTail(v)
  PROVE  DoubleInv'
<1>1. Single!InsertTail(v) /\ middle' = middle /\ prev' = [prev EXCEPT ![tail'] = tail]
  BY SameActions DEF Double!InsertTail
<1>2. pc = "open"
  BY <1>1 DEF Single!InsertTail, Single!Believed
<1>3. SingleInv /\ BackLinks /\ prev \in [Node -> Node \cup {None, Unwritten}] /\ middle \subseteq Node
  BY <1>2, DoubleIsSingle
<1>4. SingleInv'
  BY <1>1, <1>3, SingleInsertTail
<1>5. PICK n \in Node : tail' = n /\ items' = Append(items, n) /\ n \notin used
  BY <1>1 DEF Single!InsertTail, Single!Add
<1>6. PICK p : Holds(p)
  BY <1>2, <1>3 DEF SingleInv
<1>7. /\ p = items /\ p \in Seq(Node) /\ Len(p) \in Nat
      /\ \A j \in 1 .. Len(p) : p[j] \in Node /\ p[j] \in used
      /\ p = <<>> => tail = None
      /\ p = <<>> <=> Len(p) = 0
      /\ p # <<>> => tail = p[Len(p)]
  BY <1>3, <1>6, HoldsShape DEF SingleInv
<1>8. prev' \in [Node -> Node \cup {None, Unwritten}]
  BY <1>1, <1>3, <1>5, SingleTypes DEF SingleInv
<1>9. PICK q : q = items'
  OBVIOUS
<1>10. /\ Len(q) = Len(p) + 1 /\ q[Len(p) + 1] = n
       /\ \A j \in 1 .. Len(p) : q[j] = p[j]
  BY <1>5, <1>7, <1>9, AppendProperties
<1>11. ASSUME NEW j \in 1 .. Len(q)
       PROVE  prev'[q[j]] = (IF j = 1 THEN None ELSE q[j - 1])
              \/ (j > 1 /\ {q[j - 1], q[j]} \cap middle # {})
  <2>1. CASE j = Len(p) + 1
    <3>1. prev'[q[j]] = tail
      BY <1>1, <1>3, <1>5, <1>10, <2>1
    <3>2. CASE j = 1
      BY <1>7, <2>1, <3>1, <3>2
    <3>3. CASE j # 1
      <4>1. j - 1 = Len(p) /\ j - 1 \in 1 .. Len(p)
        BY <1>7, <2>1, <3>3
      <4> QED
        BY <1>7, <1>10, <3>1, <3>3, <4>1
    <3> QED
      BY <3>2, <3>3
  <2>2. CASE j # Len(p) + 1
    <3>1. j \in 1 .. Len(p) /\ (j # 1 => j - 1 \in 1 .. Len(p))
      BY <1>7, <1>10, <2>2
    <3>2. q[j] = p[j] /\ (j # 1 => q[j - 1] = p[j - 1])
      BY <1>10, <3>1
    <3>3. prev'[p[j]] = prev[p[j]]
      BY <1>1, <1>3, <1>5, <1>7, <3>1
    <3>4. prev[p[j]] = (IF j = 1 THEN None ELSE p[j - 1])
          \/ (j > 1 /\ {p[j - 1], p[j]} \cap middle # {})
      BY <1>3, <1>7, <3>1 DEF BackLinks, Double!BackLink
    <3> QED
      BY <3>1, <3>2, <3>3, <3>4
  <2> QED
    BY <2>1, <2>2
<1>12. BackLinks'
  BY <1>1, <1>9, <1>11 DEF BackLinks, Double!BackLink
<1> QED
  BY <1>1, <1>3, <1>4, <1>8, <1>12, DoubleAfter

\* a step to the state from which the list is not followed any further
LEMMA DoubleLeaves ==
  ASSUME Double!TypeOK', stale', out'.op # "at"
  PROVE  DoubleInv'
BY DEF DoubleInv, Double!CrashNeedsDrift, Single!AtIsOneBefore

LEMMA DoubleInsertMiddle ==
  ASSUME DoubleInv, ~stale, NEW v \in Value, NEW idx \in Single!Indices, Double!InsertMiddle(v, idx)
  PROVE  DoubleInv'
<1>1. /\ Single!Believed(idx) /\ idx \notin {0, length} /\ pc = "open" /\ length < MaxLength
      /\ Double!Before(idx) \in used /\ head' = head /\ tail' = tail
  BY SameFollow DEF Double!InsertMiddle, Single!Believed
<1>2. SingleInv /\ BackLinks /\ prev \in [Node -> Node \cup {None, Unwritten}] /\ middle \subseteq Node
  BY <1>1, DoubleIsSingle
<1>3. PICK n \in Node, cur \in {Double!Before(idx)} :
        /\ Single!Add(n, v, idx, [next EXCEPT ![n] = next[cur], ![cur] = n])
        /\ prev' = [prev EXCEPT ![n] = Unwritten]
        /\ items' = InsertAt(items, IF idx < Len(items) THEN idx + 1 ELSE Len(items) + 1, n)
        /\ stale' = (stale \/ idx >= Len(items) \/ cur # items[idx])
        /\ middle' = middle \cup {n}
  BY SameCalls, SameSequences DEF Double!InsertMiddle
<1>4. Single!TypeOK /\ cur \in used /\ cur \in Node
  BY <1>1, <1>2, <1>3, SingleTypes DEF SingleInv
<1>5. prev' \in [Node -> Node \cup {None, Unwritten}] /\ middle' \subseteq Node
  BY <1>2, <1>3
<1>6. PICK p : Holds(p)
  BY <1>1, <1>2 DEF SingleInv
<1>7. /\ p = items /\ p \in Seq(Node) /\ Len(p) \in Nat /\ IsList(Node, p, head, next)
      /\ \A j \in 1 .. Len(p) : p[j] \in Node /\ p[j] \in used
  BY <1>4, <1>6, HoldsShape
<1>8. idx \in 1 .. length /\ idx \in Nat /\ idx - 1 \in Nat /\ (idx - 1) + 1 = idx
  BY <1>1, <1>4, SingleTypes DEF Single!Believed
<1>9. ASSUME stale' PROVE DoubleInv'
  <2>1. PICK links : links = [next EXCEPT ![n] = next[cur], ![cur] = n]
    OBVIOUS
  <2>2. /\ links \in [Node -> Node \cup {None}]
    BY <1>4, <2>1, SingleTypes
  <2>3. Single!Add(n, v, idx, links)
    BY <1>3, <2>1
  <2>4. /\ next' = links /\ length' \in 0 .. MaxLength
        /\ data' \in [Node -> Value \cup {None}] /\ used' \subseteq Node
        /\ pc' = pc /\ kept' \in Nat /\ out'.op = "insert"
    BY <1>1, <1>4, <2>3, SingleAdd
  <2>5. items' \in Seq(Node)
    <3>1. PICK k \in 1 .. Len(p) + 1 : k = IF idx < Len(p) THEN idx + 1 ELSE Len(p) + 1
      BY <1>7, <1>8
    <3>2. items' = InsertAt(p, k, n)
      BY <1>3, <1>7, <3>1
    <3> QED
      BY <1>7, <3>2, InsertAtIs
  <2>6. stale' \in BOOLEAN
    BY <1>9
  <2>7. Double!TypeOK'
    BY <1>1, <1>2, <1>5, <2>2, <2>4, <2>5, <2>6 DEF SingleInv, Single!TypeOK, Double!TypeOK
  <2> QED
    BY <1>9, <2>4, <2>7, DoubleLeaves
<1>10. ASSUME ~stale' PROVE DoubleInv'
  <2>1. ~(idx >= Len(items)) /\ cur = items[idx]
    BY <1>3, <1>10
  <2>2. idx \in 1 .. Len(p) - 1 /\ idx < Len(p) /\ cur = p[idx]
    BY <1>7, <1>8, <2>1
  <2>3. Single!Walk[idx - 1] = cur
    <3>1. idx - 1 < Len(p)
      BY <1>7, <1>8, <2>2
    <3>2. Single!Walk[idx - 1] = p[(idx - 1) + 1]
      BY <1>4, <1>6, <1>8, <3>1, SingleSteps
    <3> QED
      BY <1>8, <2>2, <3>2
  <2>4. stale' = (stale \/ idx >= Len(items))
    BY <1>3, <2>1
  <2>5. Single!InsertMiddle(v, idx)
    BY <1>1, <1>3, <1>4, <2>3, <2>4, SameOperators DEF Single!InsertMiddle
  <2>6. SingleInv'
    BY <1>2, <2>5, SingleInsertMiddle
  <2>7. PICK q : q = items'
    OBVIOUS
  <2>8. n \notin used
    BY <1>3 DEF Single!Add
  <2>9. q \in Seq(Node) /\ Inserted(p, q, idx, n)
    <3>1. q = InsertAt(p, idx + 1, n) /\ idx \in 0 .. Len(p)
      BY <1>3, <1>7, <1>8, <2>2, <2>7
    <3> QED
      BY <1>7, <3>1, PutInIs
  <2>10. /\ Len(q) = Len(p) + 1 /\ q[idx + 1] = n
         /\ \A j \in 1 .. idx : q[j] = p[j]
         /\ \A j \in idx + 1 .. Len(p) : q[j + 1] = p[j]
    BY <2>9 DEF Inserted
  <2>11. \A j \in 1 .. Len(p) : prev'[p[j]] = prev[p[j]]
    BY <1>2, <1>3, <1>7, <2>8
  <2>12. \A j \in 1 .. Len(p) : prev[p[j]] = (IF j = 1 THEN None ELSE p[j - 1])
                                \/ (j > 1 /\ {p[j - 1], p[j]} \cap middle # {})
    BY <1>2, <1>7 DEF BackLinks, Double!BackLink
  <2>13. ASSUME NEW j \in 1 .. Len(q)
         PROVE  prev'[q[j]] = (IF j = 1 THEN None ELSE q[j - 1])
                \/ (j > 1 /\ {q[j - 1], q[j]} \cap middle' # {})
    <3>1. CASE j <= idx
      <4>1. j \in 1 .. idx /\ j \in 1 .. Len(p) /\ (j # 1 => j - 1 \in 1 .. idx)
        BY <1>7, <2>2, <3>1
      <4>2. q[j] = p[j] /\ (j # 1 => q[j - 1] = p[j - 1])
        BY <2>10, <4>1
      <4> QED
        BY <1>3, <2>11, <2>12, <4>1, <4>2
    <3>2. CASE j = idx + 1 \/ j = idx + 2
      <4>1. j > 1 /\ (q[j] = n \/ q[j - 1] = n)
        BY <1>8, <2>10, <3>2
      <4> QED
        BY <1>3, <4>1
    <3>3. CASE j > idx + 2
      <4>1. PICK i \in idx + 2 .. Len(p) : j = i + 1
        <5>1. j - 1 \in idx + 2 .. Len(p) /\ j = (j - 1) + 1
          BY <1>7, <1>8, <2>10, <3>3
        <5> QED
          BY <5>1
      <4>2. i \in idx + 1 .. Len(p) /\ i - 1 \in idx + 1 .. Len(p) /\ (i - 1) + 1 = i /\ i \in 1 .. Len(p)
            /\ i # 1 /\ j - 1 = i /\ j > 1
        BY <1>7, <1>8, <4>1
      <4>3. q[j] = p[i] /\ q[j - 1] = p[i - 1]
        BY <2>10, <4>1, <4>2
      <4> QED
        BY <1>3, <2>11, <2>12, <4>2, <4>3
    <3> QED
      BY <1>7, <1>8, <2>10, <3>1, <3>2, <3>3
  <2>14. BackLinks'
    BY <2>7, <2>13 DEF BackLinks, Double!BackLink
  <2> QED
    BY <1>5, <2>6, <2>14, DoubleAfter
<1> QED
  BY <1>9, <1>10

\* a node taken out: the links of the others
LEMMA BackLinksAfter ==
  ASSUME NEW p \in Seq(Node), Distinct(p), NEW k \in 0 .. Len(p) - 1, p = items, BackLinks,
         Removed(p, items', k), NEW gone, gone = p[k + 1], middle' = middle \ {gone},
         \A j \in 1 .. Len(p) : j # k + 2 => prev'[p[j]] = prev[p[j]],
         k + 2 <= Len(p) => prev'[p[k + 2]] = (IF k = 0 THEN None ELSE p[k])
  PROVE  BackLinks'
<1>1. PICK q : q = items'
  OBVIOUS
<1>2. /\ Len(q) = Len(p) - 1
      /\ \A j \in 1 .. k : q[j] = p[j]
      /\ \A j \in k + 1 .. Len(p) - 1 : q[j] = p[j + 1]
  BY <1>1 DEF Removed
<1>3. /\ Len(p) \in Nat /\ k \in Nat
      /\ \A i, j \in 1 .. Len(p) : p[i] = p[j] => i = j
  BY DEF Distinct
<1>4. \A j \in 1 .. Len(p) : prev[p[j]] = (IF j = 1 THEN None ELSE p[j - 1])
                             \/ (j > 1 /\ {p[j - 1], p[j]} \cap middle # {})
  BY DEF BackLinks, Double!BackLink
<1>5. ASSUME NEW j \in 1 .. Len(q)
      PROVE  prev'[q[j]] = (IF j = 1 THEN None ELSE q[j - 1])
             \/ (j > 1 /\ {q[j - 1], q[j]} \cap middle' # {})
  <2>1. CASE j <= k
    <3>1. j \in 1 .. k /\ j \in 1 .. Len(p) /\ j # k + 2 /\ (j # 1 => j - 1 \in 1 .. k /\ j - 1 \in 1 .. Len(p))
      BY <1>2, <1>3, <2>1
    <3>2. q[j] = p[j] /\ (j # 1 => q[j - 1] = p[j - 1])
      BY <1>2, <3>1
    <3>3. k + 1 \in 1 .. Len(p) /\ j # k + 1 /\ j - 1 # k + 1
      BY <1>3, <2>1
    <3>4. p[j] # gone /\ (j # 1 => p[j - 1] # gone)
      BY <1>3, <3>1, <3>3
    <3> QED
      BY <1>4, <3>1, <3>2, <3>4
  <2>2. CASE j = k + 1
    <3>1. j \in k + 1 .. Len(p) - 1 /\ j + 1 = k + 2 /\ k + 2 <= Len(p)
      BY <1>2, <1>3, <2>2
    <3>2. q[j] = p[k + 2]
      BY <1>2, <3>1
    <3>3. k # 0 => q[j - 1] = p[k]
      BY <1>2, <1>3, <2>2
    <3>4. j = 1 <=> k = 0
      BY <1>3, <2>2
    <3> QED
      BY <3>1, <3>2, <3>3, <3>4
  <2>3. CASE j > k + 1
    <3>1. /\ j \in k + 1 .. Len(p) - 1 /\ j - 1 \in k + 1 .. Len(p) - 1 /\ (j - 1) + 1 = j
          /\ j + 1 \in 1 .. Len(p) /\ j + 1 # 1 /\ (j + 1) - 1 = j /\ j \in 1 .. Len(p) /\ j + 1 # k + 2
          /\ j > 1 /\ k + 1 \in 1 .. Len(p) /\ j # k + 1 /\ j + 1 # k + 1
      BY <1>2, <1>3, <2>3
    <3>2. q[j] = p[j + 1] /\ q[j - 1] = p[j]
      BY <1>2, <3>1
    <3>3. p[j] # gone /\ p[j + 1] # gone
      BY <1>3, <3>1
    <3>4. prev[p[j + 1]] = p[j] \/ {p[j], p[j + 1]} \cap middle # {}
      BY <1>4, <3>1
    <3>5. prev'[p[j + 1]] = prev[p[j + 1]]
      BY <3>1
    <3> QED
      BY <3>1, <3>2, <3>3, <3>4, <3>5
  <2> QED
    BY <1>2, <1>3, <2>1, <2>2, <2>3
<1> QED
  BY <1>1, <1>5 DEF BackLinks, Double!BackLink
\* what the state of the shared list says, in one place
LEMMA DoubleList ==
  ASSUME DoubleInv, ~stale, pc = "open"
  PROVE  /\ Holds(items) /\ items \in Seq(Node) /\ Distinct(items) /\ Len(items) \in Nat
         /\ IsList(Node, items, head, next) /\ used = NodesOf(items)
         /\ \A j \in 1 .. Len(items) : items[j] \in Node /\ items[j] \in used
         /\ items = <<>> <=> Len(items) = 0
         /\ items = <<>> <=> head = None
         /\ items = <<>> <=> tail = None
         /\ items # <<>> => head = items[1] /\ tail = items[Len(items)]
         /\ length = Len(items) + kept /\ kept \in Nat /\ length \in Nat /\ length <= MaxLength
<1>1. Single!TypeOK /\ Single!LengthDrifts
  BY DoubleIsSingle DEF SingleInv
<1>2. PICK p : p = items /\ Holds(p)
  BY DEF DoubleInv
<1>3. /\ p \in Seq(Node) /\ Distinct(p) /\ Len(p) \in Nat
      /\ IsList(Node, p, head, next)
      /\ \A j \in 1 .. Len(p) : p[j] \in Node /\ p[j] \in used
      /\ p = <<>> <=> Len(p) = 0
      /\ p = <<>> <=> head = None
      /\ p # <<>> => head = p[1] /\ tail = p[Len(p)]
      /\ used = NodesOf(p)
  BY <1>1, <1>2, HoldsShape
<1>4. p = <<>> <=> tail = None
  BY <1>1, <1>3, SingleTypes
<1>5. length = Len(items) + kept /\ kept \in Nat /\ length \in Nat /\ length <= MaxLength
  BY <1>1, SingleTypes DEF Single!LengthDrifts
<1> QED
  BY <1>2, <1>3, <1>4, <1>5

LEMMA DoubleDeleteHead ==
  ASSUME DoubleInv, ~stale, Double!DeleteHead
  PROVE  DoubleInv'
<1>1. /\ pc = "open" /\ 0 \in 0 .. length - 1 /\ Double!Touched(0) \in used
      /\ \/ head = tail /\ head' = None /\ tail' = None /\ prev' = prev
         \/ /\ head # tail /\ head' = next[head] /\ prev' = [prev EXCEPT ![next[head]] = None]
            /\ tail' = tail
      /\ length' = length - 1 /\ Single!Unlink(head, 0)
      /\ middle' = middle \ {head} /\ UNCHANGED <<next, kept, stale>>
  BY SameCalls DEF Double!DeleteHead, Double!Deleting
<1>2. SingleInv /\ BackLinks /\ prev \in [Node -> Node \cup {None, Unwritten}] /\ middle \subseteq Node
  BY <1>1, DoubleIsSingle
<1>3. /\ items \in Seq(Node) /\ Distinct(items) /\ Len(items) \in Nat
      /\ IsList(Node, items, head, next)
      /\ \A j \in 1 .. Len(items) : items[j] \in Node /\ items[j] \in used
      /\ items = <<>> <=> Len(items) = 0
      /\ items = <<>> <=> head = None
      /\ items = <<>> <=> tail = None
      /\ items # <<>> => head = items[1] /\ tail = items[Len(items)]
  BY <1>1, DoubleList
<1>4. head # None
  <2>1. CASE head = tail
    <3>1. head \in used
      BY <1>1, <2>1 DEF Double!Touched
    <3> QED
      BY <1>2, <3>1, SingleTypes DEF SingleInv
  <2>2. CASE head # tail
    BY <1>3, <2>2
  <2> QED
    BY <2>1, <2>2
<1>5. 0 < length
  <2>1. length \in Nat
    BY <1>1, DoubleList
  <2> QED
    BY <1>1, <2>1
<1>6. Single!DeleteHead
  BY <1>1, <1>4, <1>5 DEF Single!DeleteHead
<1>7. SingleInv'
  BY <1>2, <1>6, SingleDeleteHead
<1>8. 1 \in 1 .. Len(items) /\ 0 \in 0 .. Len(items) - 1 /\ head = items[1] /\ Len(items) # 0
  BY <1>3, <1>4
<1>9. items' = RemoveAt(items, 0 + 1)
  <2>1. 0 < Len(items)
    BY <1>3, <1>8
  <2> QED
    BY <2>1, SameOperators, <1>1 DEF Single!Unlink
<1>10. items' \in Seq(Node) /\ Removed(items, items', 0)
  BY <1>3, <1>8, <1>9, TakenOutIs
<1>11. head # tail => Len(items) >= 2 /\ 1 \in 1 .. Len(items) - 1 /\ next[head] = items[2] /\ items[2] \in Node
  <2> SUFFICES ASSUME head # tail
               PROVE Len(items) >= 2 /\ 1 \in 1 .. Len(items) - 1 /\ next[head] = items[2] /\ items[2] \in Node
    OBVIOUS
  <2>1. Len(items) # 1
    BY <1>3, <1>8
  <2>2. Len(items) >= 2 /\ 1 \in 1 .. Len(items) - 1 /\ 2 \in 1 .. Len(items)
    BY <1>3, <1>8, <2>1
  <2>3. next[items[1]] = items[1 + 1]
    BY <1>3, <2>2, ListShape
  <2> QED
    BY <1>3, <1>8, <2>2, <2>3
<1>12. prev' \in [Node -> Node \cup {None, Unwritten}] /\ middle' \subseteq Node
  BY <1>1, <1>2, <1>11
<1>13. BackLinks'
  <2>1. CASE head = tail
    <3>1. Len(items) \in 1 .. Len(items) /\ items[1] = items[Len(items)]
      BY <1>3, <1>8, <2>1
    <3>2. Len(items) = 1
      BY <1>3, <1>8, <3>1 DEF Distinct
    <3>3. Len(items') = 0
      BY <1>10, <3>2 DEF Removed
    <3> QED
      BY <3>3 DEF BackLinks
  <2>2. CASE head # tail
    <3>1. prev' = [prev EXCEPT ![items[2]] = None]
      BY <1>1, <1>11, <2>2
    <3>2. \A j \in 1 .. Len(items) : j # 0 + 2 => prev'[items[j]] = prev[items[j]]
      <4>1. 2 \in 1 .. Len(items)
        BY <1>3, <1>11, <2>2
      <4>2. \A j \in 1 .. Len(items) : j # 2 => items[j] # items[2]
        BY <1>3, <4>1 DEF Distinct
      <4> QED
        BY <1>2, <1>3, <3>1, <4>2
    <3>3. prev'[items[0 + 2]] = None
      BY <1>2, <1>11, <2>2, <3>1
    <3>4. head = items[0 + 1]
      BY <1>8
    <3> QED
      BY <1>1, <1>2, <1>3, <1>8, <1>10, <3>2, <3>3, <3>4, BackLinksAfter
  <2> QED
    BY <2>1, <2>2
<1> QED
  BY <1>7, <1>12, <1>13, DoubleAfter

LEMMA DoubleDeleteMiddle ==
  ASSUME DoubleInv, ~stale, NEW idx \in Single!Indices, Double!DeleteMiddle(idx)
  PROVE  DoubleInv'
<1>1. /\ pc = "open" /\ idx \in 0 .. length - 1 /\ idx \notin {0, length - 1}
      /\ Double!Touched(idx) \in used
      /\ kept' = kept + 1 /\ UNCHANGED <<head, tail, length, stale>>
  BY DEF Double!DeleteMiddle, Double!Deleting
<1>2. SingleInv /\ BackLinks /\ prev \in [Node -> Node \cup {None, Unwritten}] /\ middle \subseteq Node
  BY <1>1, DoubleIsSingle
<1>3. /\ items \in Seq(Node) /\ Distinct(items) /\ Len(items) \in Nat /\ Holds(items)
      /\ IsList(Node, items, head, next)
      /\ \A j \in 1 .. Len(items) : items[j] \in Node /\ items[j] \in used
      /\ items = <<>> <=> Len(items) = 0
      /\ items # <<>> => tail = items[Len(items)]
      /\ length \in Nat
  BY <1>1, DoubleList
<1>4. Single!TypeOK /\ None \notin used
  BY <1>2, SingleTypes DEF SingleInv
<1>5. PICK cur, gone :
        /\ cur = Single!Walk[idx - 1] /\ gone = Single!Walk[idx]
        /\ next' = [next EXCEPT ![cur] = next[gone]]
        /\ prev' = [prev EXCEPT ![next[gone]] = cur]
        /\ Single!Unlink(gone, idx)
        /\ middle' = middle \ {gone}
  BY SameCalls, SameWalk DEF Double!DeleteMiddle
<1>6. idx \in Nat /\ idx # 0 /\ idx - 1 \in Nat /\ (idx - 1) + 1 = idx /\ idx \in 1 .. length - 1 /\ idx # length - 1
  BY <1>1, <1>3
<1>7. Single!Follow(gone, next) \in used
  BY <1>1, <1>5, <1>6, SameFollow, SameWalk DEF Double!Touched
<1>8. gone \in used /\ next[gone] \in used
  <2>1. "segv" \notin used /\ "wild" \notin used
    BY <1>4, SingleTypes, Apart
  <2> QED
    BY <1>7, <2>1 DEF Single!Follow, Single!Fault
<1>9. idx < Len(items) /\ gone = items[idx + 1] /\ cur = items[idx]
  <2>1. idx < Len(items)
    BY <1>3, <1>4, <1>5, <1>6, <1>8, SingleSteps
  <2>2. idx - 1 < Len(items)
    BY <1>3, <1>6, <2>1
  <2>3. gone = items[idx + 1]
    BY <1>3, <1>4, <1>5, <1>6, <2>1, SingleSteps
  <2>4. cur = items[(idx - 1) + 1]
    BY <1>3, <1>4, <1>5, <1>6, <2>2, SingleSteps
  <2> QED
    BY <1>6, <2>1, <2>3, <2>4
<1>10. idx + 1 \in 1 .. Len(items) - 1 /\ next[gone] = items[idx + 2]
  <2>1. Len(items) # 0 => next[items[Len(items)]] = None
    BY <1>3, ListShape
  <2>2. idx + 1 # Len(items)
    BY <1>3, <1>4, <1>6, <1>8, <1>9, <2>1
  <2>3. idx + 1 \in 1 .. Len(items) - 1 /\ (idx + 1) + 1 = idx + 2
    BY <1>3, <1>6, <1>9, <2>2
  <2>4. next[items[idx + 1]] = items[(idx + 1) + 1]
    BY <1>3, <2>3, ListShape
  <2> QED
    BY <1>9, <2>3, <2>4
<1>11. /\ idx \in 1 .. Len(items) /\ idx + 1 \in 1 .. Len(items) /\ idx + 2 \in 1 .. Len(items)
       /\ idx \in 0 .. Len(items) - 1 /\ Len(items) \in 1 .. Len(items) /\ idx + 1 # Len(items)
  BY <1>3, <1>6, <1>9, <1>10
<1>12. gone # tail
  BY <1>3, <1>9, <1>11 DEF Distinct
<1>13. Single!DeleteNext(idx)
  BY <1>1, <1>5, <1>6, <1>8, <1>12 DEF Single!DeleteNext
<1>14. SingleInv'
  BY <1>2, <1>13, SingleDeleteNext
<1>15. prev' \in [Node -> Node \cup {None, Unwritten}] /\ middle' \subseteq Node
  BY <1>2, <1>3, <1>5, <1>9, <1>11
<1>16. Removed(items, items', idx)
  <2>1. items' = RemoveAt(items, idx + 1)
    BY <1>5, <1>9, SameOperators DEF Single!Unlink
  <2> QED
    BY <1>3, <1>11, <2>1, TakenOutIs
<1>17. prev' = [prev EXCEPT ![items[idx + 2]] = items[idx]]
  BY <1>5, <1>9, <1>10
<1>18. \A j \in 1 .. Len(items) : j # idx + 2 => prev'[items[j]] = prev[items[j]]
  <2>1. \A j \in 1 .. Len(items) : j # idx + 2 => items[j] # items[idx + 2]
    BY <1>3, <1>11 DEF Distinct
  <2> QED
    BY <1>2, <1>3, <1>17, <2>1
<1>19. prev'[items[idx + 2]] = (IF idx = 0 THEN None ELSE items[idx])
  BY <1>2, <1>3, <1>6, <1>11, <1>17
<1>20. BackLinks'
  BY <1>2, <1>3, <1>5, <1>9, <1>11, <1>16, <1>18, <1>19, BackLinksAfter, Zenon
<1> QED
  BY <1>14, <1>15, <1>20, DoubleAfter

LEMMA DoubleDeleteTail ==
  ASSUME DoubleInv, ~stale, Double!DeleteTail
  PROVE  DoubleInv'
<1>1. /\ pc = "open" /\ length > 1 /\ Double!Touched(length - 1) \in used
      /\ tail' = prev[tail]
      /\ next' = [next EXCEPT ![prev[tail]] = None]
      /\ length' = length - 1
      /\ Single!Unlink(tail, length - 1)
      /\ middle' = middle \ {tail}
      /\ stale' = (stale \/ length # Len(items) \/ prev[tail] # items[length - 1])
      /\ UNCHANGED <<head, prev, kept>>
  BY SameCalls DEF Double!DeleteTail, Double!Deleting
<1>2. SingleInv /\ BackLinks /\ prev \in [Node -> Node \cup {None, Unwritten}] /\ middle \subseteq Node
  BY <1>1, DoubleIsSingle
<1>3. Single!TypeOK /\ used \subseteq Node /\ next \in [Node -> Node \cup {None}] /\ length \in Nat /\ length <= MaxLength
  BY <1>2, SingleTypes DEF SingleInv
<1>4. tail \in used /\ prev[tail] \in used
  <2>1. Single!Follow(tail, prev) \in used
    BY <1>1, <1>3, SameFollow DEF Double!Touched
  <2>2. "segv" \notin used /\ "wild" \notin used
    BY <1>3, Apart
  <2> QED
    BY <2>1, <2>2 DEF Single!Follow, Single!Fault
<1>5. length - 1 \in Nat /\ length - 1 \in 0 .. MaxLength
  BY <1>1, <1>3, Sizes
<1>6. /\ used' = used \ {tail} /\ data' = data /\ pc' = pc /\ out'.op = "delete"
      /\ items' \in Seq(Node)
      /\ items' = IF length - 1 < Len(items) THEN RemoveAt(items, (length - 1) + 1) ELSE items
  <2>1. PICK i \in Nat : i = length - 1
    BY <1>5
  <2>2. Single!Unlink(tail, i)
    BY <1>1, <2>1
  <2> QED
    BY <1>3, <1>4, <2>1, <2>2, SingleUnlink
<1>7. Double!TypeOK'
  <2>1. tail' \in Node \cup {None} /\ next' \in [Node -> Node \cup {None}] /\ used' \subseteq Node
    BY <1>1, <1>3, <1>4, <1>6
  <2>2. stale' \in BOOLEAN
    BY <1>1
  <2>3. prev' \in [Node -> Node \cup {None, Unwritten}] /\ middle' \subseteq Node
    BY <1>1, <1>2
  <2>4. /\ head' \in Node \cup {None} /\ length' \in 0 .. MaxLength /\ data' \in [Node -> Value \cup {None}]
        /\ pc' = "open" /\ kept' \in Nat
    BY <1>1, <1>3, <1>5, <1>6, SingleTypes
  <2> QED
    BY <1>6, <2>1, <2>2, <2>3, <2>4 DEF Double!TypeOK
<1>8. ASSUME stale' PROVE DoubleInv'
  BY <1>6, <1>7, <1>8, DoubleLeaves
<1>9. ASSUME ~stale' PROVE DoubleInv'
  <2>1. length = Len(items) /\ prev[tail] = items[length - 1]
    BY <1>1, <1>9
  <2>2. /\ items \in Seq(Node) /\ Distinct(items) /\ Len(items) \in Nat
        /\ IsList(Node, items, head, next) /\ used = NodesOf(items)
        /\ \A j \in 1 .. Len(items) : items[j] \in Node /\ items[j] \in used
        /\ items = <<>> <=> Len(items) = 0
        /\ items # <<>> => head = items[1] /\ tail = items[Len(items)]
        /\ length = Len(items) + kept /\ kept \in Nat
    BY <1>1, DoubleList
  <2>3. PICK k \in 1 .. Len(items) - 1 : k + 1 = Len(items)
    <3>1. Len(items) - 1 \in 1 .. Len(items) - 1 /\ (Len(items) - 1) + 1 = Len(items)
      BY <1>1, <2>1, <2>2
    <3> QED
      BY <3>1
  <2>4. /\ k \in 0 .. Len(items) - 1 /\ k \in 1 .. Len(items) /\ length - 1 = k /\ length - 1 < Len(items)
        /\ k + 1 \in 1 .. Len(items) /\ Len(items) # 0 /\ items # <<>> /\ 1 \in 1 .. k /\ k \in 1 .. k
    BY <2>1, <2>2, <2>3
  <2>5. tail = items[k + 1] /\ prev[tail] = items[k] /\ next[items[k + 1]] = None
    BY <2>1, <2>2, <2>3, <2>4, ListShape
  <2>6. PICK q : q = items'
    OBVIOUS
  <2>7. q \in Seq(Node) /\ Removed(items, q, k)
    <3>1. q = RemoveAt(items, k + 1)
      BY <1>6, <2>4, <2>6
    <3> QED
      BY <2>2, <2>4, <3>1, TakenOutIs
  <2>8. Len(q) = k /\ \A j \in 1 .. k : q[j] = items[j]
    BY <2>2, <2>3, <2>7 DEF Removed
  <2>9. NodesOf(q) = NodesOf(items) \ {tail}
    BY <2>2, <2>4, <2>5, <2>7, Shortened
  <2>10. IsList(Node, q, head, next')
    <3>1. next' = [next EXCEPT ![items[k]] = next[items[k + 1]]]
      BY <1>1, <2>5
    <3> QED
      BY <1>3, <2>2, <2>7, <3>1, ListRemove
  <2>11. tail' = q[Len(q)] /\ tail' \in NodesOf(q)
    <3>1. Len(q) \in 1 .. Len(q) /\ q[Len(q)] = items[k]
      BY <2>4, <2>8
    <3> QED
      BY <1>1, <2>5, <3>1 DEF NodesOf
  <2>12. Holds(q)'
    <3>1. used' = NodesOf(q) /\ IsList(Node, q, head', next')
      BY <1>1, <1>6, <2>2, <2>9, <2>10
    <3> QED
      BY <2>6, <2>11, <3>1 DEF Holds
  <2>13. head' # None /\ tail' # None
    BY <1>1, <1>3, <1>4, <2>2, <2>4, SingleTypes
  <2>14. Single!TypeOK'
    BY <1>1, <1>6, <1>7, <2>13 DEF Double!TypeOK, Single!TypeOK
  <2>15. length' = Len(items') + kept'
    BY <1>1, <2>1, <2>2, <2>4, <2>6, <2>8
  <2>16. SingleInv'
    BY <1>1, <1>6, <2>12, <2>14, <2>15, SingleAfter
  <2>17. BackLinks'
    <3>1. ~(k + 2 <= Len(items))
      BY <2>2, <2>3
    <3>2. Removed(items, items', k) /\ middle' = middle \ {tail}
      BY <1>1, <2>6, <2>7
    <3> QED
      BY <1>1, <1>2, <2>2, <2>4, <2>5, <3>1, <3>2, BackLinksAfter
  <2> QED
    BY <1>1, <1>2, <2>16, <2>17, DoubleAfter
<1> QED
  BY <1>8, <1>9
\* while insert has put no node in the middle the prev links lead back over
\* the whole list
LEMMA BackSteps ==
  ASSUME DoubleInv, ~stale, pc = "open", middle = {}
  PROVE  /\ \A k \in Nat : k < Len(items) => Double!Back[k] \in used
         /\ \A k \in Nat : Double!Back[k] \notin used => Double!Back[k] \in {None, "segv"}
<1>1. /\ items \in Seq(Node) /\ Distinct(items) /\ Len(items) \in Nat /\ used = NodesOf(items)
      /\ \A j \in 1 .. Len(items) : items[j] \in Node /\ items[j] \in used
      /\ items = <<>> <=> Len(items) = 0
      /\ items = <<>> <=> tail = None
      /\ items # <<>> => tail = items[Len(items)]
  BY DoubleList
<1>2. prev \in [Node -> Node \cup {None, Unwritten}] /\ used \subseteq Node
  BY DoubleIsSingle, SingleTypes DEF SingleInv
<1>3. \A j \in 1 .. Len(items) : prev[items[j]] = IF j = 1 THEN None ELSE items[j - 1]
  BY DoubleIsSingle DEF BackLinks, Double!BackLink
<1>4. PICK r : r = [j \in 1 .. Len(items) |-> items[Len(items) + 1 - j]]
  OBVIOUS
<1>5. r \in Seq(Node) /\ Len(r) = Len(items) /\ \A j \in 1 .. Len(items) : r[j] = items[Len(items) + 1 - j]
  <2>1. \A j \in 1 .. Len(items) : Len(items) + 1 - j \in 1 .. Len(items)
    BY <1>1
  <2>2. r \in [1 .. Len(items) -> Node]
    BY <1>1, <1>4, <2>1
  <2>3. r \in Seq(Node) /\ Len(r) = Len(items)
    BY <1>1, <2>2
  <2> QED
    BY <1>4, <2>3
<1>6. IsList(Node, r, tail, prev)
  <2>1. Distinct(r)
    <3> SUFFICES ASSUME NEW i \in 1 .. Len(r), NEW j \in 1 .. Len(r), r[i] = r[j] PROVE i = j
      BY DEF Distinct
    <3>1. Len(items) + 1 - i \in 1 .. Len(items) /\ Len(items) + 1 - j \in 1 .. Len(items)
      BY <1>1, <1>5
    <3>a. items[Len(items) + 1 - i] = items[Len(items) + 1 - j]
      BY <1>5
    <3>2. Len(items) + 1 - i = Len(items) + 1 - j
      BY <1>1, <3>1, <3>a DEF Distinct
    <3> QED
      BY <1>1, <1>5, <3>2
  <2>2. r = <<>> <=> Len(r) = 0
    BY <1>5, SeqShape
  <2>3. r = <<>> => tail = None
    BY <1>1, <1>5, <2>2
  <2>4. ASSUME r # <<>> PROVE tail = r[1] /\ prev[r[Len(r)]] = None
    <3>1. 1 \in 1 .. Len(items) /\ Len(items) \in 1 .. Len(items) /\ Len(items) # 0
          /\ Len(items) + 1 - 1 = Len(items) /\ Len(items) + 1 - Len(items) = 1
      BY <1>1, <1>5, <2>2, <2>4
    <3> QED
      BY <1>1, <1>3, <1>5, <3>1
  <2>5. ASSUME NEW j \in 1 .. Len(r) - 1 PROVE prev[r[j]] = r[j + 1]
    <3>1. PICK m \in 2 .. Len(items) : m = Len(items) + 1 - j /\ m - 1 = Len(items) + 1 - (j + 1)
      BY <1>1, <1>5
    <3>2. j \in 1 .. Len(items) /\ j + 1 \in 1 .. Len(items) /\ m \in 1 .. Len(items) /\ m # 1
      BY <1>1, <1>5, <3>1
    <3>3. r[j] = items[m] /\ r[j + 1] = items[m - 1]
      BY <1>5, <3>1, <3>2
    <3> QED
      BY <1>3, <3>2, <3>3
  <2> QED
    BY <1>5, <2>1, <2>2, <2>3, <2>4, <2>5 DEF IsList
<1>7. NodesOf(r) \subseteq used
  <2>1. \A j \in 1 .. Len(r) : Len(items) + 1 - j \in 1 .. Len(items)
    BY <1>1, <1>5
  <2> QED
    BY <1>1, <1>5, <2>1, Zenon DEF NodesOf
<1>8. PICK w : w = Double!Back
  OBVIOUS
<1>9. IsWalk(w, used, prev, tail)
  <2> DEFINE b == CHOOSE f : f = [k \in Nat |-> IF k = 0 THEN tail ELSE Onward(used, prev, f[k - 1])]
  <2>1. Double!Back = b
    BY DEF Double!Back, Double!Single!Follow, Double!Single!Fault, Onward
  <2>2. IsWalk(b, used, prev, tail)
    BY <1>2, Walks
  <2> HIDE DEF b
  <2> QED
    BY <1>8, <2>1, <2>2
<1>10. Meets(w, used, r)
  BY <1>2, <1>6, <1>7, <1>9, ListWalk
<1>11. ASSUME NEW k \in Nat, k < Len(items) PROVE w[k] \in used
  <2>1. k \in 0 .. Len(r) - 1
    BY <1>1, <1>5, <1>11
  <2> QED
    BY <1>10, <2>1 DEF Meets
<1>12. ASSUME NEW k \in Nat, w[k] \notin used PROVE w[k] \in {None, "segv"}
  <2>1. k = Len(r) \/ k > Len(r)
    BY <1>1, <1>5, <1>11, <1>12
  <2> QED
    BY <1>10, <2>1 DEF Meets
<1> QED
  BY <1>8, <1>11, <1>12

\* a call that crashes
LEMMA DoubleCrashed ==
  ASSUME DoubleInv, ~stale, pc = "open", NEW how \in {"segv", "assert", "wild"}, NEW op, NEW idx,
         Single!Crash(how, op, idx), UNCHANGED prev, middle' = middle,
         middle = {} => kept > 0 /\ how # "wild"
  PROVE  DoubleInv'
<1>1. /\ UNCHANGED <<head, tail, length, next, data, used, items, kept, stale>> /\ pc' = how
      /\ out'.op = op /\ out'.idx = idx /\ out'.res = None
  BY DEF Single!Crash, Single!Result, Single!fields, Single!nodes, Single!history
<1>2. Double!TypeOK'
  BY <1>1 DEF DoubleInv, Double!TypeOK
<1>3. Holds(items) /\ BackLinks /\ (head = None <=> tail = None) /\ length = Len(items) + kept
  BY DEF DoubleInv
<1>4. Holds(items)'
  BY <1>1, <1>3 DEF Holds
<1>5. BackLinks'
  BY <1>1, <1>3 DEF BackLinks, Double!BackLink
<1>6. Double!CrashNeedsDrift'
  BY <1>1, DoubleList DEF Double!CrashNeedsDrift
<1>7. Single!AtIsOneBefore'
  BY <1>1 DEF Single!AtIsOneBefore
<1>8. (head' = None <=> tail' = None) /\ length' = Len(items') + kept' /\ pc' # "closed"
  BY <1>1, <1>3
<1> QED
  BY <1>2, <1>4, <1>5, <1>6, <1>7, <1>8 DEF DoubleInv

\* the walk from head, too, stays on the nodes and NULL
LEMMA HeadSteps ==
  ASSUME DoubleInv, ~stale, pc = "open", NEW k \in Nat
  PROVE  /\ Single!Walk[k] \in used <=> k < Len(items)
         /\ k < Len(items) => Single!Walk[k] = items[k + 1]
         /\ Single!Walk[k] \notin used => Single!Walk[k] \in {None, "segv"}
<1>1. Single!TypeOK
  BY DoubleIsSingle DEF SingleInv
<1>2. Holds(items)
  BY DoubleList
<1> QED
  BY <1>1, <1>2, SingleSteps

LEMMA DoubleInsertLost ==
  ASSUME DoubleInv, ~stale, NEW idx \in Single!Indices, Double!InsertLost(idx)
  PROVE  DoubleInv'
<1>1. PICK x : x = Double!Before(idx)
  OBVIOUS
<1>2. /\ Single!Believed(idx) /\ idx \notin {0, length} /\ pc = "open" /\ x \notin used
      /\ Single!Crash(IF x = None THEN "assert" ELSE Single!Fault(x), "insert", idx)
      /\ UNCHANGED prev /\ middle' = middle
  BY <1>1, SameFollow, SameCalls DEF Double!InsertLost, Single!Believed
<1>3. length = Len(items) + kept /\ kept \in Nat /\ length \in Nat /\ Len(items) \in Nat
  BY <1>2, DoubleList
<1>4. /\ idx \in 1 .. length - 1 /\ idx - 1 \in Nat /\ length - idx \in Nat /\ length - idx < length
  BY <1>2, <1>3 DEF Single!Believed
<1>5. x = IF idx < length \div 2 THEN Single!Walk[idx - 1] ELSE Double!Back[length - idx]
  BY <1>1, SameWalk DEF Double!Before
<1>6. PICK how \in {"segv", "assert", "wild"} : how = IF x = None THEN "assert" ELSE Single!Fault(x)
  BY DEF Single!Fault
<1>7. ASSUME middle = {} PROVE kept > 0 /\ how # "wild"
  <2>1. PICK i, j \in Nat : i = idx - 1 /\ j = length - idx /\ i < length /\ j < length
    BY <1>3, <1>4
  <2>2. x = Single!Walk[i] \/ x = Double!Back[j]
    BY <1>5, <2>1
  <2>3. x \in {None, "segv"}
    BY <1>2, <1>7, <2>2, HeadSteps, BackSteps
  <2>4. how # "wild"
    BY <1>6, <2>3 DEF Single!Fault
  <2>5. ~(i < Len(items)) \/ ~(j < Len(items))
    BY <1>2, <1>7, <2>2, HeadSteps, BackSteps
  <2> QED
    BY <1>3, <2>1, <2>4, <2>5
<1>8. PICK op : op = "insert"
  OBVIOUS
<1>9. Single!Crash(how, op, idx)
  BY <1>2, <1>6, <1>8
<1> QED
  BY <1>2, <1>7, <1>9, DoubleCrashed

LEMMA DoubleDeleteLost ==
  ASSUME DoubleInv, ~stale, NEW idx \in Single!Indices, Double!DeleteLost(idx)
  PROVE  DoubleInv'
<1>1. PICK x : x = Double!Touched(idx)
  OBVIOUS
<1>2. /\ pc = "open" /\ idx \in 0 .. length - 1 /\ x \notin used
      /\ Single!Crash(Single!Fault(x), "delete", idx)
      /\ UNCHANGED prev /\ middle' = middle
  BY <1>1, SameFollow, SameCalls DEF Double!DeleteLost
<1>3. /\ items \in Seq(Node) /\ Distinct(items) /\ Len(items) \in Nat
      /\ IsList(Node, items, head, next)
      /\ \A j \in 1 .. Len(items) : items[j] \in Node /\ items[j] \in used
      /\ items = <<>> <=> Len(items) = 0
      /\ items = <<>> <=> head = None
      /\ items = <<>> <=> tail = None
      /\ items # <<>> => head = items[1] /\ tail = items[Len(items)]
      /\ length = Len(items) + kept /\ kept \in Nat /\ length \in Nat
  BY <1>2, DoubleList
<1>4. /\ idx \in Nat /\ idx <= length - 1
  BY <1>2, <1>3
<1>5. x = IF idx = 0 THEN IF head = tail THEN head ELSE Single!Follow(head, next)
          ELSE IF idx = length - 1 THEN Single!Follow(tail, prev)
          ELSE Single!Follow(Single!Walk[idx], next)
  BY <1>1, SameFollow, SameWalk DEF Double!Touched
<1>6. PICK how \in {"segv", "assert", "wild"} : how = Single!Fault(x)
  BY DEF Single!Fault
<1>a. "segv" \notin used /\ None \notin used
  BY <1>2, DoubleIsSingle, SingleTypes, Apart DEF SingleInv
<1>7. ASSUME middle = {}, idx = 0 PROVE x \in {None, "segv"} /\ idx >= Len(items)
  <2>1. CASE items = <<>>
    BY <1>3, <1>4, <1>5, <1>7, <2>1
  <2>2. CASE items # <<>>
    <3>1. 1 \in 1 .. Len(items) /\ head \in used
      BY <1>3, <2>2
    <3>2. head # tail /\ x = next[head]
      BY <1>2, <1>5, <1>7, <3>1 DEF Single!Follow
    <3>3. Len(items) # 1
      BY <1>3, <2>2, <3>2
    <3>a. Len(items) \in Nat /\ Len(items) # 0
      BY <1>3, <2>2
    <3>4. 1 \in 1 .. Len(items) - 1 /\ 2 \in 1 .. Len(items)
      <4>1. PICK n \in Nat : n = Len(items)
        BY <3>a
      <4>2. 1 \in 1 .. n - 1 /\ 2 \in 1 .. n
        BY <3>a, <3>3, <4>1
      <4> QED
        BY <4>1, <4>2
    <3>5. next[items[1]] = items[1 + 1]
      BY <1>3, <3>4, ListShape
    <3> QED
      BY <1>2, <1>3, <2>2, <3>2, <3>4, <3>5
  <2> QED
    BY <2>1, <2>2
<1>8. ASSUME middle = {}, idx # 0, idx = length - 1 PROVE x \in {None, "segv"} /\ (kept = 0 => idx >= Len(items))
  <2>0. x = Single!Follow(tail, prev)
    BY <1>5, <1>8
  <2>1. CASE items = <<>>
    <3>1. x = "segv"
      BY <1>3, <1>a, <2>0, <2>1 DEF Single!Follow, Single!Fault
    <3> QED
      BY <1>3, <1>4, <2>1, <3>1
  <2>2. CASE items # <<>>
    <3>1. Len(items) \in 1 .. Len(items) /\ tail = items[Len(items)] /\ tail \in used
      BY <1>3, <2>2
    <3>2. x = prev[tail]
      BY <2>0, <3>1 DEF Single!Follow
    <3>3. x = IF Len(items) = 1 THEN None ELSE items[Len(items) - 1]
      BY <1>2, <1>8, <3>1, <3>2, DoubleIsSingle DEF BackLinks, Double!BackLink
    <3>4. CASE Len(items) = 1
      BY <1>3, <1>4, <1>8, <3>3, <3>4
    <3>5. CASE Len(items) # 1
      <4>a. Len(items) \in Nat
        BY <1>3
      <4>1. Len(items) - 1 \in 1 .. Len(items)
        <5>1. PICK n \in Nat : n = Len(items)
          BY <4>a
        <5>2. n - 1 \in 1 .. n
          BY <3>1, <3>5, <5>1
        <5> QED
          BY <5>1, <5>2
      <4> QED
        BY <1>2, <1>3, <3>3, <3>5, <4>1
    <3> QED
      BY <3>4, <3>5
  <2> QED
    BY <2>1, <2>2
<1>9. ASSUME middle = {}, idx # 0, idx # length - 1 PROVE x \in {None, "segv"} /\ idx >= Len(items) - 1
  <2>0. x = Single!Follow(Single!Walk[idx], next)
    BY <1>5, <1>9
  <2>1. CASE idx < Len(items)
    <3>1. Single!Walk[idx] = items[idx + 1] /\ Single!Walk[idx] \in used /\ idx + 1 \in 1 .. Len(items)
      BY <1>2, <1>3, <1>4, <2>1, HeadSteps
    <3>2. x = next[items[idx + 1]]
      BY <2>0, <3>1 DEF Single!Follow
    <3>3. CASE idx + 1 = Len(items)
      <4>1. Len(items) # 0
        BY <1>4, <2>1
      <4>2. next[items[Len(items)]] = None
        BY <1>3, <4>1, ListShape
      <4> QED
        BY <1>3, <1>4, <3>2, <3>3, <4>2
    <3>4. CASE idx + 1 # Len(items)
      <4>1. idx + 1 \in 1 .. Len(items) - 1 /\ (idx + 1) + 1 \in 1 .. Len(items)
        BY <1>3, <1>4, <2>1, <3>4
      <4>2. next[items[idx + 1]] = items[(idx + 1) + 1]
        BY <1>3, <4>1, ListShape
      <4> QED
        BY <1>2, <1>3, <3>2, <4>1, <4>2
    <3> QED
      BY <3>3, <3>4
  <2>2. CASE ~(idx < Len(items))
    <3>1. Single!Walk[idx] \notin used /\ Single!Walk[idx] \in {None, "segv"}
      BY <1>2, <1>4, <2>2, HeadSteps
    <3>2. x = "segv"
      BY <2>0, <3>1 DEF Single!Follow, Single!Fault
    <3> QED
      BY <1>3, <1>4, <2>2, <3>2
  <2> QED
    BY <2>1, <2>2
<1>10. ASSUME middle = {} PROVE kept > 0 /\ how # "wild"
  <2>1. x \in {None, "segv"}
    BY <1>7, <1>8, <1>9, <1>10
  <2>2. how # "wild"
    BY <1>6, <2>1 DEF Single!Fault
  <2>3. kept # 0
    <3> SUFFICES ASSUME kept = 0 PROVE FALSE
      OBVIOUS
    <3>1. length = Len(items)
      BY <1>3
    <3>2. CASE idx = 0
      BY <1>3, <1>4, <1>7, <1>10, <3>1, <3>2
    <3>3. CASE idx # 0 /\ idx = length - 1
      BY <1>3, <1>4, <1>8, <1>10, <3>1, <3>3
    <3>4. CASE idx # 0 /\ idx # length - 1
      BY <1>3, <1>4, <1>9, <1>10, <3>1, <3>4
    <3> QED
      BY <3>2, <3>3, <3>4
  <2> QED
    BY <1>3, <2>2, <2>3
<1>11. PICK op : op = "delete"
  OBVIOUS
<1>12. Single!Crash(how, op, idx)
  BY <1>2, <1>6, <1>11
<1> QED
  BY <1>2, <1>10, <1>12, DoubleCrashed

LEMMA DoubleStep == DoubleInv /\ Double!Next => DoubleInv'
<1> SUFFICES ASSUME DoubleInv, Double!Next PROVE DoubleInv'
  OBVIOUS
<1>0. ~stale /\ Double!Call
  BY DEF Double!Next
<1>1. ASSUME NEW v \in Value, Double!InsertHead(v) \/ Double!InsertTail(v) \/ Double!IndexOf(v)
      PROVE  DoubleInv'
  BY <1>0, <1>1, DoubleInsertHead, DoubleInsertTail, DoubleShares
<1>2. ASSUME NEW v \in Value, NEW idx \in Single!Indices, Double!InsertMiddle(v, idx)
      PROVE  DoubleInv'
  BY <1>0, <1>2, DoubleInsertMiddle
<1>3. ASSUME NEW idx \in Single!Indices,
             \/ Double!InsertLost(idx) \/ Double!InsertRefused(idx) \/ Double!DeleteMiddle(idx)
             \/ Double!DeleteLost(idx) \/ Double!DeleteRefused(idx) \/ Double!At(idx)
      PROVE  DoubleInv'
  BY <1>0, <1>3, DoubleInsertLost, DoubleShares, DoubleDeleteMiddle, DoubleDeleteLost
<1>4. Double!DeleteHead \/ Double!DeleteTail \/ Double!Destory \/ Double!InitAgain => DoubleInv'
  BY <1>0, DoubleDeleteHead, DoubleDeleteTail, DoubleShares, DoubleInitAgain
<1> QED
  BY <1>0, <1>1, <1>2, <1>3, <1>4, SameFollow DEF Double!Call

\* what the list answers to a caller that follows it from head, or from tail
LEMMA DoubleFollows == DoubleInv => Double!FollowsItems
<1> SUFFICES ASSUME DoubleInv PROVE Double!FollowsItems
  OBVIOUS
<1>1. ~stale => BackLinks
  BY DEF DoubleInv
<1>2. ASSUME ~stale, pc # "closed"
      PROVE  /\ Double!Single!Chain = items
             /\ tail = IF items = <<>> THEN None ELSE Double!Single!Last(items)
             /\ used = Double!Single!ToSet(items)
  <2>1. Holds(items) /\ (head = None <=> tail = None)
    BY <1>2 DEF DoubleInv
  <2>2. used \subseteq Node /\ next \in [Node -> Node \cup {None}]
    BY DEF DoubleInv, Double!TypeOK
  <2>3. Single!Chain = items
    BY <2>1, <2>2, SingleWalk
  <2>4. IsList(Node, items, head, next) /\ used = NodesOf(items) /\ (items # <<>> => tail = items[Len(items)])
    BY <1>2, <2>1 DEF Holds
  <2>5. items = <<>> => head = None
    BY <2>4 DEF IsList
  <2>6. DOMAIN items = 1 .. Len(items)
    BY <2>4 DEF IsList
  <2> QED
    BY <2>1, <2>3, <2>4, <2>5, <2>6, SameWalk, SameSequences, SameOperators DEF NodesOf
<1>3. ~stale /\ pc = "closed" => used = {}
  BY DEF DoubleInv
<1>4. Double!Single!FollowsItems
  BY <1>2, <1>3 DEF Double!Single!FollowsItems
<1> QED
  BY <1>1, <1>4 DEF Double!FollowsItems, BackLinks
-----------------------------------------------------------------------------
(***************************************************************************)
(* The graph: a walk is a table of bounded domain, which ends at None or   *)
(* in a node that is not in use within as many steps as there are arcs.    *)
(***************************************************************************)
\* a walk told as a recursive function of bounded domain
Further(links, alive, x) == IF x \in alive THEN links[x] ELSE x
Trail(w, links, alive, p) ==
  /\ DOMAIN w = 0 .. Cardinality(Arc)
  /\ w[0] = p
  /\ \A k \in 1 .. Cardinality(Arc) : w[k] = Further(links, alive, w[k - 1])

LEMMA GraphWalks ==
  ASSUME NEW alive, alive \subseteq Arc, NEW links \in [Arc -> Arc \cup {None}], NEW p
  PROVE  Trail(Graph!Walk(links, alive, p), links, alive, p)
<1> DEFINE N == Cardinality(Arc)
           Rule(f) == f = [k \in 0 .. N |-> IF k = 0 THEN p ELSE Further(links, alive, f[k - 1])]
           T == Arc \cup {None, p}
           F == [x \in T |-> Further(links, alive, x)]
<1>1. F \in [T -> T] /\ p \in T
  BY DEF Further
<1>2. PICK g \in [Nat -> T] : g[0] = p /\ \A n \in Nat : g[n + 1] = F[g[n]]
  <2>1. PICK T1, F1 : T1 = T /\ F1 = F
    OBVIOUS
  <2>2. F1 \in [T1 -> T1] /\ p \in T1
    BY <1>1, <2>1
  <2>3. PICK g : Iteration(g, T1, F1, p)
    BY <2>2, Iterates
  <2> HIDE DEF F, T
  <2> QED
    BY <2>1, <2>3 DEF Iteration
<1>3. N \in Nat
  BY FiniteMemory, FS_CardinalityType
<1>4. \A n \in Nat : g[n + 1] = Further(links, alive, g[n])
  <2> SUFFICES ASSUME NEW n \in Nat PROVE g[n + 1] = Further(links, alive, g[n])
    OBVIOUS
  <2>1. g[n] \in T
    BY <1>2
  <2>2. F[g[n]] = Further(links, alive, g[n])
    <3> HIDE DEF T
    <3> QED
      BY <2>1
  <2> HIDE DEF F
  <2> QED
    BY <1>2, <2>2
<1> HIDE DEF N
<1>5. Rule([k \in 0 .. N |-> g[k]])
  <2> DEFINE f == [k \in 0 .. N |-> g[k]]
  <2>1. ASSUME NEW k \in 0 .. N PROVE f[k] = IF k = 0 THEN p ELSE Further(links, alive, f[k - 1])
    <3>1. CASE k = 0
      BY <1>2, <3>1
    <3>2. CASE k # 0
      <4>1. k - 1 \in Nat /\ k - 1 \in 0 .. N /\ (k - 1) + 1 = k
        BY <1>3, <3>2
      <4>2. g[(k - 1) + 1] = Further(links, alive, g[k - 1])
        BY <1>4, <4>1
      <4> QED
        BY <3>2, <4>1, <4>2
    <3> QED
      BY <3>1, <3>2
  <2>2. f = [k \in 0 .. N |-> f[k]]
    OBVIOUS
  <2> HIDE DEF f
  <2>3. Rule(f)
    BY <2>1, <2>2
  <2> QED
    BY <2>3 DEF f
<1>6. PICK w : w = Graph!Walk(links, alive, p)
  OBVIOUS
<1>7. w = CHOOSE f : Rule(f)
  <2>1. \A S : Graph!Cardinality(S) = Cardinality(S)
    BY DEF Graph!Cardinality, Cardinality
  <2> QED
    BY <1>6, <2>1 DEF Graph!Walk, Further, N
<1>8. Rule(w)
  <2> HIDE DEF Rule
  <2> QED
    BY <1>5, <1>7
<1>9. DOMAIN w = 0 .. N /\ w[0] = p /\ \A k \in 1 .. N : w[k] = Further(links, alive, w[k - 1])
  BY <1>3, <1>8
<1> QED
  BY <1>6, <1>9 DEF Trail, N
\* once it has left the nodes in use a walk stays where it is
LEMMA TrailEnds ==
  ASSUME NEW alive, NEW links, NEW p, NEW w, Trail(w, links, alive, p),
         NEW i \in 0 .. Cardinality(Arc), w[i] \notin alive
  PROVE  \A j \in i .. Cardinality(Arc) : w[j] = w[i]
<1> DEFINE N == Cardinality(Arc)
           Same == {n \in Nat : i + n <= N => w[i + n] = w[i]}
<1>1. N \in Nat /\ i \in Nat
  BY FiniteMemory, FS_CardinalityType
<1>2. \A k \in 1 .. N : w[k] = Further(links, alive, w[k - 1])
  BY DEF Trail
<1> HIDE DEF N
<1>3. 0 \in Same
  BY <1>1
<1>4. ASSUME NEW n \in Nat, n \in Same PROVE n + 1 \in Same
  <2> SUFFICES ASSUME i + (n + 1) <= N PROVE w[i + (n + 1)] = w[i]
    OBVIOUS
  <2>1. i + (n + 1) \in 1 .. N /\ (i + (n + 1)) - 1 = i + n /\ i + n <= N
    BY <1>1
  <2>2. w[i + n] = w[i]
    BY <1>4, <2>1
  <2> QED
    BY <1>2, <2>1, <2>2 DEF Further
<1>5. Nat \subseteq Same
  <2> HIDE DEF Same
  <2> QED
    BY <1>3, <1>4, Induct
<1>6. ASSUME NEW j \in i .. N PROVE w[j] = w[i]
  <2>1. j - i \in Nat /\ i + (j - i) = j /\ j <= N
    BY <1>1
  <2>2. j - i \in Same
    BY <1>5, <2>1
  <2> QED
    BY <2>1, <2>2
<1> QED
  BY <1>6 DEF N

Trailed(w, alive) == [k \in 1 .. Cardinality({j \in 0 .. Cardinality(Arc) : w[j] \in alive}) |-> w[k - 1]]

LEMMA GraphChains ==
  ASSUME NEW alive, alive \subseteq Arc, NEW links \in [Arc -> Arc \cup {None}], NEW p
  PROVE  \E w : /\ Trail(w, links, alive, p)
                /\ Graph!Chain(links, alive, p) = Trailed(w, alive)
                /\ Graph!Broken(links, alive, p) <=> w[Cardinality(Arc)] # None
<1>1. PICK w : w = Graph!Walk(links, alive, p)
  OBVIOUS
<1>2. Trail(w, links, alive, p)
  BY <1>1, GraphWalks
<1>3. \A S : Graph!Cardinality(S) = Cardinality(S)
  BY DEF Graph!Cardinality, Cardinality
<1>4. DOMAIN w = 0 .. Cardinality(Arc)
  BY <1>2 DEF Trail
<1>5. Graph!Chain(links, alive, p) = Trailed(w, alive)
  BY <1>1, <1>3, <1>4 DEF Graph!Chain, Trailed
<1>6. Graph!Broken(links, alive, p) <=> w[Cardinality(Arc)] # None
  BY <1>1, <1>3 DEF Graph!Broken
<1> QED
  BY <1>2, <1>5, <1>6

\* what a walk has met are nodes in use
LEMMA ChainInUse ==
  ASSUME NEW alive, alive \subseteq Arc, NEW links \in [Arc -> Arc \cup {None}], NEW p
  PROVE  Graph!Chain(links, alive, p) \in Seq(alive)
<1> DEFINE N == Cardinality(Arc)
<1>0. N \in Nat
  BY FiniteMemory, FS_CardinalityType
<1>1. PICK w : /\ Trail(w, links, alive, p)
               /\ Graph!Chain(links, alive, p) = Trailed(w, alive)
  BY GraphChains
<1>2. PICK S : S = {j \in 0 .. N : w[j] \in alive}
  OBVIOUS
<1>3. PICK m : m = Cardinality(S)
  OBVIOUS
<1>4. IsFiniteSet(S) /\ m \in Nat
  <2>1. IsFiniteSet(0 .. N)
    BY <1>0, FS_Interval
  <2>2. IsFiniteSet(S)
    BY <1>2, <2>1, FS_Subset
  <2> QED
    BY <1>3, <2>2, FS_CardinalityType
<1>5. ASSUME NEW k \in 1 .. m, w[k - 1] \notin alive PROVE FALSE
  <2>0. PICK i \in Nat : k = i + 1 /\ i = k - 1
    <3>1. k - 1 \in Nat /\ k = (k - 1) + 1
      BY <1>4
    <3> QED
      BY <3>1
  <2>1. S \subseteq 0 .. i - 1
    <3> SUFFICES ASSUME NEW j \in S, ~(j < i) PROVE FALSE
      BY <1>0, <1>2
    <3>1. j \in i .. N /\ i \in 0 .. N /\ w[j] \in alive
      BY <1>0, <1>2
    <3>2. w[j] = w[i]
      BY <1>1, <1>5, <2>0, <3>1, TrailEnds
    <3> QED
      BY <1>5, <2>0, <3>1, <3>2
  <2>2. IsFiniteSet(0 .. i - 1) /\ Cardinality(0 .. i - 1) = i
    <3>1. PICK z \in Int : z = i - 1
      OBVIOUS
    <3>2. IsFiniteSet(0 .. z) /\ Cardinality(0 .. z) = IF 0 > z THEN 0 ELSE z - 0 + 1
      BY FS_Interval
    <3> QED
      BY <3>1, <3>2
  <2>3. m <= i
    <3>1. PICK I : I = 0 .. i - 1
      OBVIOUS
    <3>2. IsFiniteSet(I) /\ Cardinality(I) = i /\ S \subseteq I
      BY <2>1, <2>2, <3>1
    <3>3. Cardinality(S) <= Cardinality(I)
      BY <3>2, FS_Subset
    <3> QED
      BY <1>3, <3>2, <3>3
  <2> QED
    BY <1>4, <2>0, <2>3
<1>6. Trailed(w, alive) = [k \in 1 .. m |-> w[k - 1]]
  BY <1>2, <1>3 DEF Trailed
<1>7. [k \in 1 .. m |-> w[k - 1]] \in [1 .. m -> alive]
  BY <1>5
<1> QED
  BY <1>1, <1>4, <1>6, <1>7

\* from the start of a list a walk meets the list and then NULL
LEMMA ListChain ==
  ASSUME NEW alive, alive \subseteq Arc, NEW links \in [Arc -> Arc \cup {None}],
         NEW h, NEW p, IsList(Arc, p, h, links), NodesOf(p) \subseteq alive
  PROVE  Graph!Chain(links, alive, h) = p /\ ~Graph!Broken(links, alive, h)
<1> DEFINE N == Cardinality(Arc)
<1>1. /\ p \in Seq(Arc) /\ Distinct(p) /\ Len(p) \in Nat /\ N \in Nat /\ Len(p) <= N
      /\ \A j \in 1 .. Len(p) : p[j] \in Arc /\ p[j] \in alive
      /\ \A j \in 1 .. Len(p) - 1 : links[p[j]] = p[j + 1]
      /\ Len(p) # 0 => h = p[1] /\ links[p[Len(p)]] = None
      /\ Len(p) = 0 => h = None
      /\ None \notin alive
  <2>1. p \in Seq(Arc) /\ Distinct(p) /\ Len(p) \in Nat
    BY ListShape
  <2>2. N \in Nat /\ Len(p) <= N
    BY <2>1, FiniteMemory, FS_CardinalityType, DistinctIsShort
  <2>3. \A j \in 1 .. Len(p) : p[j] \in alive
    BY DEF NodesOf
  <2>4. Len(p) = 0 => h = None
    BY ListShape DEF IsList
  <2>5. None \notin alive
    BY NullIsApart
  <2> QED
    BY <2>1, <2>2, <2>3, <2>4, <2>5, ListShape
<1>2. PICK w : /\ Trail(w, links, alive, h)
               /\ Graph!Chain(links, alive, h) = Trailed(w, alive)
               /\ Graph!Broken(links, alive, h) <=> w[Cardinality(Arc)] # None
  BY GraphChains
<1>3. w[0] = h /\ \A k \in 1 .. N : w[k] = Further(links, alive, w[k - 1])
  BY <1>2 DEF Trail
<1> DEFINE Right == {k \in Nat : k < Len(p) => w[k] = p[k + 1]}
<1> HIDE DEF N
<1>4. 0 \in Right
  BY <1>1, <1>3
<1>5. ASSUME NEW k \in Nat, k \in Right PROVE k + 1 \in Right
  <2> SUFFICES ASSUME k + 1 < Len(p) PROVE w[k + 1] = p[(k + 1) + 1]
    OBVIOUS
  <2>1. k < Len(p) /\ k + 1 \in 1 .. N /\ (k + 1) - 1 = k /\ k + 1 \in 1 .. Len(p) - 1 /\ k + 1 \in 1 .. Len(p)
    BY <1>1
  <2>2. w[k] = p[k + 1]
    BY <1>5, <2>1
  <2>3. w[k + 1] = links[p[k + 1]]
    BY <1>1, <1>3, <2>1, <2>2 DEF Further
  <2> QED
    BY <1>1, <2>1, <2>3
<1>6. Nat \subseteq Right
  <2> HIDE DEF Right
  <2> QED
    BY <1>4, <1>5, Induct
<1>7. \A k \in 0 .. Len(p) - 1 : w[k] = p[k + 1] /\ w[k] \in alive
  <2> SUFFICES ASSUME NEW k \in 0 .. Len(p) - 1 PROVE w[k] = p[k + 1] /\ w[k] \in alive
    OBVIOUS
  <2>1. k \in Nat /\ k < Len(p) /\ k + 1 \in 1 .. Len(p)
    BY <1>1
  <2>2. k \in Right
    BY <1>6, <2>1
  <2> QED
    BY <1>1, <2>1, <2>2
<1>8. w[Len(p)] = None
  <2>1. CASE Len(p) = 0
    BY <1>1, <1>3, <2>1
  <2>2. CASE Len(p) # 0
    <3>1. Len(p) - 1 \in 0 .. Len(p) - 1 /\ (Len(p) - 1) + 1 = Len(p) /\ Len(p) \in 1 .. N
      BY <1>1, <2>2
    <3>2. w[Len(p) - 1] = p[Len(p)] /\ w[Len(p) - 1] \in alive
      BY <1>7, <3>1
    <3> QED
      BY <1>1, <1>3, <2>2, <3>1, <3>2 DEF Further
  <2> QED
    BY <2>1, <2>2
<1>9. \A k \in Len(p) .. N : w[k] = None
  <2>1. Len(p) \in 0 .. N /\ w[Len(p)] \notin alive
    BY <1>1, <1>8
  <2>2. \A k \in Len(p) .. N : w[k] = w[Len(p)]
    BY <1>2, <2>1, TrailEnds DEF N
  <2> QED
    BY <1>8, <2>2
<1>10. ~Graph!Broken(links, alive, h)
  <2>1. N \in Len(p) .. N
    BY <1>1
  <2> QED
    BY <1>2, <1>9, <2>1 DEF N
<1>11. {j \in 0 .. N : w[j] \in alive} = 0 .. Len(p) - 1
  <2>1. \A j \in 0 .. N : j \in 0 .. Len(p) - 1 \/ j \in Len(p) .. N
    BY <1>1
  <2>2. \A j \in 0 .. Len(p) - 1 : j \in 0 .. N
    BY <1>1
  <2> QED
    BY <1>1, <1>7, <1>9, <2>1, <2>2
<1>12. Cardinality(0 .. Len(p) - 1) = Len(p)
  <2>0. PICK l \in Nat : l = Len(p)
    BY <1>1
  <2>1. PICK m \in Int : m = l - 1
    OBVIOUS
  <2>2. Cardinality(0 .. m) = IF 0 > m THEN 0 ELSE m - 0 + 1
    BY FS_Interval
  <2> QED
    BY <2>0, <2>1, <2>2
<1>13. Trailed(w, alive) = [k \in 1 .. Len(p) |-> w[k - 1]]
  BY <1>11, <1>12 DEF Trailed, N
<1>14. [k \in 1 .. Len(p) |-> w[k - 1]] = p
  <2> DEFINE c == [k \in 1 .. Len(p) |-> w[k - 1]]
  <2>1. \A k \in 1 .. Len(p) : w[k - 1] = p[k]
    <3> SUFFICES ASSUME NEW k \in 1 .. Len(p) PROVE w[k - 1] = p[k]
      OBVIOUS
    <3>1. k - 1 \in 0 .. Len(p) - 1 /\ (k - 1) + 1 = k
      BY <1>1
    <3> QED
      BY <1>7, <3>1
  <2>2. c \in [1 .. Len(p) -> Arc]
    BY <1>1, <2>1
  <2>3. c \in Seq(Arc) /\ Len(c) = Len(p)
    BY <1>1, <2>2
  <2>4. \A k \in 1 .. Len(p) : c[k] = p[k]
    BY <2>1
  <2> HIDE DEF c
  <2>5. c = p
    BY <1>1, <2>3, <2>4, SameSeq
  <2> QED
    BY <2>5 DEF c
<1> QED
  BY <1>2, <1>10, <1>13, <1>14

(***************************************************************************)
(* While insert_vertex has returned no cell with old arcs each vertex owns *)
(* a list of arcs in use, and no two share one.                            *)
(***************************************************************************)
OwnArcs(L, n, fst, nx, u) ==
  /\ \A c \in 0 .. n - 1 : IsList(Arc, L[c], fst[c], nx) /\ NodesOf(L[c]) \subseteq u
  /\ \A c, d \in 0 .. n - 1 : c # d => NodesOf(L[c]) \cap NodesOf(L[d]) = {}

\* the vertices the arcs of p lead to
Led(p, to, d) == [k \in 1 .. Len(p) |-> d[to[p[k]]]]

AsAsked(L) ==
  /\ \A c \in 0 .. nvert - 1 : \A k \in 1 .. Len(L[c]) : vert[L[c][k]] \in 0 .. nvert - 1
  /\ items = [j \in 1 .. nvert |-> [vertex |-> data[j - 1], arcs |-> Led(L[j - 1], vert, data)]]

VerticesDiffer ==
  \A c \in 0 .. nvert - 1 :
    data[c] \in Vertex /\ \A d \in 0 .. nvert - 1 : c # d => data[c] # data[d]

\* g has an arc from x to y, and every arc said to be removed is one asked for
HasArc(g, x, y) == \E j \in 1 .. Len(g) : g[j].vertex = x /\ Graph!Contains(g[j].arcs, y)
RemovedAsked == \A x, y \in Vertex : <<x, y>> \in removed => HasArc(items, x, y)

GraphInv ==
  /\ Graph!TypeOK
  /\ VerticesDiffer
  /\ RemovedAsked
  /\ reused => stale
  /\ stale => items = <<>> /\ removed = {}
  /\ pc = "wild" => reused
  /\ pc = "segv" /\ ~stale => \E j \in 1 .. Len(items) : items[j].arcs = <<>>
  /\ pc \in {"open", "hang"} /\ ~reused =>
       \E L : OwnArcs(L, nvert, first, next, used) /\ (~stale => AsAsked(L))

LEMMA GraphShape ==
  ASSUME Graph!TypeOK
  PROVE  /\ nvert \in Nat /\ nvert <= MaxVertices /\ MaxVertices \in Nat
         /\ \A c \in 0 .. nvert - 1 : c \in Graph!Cells
         /\ data \in [Graph!Cells -> Vertex \cup {None}]
         /\ first \in [Graph!Cells -> Arc \cup {None}]
         /\ vert \in [Arc -> Graph!Cells \cup {None}]
         /\ next \in [Arc -> Arc \cup {None}]
         /\ used \subseteq Arc
<1>1. nvert \in 0 .. MaxVertices /\ MaxVertices \in Nat
  BY Sizes DEF Graph!TypeOK
<1> QED
  BY <1>1 DEF Graph!TypeOK, Graph!Cells

\* what the walks of the code meet in the list of a vertex
LEMMA GraphHas ==
  ASSUME Graph!TypeOK, NEW L, OwnArcs(L, nvert, first, next, used), NEW c \in 0 .. nvert - 1
  PROVE  /\ IsList(Arc, L[c], first[c], next) /\ NodesOf(L[c]) \subseteq used
         /\ Graph!Chain(next, used, first[c]) = L[c]
         /\ ~Graph!Broken(next, used, first[c])
         /\ L[c] \in Seq(Arc) /\ Len(L[c]) \in Nat
         /\ \A k \in 1 .. Len(L[c]) : L[c][k] \in used /\ L[c][k] \in Arc
         /\ L[c] = <<>> <=> first[c] = None
         /\ L[c] # <<>> => first[c] = L[c][1] /\ 1 \in 1 .. Len(L[c])
<1>1. IsList(Arc, L[c], first[c], next) /\ NodesOf(L[c]) \subseteq used
  BY DEF OwnArcs
<1>2. next \in [Arc -> Arc \cup {None}] /\ used \subseteq Arc
  BY GraphShape
<1>3. Graph!Chain(next, used, first[c]) = L[c] /\ ~Graph!Broken(next, used, first[c])
  BY <1>1, <1>2, ListChain
<1>4. /\ L[c] \in Seq(Arc) /\ Len(L[c]) \in Nat
      /\ \A k \in 1 .. Len(L[c]) : L[c][k] \in Arc
      /\ L[c] = <<>> <=> Len(L[c]) = 0
      /\ Len(L[c]) # 0 => first[c] = L[c][1]
  BY <1>1, ListShape
<1>5. L[c] = <<>> => first[c] = None
  BY <1>1 DEF IsList
<1>6. L[c] # <<>> => 1 \in 1 .. Len(L[c])
  BY <1>4
<1>7. L[c] # <<>> => first[c] # None
  BY <1>4, <1>6, NullIsApart
<1>8. \A k \in 1 .. Len(L[c]) : L[c][k] \in used
  BY <1>1 DEF NodesOf
<1> QED
  BY <1>1, <1>3, <1>4, <1>5, <1>6, <1>7, <1>8

\* the cell of a vertex that is there
LEMMA GraphIndex ==
  ASSUME Graph!TypeOK, NEW x, ~Graph!Missing(x)
  PROVE  /\ Graph!IndexOf(x) \in 0 .. nvert - 1 /\ Graph!IndexOf(x) \in Graph!Cells
         /\ data[Graph!IndexOf(x)] = x
<1> DEFINE T == Graph!Found(x)
<1>1. T \subseteq Nat /\ T # {}
  BY GraphShape DEF Graph!Found, Graph!Missing
<1>2. \E c \in T : \A d \in T : c <= d
  <2> HIDE DEF T
  <2> QED
    BY <1>1, LeastIn
<1>3. Graph!IndexOf(x) \in T
  BY <1>2 DEF Graph!IndexOf
<1> QED
  BY <1>3, GraphShape DEF Graph!Found

\* no other cell holds it
LEMMA GraphIndexIs ==
  ASSUME Graph!TypeOK, VerticesDiffer, NEW c \in 0 .. nvert - 1
  PROVE  ~Graph!Missing(data[c]) /\ Graph!IndexOf(data[c]) = c
<1>1. c \in Graph!Found(data[c])
  BY DEF Graph!Found
<1>2. ~Graph!Missing(data[c])
  BY <1>1 DEF Graph!Missing
<1>3. /\ Graph!IndexOf(data[c]) \in 0 .. nvert - 1
      /\ data[Graph!IndexOf(data[c])] = data[c]
  BY <1>2, GraphIndex
<1> QED
  BY <1>2, <1>3 DEF VerticesDiffer

LEMMA GraphStarts == Graph!Init => GraphInv
<1> SUFFICES ASSUME Graph!Init PROVE GraphInv
  OBVIOUS
<1>1. /\ nvert = 0 /\ data = [c \in Graph!Cells |-> None] /\ first = [c \in Graph!Cells |-> None]
      /\ vert = [a \in Arc |-> None] /\ next = [a \in Arc |-> None] /\ used = {}
      /\ pc = "open" /\ items = <<>> /\ stale = FALSE /\ reused = FALSE /\ removed = {}
  BY DEF Graph!Init
<1>2. Graph!TypeOK
  <2>1. nvert \in 0 .. MaxVertices
    BY <1>1, Sizes
  <2> QED
    BY <1>1, <2>1 DEF Graph!TypeOK
<1>3. 0 .. nvert - 1 = {} /\ 1 .. nvert = {}
  BY <1>1
<1>4. PICK L : L = [c \in {} |-> <<>>]
  OBVIOUS
<1>5. OwnArcs(L, nvert, first, next, used)
  BY <1>3 DEF OwnArcs
<1>6. [j \in 1 .. nvert |-> [vertex |-> data[j - 1], arcs |-> Led(L[j - 1], vert, data)]] = <<>>
  BY <1>3
<1>7. AsAsked(L)
  BY <1>1, <1>3, <1>6 DEF AsAsked
<1>8. VerticesDiffer
  BY <1>3 DEF VerticesDiffer
<1>9. RemovedAsked
  BY <1>1 DEF RemovedAsked
<1> QED
  BY <1>1, <1>2, <1>5, <1>7, <1>8, <1>9 DEF GraphInv

\* the graph asked for, vertex by vertex
LEMMA AskedShape ==
  ASSUME Graph!TypeOK, NEW L, AsAsked(L)
  PROVE  /\ Len(items) = nvert /\ DOMAIN items = 1 .. nvert
         /\ \A c \in 0 .. nvert - 1 :
              /\ c + 1 \in 1 .. nvert
              /\ items[c + 1].vertex = data[c]
              /\ items[c + 1].arcs = Led(L[c], vert, data)
<1>0. nvert \in Nat
  BY GraphShape
<1>1. items = [j \in 1 .. nvert |-> [vertex |-> data[j - 1], arcs |-> Led(L[j - 1], vert, data)]]
  BY DEF AsAsked
<1>2. Len(items) = nvert /\ DOMAIN items = 1 .. nvert
  BY <1>0, <1>1
<1>3. ASSUME NEW c \in 0 .. nvert - 1
      PROVE  /\ c + 1 \in 1 .. nvert
             /\ items[c + 1].vertex = data[c]
             /\ items[c + 1].arcs = Led(L[c], vert, data)
  <2>1. c + 1 \in 1 .. nvert /\ (c + 1) - 1 = c
    BY <1>0
  <2> QED
    BY <1>1, <2>1
<1> QED
  BY <1>2, <1>3

\* a call that changes nothing but how the program stands, and what is said of it
LEMMA GraphAnswered ==
  ASSUME GraphInv, NEW answer, Graph!Answers(answer),
         removed' \subseteq Vertex \X Vertex, stale => removed' = {},
         \A x, y \in Vertex : <<x, y>> \in removed' => HasArc(items, x, y),
         answer = "wild" => reused,
         answer = "segv" /\ ~stale => \E j \in 1 .. Len(items) : items[j].arcs = <<>>
  PROVE  GraphInv'
<1>1. /\ pc = "open" /\ pc' \in {"open", "segv", "wild", "hang"}
      /\ pc' = "wild" => answer = "wild"
      /\ pc' = "segv" => answer = "segv"
      /\ UNCHANGED <<nvert, data, first, vert, next, used, items, stale, reused>>
  BY DEF Graph!Answers, Graph!Ends, Graph!cells, Graph!arcs
<1>2. Graph!TypeOK'
  BY <1>1 DEF GraphInv, Graph!TypeOK, Graph!Cells
<1>3. VerticesDiffer'
  BY <1>1 DEF GraphInv, VerticesDiffer
<1>4. \A L : (OwnArcs(L, nvert, first, next, used) <=> OwnArcs(L, nvert, first, next, used)')
             /\ (AsAsked(L) <=> AsAsked(L)')
  BY <1>1 DEF OwnArcs, AsAsked
<1>5. ~reused' => \E L : OwnArcs(L, nvert, first, next, used)' /\ (~stale' => AsAsked(L)')
  BY <1>1, <1>4 DEF GraphInv
<1>6. (reused' => stale') /\ (stale' => items' = <<>> /\ removed' = {}) /\ RemovedAsked'
  BY <1>1 DEF GraphInv, RemovedAsked, HasArc
<1>7. pc' = "wild" => reused'
  BY <1>1
<1>8. pc' = "segv" /\ ~stale' => \E j \in 1 .. Len(items') : items'[j].arcs = <<>>
  BY <1>1
<1> QED
  BY <1>2, <1>3, <1>5, <1>6, <1>7, <1>8 DEF GraphInv

LEMMA GraphReturned ==
  ASSUME GraphInv, NEW answer, Graph!Returns(answer),
         answer = "wild" => reused,
         answer = "segv" /\ ~stale => \E j \in 1 .. Len(items) : items[j].arcs = <<>>
  PROVE  GraphInv'
<1>1. Graph!Answers(answer) /\ removed' = removed
  BY DEF Graph!Returns
<1>2. /\ removed \subseteq Vertex \X Vertex /\ (stale => removed = {})
      /\ \A x, y \in Vertex : <<x, y>> \in removed => HasArc(items, x, y)
  BY DEF GraphInv, Graph!TypeOK, RemovedAsked
<1> QED
  BY <1>1, <1>2, GraphAnswered

\* the lists in an open graph
LEMMA GraphOpen ==
  ASSUME GraphInv, pc = "open", ~reused
  PROVE  \E L : OwnArcs(L, nvert, first, next, used) /\ (~stale => AsAsked(L))
BY DEF GraphInv

\* a list without arcs is asked for as one
LEMMA EmptyLed ==
  ASSUME Graph!TypeOK, NEW L, AsAsked(L), NEW c \in 0 .. nvert - 1, L[c] = <<>>
  PROVE  \E j \in 1 .. Len(items) : items[j].arcs = <<>>
<1>1. Led(L[c], vert, data) = <<>>
  BY DEF Led
<1> QED
  BY <1>1, AskedShape

\* the lists asked for
LEMMA AskedLists ==
  ASSUME GraphInv, pc \in {"open", "hang"}, ~stale
  PROVE  /\ nvert \in Nat /\ Len(items) = nvert /\ items = [j \in 1 .. nvert |-> items[j]]
         /\ \A j \in 1 .. nvert :
              /\ items[j] = [vertex |-> items[j].vertex, arcs |-> items[j].arcs]
              /\ items[j].arcs \in Seq(Vertex)
<1>0. Graph!TypeOK /\ VerticesDiffer /\ ~reused /\ nvert \in Nat
  BY GraphShape DEF GraphInv
<1>1. PICK L : OwnArcs(L, nvert, first, next, used) /\ AsAsked(L)
  BY <1>0 DEF GraphInv
<1>2. /\ Len(items) = nvert /\ DOMAIN items = 1 .. nvert
      /\ items = [j \in 1 .. nvert |-> [vertex |-> data[j - 1], arcs |-> Led(L[j - 1], vert, data)]]
  BY <1>0, <1>1, AskedShape DEF AsAsked
<1>3. ASSUME NEW j \in 1 .. nvert
      PROVE  /\ items[j] = [vertex |-> items[j].vertex, arcs |-> items[j].arcs]
             /\ items[j].arcs \in Seq(Vertex)
  <2>1. PICK c \in 0 .. nvert - 1 : c = j - 1
    BY <1>0
  <2>2. PICK p : p = L[c]
    OBVIOUS
  <2>3. Len(p) \in Nat /\ \A k \in 1 .. Len(p) : data[vert[p[k]]] \in Vertex
    BY <1>0, <1>1, <2>2, GraphHas DEF AsAsked, VerticesDiffer
  <2>4. Led(p, vert, data) \in Seq(Vertex)
    BY <2>3 DEF Led
  <2>5. items[j] = [vertex |-> data[c], arcs |-> Led(p, vert, data)]
    BY <1>2, <2>1, <2>2
  <2> QED
    BY <2>4, <2>5
<1>4. items = [j \in 1 .. nvert |-> items[j]]
  BY <1>2
<1> QED
  BY <1>0, <1>2, <1>3, <1>4

LEMMA GraphAddToBroken ==
  ASSUME GraphInv, NEW x, NEW y, Graph!AddToBroken(x, y)
  PROVE  GraphInv'
<1>1. Graph!Returns("wild") /\ ~Graph!Missing(x) /\ Graph!Broken(next, used, first[Graph!IndexOf(x)])
  BY DEF Graph!AddToBroken
<1>2. Graph!TypeOK /\ pc = "open"
  BY <1>1 DEF GraphInv, Graph!Returns, Graph!Answers
<1>3. reused
  <2> SUFFICES ASSUME ~reused PROVE FALSE
    OBVIOUS
  <2>1. PICK L : OwnArcs(L, nvert, first, next, used)
    BY <1>2, GraphOpen
  <2>2. PICK c \in 0 .. nvert - 1 : c = Graph!IndexOf(x)
    BY <1>1, <1>2, GraphIndex
  <2> QED
    BY <1>1, <1>2, <2>1, <2>2, GraphHas
<1> QED
  BY <1>1, <1>3, GraphReturned

LEMMA GraphRemoveArc ==
  ASSUME GraphInv, NEW x \in Vertex, NEW y \in Vertex, Graph!RemoveArc(x, y)
  PROVE  GraphInv'
<1>0. Graph!TypeOK
  BY DEF GraphInv
<1>1. ~Graph!Missing(x)
  BY DEF Graph!RemoveArc
<1>2. PICK c \in 0 .. nvert - 1 : c = Graph!IndexOf(x)
  BY <1>0, <1>1, GraphIndex
<1>3. PICK answer : answer = IF first[c] = None THEN "segv"
                             ELSE IF Graph!Broken(next, used, first[c]) THEN "wild" ELSE "true"
  OBVIOUS
<1>4. Graph!Answers(answer) /\ pc = "open"
  BY <1>2, <1>3 DEF Graph!RemoveArc, Graph!RemoveArcAnswer, Graph!Answers
<1>5. answer = "wild" => reused
  <2> SUFFICES ASSUME ~reused PROVE answer # "wild"
    OBVIOUS
  <2>1. PICK L : OwnArcs(L, nvert, first, next, used)
    BY <1>4, GraphOpen
  <2> QED
    BY <1>0, <1>3, <2>1, GraphHas
<1>6. answer = "segv" /\ ~stale => \E j \in 1 .. Len(items) : items[j].arcs = <<>>
  <2> SUFFICES ASSUME answer = "segv", ~stale PROVE \E j \in 1 .. Len(items) : items[j].arcs = <<>>
    OBVIOUS
  <2>0. ~reused
    BY DEF GraphInv
  <2>1. PICK L : OwnArcs(L, nvert, first, next, used) /\ (~stale => AsAsked(L))
    BY <1>4, <2>0, GraphOpen
  <2>2. first[c] = None
    BY <1>3
  <2>3. L[c] = <<>>
    BY <1>0, <2>1, <2>2, GraphHas
  <2> QED
    BY <1>0, <2>1, <2>3, EmptyLed
<1>7. Graph!OneArc(x, y) => HasArc(items, x, y) /\ items # <<>>
  BY DEF Graph!OneArc, HasArc, Graph!Contains
<1>8. removed' = IF Graph!OneArc(x, y) THEN removed \cup {<<x, y>>} ELSE removed
  BY DEF Graph!RemoveArc
<1>9. removed' \subseteq Vertex \X Vertex /\ (stale => removed' = {})
  BY <1>0, <1>7, <1>8 DEF GraphInv, Graph!TypeOK
<1>10. \A w, z \in Vertex : <<w, z>> \in removed' => HasArc(items, w, z)
  BY <1>7, <1>8 DEF GraphInv, RemovedAsked
<1> QED
  BY <1>4, <1>5, <1>6, <1>9, <1>10, GraphAnswered

LEMMA GraphGetArc ==
  ASSUME GraphInv, NEW x, NEW y, Graph!GetArc(x, y)
  PROVE  GraphInv'
<1>0. Graph!TypeOK
  BY DEF GraphInv
<1>1. ~Graph!Missing(x)
  BY DEF Graph!GetArc
<1>2. PICK c \in 0 .. nvert - 1 : c = Graph!IndexOf(x)
  BY <1>0, <1>1, GraphIndex
<1>3. PICK answer : answer = Graph!GetArcAnswer(x, y)
  OBVIOUS
<1>4. Graph!Returns(answer) /\ pc = "open"
  BY <1>3 DEF Graph!GetArc, Graph!Returns, Graph!Answers
<1>5. /\ answer # "segv"
      /\ answer = "wild" => first[c] # None /\ first[c] \notin used
  <2>1. used \subseteq Arc
    BY <1>0, GraphShape
  <2>2. None # "segv" /\ None # "wild" /\ \A a \in used : a # "segv" /\ a # "wild"
    BY <2>1, NullIsApart
  <2> QED
    BY <1>2, <1>3, <2>2 DEF Graph!GetArcAnswer
<1>6. answer = "wild" => reused
  <2> SUFFICES ASSUME ~reused PROVE answer # "wild"
    OBVIOUS
  <2>1. PICK L : OwnArcs(L, nvert, first, next, used)
    BY <1>4, GraphOpen
  <2>2. first[c] # None => first[c] \in used
    BY <1>0, <2>1, GraphHas
  <2> QED
    BY <1>5, <2>2
<1> QED
  BY <1>4, <1>5, <1>6, GraphReturned

LEMMA GraphAdjacent ==
  ASSUME GraphInv, NEW x, NEW y, Graph!Adjacent(x, y)
  PROVE  GraphInv'
<1>0. Graph!TypeOK
  BY DEF GraphInv
<1>1. ~Graph!Missing(x)
  BY DEF Graph!Adjacent
<1>2. PICK c \in 0 .. nvert - 1 : c = Graph!IndexOf(x)
  BY <1>0, <1>1, GraphIndex
<1>3. PICK answer : answer = Graph!AdjacentAnswer(x, y)
  OBVIOUS
<1>4. Graph!Returns(answer) /\ pc = "open"
  BY <1>3 DEF Graph!Adjacent, Graph!Returns, Graph!Answers
<1>5. /\ answer # "segv"
      /\ answer = "wild" => Graph!Broken(next, used, first[c])
  BY <1>2, <1>3 DEF Graph!AdjacentAnswer
<1>6. answer = "wild" => reused
  <2> SUFFICES ASSUME ~reused PROVE answer # "wild"
    OBVIOUS
  <2>1. PICK L : OwnArcs(L, nvert, first, next, used)
    BY <1>4, GraphOpen
  <2> QED
    BY <1>0, <1>5, <2>1, GraphHas
<1> QED
  BY <1>4, <1>5, <1>6, GraphReturned

\* adjacent answers by the graph asked for
LEMMA AdjacentRight ==
  ASSUME GraphInv, pc \in {"open", "hang"}, ~stale, NEW j \in 1 .. Len(items), NEW y \in Vertex
  PROVE  Graph!AdjacentAnswer(items[j].vertex, y) =
           IF Graph!Contains(items[j].arcs, y) THEN "true" ELSE "false"
<1>0. Graph!TypeOK /\ VerticesDiffer /\ ~reused
  BY DEF GraphInv
<1>3. PICK L : OwnArcs(L, nvert, first, next, used) /\ AsAsked(L)
  BY <1>0 DEF GraphInv
<1>4. PICK c \in 0 .. nvert - 1 : j = c + 1
  <2>1. nvert \in Nat /\ Len(items) = nvert
    BY <1>0, <1>3, AskedShape, GraphShape
  <2>2. j - 1 \in 0 .. nvert - 1 /\ j = (j - 1) + 1
    BY <2>1
  <2> QED
    BY <2>2
<1>5. items[j].vertex = data[c] /\ items[j].arcs = Led(L[c], vert, data)
  BY <1>0, <1>3, <1>4, AskedShape
<1>6. PICK p : p = L[c]
  OBVIOUS
<1>7. /\ Graph!IndexOf(data[c]) = c
      /\ Graph!Chain(next, used, first[c]) = p
      /\ ~Graph!Broken(next, used, first[c])
      /\ Len(p) \in Nat
  BY <1>0, <1>3, <1>6, GraphHas, GraphIndexIs
<1>8. PICK list : list = Led(p, vert, data)
  OBVIOUS
<1>9. /\ Len(list) = Len(p) /\ DOMAIN list = 1 .. Len(p)
      /\ \A k \in 1 .. Len(p) : list[k] = data[vert[p[k]]]
  BY <1>7, <1>8 DEF Led
<1>10. Graph!AdjacentAnswer(data[c], y) = IF Graph!Contains(list, y) THEN "true" ELSE "false"
  <2>1. Graph!Contains(list, y) <=> \E k \in 1 .. Len(p) : data[vert[p[k]]] = y
    BY <1>9 DEF Graph!Contains
  <2> QED
    BY <1>7, <2>1 DEF Graph!AdjacentAnswer
<1> QED
  BY <1>5, <1>6, <1>8, <1>10

\* the graph that is there is the one asked for
LEMMA GraphFollows == GraphInv => Graph!FollowsItems
<1> SUFFICES ASSUME GraphInv, ~stale, pc \in {"open", "hang"}
             PROVE  /\ items = [j \in 1 .. nvert |-> [vertex |-> data[j - 1], arcs |-> Graph!Neighbours(j - 1)]]
                    /\ \A a \in removed : Graph!AdjacentAnswer(a[1], a[2]) = "true"
  BY DEF Graph!FollowsItems
<1>0. Graph!TypeOK
  BY DEF GraphInv
<1>1. PICK L : OwnArcs(L, nvert, first, next, used) /\ AsAsked(L)
  BY DEF GraphInv
<1>2. ASSUME NEW c \in 0 .. nvert - 1 PROVE Graph!Neighbours(c) = Led(L[c], vert, data)
  <2>1. Graph!Chain(next, used, first[c]) = L[c]
    BY <1>0, <1>1, GraphHas
  <2> QED
    BY <2>1 DEF Graph!Neighbours, Led
<1>3. ASSUME NEW j \in 1 .. nvert PROVE Graph!Neighbours(j - 1) = Led(L[j - 1], vert, data)
  <2>1. j - 1 \in 0 .. nvert - 1
    BY <1>0, GraphShape
  <2> QED
    BY <1>2, <2>1
<1>4. ASSUME NEW a \in removed PROVE Graph!AdjacentAnswer(a[1], a[2]) = "true"
  <2>1. PICK x \in Vertex, y \in Vertex : a = <<x, y>>
    BY <1>0 DEF Graph!TypeOK
  <2>2. PICK j \in 1 .. Len(items) : items[j].vertex = x /\ Graph!Contains(items[j].arcs, y)
    BY <2>1 DEF GraphInv, RemovedAsked, HasArc
  <2> QED
    BY <2>1, <2>2, AdjacentRight
<1> QED
  BY <1>1, <1>3, <1>4 DEF AsAsked

LEMMA GraphLooksUp == GraphInv => Graph!Lookups
<1> SUFFICES ASSUME GraphInv, pc = "open", NEW j \in 1 .. Len(items), NEW y \in Vertex
             PROVE  /\ Graph!AdjacentAnswer(items[j].vertex, y) =
                         IF Graph!Contains(items[j].arcs, y) THEN "true" ELSE "false"
                    /\ Graph!GetArcAnswer(items[j].vertex, y) \in
                         IF items[j].arcs = <<>> THEN {None}
                         ELSE IF Head(items[j].arcs) = y THEN Arc ELSE {"hang"}
  BY DEF Graph!Lookups
<1>0. Graph!TypeOK /\ VerticesDiffer
  BY DEF GraphInv
<1>1. ~stale
  <2>1. items # <<>>
    OBVIOUS
  <2> QED
    BY <2>1 DEF GraphInv
<1>2. ~reused
  BY <1>1 DEF GraphInv
<1>3. PICK L : OwnArcs(L, nvert, first, next, used) /\ AsAsked(L)
  BY <1>1, <1>2, GraphOpen
<1>4. PICK c \in 0 .. nvert - 1 : j = c + 1
  <2>1. nvert \in Nat /\ Len(items) = nvert
    BY <1>0, <1>3, AskedShape, GraphShape
  <2>2. j - 1 \in 0 .. nvert - 1 /\ j = (j - 1) + 1
    BY <2>1
  <2> QED
    BY <2>2
<1>5. items[j].vertex = data[c] /\ items[j].arcs = Led(L[c], vert, data)
  BY <1>0, <1>3, <1>4, AskedShape
<1>6. PICK p : p = L[c]
  OBVIOUS
<1>7. /\ Graph!IndexOf(data[c]) = c
      /\ Graph!Chain(next, used, first[c]) = p
      /\ ~Graph!Broken(next, used, first[c])
      /\ Len(p) \in Nat
      /\ \A k \in 1 .. Len(p) : p[k] \in used /\ p[k] \in Arc
      /\ p = <<>> <=> first[c] = None
      /\ p # <<>> => first[c] = p[1] /\ 1 \in 1 .. Len(p)
  BY <1>0, <1>3, <1>6, GraphHas, GraphIndexIs
<1>8. PICK list : list = Led(p, vert, data)
  OBVIOUS
<1>9. /\ Len(list) = Len(p) /\ DOMAIN list = 1 .. Len(p)
      /\ \A k \in 1 .. Len(p) : list[k] = data[vert[p[k]]]
  BY <1>7, <1>8 DEF Led
<1>10. Graph!AdjacentAnswer(items[j].vertex, y) = IF Graph!Contains(items[j].arcs, y) THEN "true" ELSE "false"
  BY <1>1, AdjacentRight
<1>11. Graph!GetArcAnswer(data[c], y) \in IF list = <<>> THEN {None}
                                          ELSE IF Head(list) = y THEN Arc ELSE {"hang"}
  <2>1. CASE p = <<>>
    <3>1. list = <<>>
      BY <1>8, <2>1 DEF Led
    <3> QED
      BY <1>7, <2>1, <3>1 DEF Graph!GetArcAnswer
  <2>2. CASE p # <<>>
    <3>1. Len(list) # 0 /\ list # <<>> /\ list[1] = data[vert[p[1]]]
      BY <1>7, <1>9, <2>2
    <3>2. Head(list) = list[1]
      <4>1. PICK U : U = {data[vert[p[k]]] : k \in 1 .. Len(p)}
        OBVIOUS
      <4>2. list \in [1 .. Len(p) -> U]
        BY <1>8, <4>1 DEF Led
      <4>3. list \in Seq(U)
        BY <1>7, <4>2
      <4> QED
        BY <3>1, <4>3
    <3>3. first[c] # None /\ first[c] \in used /\ first[c] \in Arc /\ first[c] = p[1]
      BY <1>7, <2>2
    <3> QED
      BY <1>7, <3>1, <3>2, <3>3 DEF Graph!GetArcAnswer
  <2> QED
    BY <2>1, <2>2
<1> QED
  BY <1>5, <1>6, <1>8, <1>10, <1>11

LEMMA GraphInsertVertex ==
  ASSUME GraphInv, NEW x \in Vertex, Graph!InsertVertex(x)
  PROVE  GraphInv'
<1>0. Graph!TypeOK /\ VerticesDiffer
  BY DEF GraphInv
<1>1. /\ pc = "open" /\ nvert < MaxVertices /\ Graph!Missing(x)
      /\ data' = [data EXCEPT ![nvert] = x]
      /\ nvert' = nvert + 1
      /\ UNCHANGED <<first, vert, next, used, pc>>
  BY DEF Graph!InsertVertex, Graph!arcs
<1>2. /\ reused' <=> (reused \/ first[nvert] # None)
      /\ stale' <=> (stale \/ first[nvert] # None)
      /\ reused' \in BOOLEAN /\ stale' \in BOOLEAN
  BY <1>0 DEF Graph!InsertVertex, Graph!TypeOK
<1>3. PICK e : e = [vertex |-> x, arcs |-> <<>>]
  OBVIOUS
<1>4. items' = IF stale' THEN <<>> ELSE Append(items, e)
  BY <1>3 DEF Graph!InsertVertex, Graph!Follow
<1>r. removed' = IF stale' THEN {} ELSE removed
  BY DEF Graph!InsertVertex, Graph!Follow
<1>5. /\ nvert \in Nat /\ nvert \in Graph!Cells
      /\ data' \in [Graph!Cells -> Vertex \cup {None}] /\ data'[nvert] = x
      /\ \A c \in 0 .. nvert - 1 : data'[c] = data[c] /\ data[c] # x
      /\ \A c \in 0 .. nvert' - 1 : c = nvert \/ c \in 0 .. nvert - 1
      /\ nvert' \in 0 .. MaxVertices
  <2>1. nvert \in Nat /\ nvert \in Graph!Cells /\ MaxVertices \in Nat
    BY <1>0, <1>1, GraphShape DEF Graph!Cells
  <2>2. \A c \in 0 .. nvert - 1 : c \in Graph!Cells /\ c # nvert
    BY <1>0, <2>1, GraphShape
  <2>3. data \in [Graph!Cells -> Vertex \cup {None}]
    BY <1>0, GraphShape
  <2>4. \A c \in 0 .. nvert - 1 : data[c] # x
    BY <1>1 DEF Graph!Missing, Graph!Found
  <2>5. nvert' \in 0 .. MaxVertices
    BY <1>1, <2>1
  <2>6. \A c \in 0 .. nvert' - 1 : c = nvert \/ c \in 0 .. nvert - 1
    BY <1>1, <2>1
  <2>7. data' \in [Graph!Cells -> Vertex \cup {None}] /\ data'[nvert] = x
    BY <1>1, <2>1, <2>3
  <2>8. \A c \in 0 .. nvert - 1 : data'[c] = data[c]
    BY <1>1, <2>2, <2>3
  <2> QED
    BY <2>1, <2>4, <2>5, <2>6, <2>7, <2>8
<1>6. Graph!TypeOK'
  BY <1>1, <1>2, <1>r, <1>5 DEF GraphInv, Graph!TypeOK, Graph!Cells
<1>7. VerticesDiffer'
  <2> SUFFICES ASSUME NEW c \in 0 .. nvert' - 1
               PROVE  data'[c] \in Vertex /\ \A d \in 0 .. nvert' - 1 : c # d => data'[c] # data'[d]
    BY DEF VerticesDiffer
  <2> QED
    BY <1>0, <1>5 DEF VerticesDiffer
<1>8. ASSUME ~reused' PROVE \E L : OwnArcs(L, nvert, first, next, used)' /\ (~stale' => AsAsked(L)')
  <2>0. ~reused /\ first[nvert] = None
    BY <1>2, <1>8
  <2>1. PICK L : OwnArcs(L, nvert, first, next, used) /\ (~stale => AsAsked(L))
    BY <1>1, <2>0, GraphOpen
  <2>2. PICK M : M = [c \in 0 .. nvert |-> IF c = nvert THEN <<>> ELSE L[c]]
    OBVIOUS
  <2>3. M[nvert] = <<>> /\ \A c \in 0 .. nvert - 1 : M[c] = L[c]
    BY <1>5, <2>2
  <2>4. IsList(Arc, M[nvert], first[nvert], next) /\ NodesOf(M[nvert]) = {}
    BY <2>0, <2>3, EmptyList
  <2>5. OwnArcs(M, nvert', first, next, used)
    BY <1>5, <2>1, <2>3, <2>4 DEF OwnArcs
  <2>6. OwnArcs(M, nvert, first, next, used)'
    BY <1>1, <2>5
  <2>7. ASSUME ~stale' PROVE AsAsked(M)'
    <3>0. ~stale
      BY <1>2, <2>7
    <3>1. AsAsked(L)
      BY <2>1, <3>0
    <3>2. \A c \in 0 .. nvert - 1 : Len(L[c]) \in Nat /\ \A k \in 1 .. Len(L[c]) : vert[L[c][k]] \in 0 .. nvert - 1
      BY <1>0, <2>1, <3>1, GraphHas DEF AsAsked
    <3>3. ASSUME NEW c \in 0 .. nvert' - 1, NEW k \in 1 .. Len(M[c])
          PROVE  vert'[M[c][k]] \in 0 .. nvert' - 1
      <4>1. c # nvert
        BY <2>3
      <4>2. c \in 0 .. nvert - 1 /\ M[c] = L[c]
        BY <1>5, <2>3, <4>1
      <4> QED
        BY <1>1, <1>5, <3>2, <4>2
    <3>4. ASSUME NEW c \in 0 .. nvert - 1 PROVE Led(M[c], vert', data') = Led(L[c], vert, data)
      BY <1>1, <1>5, <2>3, <3>2 DEF Led
    <3>5. Led(M[nvert], vert', data') = <<>>
      BY <2>3 DEF Led
    <3> DEFINE t == [j \in 1 .. nvert' |-> [vertex |-> data'[j - 1], arcs |-> Led(M[j - 1], vert', data')]]
    <3>6. /\ Len(items) = nvert /\ DOMAIN items = 1 .. nvert
          /\ items = [j \in 1 .. nvert |-> [vertex |-> data[j - 1], arcs |-> Led(L[j - 1], vert, data)]]
      BY <1>0, <3>1, AskedShape DEF AsAsked
    <3>7. PICK T : T = {items[j] : j \in 1 .. nvert} \cup {e}
      OBVIOUS
    <3>8. items \in Seq(T)
      <4>1. items \in [1 .. nvert -> T]
        BY <3>6, <3>7
      <4> QED
        BY <1>5, <4>1
    <3>9. /\ Append(items, e) \in Seq(T) /\ Len(Append(items, e)) = nvert + 1
          /\ Append(items, e)[nvert + 1] = e
          /\ \A j \in 1 .. nvert : Append(items, e)[j] = items[j]
      <4>1. e \in T
        BY <3>7
      <4>2. /\ Append(items, e) \in Seq(T) /\ Len(Append(items, e)) = Len(items) + 1
            /\ Append(items, e)[Len(items) + 1] = e
            /\ \A j \in 1 .. Len(items) : Append(items, e)[j] = items[j]
        BY <3>8, <4>1, AppendProperties
      <4> QED
        BY <3>6, <4>2
    <3>10. ASSUME NEW j \in 1 .. nvert + 1 PROVE Append(items, e)[j] = t[j]
      <4>0. j \in 1 .. nvert'
        BY <1>1
      <4>1. CASE j = nvert + 1
        <5>1. j - 1 = nvert
          BY <1>5, <4>1
        <5>2. t[j] = [vertex |-> data'[nvert], arcs |-> Led(M[nvert], vert', data')]
          BY <4>0, <5>1
        <5> QED
          BY <1>3, <1>5, <3>5, <3>9, <4>1, <5>2
      <4>2. CASE j # nvert + 1
        <5>1. j \in 1 .. nvert /\ j - 1 \in 0 .. nvert - 1
          BY <1>5, <4>2
        <5>2. items[j] = [vertex |-> data[j - 1], arcs |-> Led(L[j - 1], vert, data)]
          BY <3>6, <5>1
        <5>3. t[j] = [vertex |-> data[j - 1], arcs |-> Led(L[j - 1], vert, data)]
          BY <1>5, <3>4, <4>0, <5>1
        <5> QED
          BY <3>9, <5>1, <5>2, <5>3
      <4> QED
        BY <4>1, <4>2
    <3>11. DOMAIN t = 1 .. nvert + 1 /\ DOMAIN Append(items, e) = 1 .. nvert + 1
      BY <1>1, <1>5, <3>9
    <3>12. Append(items, e) = t
      <4>0. PICK s : s = Append(items, e)
        OBVIOUS
      <4>a. s \in Seq(T) /\ Len(s) = nvert + 1
        BY <3>9, <4>0
      <4>b. s \in [1 .. Len(s) -> T]
        BY <4>a
      <4>c. s \in [1 .. nvert + 1 -> T]
        BY <4>a, <4>b
      <4>1. s = Append(items, e) /\ s \in [1 .. nvert + 1 -> T]
        BY <4>0, <4>c
      <4>2. t = [j \in 1 .. nvert + 1 |-> t[j]]
        BY <1>1
      <4> HIDE DEF t
      <4> QED
        BY <3>10, <4>1, <4>2
    <3>13. items' = t
      BY <1>4, <2>7, <3>12
    <3> QED
      BY <3>3, <3>13 DEF AsAsked
  <2> QED
    BY <2>6, <2>7
<1>9. (reused' => stale') /\ (stale' => items' = <<>> /\ removed' = {})
  BY <1>2, <1>4, <1>r DEF GraphInv
<1>10. RemovedAsked'
  <2> SUFFICES ASSUME NEW w \in Vertex, NEW z \in Vertex, <<w, z>> \in removed', ~stale'
               PROVE  HasArc(items', w, z)
    BY <1>r DEF RemovedAsked
  <2>1. ~stale /\ <<w, z>> \in removed /\ items' = Append(items, e)
    BY <1>2, <1>4, <1>r
  <2>2. PICK j \in 1 .. Len(items) : items[j].vertex = w /\ Graph!Contains(items[j].arcs, z)
    BY <2>1 DEF GraphInv, RemovedAsked, HasArc
  <2>3. Len(items) = nvert /\ nvert \in Nat /\ items = [k \in 1 .. nvert |-> items[k]]
    BY <1>1, <2>1, AskedLists
  <2>4. PICK T : T = {items[k] : k \in 1 .. nvert} \cup {e}
    OBVIOUS
  <2>5. items \in Seq(T) /\ e \in T
    <3>1. items \in [1 .. nvert -> T]
      BY <2>3, <2>4
    <3> QED
      BY <2>3, <2>4, <3>1
  <2>6. Len(Append(items, e)) = nvert + 1 /\ Append(items, e)[j] = items[j]
    BY <2>3, <2>5, AppendProperties
  <2>7. j \in 1 .. Len(items')
    BY <2>1, <2>3, <2>6
  <2> QED
    BY <2>1, <2>2, <2>6, <2>7 DEF HasArc
<1> QED
  BY <1>1, <1>6, <1>7, <1>8, <1>9, <1>10 DEF GraphInv

\* a list whose nodes keep their links
LEMMA ListStays ==
  ASSUME NEW nodes, NEW p, NEW h, NEW nx, IsList(nodes, p, h, nx),
         NEW nx2, \A a \in NodesOf(p) : nx2[a] = nx[a]
  PROVE  IsList(nodes, p, h, nx2)
<1>1. Len(p) \in Nat /\ (p = <<>> <=> Len(p) = 0)
  BY ListShape
<1>2. \A j \in 1 .. Len(p) : nx2[p[j]] = nx[p[j]]
  BY DEF NodesOf
<1>3. p # <<>> => nx2[p[Len(p)]] = nx[p[Len(p)]]
  BY <1>1, <1>2
<1>4. \A j \in 1 .. Len(p) - 1 : nx2[p[j]] = nx[p[j]]
  BY <1>1, <1>2
<1> QED
  BY <1>3, <1>4 DEF IsList

LEMMA GraphAddArc ==
  ASSUME GraphInv, NEW x, NEW y, Graph!AddArc(x, y)
  PROVE  GraphInv'
<1>0. /\ Graph!TypeOK /\ VerticesDiffer
      /\ pc = "open" /\ ~Graph!Missing(x) /\ ~Graph!Missing(y)
      /\ UNCHANGED <<nvert, data, pc, stale, reused>>
  BY DEF GraphInv, Graph!AddArc
<1>1. PICK c \in 0 .. nvert - 1 : c = Graph!IndexOf(x) /\ data[c] = x
  BY <1>0, GraphIndex
<1>2. PICK to \in 0 .. nvert - 1 : to = Graph!IndexOf(y) /\ data[to] = y
  BY <1>0, GraphIndex
<1>3. PICK p : p = Graph!Chain(next, used, first[c])
  OBVIOUS
<1>4. PICK a \in Arc \ used :
        /\ used' = used \cup {a}
        /\ vert' = [vert EXCEPT ![a] = to]
        /\ first' = IF p = <<>> THEN [first EXCEPT ![c] = a] ELSE first
        /\ next' = IF p = <<>> THEN [next EXCEPT ![a] = None]
                   ELSE [next EXCEPT ![a] = None, ![Graph!Last(p)] = a]
  BY <1>1, <1>2, <1>3 DEF Graph!AddArc
<1>5. items' = IF stale' THEN <<>>
               ELSE [j \in 1 .. Len(items) |->
                       IF items[j].vertex = x THEN [items[j] EXCEPT !.arcs = Append(@, y)] ELSE items[j]]
  BY DEF Graph!AddArc, Graph!Follow
<1>r. removed' = IF stale' THEN {} ELSE removed \ {<<x, y>>}
  BY DEF Graph!AddArc, Graph!Follow
<1>6. /\ nvert \in Nat /\ c \in Graph!Cells /\ to \in Graph!Cells
      /\ first \in [Graph!Cells -> Arc \cup {None}]
      /\ vert \in [Arc -> Graph!Cells \cup {None}]
      /\ next \in [Arc -> Arc \cup {None}]
      /\ used \subseteq Arc /\ None \notin Arc
  BY <1>0, GraphShape, NullIsApart
<1>7. Graph!TypeOK'
  <2>1. vert' \in [Arc -> Graph!Cells \cup {None}] /\ used' \subseteq Arc
    BY <1>4, <1>6
  <2>2. first' \in [Graph!Cells -> Arc \cup {None}]
    BY <1>4, <1>6
  <2>3. next' \in [Arc -> Arc \cup {None}]
    BY <1>4, <1>6
  <2>4. removed' \subseteq Vertex \X Vertex
    BY <1>0, <1>r DEF Graph!TypeOK
  <2> QED
    BY <1>0, <2>1, <2>2, <2>3, <2>4 DEF Graph!TypeOK, Graph!Cells
<1>8. VerticesDiffer'
  BY <1>0 DEF VerticesDiffer
<1>9. ASSUME ~reused PROVE \E L : OwnArcs(L, nvert, first, next, used)' /\ (~stale' => AsAsked(L)')
  <2>1. PICK L : OwnArcs(L, nvert, first, next, used) /\ (~stale => AsAsked(L))
    BY <1>0, <1>9, GraphOpen
  <2>2. /\ p = L[c] /\ IsList(Arc, p, first[c], next) /\ NodesOf(p) \subseteq used
        /\ p \in Seq(Arc) /\ Len(p) \in Nat
        /\ \A k \in 1 .. Len(p) : p[k] \in used /\ p[k] \in Arc
        /\ p = <<>> <=> first[c] = None
        /\ p # <<>> => first[c] = p[1] /\ 1 \in 1 .. Len(p)
    BY <1>0, <1>3, <2>1, GraphHas
  <2>3. PICK q : q = Append(p, a)
    OBVIOUS
  <2>4. /\ q \in Seq(Arc) /\ Len(q) = Len(p) + 1 /\ q[Len(p) + 1] = a
        /\ \A k \in 1 .. Len(p) : q[k] = p[k]
    BY <2>2, <2>3, AppendProperties
  <2>5. NodesOf(q) \subseteq NodesOf(p) \cup {a}
    <3>1. \A k \in 1 .. Len(q) : k = Len(p) + 1 \/ k \in 1 .. Len(p)
      BY <2>2, <2>4
    <3> QED
      BY <2>4, <3>1 DEF NodesOf
  <2>6. IsList(Arc, q, first'[c], next')
    <3>1. CASE p = <<>>
      <4>1. next' = [next EXCEPT ![a] = first[c]] /\ first'[c] = a
        BY <1>4, <1>6, <2>2, <3>1
      <4>2. Inserted(p, q, 0, a)
        BY <2>4, <3>1 DEF Inserted
      <4>3. a \notin NodesOf(p)
        BY <2>2
      <4>4. PICK h : h = first[c]
        OBVIOUS
      <4>5. PICK nx : nx = [next EXCEPT ![a] = h]
        OBVIOUS
      <4>6. IsList(Arc, p, h, next)
        BY <2>2, <4>4
      <4>7. IsList(Arc, q, a, nx)
        BY <1>6, <2>4, <4>2, <4>3, <4>5, <4>6, ListPrepend
      <4> QED
        BY <4>1, <4>4, <4>5, <4>7
    <3>2. CASE p # <<>>
      <4>1. Graph!Last(p) = p[Len(p)] /\ Len(p) \in 1 .. Len(p)
        BY <2>2, <3>2 DEF Graph!Last
      <4>2. PICK nx : nx = [next EXCEPT ![a] = None, ![p[Len(p)]] = a]
        OBVIOUS
      <4>3. next' = nx /\ first'[c] = first[c]
        BY <1>4, <3>2, <4>1, <4>2
      <4>4. SubSeq(p, 1, Len(p)) = p
        <5>1. /\ SubSeq(p, 1, Len(p)) \in Seq(Arc) /\ Len(SubSeq(p, 1, Len(p))) = Len(p)
              /\ \A j \in 1 .. Len(p) : SubSeq(p, 1, Len(p))[j] = p[j]
          <6>1. Len(p) \in 0 .. Len(p)
            BY <2>2
          <6> QED
            BY <2>2, <6>1, PrefixIs
        <5> QED
          BY <2>2, <5>1, SameSeq
      <4>5. q = Append(SubSeq(p, 1, Len(p)), a)
        BY <2>3, <4>4
      <4>6. a \notin NodesOf(p)
        BY <2>2
      <4>7. IsList(Arc, q, first[c], nx)
        BY <1>6, <2>2, <4>1, <4>2, <4>5, <4>6, ListAppend
      <4> QED
        BY <4>3, <4>7
    <3> QED
      BY <3>1, <3>2
  <2>7. PICK M : M = [d \in 0 .. nvert - 1 |-> IF d = c THEN q ELSE L[d]]
    OBVIOUS
  <2>8. M[c] = q /\ \A d \in 0 .. nvert - 1 : d # c => M[d] = L[d]
    BY <2>7
  <2>9. \A d \in 0 .. nvert - 1 : d # c => NodesOf(L[d]) \subseteq used /\ NodesOf(L[d]) \cap NodesOf(p) = {}
    BY <2>1, <2>2 DEF OwnArcs
  <2>10. ASSUME NEW d \in 0 .. nvert - 1, d # c
         PROVE  IsList(Arc, L[d], first'[d], next')
    <3>1. IsList(Arc, L[d], first[d], next) /\ NodesOf(L[d]) \subseteq used /\ NodesOf(L[d]) \cap NodesOf(p) = {}
      BY <2>1, <2>9, <2>10 DEF OwnArcs
    <3>2. first'[d] = first[d]
      <4>1. d \in Graph!Cells
        BY <1>0, GraphShape
      <4> QED
        BY <1>4, <1>6, <2>10, <4>1
    <3>3. p # <<>> => Graph!Last(p) \in NodesOf(p)
      <4>1. p # <<>> => Graph!Last(p) = p[Len(p)] /\ Len(p) \in 1 .. Len(p)
        BY <2>2 DEF Graph!Last
      <4> QED
        BY <4>1 DEF NodesOf
    <3>4. ASSUME NEW b \in NodesOf(L[d]) PROVE next'[b] = next[b]
      <4>1. b \in Arc /\ b # a /\ (p # <<>> => b # Graph!Last(p))
        BY <1>6, <3>1, <3>3
      <4> QED
        BY <1>4, <1>6, <4>1
    <3>5. PICK nx : nx = next' /\ \A b \in NodesOf(L[d]) : nx[b] = next[b]
      BY <3>4
    <3>6. IsList(Arc, L[d], first[d], nx)
      BY <3>1, <3>5, ListStays
    <3> QED
      BY <3>2, <3>5, <3>6
  <2>11. OwnArcs(M, nvert, first', next', used')
    <3>1. ASSUME NEW d \in 0 .. nvert - 1
          PROVE  IsList(Arc, M[d], first'[d], next') /\ NodesOf(M[d]) \subseteq used'
      <4>1. CASE d = c
        BY <1>4, <2>2, <2>5, <2>6, <2>8, <4>1
      <4>2. CASE d # c
        BY <1>4, <2>8, <2>9, <2>10, <4>2
      <4> QED
        BY <4>1, <4>2
    <3>2. ASSUME NEW d \in 0 .. nvert - 1, NEW e \in 0 .. nvert - 1, d # e
          PROVE  NodesOf(M[d]) \cap NodesOf(M[e]) = {}
      <4>1. \A b \in 0 .. nvert - 1 : b # c => NodesOf(M[b]) \subseteq used /\ NodesOf(M[b]) \cap NodesOf(q) = {}
        BY <2>5, <2>8, <2>9
      <4>2. CASE d = c
        BY <2>8, <3>2, <4>1, <4>2
      <4>3. CASE e = c
        BY <2>8, <3>2, <4>1, <4>3
      <4>4. CASE d # c /\ e # c
        BY <2>1, <2>8, <3>2, <4>4 DEF OwnArcs
      <4> QED
        BY <4>2, <4>3, <4>4
    <3> QED
      BY <3>1, <3>2 DEF OwnArcs
  <2>12. OwnArcs(M, nvert, first, next, used)'
    BY <1>0, <2>11
  <2>13. ASSUME ~stale' PROVE AsAsked(M)'
    <3>1. AsAsked(L) /\ ~stale
      BY <1>0, <2>1, <2>13
    <3>2. /\ Len(items) = nvert
          /\ items = [j \in 1 .. nvert |-> [vertex |-> data[j - 1], arcs |-> Led(L[j - 1], vert, data)]]
      BY <1>0, <3>1, AskedShape DEF AsAsked
    <3>3. vert'[a] = to /\ \A b \in Arc : b # a => vert'[b] = vert[b]
      BY <1>4, <1>6
    <3>4. \A d \in 0 .. nvert - 1 : /\ Len(L[d]) \in Nat
                                    /\ \A k \in 1 .. Len(L[d]) : /\ L[d][k] \in Arc /\ L[d][k] # a
                                                                 /\ vert[L[d][k]] \in 0 .. nvert - 1
      BY <1>0, <2>1, <3>1, GraphHas DEF AsAsked
    <3>5. ASSUME NEW d \in 0 .. nvert - 1, NEW k \in 1 .. Len(M[d])
          PROVE  vert'[M[d][k]] \in 0 .. nvert - 1
      <4>1. CASE d # c
        BY <2>8, <3>3, <3>4, <4>1
      <4>2. CASE d = c
        <5>1. M[d] = q /\ (k = Len(p) + 1 \/ k \in 1 .. Len(p))
          BY <2>2, <2>4, <2>8, <4>2
        <5>2. CASE k = Len(p) + 1
          BY <2>4, <3>3, <5>1, <5>2
        <5>3. CASE k \in 1 .. Len(p)
          <6>1. p[k] \in Arc /\ p[k] # a /\ vert[p[k]] \in 0 .. nvert - 1
            BY <2>2, <3>4, <5>3
          <6> QED
            BY <2>4, <3>3, <5>1, <5>3, <6>1
        <5> QED
          BY <5>1, <5>2, <5>3
      <4> QED
        BY <4>1, <4>2
    <3>6. ASSUME NEW d \in 0 .. nvert - 1, d # c PROVE Led(M[d], vert', data) = Led(L[d], vert, data)
      BY <2>8, <3>3, <3>4, <3>6 DEF Led
    <3>7. Led(M[c], vert', data) = Append(Led(p, vert, data), y)
      <4> DEFINE s == Led(p, vert, data)
                 t == Led(q, vert', data)
                 T == Vertex
      <4>1. y \in T
        BY <1>0, <1>2 DEF VerticesDiffer
      <4>2. s \in Seq(T) /\ Len(s) = Len(p) /\ \A k \in 1 .. Len(p) : s[k] = data[vert[p[k]]]
        <5>1. \A k \in 1 .. Len(p) : data[vert[p[k]]] \in T
          BY <1>0, <2>2, <3>4 DEF VerticesDiffer
        <5> QED
          BY <2>2, <5>1 DEF Led
      <4>3. /\ Append(s, y) \in Seq(T) /\ Len(Append(s, y)) = Len(s) + 1
            /\ Append(s, y)[Len(s) + 1] = y /\ \A k \in 1 .. Len(s) : Append(s, y)[k] = s[k]
        <5> HIDE DEF s, T
        <5> QED
          BY <4>1, <4>2, AppendProperties
      <4>4. \A k \in 1 .. Len(p) + 1 : data[vert'[q[k]]] = Append(s, y)[k]
        <5> SUFFICES ASSUME NEW k \in 1 .. Len(p) + 1 PROVE data[vert'[q[k]]] = Append(s, y)[k]
          OBVIOUS
        <5>1. CASE k = Len(p) + 1
          BY <1>2, <2>4, <3>3, <4>2, <4>3, <5>1
        <5>2. CASE k # Len(p) + 1
          <6>1. k \in 1 .. Len(p)
            BY <2>2, <5>2
          <6>2. q[k] = p[k] /\ vert'[p[k]] = vert[p[k]] /\ s[k] = data[vert[p[k]]] /\ Append(s, y)[k] = s[k]
            <7> HIDE DEF s
            <7> QED
              BY <2>2, <2>4, <3>3, <3>4, <4>2, <4>3, <6>1
          <6> QED
            BY <6>2
        <5> QED
          BY <5>1, <5>2
      <4>5. t = [k \in 1 .. Len(p) + 1 |-> Append(s, y)[k]]
        BY <2>4, <4>4 DEF Led
      <4>6. Append(s, y) = [k \in 1 .. Len(p) + 1 |-> Append(s, y)[k]]
        <5>1. PICK z : z = Append(s, y)
          OBVIOUS
        <5>2. z \in Seq(T) /\ Len(z) = Len(p) + 1
          <6> HIDE DEF s, T
          <6> QED
            BY <4>2, <4>3, <5>1
        <5>3. z \in [1 .. Len(z) -> T]
          BY <5>2
        <5>4. z = [k \in 1 .. Len(p) + 1 |-> z[k]]
          BY <5>2, <5>3
        <5> QED
          BY <5>1, <5>4
      <4> QED
        BY <2>8, <4>5, <4>6
    <3> DEFINE want == [j \in 1 .. nvert |-> [vertex |-> data[j - 1], arcs |-> Led(M[j - 1], vert', data)]]
    <3>8. ASSUME NEW j \in 1 .. nvert
          PROVE  (IF items[j].vertex = x THEN [items[j] EXCEPT !.arcs = Append(@, y)] ELSE items[j])
                 = [vertex |-> data[j - 1], arcs |-> Led(M[j - 1], vert', data)]
      <4>1. PICK d \in 0 .. nvert - 1 : d = j - 1
        BY <1>6
      <4>2. items[j] = [vertex |-> data[d], arcs |-> Led(L[d], vert, data)]
        BY <3>2, <4>1
      <4>3. CASE d = c
        <5>1. PICK s : s = Led(p, vert, data)
          OBVIOUS
        <5>2. items[j] = [vertex |-> x, arcs |-> s]
          BY <1>1, <2>2, <4>2, <4>3, <5>1
        <5>3. [items[j] EXCEPT !.arcs = Append(@, y)] = [vertex |-> x, arcs |-> Append(s, y)]
          BY <5>2
        <5>4. Led(M[j - 1], vert', data) = Append(s, y) /\ data[j - 1] = x
          BY <1>1, <3>7, <4>1, <4>3, <5>1
        <5> QED
          BY <5>2, <5>3, <5>4
      <4>4. CASE d # c
        <5>1. data[d] # x
          BY <1>0, <1>1, <4>4 DEF VerticesDiffer
        <5> QED
          BY <3>6, <4>1, <4>2, <4>4, <5>1
      <4> QED
        BY <4>3, <4>4
    <3>9. items' = want
      BY <1>0, <1>5, <3>1, <3>2, <3>8
    <3> QED
      BY <1>0, <3>5, <3>9 DEF AsAsked
  <2> QED
    BY <2>12, <2>13
<1>10. (reused' => stale') /\ (stale' => items' = <<>> /\ removed' = {})
  BY <1>0, <1>5, <1>r DEF GraphInv
<1>11. RemovedAsked'
  <2> SUFFICES ASSUME NEW w \in Vertex, NEW z \in Vertex, <<w, z>> \in removed', ~stale'
               PROVE  HasArc(items', w, z)
    BY <1>r DEF RemovedAsked
  <2>1. ~stale /\ <<w, z>> \in removed
    BY <1>0, <1>r
  <2>2. PICK j \in 1 .. Len(items) : items[j].vertex = w /\ Graph!Contains(items[j].arcs, z)
    BY <2>1 DEF GraphInv, RemovedAsked, HasArc
  <2>3. /\ Len(items) = nvert /\ nvert \in Nat /\ j \in 1 .. nvert
        /\ items[j] = [vertex |-> w, arcs |-> items[j].arcs]
        /\ items[j].arcs \in Seq(Vertex)
    BY <1>0, <2>1, <2>2, AskedLists
  <2>4. PICK list : list = items[j].arcs
    OBVIOUS
  <2>5. Graph!Contains(Append(list, y), z)
    <3>1. list \in Seq(Vertex) /\ y \in Vertex
      BY <1>0, <1>2, <2>3, <2>4 DEF VerticesDiffer
    <3>2. PICK k \in 1 .. Len(list) : list[k] = z
      BY <2>2, <2>4 DEF Graph!Contains
    <3>3. Len(Append(list, y)) = Len(list) + 1 /\ Append(list, y)[k] = z
      BY <3>1, <3>2, AppendProperties
    <3>4. k \in 1 .. Len(list) + 1
      BY <3>1, <3>2
    <3> QED
      BY <3>3, <3>4 DEF Graph!Contains
  <2>6. items' = [k \in 1 .. nvert |->
                    IF items[k].vertex = x THEN [items[k] EXCEPT !.arcs = Append(@, y)] ELSE items[k]]
    BY <1>5, <2>3
  <2>7. j \in 1 .. Len(items')
    BY <2>3, <2>6
  <2>8. items'[j] = IF w = x THEN [vertex |-> w, arcs |-> Append(list, y)] ELSE items[j]
    <3>1. items[j] = [vertex |-> w, arcs |-> list]
      BY <2>3, <2>4
    <3>2. [items[j] EXCEPT !.arcs = Append(@, y)] = [vertex |-> w, arcs |-> Append(list, y)]
      BY <3>1
    <3> QED
      BY <2>2, <2>3, <2>6, <3>2
  <2>9. items'[j].vertex = w /\ Graph!Contains(items'[j].arcs, z)
    BY <2>2, <2>5, <2>8
  <2> QED
    BY <2>7, <2>9 DEF HasArc
<1> QED
  BY <1>0, <1>7, <1>8, <1>9, <1>10, <1>11 DEF GraphInv

(***************************************************************************)
(* The second loop of delete_vertex.                                       *)
(***************************************************************************)
Sweeping == [first : [Graph!Cells -> Arc \cup {None}], next : [Arc -> Arc \cup {None}],
             used : SUBSET Arc, pc : {"open", "segv", "wild"}]

\* what a turn at cell i makes of g, case by case: a is the first arc there, q
\* the arcs that are met from it, and those at the places hits lead to v
Turn(h, g, i, v, a, q, hits) ==
  /\ a = g.first[i]
  /\ q = Graph!Chain(g.next, g.used, a)
  /\ hits = {k \in 2 .. Len(q) : vert[q[k]] = v}
  /\ q \in Seq(g.used)
  /\ g.pc # "open" => h = g
  /\ g.pc = "open" /\ a = None => h = [g EXCEPT !.pc = "segv"]
  /\ g.pc = "open" /\ a # None /\ a \notin g.used => h = [g EXCEPT !.pc = "wild"]
  /\ g.pc = "open" /\ a \in g.used /\ vert[a] = v =>
       h = [g EXCEPT !.first[i] = g.next[a], !.used = @ \ {a}]
  /\ g.pc = "open" /\ a \in g.used /\ vert[a] # v /\ hits # {} =>
       \E k \in hits : /\ \A j \in hits : k <= j
                       /\ h = [g EXCEPT !.next[a] = g.next[q[k]], !.used = @ \ {q[k]}]
  /\ g.pc = "open" /\ a \in g.used /\ vert[a] # v /\ hits = {} =>
       h = IF Graph!Broken(g.next, g.used, a) THEN [g EXCEPT !.pc = "wild"] ELSE g

LEMMA UnhookIs ==
  ASSUME NEW g \in Sweeping, NEW i, NEW v
  PROVE  \E h, a, q, hits : h = Graph!Unhook(g, i, v) /\ Turn(h, g, i, v, a, q, hits)
<1>a. PICK a : a = g.first[i]
  OBVIOUS
<1>b. PICK q : q = Graph!Chain(g.next, g.used, a)
  OBVIOUS
<1>c. PICK hits : hits = {k \in 2 .. Len(q) : vert[q[k]] = v}
  OBVIOUS
<1>1. g.used \subseteq Arc /\ g.next \in [Arc -> Arc \cup {None}] /\ None \notin g.used
  BY NullIsApart DEF Sweeping
<1>2. q \in Seq(g.used)
  BY <1>1, <1>b, ChainInUse
<1>3. hits \subseteq Nat
  BY <1>2, <1>c
<1>4. PICK k : k = CHOOSE m \in hits : \A j \in hits : m <= j
  OBVIOUS
<1>5. hits # {} => k \in hits /\ \A j \in hits : k <= j
  BY <1>3, <1>4, LeastIn
<1>6. g.pc # "open" => Graph!Unhook(g, i, v) = g
  BY DEF Graph!Unhook
<1>7. g.pc = "open" /\ a = None => Graph!Unhook(g, i, v) = [g EXCEPT !.pc = "segv"]
  BY <1>1, <1>a, <1>b, <1>c DEF Graph!Unhook
<1>8. g.pc = "open" /\ a # None /\ a \notin g.used => Graph!Unhook(g, i, v) = [g EXCEPT !.pc = "wild"]
  BY <1>1, <1>a, <1>b, <1>c DEF Graph!Unhook
<1>9. g.pc = "open" /\ a \in g.used /\ vert[a] = v =>
        Graph!Unhook(g, i, v) = [g EXCEPT !.first[i] = g.next[a], !.used = @ \ {a}]
  BY <1>1, <1>a, <1>b, <1>c DEF Graph!Unhook
<1>10. g.pc = "open" /\ a \in g.used /\ vert[a] # v /\ hits # {} =>
         Graph!Unhook(g, i, v) = [g EXCEPT !.next[a] = g.next[q[k]], !.used = @ \ {q[k]}]
  BY <1>1, <1>4, <1>a, <1>b, <1>c, Zenon DEF Graph!Unhook
<1>11. g.pc = "open" /\ a \in g.used /\ vert[a] # v /\ hits = {} =>
         Graph!Unhook(g, i, v) = IF Graph!Broken(g.next, g.used, a) THEN [g EXCEPT !.pc = "wild"] ELSE g
  BY <1>1, <1>a, <1>b, <1>c, Zenon DEF Graph!Unhook
<1>12. PICK h : h = Graph!Unhook(g, i, v)
  OBVIOUS
<1>13. Turn(h, g, i, v, a, q, hits)
  BY <1>a, <1>b, <1>c, <1>2, <1>5, <1>6, <1>7, <1>8, <1>9, <1>10, <1>11, <1>12, Zenon DEF Turn
<1> QED
  BY <1>12, <1>13

LEMMA UnhookTypes ==
  ASSUME NEW g \in Sweeping, NEW i, NEW v
  PROVE  Graph!Unhook(g, i, v) \in Sweeping
<1>1. PICK h, a, q, hits : h = Graph!Unhook(g, i, v) /\ Turn(h, g, i, v, a, q, hits)
  BY UnhookIs
<1>5. q \in Seq(g.used) /\ g.used \subseteq Arc /\ g.next \in [Arc -> Arc \cup {None}] /\ None \notin Arc
  BY <1>1, NullIsApart, Zenon DEF Turn, Sweeping
<1>6. CASE g.pc # "open"
  BY <1>1, <1>6, Zenon DEF Turn
<1>7. CASE g.pc = "open" /\ a \notin g.used
  <2>1. h = [g EXCEPT !.pc = "segv"] \/ h = [g EXCEPT !.pc = "wild"]
    BY <1>1, <1>5, <1>7, Zenon DEF Turn
  <2> QED
    BY <1>1, <2>1 DEF Sweeping
<1>8. CASE g.pc = "open" /\ a \in g.used /\ vert[a] = v
  <2>1. h = [g EXCEPT !.first[i] = g.next[a], !.used = @ \ {a}]
    BY <1>1, <1>8 DEF Turn
  <2>2. g.next[a] \in Arc \cup {None}
    BY <1>5, <1>8
  <2>4. PICK f, u : f = [g.first EXCEPT ![i] = g.next[a]] /\ u = g.used \ {a}
    OBVIOUS
  <2>5. f \in [Graph!Cells -> Arc \cup {None}] /\ u \subseteq Arc
    <3>1. g.first \in [Graph!Cells -> Arc \cup {None}]
      BY DEF Sweeping
    <3> QED
      BY <1>5, <2>2, <2>4, <3>1
  <2>6. h = [g EXCEPT !.first = f, !.used = u]
    BY <2>1, <2>4
  <2> QED
    BY <1>1, <2>5, <2>6, ZenonT(30) DEF Sweeping
<1>9. CASE g.pc = "open" /\ a \in g.used /\ vert[a] # v /\ hits # {}
  <2>1. PICK k \in hits : h = [g EXCEPT !.next[a] = g.next[q[k]], !.used = @ \ {q[k]}]
    BY <1>1, <1>9, Zenon DEF Turn
  <2>2. k \in 1 .. Len(q)
    <3>1. Len(q) \in Nat
      BY <1>5
    <3>2. hits = {j \in 2 .. Len(q) : vert[q[j]] = v}
      BY <1>1, Zenon DEF Turn
    <3> QED
      BY <3>1, <3>2
  <2>3. g.next[q[k]] \in Arc \cup {None}
    BY <1>5, <2>2
  <2>4. PICK nx, u : nx = [g.next EXCEPT ![a] = g.next[q[k]]] /\ u = g.used \ {q[k]}
    OBVIOUS
  <2>5. nx \in [Arc -> Arc \cup {None}] /\ u \subseteq Arc
    BY <1>5, <2>3, <2>4
  <2>6. h = [g EXCEPT !.next = nx, !.used = u]
    BY <2>1, <2>4
  <2> QED
    BY <1>1, <2>5, <2>6, ZenonT(30) DEF Sweeping
<1>10. CASE g.pc = "open" /\ a \in g.used /\ vert[a] # v /\ hits = {}
  <2>1. h = g \/ h = [g EXCEPT !.pc = "wild"]
    BY <1>1, <1>10, Zenon DEF Turn
  <2> QED
    BY <1>1, <2>1 DEF Sweeping
<1> QED
  BY <1>6, <1>7, <1>8, <1>9, <1>10

\* the loop over the cells 0 .. m
Swept(w, start, m, v) == /\ w[-1] = start
                         /\ \A i \in 0 .. m : w[i] = Graph!Unhook(w[i - 1], i, v)

LEMMA Sweeps ==
  ASSUME NEW start \in Sweeping, NEW m \in Int, m >= -1, NEW v,
         NEW w, w = CHOOSE f : f = [i \in -1 .. m |-> IF i = -1 THEN start ELSE Graph!Unhook(f[i - 1], i, v)]
  PROVE  Swept(w, start, m, v)
<1> DEFINE Rule(f) == f = [i \in -1 .. m |-> IF i = -1 THEN start ELSE Graph!Unhook(f[i - 1], i, v)]
           T == Sweeping \X Nat
           F == [t \in T |-> <<Graph!Unhook(t[1], t[2], v), t[2] + 1>>]
<1>1. F \in [T -> T] /\ <<start, 0>> \in T
  <2>1. ASSUME NEW t \in T PROVE <<Graph!Unhook(t[1], t[2], v), t[2] + 1>> \in T
    <3>1. t[1] \in Sweeping /\ t[2] \in Nat
      OBVIOUS
    <3>2. PICK h : h = Graph!Unhook(t[1], t[2], v) /\ h \in Sweeping
      BY <3>1, UnhookTypes
    <3> QED
      BY <3>1, <3>2
  <2> QED
    BY <2>1
<1>2. PICK b \in [Nat -> T] : b[0] = <<start, 0>> /\ \A n \in Nat : b[n + 1] = F[b[n]]
  <2>1. PICK T1, F1, s1 : T1 = T /\ F1 = F /\ s1 = <<start, 0>>
    OBVIOUS
  <2>2. F1 \in [T1 -> T1] /\ s1 \in T1
    BY <1>1, <2>1
  <2>3. PICK b : Iteration(b, T1, F1, s1)
    BY <2>2, Iterates
  <2> HIDE DEF F, T
  <2> QED
    BY <2>1, <2>3 DEF Iteration
<1>3. ASSUME NEW n \in Nat PROVE b[n + 1] = <<Graph!Unhook(b[n][1], b[n][2], v), b[n][2] + 1>>
  <2>1. b[n] \in T
    BY <1>2
  <2>2. F[b[n]] = <<Graph!Unhook(b[n][1], b[n][2], v), b[n][2] + 1>>
    <3> HIDE DEF T
    <3> QED
      BY <2>1
  <2> HIDE DEF F
  <2> QED
    BY <1>2, <2>2
<1> DEFINE Counted == {n \in Nat : b[n][2] = n}
<1>4. Nat \subseteq Counted
  <2>1. 0 \in Counted
    BY <1>2
  <2>2. ASSUME NEW n \in Nat, n \in Counted PROVE n + 1 \in Counted
    <3>1. PICK z : z = Graph!Unhook(b[n][1], b[n][2], v)
      OBVIOUS
    <3>2. b[n + 1] = <<z, n + 1>>
      BY <1>3, <2>2, <3>1
    <3> QED
      BY <3>2
  <2> HIDE DEF Counted
  <2> QED
    BY <2>1, <2>2, Induct
<1>5. /\ b[0][1] = start
      /\ \A n \in Nat : b[n + 1][1] = Graph!Unhook(b[n][1], n, v)
  BY <1>2, <1>3, <1>4
<1> HIDE DEF T, F
<1>6. Rule([i \in -1 .. m |-> b[i + 1][1]])
  <2> DEFINE f == [i \in -1 .. m |-> b[i + 1][1]]
  <2>1. ASSUME NEW i \in -1 .. m PROVE f[i] = IF i = -1 THEN start ELSE Graph!Unhook(f[i - 1], i, v)
    <3>1. CASE i = -1
      <4>1. i + 1 = 0
        BY <3>1
      <4> QED
        BY <1>5, <3>1, <4>1
    <3>2. CASE i # -1
      <4>1. i \in Nat /\ i - 1 \in -1 .. m /\ (i - 1) + 1 = i
        BY <3>2
      <4>2. f[i - 1] = b[i][1] /\ f[i] = b[i + 1][1]
        BY <4>1
      <4> QED
        BY <1>5, <3>2, <4>1, <4>2
    <3> QED
      BY <3>1, <3>2
  <2>2. f = [i \in -1 .. m |-> f[i]]
    OBVIOUS
  <2> HIDE DEF f
  <2>3. Rule(f)
    BY <2>1, <2>2
  <2> QED
    BY <2>3 DEF f
<1>7. Rule(w)
  <2>1. w = CHOOSE f : Rule(f)
    OBVIOUS
  <2> HIDE DEF Rule
  <2> QED
    BY <1>6, <2>1
<1>8. w[-1] = start
  <2>1. -1 \in -1 .. m
    OBVIOUS
  <2> QED
    BY <1>7, <2>1
<1>9. ASSUME NEW i \in 0 .. m PROVE w[i] = Graph!Unhook(w[i - 1], i, v)
  <2>1. i \in -1 .. m /\ i # -1
    OBVIOUS
  <2> QED
    BY <1>7, <2>1
<1> QED
  BY <1>8, <1>9 DEF Swept

LEMMA SweptTypes ==
  ASSUME NEW start \in Sweeping, NEW m \in Int, m >= -1, NEW v, NEW w, Swept(w, start, m, v)
  PROVE  \A i \in -1 .. m : w[i] \in Sweeping
<1> DEFINE S == {n \in Nat : n <= m + 1 => w[n - 1] \in Sweeping}
<1>1. 0 \in S
  BY DEF Swept
<1>2. ASSUME NEW n \in Nat, n \in S PROVE n + 1 \in S
  <2> SUFFICES ASSUME n + 1 <= m + 1 PROVE w[(n + 1) - 1] \in Sweeping
    OBVIOUS
  <2>1. (n + 1) - 1 = n /\ n \in 0 .. m /\ n <= m + 1
    OBVIOUS
  <2>2. w[n - 1] \in Sweeping
    BY <1>2, <2>1
  <2>3. w[n] = Graph!Unhook(w[n - 1], n, v)
    BY <2>1 DEF Swept
  <2> QED
    BY <2>1, <2>2, <2>3, UnhookTypes
<1>3. Nat \subseteq S
  <2> HIDE DEF S
  <2> QED
    BY <1>1, <1>2, Induct
<1>4. ASSUME NEW i \in -1 .. m PROVE w[i] \in Sweeping
  <2>1. i + 1 \in Nat /\ i + 1 <= m + 1 /\ (i + 1) - 1 = i
    OBVIOUS
  <2>2. i + 1 \in S
    BY <1>3, <2>1
  <2> QED
    BY <2>1, <2>2
<1> QED
  BY <1>4

\* the list of the cell i has become q, the others are left alone
Elsewhere(L, n, i, fst, nx, u, fst2, nx2, u2) ==
  /\ \A c \in 0 .. n - 1 : c # i => fst2[c] = fst[c]
  /\ \A b \in u \ NodesOf(L[i]) : nx2[b] = nx[b] /\ b \in u2

InPlace(L, M, n, i, q) == M[i] = q /\ \A c \in 0 .. n - 1 : c # i => M[c] = L[c]

LEMMA OwnArcsAfter ==
  ASSUME NEW L, NEW n \in Nat, NEW fst, NEW nx, NEW u, OwnArcs(L, n, fst, nx, u),
         NEW i \in 0 .. n - 1, NEW q, NEW fst2, NEW nx2, NEW u2,
         IsList(Arc, q, fst2[i], nx2), NodesOf(q) \subseteq NodesOf(L[i]), NodesOf(q) \subseteq u2,
         Elsewhere(L, n, i, fst, nx, u, fst2, nx2, u2)
  PROVE  \E M : OwnArcs(M, n, fst2, nx2, u2) /\ InPlace(L, M, n, i, q)
<1>1. PICK M : M = [c \in 0 .. n - 1 |-> IF c = i THEN q ELSE L[c]]
  OBVIOUS
<1>2. M[i] = q /\ \A c \in 0 .. n - 1 : c # i => M[c] = L[c]
  BY <1>1
<1>3. \A c \in 0 .. n - 1 : c # i => NodesOf(L[c]) \subseteq u \ NodesOf(L[i])
  BY DEF OwnArcs
<1>4. ASSUME NEW c \in 0 .. n - 1, c # i
      PROVE  IsList(Arc, L[c], fst2[c], nx2) /\ NodesOf(L[c]) \subseteq u2
  <2>1. IsList(Arc, L[c], fst[c], nx)
    BY DEF OwnArcs
  <2>2. fst2[c] = fst[c] /\ \A b \in NodesOf(L[c]) : nx2[b] = nx[b] /\ b \in u2
    BY <1>3, <1>4 DEF Elsewhere
  <2>3. IsList(Arc, L[c], fst[c], nx2)
    BY <2>1, <2>2, ListStays
  <2> QED
    BY <2>2, <2>3
<1>5. ASSUME NEW c \in 0 .. n - 1
      PROVE  IsList(Arc, M[c], fst2[c], nx2) /\ NodesOf(M[c]) \subseteq u2
  BY <1>2, <1>4
<1>6. ASSUME NEW c \in 0 .. n - 1, NEW d \in 0 .. n - 1, c # d
      PROVE  NodesOf(M[c]) \cap NodesOf(M[d]) = {}
  <2>1. \A b \in 0 .. n - 1 : b # i => NodesOf(M[b]) \cap NodesOf(M[i]) = {}
    BY <1>2, <1>3
  <2>2. CASE c = i \/ d = i
    BY <1>6, <2>1, <2>2
  <2>3. CASE c # i /\ d # i
    BY <1>2, <1>6, <2>3 DEF OwnArcs
  <2> QED
    BY <2>2, <2>3
<1>7. OwnArcs(M, n, fst2, nx2, u2)
  BY <1>5, <1>6 DEF OwnArcs
<1> QED
  BY <1>2, <1>7 DEF InPlace

\* a list of which the nodes from the second to the one at place k are cut out
CutOut(p, q, k, h, nx2) == /\ IsList(Arc, q, h, nx2)
                           /\ NodesOf(q) \subseteq NodesOf(p) \ {p[k]}
                           /\ k = 2 => q = RemoveAt(p, 2)

LEMMA ListCut ==
  ASSUME NEW p, NEW h, NEW nx \in [Arc -> Arc \cup {None}], IsList(Arc, p, h, nx), NEW k \in 2 .. Len(p),
         NEW nx2, nx2 = [nx EXCEPT ![p[1]] = nx[p[k]]]
  PROVE  \E q : CutOut(p, q, k, h, nx2)
<1>1. /\ p \in Seq(Arc) /\ Distinct(p) /\ Len(p) \in Nat
      /\ \A j \in 1 .. Len(p) : p[j] \in Arc
      /\ h = p[1] /\ nx[p[Len(p)]] = None
      /\ \A j \in 1 .. Len(p) - 1 : nx[p[j]] = p[j + 1]
      /\ 1 \in 1 .. Len(p) /\ k \in 1 .. Len(p)
  BY ListShape
<1>2. PICK l \in Nat : l = Len(p) - k + 1 /\ l # 0
  <2>1. Len(p) - k + 1 \in Nat /\ Len(p) - k + 1 # 0
    BY <1>1
  <2> QED
    BY <2>1
<1>3. PICK q : q = [j \in 1 .. l |-> IF j = 1 THEN p[1] ELSE p[j + k - 1]]
  OBVIOUS
<1>4. ASSUME NEW j \in 1 .. l
      PROVE  /\ j + k - 1 \in 1 .. Len(p) /\ j + k - 1 # 1
             /\ j # 1 => j + k - 1 # k
             /\ q[j] = (IF j = 1 THEN p[1] ELSE p[j + k - 1])
  BY <1>1, <1>2, <1>3
<1>5. q \in Seq(Arc) /\ Len(q) = l
  <2>1. \A j \in 1 .. l : (IF j = 1 THEN p[1] ELSE p[j + k - 1]) \in Arc
    BY <1>1, <1>4
  <2>2. q \in [1 .. l -> Arc]
    BY <1>3, <2>1
  <2> QED
    BY <2>2
<1>6. \A i, j \in 1 .. Len(p) : p[i] = p[j] => i = j
  BY <1>1 DEF Distinct
<1>7. Distinct(q)
  <2> SUFFICES ASSUME NEW i \in 1 .. l, NEW j \in 1 .. l, q[i] = q[j] PROVE i = j
    BY <1>5 DEF Distinct
  <2>1. CASE i = 1 /\ j # 1
    BY <1>1, <1>4, <1>6, <2>1
  <2>2. CASE i # 1 /\ j = 1
    BY <1>1, <1>4, <1>6, <2>2
  <2>3. CASE i # 1 /\ j # 1
    <3>0. PICK i1, j1 \in 1 .. Len(p) : i1 = i + k - 1 /\ j1 = j + k - 1
      BY <1>4
    <3>a. p[i1] = p[j1]
      BY <1>4, <2>3, <3>0
    <3>1. i + k - 1 = j + k - 1
      BY <1>6, <3>0, <3>a
    <3> QED
      BY <3>1
  <2> QED
    BY <2>1, <2>2, <2>3
<1>8. /\ nx2[p[1]] = nx[p[k]]
      /\ \A j \in 1 .. Len(p) : j # 1 => nx2[p[j]] = nx[p[j]]
  BY <1>1, <1>6
<1>9. ASSUME NEW j \in 1 .. l - 1 PROVE nx2[q[j]] = q[j + 1]
  <2>1. /\ j \in 1 .. l /\ j + 1 \in 1 .. l /\ j + 1 # 1 /\ (j + 1) + k - 1 = j + k
        /\ j + k - 1 \in 1 .. Len(p) - 1 /\ (j + k - 1) + 1 = j + k
    BY <1>1, <1>2
  <2>2. q[j + 1] = p[j + k]
    BY <1>4, <2>1
  <2>3. nx[p[j + k - 1]] = p[j + k]
    BY <1>1, <2>1
  <2>4. CASE j = 1
    <3>1. j + k - 1 = k
      BY <2>4
    <3> QED
      BY <1>4, <1>8, <2>1, <2>2, <2>3, <2>4, <3>1
  <2>5. CASE j # 1
    BY <1>4, <1>8, <2>1, <2>2, <2>3, <2>5
  <2> QED
    BY <2>4, <2>5
<1>10. nx2[q[l]] = None /\ q[1] = h
  <2>1. l \in 1 .. l /\ 1 \in 1 .. l /\ l + k - 1 = Len(p)
    BY <1>1, <1>2
  <2>2. q[1] = h
    BY <1>1, <1>4, <2>1
  <2>3. CASE l = 1
    <3>1. k = Len(p)
      BY <1>1, <2>1, <2>3
    <3> QED
      BY <1>1, <1>8, <2>2, <2>3, <3>1
  <2>4. CASE l # 1
    <3>1. q[l] = p[Len(p)] /\ Len(p) # 1
      BY <1>1, <1>4, <2>1, <2>4
    <3> QED
      BY <1>1, <1>8, <2>2, <3>1
  <2> QED
    BY <2>3, <2>4
<1>11. IsList(Arc, q, h, nx2)
  <2>1. q # <<>>
    BY <1>2, <1>5, EmptySeq
  <2> QED
    BY <1>5, <1>7, <1>9, <1>10, <2>1 DEF IsList
<1>12. NodesOf(q) \subseteq NodesOf(p) \ {p[k]}
  <2> SUFFICES ASSUME NEW j \in 1 .. l PROVE q[j] \in NodesOf(p) /\ q[j] # p[k]
    BY <1>5 DEF NodesOf
  <2>1. PICK i \in 1 .. Len(p) : q[j] = p[i] /\ i # k
    <3>1. CASE j = 1
      <4>1. q[j] = p[1] /\ 1 # k
        BY <1>4, <3>1
      <4> QED
        BY <1>1, <4>1
    <3>2. CASE j # 1
      BY <1>4, <3>2
    <3> QED
      BY <3>1, <3>2
  <2> QED
    BY <1>1, <1>6, <2>1 DEF NodesOf
<1>13. ASSUME k = 2 PROVE q = RemoveAt(p, 2)
  <2>1. 2 \in 1 .. Len(p)
    BY <1>1, <1>13
  <2>2. /\ RemoveAt(p, 2) \in Seq(Arc) /\ Len(RemoveAt(p, 2)) = Len(p) - 1
        /\ \A j \in 1 .. 2 - 1 : RemoveAt(p, 2)[j] = p[j]
        /\ \A j \in 2 .. Len(p) - 1 : RemoveAt(p, 2)[j] = p[j + 1]
    BY <1>1, <2>1, RemoveAtIs
  <2>3. ASSUME NEW j \in 1 .. l PROVE q[j] = RemoveAt(p, 2)[j]
    <3>1. CASE j = 1
      BY <1>4, <2>2, <3>1
    <3>2. CASE j # 1
      <4>1. j \in 2 .. Len(p) - 1 /\ j + k - 1 = j + 1
        BY <1>1, <1>2, <1>13, <3>2
      <4> QED
        BY <1>4, <2>2, <3>2, <4>1
    <3> QED
      BY <3>1, <3>2
  <2>4. Len(RemoveAt(p, 2)) = l
    BY <1>1, <1>2, <1>13, <2>2
  <2> QED
    BY <1>5, <2>2, <2>3, <2>4, SameSeq
<1> QED
  BY <1>11, <1>12, <1>13 DEF CutOut

(***************************************************************************)
(* What delete_vertex makes of the list p if the arcs in hits go: an arc   *)
(* that is alone is taken out if it is the first or the second; whatever   *)
(* else it does, what is left was there before.                            *)
(***************************************************************************)
IsKept(p, q, to, v) ==
  /\ NodesOf(q) \subseteq NodesOf(p)
  /\ (\A k \in 1 .. Len(p) : to[p[k]] # v) => q = p
  /\ \A k \in 1 .. Len(p) :
       k <= 2 /\ to[p[k]] = v /\ (k = 2 => to[p[1]] # v) => q = RemoveAt(p, k)

LEMMA UnhookList ==
  ASSUME NEW g \in Sweeping, g.pc = "open", NEW n \in Nat, n <= MaxVertices,
         NEW L, OwnArcs(L, n, g.first, g.next, g.used), NEW i \in 0 .. n - 1, NEW v,
         NEW h, h = Graph!Unhook(g, i, v)
  PROVE  /\ L[i] = <<>> => h.pc = "segv"
         /\ L[i] # <<>> => /\ h.pc = "open"
                           /\ \E M : /\ OwnArcs(M, n, h.first, h.next, h.used)
                                     /\ IsKept(L[i], M[i], vert, v)
                                     /\ \A c \in 0 .. n - 1 : c # i => M[c] = L[c]
<1>1. PICK a, r, hits : Turn(h, g, i, v, a, r, hits)
  BY UnhookIs
<1>2. /\ g.first \in [Graph!Cells -> Arc \cup {None}] /\ g.next \in [Arc -> Arc \cup {None}]
      /\ g.used \subseteq Arc /\ None \notin Arc
  BY NullIsApart DEF Sweeping
<1>3. PICK p : p = L[i]
  OBVIOUS
<1>4. /\ IsList(Arc, p, g.first[i], g.next) /\ NodesOf(p) \subseteq g.used
      /\ p \in Seq(Arc) /\ Distinct(p) /\ Len(p) \in Nat
      /\ p = <<>> <=> Len(p) = 0
      /\ \A k \in 1 .. Len(p) : p[k] \in Arc
      /\ Len(p) # 0 => g.first[i] = p[1] /\ 1 \in 1 .. Len(p)
      /\ p = <<>> => g.first[i] = None
  <2>1. IsList(Arc, p, g.first[i], g.next) /\ NodesOf(p) \subseteq g.used
    BY <1>3 DEF OwnArcs
  <2>2. p = <<>> => g.first[i] = None
    BY <2>1 DEF IsList
  <2> QED
    BY <2>1, <2>2, ListShape
<1>5. a = g.first[i] /\ r = p /\ ~Graph!Broken(g.next, g.used, a)
  <2>1. a = g.first[i] /\ r = Graph!Chain(g.next, g.used, a)
    BY <1>1, Zenon DEF Turn
  <2>2. PICK nx, u : nx = g.next /\ u = g.used
    OBVIOUS
  <2>3. IsList(Arc, p, a, nx) /\ NodesOf(p) \subseteq u /\ u \subseteq Arc /\ nx \in [Arc -> Arc \cup {None}]
    BY <1>2, <1>4, <2>1, <2>2
  <2>4. Graph!Chain(nx, u, a) = p /\ ~Graph!Broken(nx, u, a)
    BY <2>3, ListChain
  <2> QED
    BY <2>1, <2>2, <2>4
<1>6. CASE p = <<>>
  <2>1. a = None
    BY <1>4, <1>5, <1>6
  <2>2. h = [g EXCEPT !.pc = "segv"]
    BY <1>1, <2>1, Zenon DEF Turn
  <2>3. h.pc = "segv"
    BY <2>2 DEF Sweeping
  <2> QED
    BY <1>3, <1>6, <2>3
<1>7. CASE p # <<>>
  <2>0. /\ a = p[1] /\ a \in g.used /\ a \in Arc /\ 1 \in 1 .. Len(p) /\ i \in Graph!Cells
        /\ \A k \in 1 .. Len(p) : p[k] \in NodesOf(p)
    BY <1>4, <1>5, <1>7, Sizes DEF NodesOf, Graph!Cells
  <2>1. CASE vert[a] = v
    <3>1. h = [g EXCEPT !.first[i] = g.next[a], !.used = @ \ {a}]
      BY <1>1, <2>0, <2>1 DEF Turn
    <3>2. /\ h.pc = "open" /\ h.next = g.next /\ h.used = g.used \ {a}
          /\ h.first[i] = g.next[a] /\ \A c \in 0 .. n - 1 : c # i => h.first[c] = g.first[c]
      BY <1>2, <2>0, <3>1 DEF Sweeping
    <3>3. PICK q : q = RemoveAt(p, 0 + 1)
      OBVIOUS
    <3>4. q \in Seq(Arc) /\ Removed(p, q, 0)
      <4>1. 0 \in 0 .. Len(p) - 1
        BY <1>4, <2>0
      <4> QED
        BY <1>4, <3>3, <4>1, TakenOutIs
    <3>5. IsList(Arc, q, g.next[a], g.next)
      BY <1>4, <1>5, <1>7, <3>4, ListBehead
    <3>6. NodesOf(q) \subseteq NodesOf(p) \ {a}
      <4> SUFFICES ASSUME NEW j \in 1 .. Len(q) PROVE q[j] \in NodesOf(p) /\ q[j] # a
        BY DEF NodesOf
      <4>1. j \in 1 .. Len(p) - 1 /\ j + 1 \in 1 .. Len(p) /\ j + 1 # 1 /\ q[j] = p[j + 1]
        BY <1>4, <3>4 DEF Removed
      <4> QED
        BY <1>4, <2>0, <4>1 DEF Distinct
    <3>7. IsKept(p, q, vert, v)
      <4>1. q = RemoveAt(p, 1)
        BY <3>3
      <4>2. \A k \in 1 .. Len(p) : k <= 2 /\ (k = 2 => vert[p[1]] # v) => k = 1
        BY <1>4, <2>0, <2>1
      <4>3. ~(\A k \in 1 .. Len(p) : vert[p[k]] # v)
        BY <2>0, <2>1
      <4> QED
        BY <3>6, <4>1, <4>2, <4>3 DEF IsKept
    <3>8. PICK f2, nx2, u2 : f2 = h.first /\ nx2 = h.next /\ u2 = h.used
      OBVIOUS
    <3>9. \E M : OwnArcs(M, n, f2, nx2, u2) /\ InPlace(L, M, n, i, q)
      <4>1. PICK f1, nx1, u1 : f1 = g.first /\ nx1 = g.next /\ u1 = g.used
        OBVIOUS
      <4>2. OwnArcs(L, n, f1, nx1, u1) /\ IsList(Arc, q, f2[i], nx2)
        BY <3>2, <3>5, <3>8, <4>1
      <4>3. NodesOf(q) \subseteq NodesOf(L[i]) /\ NodesOf(q) \subseteq u2
        BY <1>3, <1>4, <3>2, <3>6, <3>8
      <4>4. \A c \in 0 .. n - 1 : c # i => f2[c] = f1[c]
        BY <3>2, <3>8, <4>1
      <4>5. \A b \in u1 \ NodesOf(L[i]) : nx2[b] = nx1[b] /\ b \in u2
        BY <1>3, <2>0, <3>2, <3>8, <4>1
      <4>6. Elsewhere(L, n, i, f1, nx1, u1, f2, nx2, u2)
        BY <4>4, <4>5 DEF Elsewhere
      <4> QED
        BY <4>2, <4>3, <4>6, OwnArcsAfter
    <3> QED
      BY <1>3, <1>7, <3>2, <3>7, <3>8, <3>9 DEF InPlace
  <2>2. CASE vert[a] # v /\ hits # {}
    <3>1. PICK k \in hits : /\ \A j \in hits : k <= j
                            /\ h = [g EXCEPT !.next[a] = g.next[r[k]], !.used = @ \ {r[k]}]
      BY <1>1, <2>0, <2>2, Zenon DEF Turn
    <3>2. /\ hits = {j \in 2 .. Len(p) : vert[p[j]] = v}
          /\ k \in 2 .. Len(p) /\ vert[p[k]] = v /\ k \in 1 .. Len(p)
          /\ \A j \in 2 .. Len(p) : vert[p[j]] = v => k <= j
      <4>1. hits = {j \in 2 .. Len(p) : vert[p[j]] = v}
        BY <1>1, <1>5, Zenon DEF Turn
      <4> QED
        BY <1>4, <3>1, <4>1
    <3>3. /\ h.pc = "open" /\ h.first = g.first /\ h.used = g.used \ {p[k]}
          /\ h.next = [g.next EXCEPT ![a] = g.next[p[k]]]
      BY <1>5, <3>1 DEF Sweeping
    <3>4. PICK f1, nx1, u1, f2, nx2, u2 : /\ f1 = g.first /\ nx1 = g.next /\ u1 = g.used
                                          /\ f2 = h.first /\ nx2 = h.next /\ u2 = h.used
      OBVIOUS
    <3>5. PICK q : /\ IsList(Arc, q, f1[i], nx2)
                   /\ NodesOf(q) \subseteq NodesOf(p) \ {p[k]}
                   /\ k = 2 => q = RemoveAt(p, 2)
      <4>1. nx2 = [nx1 EXCEPT ![p[1]] = nx1[p[k]]] /\ nx1 \in [Arc -> Arc \cup {None}]
        BY <1>2, <2>0, <3>3, <3>4
      <4>2. PICK fi : fi = f1[i]
        OBVIOUS
      <4>3. IsList(Arc, p, fi, nx1)
        BY <1>4, <3>4, <4>2
      <4>4. \E q : CutOut(p, q, k, fi, nx2)
        BY <3>2, <4>1, <4>3, ListCut
      <4> QED
        BY <4>2, <4>4 DEF CutOut
    <3>6. IsKept(p, q, vert, v)
      <4>1. ~(\A j \in 1 .. Len(p) : vert[p[j]] # v)
        BY <3>2
      <4>2. ASSUME NEW j \in 1 .. Len(p), j <= 2, vert[p[j]] = v PROVE q = RemoveAt(p, j)
        <5>1. j = 2
          BY <1>4, <2>0, <2>2, <4>2
        <5>2. k = 2
          BY <1>4, <3>2, <4>2, <5>1
        <5> QED
          BY <3>5, <5>1, <5>2
      <4> QED
        BY <3>5, <4>1, <4>2 DEF IsKept
    <3>7. \E M : OwnArcs(M, n, f2, nx2, u2) /\ InPlace(L, M, n, i, q)
      <4>1. OwnArcs(L, n, f1, nx1, u1) /\ IsList(Arc, q, f2[i], nx2)
        BY <3>3, <3>4, <3>5
      <4>2. NodesOf(q) \subseteq NodesOf(L[i]) /\ NodesOf(q) \subseteq u2
        BY <1>3, <1>4, <3>3, <3>4, <3>5
      <4>3. \A c \in 0 .. n - 1 : c # i => f2[c] = f1[c]
        BY <3>3, <3>4
      <4>4. \A b \in u1 \ NodesOf(L[i]) : nx2[b] = nx1[b] /\ b \in u2
        <5> SUFFICES ASSUME NEW b \in u1, b \notin NodesOf(p) PROVE nx2[b] = nx1[b] /\ b \in u2
          BY <1>3
        <5>1. b # a /\ b # p[k] /\ b \in Arc
          BY <1>2, <2>0, <3>2, <3>4
        <5> QED
          BY <1>2, <3>3, <3>4, <5>1
      <4>5. Elsewhere(L, n, i, f1, nx1, u1, f2, nx2, u2)
        BY <4>3, <4>4 DEF Elsewhere
      <4> QED
        BY <4>1, <4>2, <4>5, OwnArcsAfter
    <3> QED
      BY <1>3, <1>7, <3>3, <3>4, <3>6, <3>7 DEF InPlace
  <2>3. CASE vert[a] # v /\ hits = {}
    <3>1. h = g
      BY <1>1, <1>5, <2>0, <2>3, Zenon DEF Turn
    <3>2. hits = {j \in 2 .. Len(p) : vert[p[j]] = v}
      BY <1>1, <1>5, Zenon DEF Turn
    <3>3. ASSUME NEW j \in 1 .. Len(p) PROVE vert[p[j]] # v
      <4>1. j = 1 \/ j \in 2 .. Len(p)
        BY <1>4
      <4> QED
        BY <2>0, <2>3, <3>2, <4>1
    <3>4. IsKept(p, p, vert, v)
      BY <3>3 DEF IsKept
    <3> QED
      BY <1>3, <1>7, <3>1, <3>4
  <2> QED
    BY <2>1, <2>2, <2>3
<1> QED
  BY <1>6, <1>7

\* how far the loop has come: past the cells before k, with lists M for L
SweptUpTo(g, L, n, k, v) ==
  \/ g.pc = "segv" /\ \E c \in 0 .. n - 1 : L[c] = <<>>
  \/ /\ g.pc = "open"
     /\ \E M : /\ OwnArcs(M, n, g.first, g.next, g.used)
               /\ \A c \in 0 .. n - 1 : IF c < k THEN IsKept(L[c], M[c], vert, v) ELSE M[c] = L[c]

LEMMA SweptLists ==
  ASSUME NEW start \in Sweeping, start.pc = "open", NEW n \in Nat, n <= MaxVertices,
         NEW L, OwnArcs(L, n, start.first, start.next, start.used),
         NEW v, NEW w, Swept(w, start, n - 1, v)
  PROVE  SweptUpTo(w[n - 1], L, n, n, v)
<1> DEFINE S == {k \in Nat : k <= n => SweptUpTo(w[k - 1], L, n, k, v)}
<1>1. 0 \in S
  <2>1. w[0 - 1] = start
    BY DEF Swept
  <2>2. \A c \in 0 .. n - 1 : ~(c < 0)
    OBVIOUS
  <2> QED
    BY <2>1, <2>2 DEF SweptUpTo
<1>2. \A i \in -1 .. n - 1 : w[i] \in Sweeping
  <2>1. n - 1 \in Int /\ n - 1 >= -1
    OBVIOUS
  <2> QED
    BY <2>1, SweptTypes
<1>3. ASSUME NEW k \in Nat, k \in S PROVE k + 1 \in S
  <2> SUFFICES ASSUME k + 1 <= n PROVE SweptUpTo(w[(k + 1) - 1], L, n, k + 1, v)
    OBVIOUS
  <2>1. (k + 1) - 1 = k /\ k \in 0 .. n - 1 /\ k <= n /\ k - 1 \in -1 .. n - 1
    OBVIOUS
  <2>2. PICK g, h : g = w[k - 1] /\ h = w[k]
    OBVIOUS
  <2>3. h = Graph!Unhook(g, k, v) /\ g \in Sweeping /\ SweptUpTo(g, L, n, k, v)
    BY <1>2, <1>3, <2>1, <2>2 DEF Swept
  <2>4. CASE g.pc = "segv"
    <3>1. h = g
      <4>1. \E a, r, hits : Turn(h, g, k, v, a, r, hits)
        BY <2>3, UnhookIs
      <4> QED
        BY <2>4, <4>1 DEF Turn
    <3>2. SweptUpTo(h, L, n, k + 1, v)
      BY <2>3, <2>4, <3>1 DEF SweptUpTo
    <3> QED
      BY <2>1, <2>2, <3>2
  <2>5. CASE g.pc = "open"
    <3>1. PICK M : /\ OwnArcs(M, n, g.first, g.next, g.used)
                   /\ \A c \in 0 .. n - 1 : IF c < k THEN IsKept(L[c], M[c], vert, v) ELSE M[c] = L[c]
      BY <2>3, <2>5 DEF SweptUpTo
    <3>2. M[k] = L[k]
      BY <2>1, <3>1
    <3>3. /\ M[k] = <<>> => h.pc = "segv"
          /\ M[k] # <<>> => /\ h.pc = "open"
                            /\ \E K : /\ OwnArcs(K, n, h.first, h.next, h.used)
                                      /\ IsKept(M[k], K[k], vert, v)
                                      /\ \A c \in 0 .. n - 1 : c # k => K[c] = M[c]
      BY <2>1, <2>3, <2>5, <3>1, UnhookList
    <3>4. CASE M[k] = <<>>
      <4>1. SweptUpTo(h, L, n, k + 1, v)
        BY <2>1, <3>2, <3>3, <3>4 DEF SweptUpTo
      <4> QED
        BY <2>1, <2>2, <4>1
    <3>5. CASE M[k] # <<>>
      <4>1. PICK K : /\ OwnArcs(K, n, h.first, h.next, h.used)
                     /\ IsKept(M[k], K[k], vert, v)
                     /\ \A c \in 0 .. n - 1 : c # k => K[c] = M[c]
        BY <3>3, <3>5
      <4>2. ASSUME NEW c \in 0 .. n - 1
            PROVE  IF c < k + 1 THEN IsKept(L[c], K[c], vert, v) ELSE K[c] = L[c]
        <5>1. CASE c = k
          BY <2>1, <3>2, <4>1, <5>1
        <5>2. CASE c # k
          <6>1. K[c] = M[c] /\ (c < k + 1 <=> c < k)
            BY <2>1, <4>1, <5>2
          <6> QED
            BY <3>1, <6>1
        <5> QED
          BY <5>1, <5>2
      <4>3. SweptUpTo(h, L, n, k + 1, v)
        BY <3>3, <3>5, <4>1, <4>2 DEF SweptUpTo
      <4> QED
        BY <2>1, <2>2, <4>3
    <3> QED
      BY <3>4, <3>5
  <2> QED
    BY <2>3, <2>4, <2>5 DEF SweptUpTo
<1>4. Nat \subseteq S
  <2> HIDE DEF S
  <2> QED
    BY <1>1, <1>3, Induct
<1>5. n \in S
  BY <1>4
<1> QED
  BY <1>5

(***************************************************************************)
(* Taking the only arc to v out of a list takes v out of the vertices that *)
(* its arcs lead to, and no arc to v is left.                              *)
(***************************************************************************)
LEMMA KeptLed ==
  ASSUME Graph!TypeOK, VerticesDiffer, NEW v \in 0 .. nvert - 1,
         NEW p \in Seq(Arc), \A k \in 1 .. Len(p) : vert[p[k]] \in 0 .. nvert - 1,
         NEW q, IsKept(p, q, vert, v),
         ~Graph!Spared(Led(p, vert, data), data[v])
  PROVE  /\ Led(q, vert, data) = Graph!Without(Led(p, vert, data), data[v])
         /\ Len(q) \in Nat
         /\ \A k \in 1 .. Len(q) : vert[q[k]] \in 0 .. nvert - 1 /\ vert[q[k]] # v
<1>1. PICK s, x : s = Led(p, vert, data) /\ x = data[v]
  OBVIOUS
<1>2. /\ Len(p) \in Nat /\ Len(s) = Len(p) /\ DOMAIN s = 1 .. Len(p) /\ s \in Seq(Vertex)
      /\ \A k \in 1 .. Len(p) : s[k] = data[vert[p[k]]]
  <2>1. \A k \in 1 .. Len(p) : data[vert[p[k]]] \in Vertex
    BY DEF VerticesDiffer
  <2>2. s = [k \in 1 .. Len(p) |-> data[vert[p[k]]]] /\ Len(p) \in Nat
    BY <1>1 DEF Led
  <2> QED
    BY <2>1, <2>2
<1>3. \A k \in 1 .. Len(p) : s[k] = x <=> vert[p[k]] = v
  BY <1>1, <1>2 DEF VerticesDiffer
<1>4. \A k \in 2 .. Len(p) : s[k] = x => k <= 2 /\ s[1] # x
  BY <1>1, <1>2 DEF Graph!Spared
<1>5. Graph!Contains(s, x) <=> \E k \in 1 .. Len(p) : s[k] = x
  BY <1>2 DEF Graph!Contains
<1>6. CASE \A k \in 1 .. Len(p) : vert[p[k]] # v
  <2>1. q = p
    BY <1>6 DEF IsKept
  <2>2. ~Graph!Contains(s, x)
    BY <1>3, <1>5, <1>6
  <2>3. Graph!Without(s, x) = s
    BY <2>2 DEF Graph!Without
  <2> QED
    BY <1>1, <1>2, <1>6, <2>1, <2>3
<1>7. CASE \E k \in 1 .. Len(p) : vert[p[k]] = v
  <2>1. PICK k \in 1 .. Len(p) : vert[p[k]] = v
    BY <1>7
  <2>2. \A j \in 1 .. Len(p) : s[j] = x <=> j = k
    <3>1. ASSUME NEW j \in 1 .. Len(p), s[j] = x PROVE j = k
      <4>1. s[k] = x
        BY <1>3, <2>1
      <4>2. 1 \in 1 .. Len(p)
        BY <1>2
      <4>3. CASE j = 1
        <5>1. k = 1 \/ k \in 2 .. Len(p)
          BY <1>2
        <5> QED
          BY <1>4, <3>1, <4>1, <4>3, <5>1
      <4>4. CASE j # 1
        <5>1. j \in 2 .. Len(p)
          BY <1>2, <4>4
        <5>2. j = 2 /\ s[1] # x
          BY <1>2, <1>4, <3>1, <5>1
        <5>3. k \in 2 .. Len(p)
          BY <1>2, <4>1, <5>2
        <5>4. k = 2
          BY <1>2, <1>4, <4>1, <5>3
        <5> QED
          BY <5>2, <5>4
      <4> QED
        BY <4>3, <4>4
    <3> QED
      BY <1>3, <2>1, <3>1
  <2>3. k <= 2 /\ (k = 2 => vert[p[1]] # v)
    <3>1. k = 1 \/ k \in 2 .. Len(p)
      BY <1>2
    <3>2. s[k] = x
      BY <2>2
    <3>3. k \in 2 .. Len(p) => k <= 2 /\ s[1] # x
      BY <1>4, <3>2
    <3>4. 1 \in 1 .. Len(p)
      BY <1>2
    <3> QED
      BY <1>3, <3>1, <3>3, <3>4
  <2>4. q = RemoveAt(p, k)
    BY <2>1, <2>3 DEF IsKept
  <2>5. Graph!Without(s, x) = RemoveAt(s, k)
    <3>1. Graph!Contains(s, x)
      BY <1>5, <2>2
    <3>2. PICK j : j = CHOOSE m \in 1 .. Len(s) : s[m] = x
      OBVIOUS
    <3>3. j = k
      BY <1>2, <2>2, <3>2
    <3>4. Graph!RemoveAt(s, k) = RemoveAt(s, k)
      BY DEF Graph!RemoveAt, RemoveAt
    <3> QED
      BY <3>1, <3>2, <3>3, <3>4 DEF Graph!Without
  <2>6. /\ q \in Seq(Arc) /\ Len(q) = Len(p) - 1
        /\ \A j \in 1 .. k - 1 : q[j] = p[j]
        /\ \A j \in k .. Len(p) - 1 : q[j] = p[j + 1]
    BY <2>4, RemoveAtIs
  <2>7. PICK t : t = RemoveAt(s, k)
    OBVIOUS
  <2>8. /\ t \in Seq(Vertex) /\ Len(t) = Len(p) - 1
        /\ \A j \in 1 .. k - 1 : t[j] = s[j]
        /\ \A j \in k .. Len(p) - 1 : t[j] = s[j + 1]
    <3>1. k \in 1 .. Len(s)
      BY <1>2
    <3> QED
      BY <1>2, <2>7, <3>1, RemoveAtIs, Zenon
  <2>9. ASSUME NEW j \in 1 .. Len(q)
        PROVE  \E i \in 1 .. Len(p) : q[j] = p[i] /\ t[j] = s[i] /\ i # k
    <3>1. CASE j < k
      <4>1. j \in 1 .. k - 1 /\ j \in 1 .. Len(p) /\ j # k
        BY <1>2, <2>6, <3>1
      <4> QED
        BY <2>6, <2>8, <4>1
    <3>2. CASE j >= k
      <4>1. j \in k .. Len(p) - 1 /\ j + 1 \in 1 .. Len(p) /\ j + 1 # k
        BY <1>2, <2>6, <3>2
      <4> QED
        BY <2>6, <2>8, <4>1
    <3>3. j < k \/ j >= k
      BY <1>2, <2>6
    <3> QED
      BY <3>1, <3>2, <3>3
  <2>10. ASSUME NEW j \in 1 .. Len(q)
         PROVE  vert[q[j]] \in 0 .. nvert - 1 /\ vert[q[j]] # v /\ data[vert[q[j]]] = t[j]
    <3>1. PICK i \in 1 .. Len(p) : q[j] = p[i] /\ t[j] = s[i] /\ i # k
      BY <2>9
    <3>2. s[i] # x
      BY <2>2, <3>1
    <3>3. vert[p[i]] # v /\ s[i] = data[vert[p[i]]]
      BY <1>2, <1>3, <3>2
    <3> QED
      BY <3>1, <3>3
  <2>11. Led(q, vert, data) = t
    <3>1. PICK m \in Nat : m = Len(q)
      BY <2>6
    <3>2. t \in [1 .. m -> Vertex]
      <4>1. t \in [1 .. Len(t) -> Vertex] /\ Len(t) = m
        BY <2>6, <2>8, <3>1
      <4> QED
        BY <4>1
    <3>3. t = [j \in 1 .. m |-> t[j]]
      BY <3>2
    <3>4. Led(q, vert, data) = [j \in 1 .. m |-> t[j]]
      BY <2>10, <3>1 DEF Led
    <3> QED
      BY <3>3, <3>4
  <2>12. Len(q) \in Nat
    BY <2>6
  <2> QED
    BY <1>1, <2>5, <2>7, <2>10, <2>11, <2>12
<1> QED
  BY <1>6, <1>7

LEMMA MovedIs ==
  ASSUME Graph!TypeOK, NEW v \in 0 .. nvert - 1, NEW U, NEW f \in [Graph!Cells -> U]
  PROVE  /\ Graph!Moved(f, v) \in [Graph!Cells -> U]
         /\ \A c \in 0 .. nvert - 2 : Graph!Moved(f, v)[c] = IF c >= v THEN f[c + 1] ELSE f[c]
<1>1. nvert \in Nat /\ nvert <= MaxVertices /\ MaxVertices \in Nat
  BY GraphShape
<1>2. \A c \in v .. nvert - 2 : c + 1 \in Graph!Cells
  BY <1>1 DEF Graph!Cells
<1>3. Graph!Moved(f, v) \in [Graph!Cells -> U]
  BY <1>2 DEF Graph!Moved
<1>4. ASSUME NEW c \in 0 .. nvert - 2
      PROVE  Graph!Moved(f, v)[c] = IF c >= v THEN f[c + 1] ELSE f[c]
  <2>1. c \in Graph!Cells /\ (c \in v .. nvert - 2 <=> c >= v)
    BY <1>1 DEF Graph!Cells
  <2> QED
    BY <2>1 DEF Graph!Moved
<1> QED
  BY <1>3, <1>4

\* the lists of the vertices that stay, where they are moved to
LEMMA MovedLists ==
  ASSUME Graph!TypeOK, NEW v \in 0 .. nvert - 1, NEW n \in Nat, n = nvert - 1,
         NEW L, OwnArcs(L, nvert, first, next, used), NEW f, f = Graph!Moved(first, v)
  PROVE  \E M : /\ OwnArcs(M, n, f, next, used)
                /\ \A c \in 0 .. n - 1 : M[c] = IF c >= v THEN L[c + 1] ELSE L[c]
<1>1. nvert \in Nat
  BY GraphShape
<1>2. PICK at : at = [c \in 0 .. n - 1 |-> IF c >= v THEN c + 1 ELSE c]
  OBVIOUS
<1>3. /\ \A c \in 0 .. n - 1 : at[c] \in 0 .. nvert - 1 /\ at[c] = IF c >= v THEN c + 1 ELSE c
      /\ \A c, d \in 0 .. n - 1 : c # d => at[c] # at[d]
  BY <1>1, <1>2
<1>4. PICK M : M = [c \in 0 .. n - 1 |-> L[at[c]]]
  OBVIOUS
<1>5. \A c \in 0 .. n - 1 : f[c] = first[at[c]]
  <2>1. first \in [Graph!Cells -> Arc \cup {None}]
    BY GraphShape
  <2>2. \A c \in 0 .. nvert - 2 : f[c] = IF c >= v THEN first[c + 1] ELSE first[c]
    BY <2>1, MovedIs
  <2> QED
    BY <1>1, <1>3, <2>2
<1>6. OwnArcs(M, n, f, next, used)
  <2>1. ASSUME NEW c \in 0 .. n - 1
        PROVE  IsList(Arc, M[c], f[c], next) /\ NodesOf(M[c]) \subseteq used
    BY <1>3, <1>4, <1>5 DEF OwnArcs
  <2>2. ASSUME NEW c \in 0 .. n - 1, NEW d \in 0 .. n - 1, c # d
        PROVE  NodesOf(M[c]) \cap NodesOf(M[d]) = {}
    <3>1. at[c] # at[d] /\ at[c] \in 0 .. nvert - 1 /\ at[d] \in 0 .. nvert - 1
      BY <1>3, <2>2
    <3>2. NodesOf(L[at[c]]) \cap NodesOf(L[at[d]]) = {}
      BY <3>1 DEF OwnArcs
    <3> QED
      BY <1>4, <3>2
  <2> QED
    BY <2>1, <2>2 DEF OwnArcs
<1> QED
  BY <1>3, <1>4, <1>6

\* a history without its last element
LEMMA FrontIs ==
  ASSUME NEW s, NEW n \in Nat, DOMAIN s = 1 .. n + 1, Len(s) = n + 1,
         s = [j \in 1 .. n + 1 |-> s[j]]
  PROVE  /\ Len(Graph!Front(s)) = n /\ \A j \in 1 .. n : Graph!Front(s)[j] = s[j]
         /\ Graph!Last(s) = s[n + 1]
<1>1. PICK T : T = {s[j] : j \in 1 .. n + 1}
  OBVIOUS
<1>2. s \in Seq(T)
  <2>1. s \in [1 .. n + 1 -> T]
    BY <1>1
  <2> QED
    BY <2>1
<1>3. /\ SubSeq(s, 1, n) \in Seq(T) /\ Len(SubSeq(s, 1, n)) = n
      /\ \A j \in 1 .. n : SubSeq(s, 1, n)[j] = s[j]
  <2>1. n \in 0 .. Len(s)
    OBVIOUS
  <2> QED
    BY <1>2, <2>1, PrefixIs
<1>4. Graph!Front(s) = SubSeq(s, 1, n)
  <2>1. Len(s) - 1 = n
    OBVIOUS
  <2> QED
    BY <2>1 DEF Graph!Front
<1>5. Graph!Last(s) = s[n + 1]
  BY DEF Graph!Last
<1> QED
  BY <1>3, <1>4, <1>5

\* what else the list had it still has
LEMMA WithoutKeeps ==
  ASSUME NEW T, NEW list \in Seq(T), NEW x, NEW z, z # x, Graph!Contains(list, z)
  PROVE  Graph!Contains(Graph!Without(list, x), z)
<1>1. CASE ~Graph!Contains(list, x)
  BY <1>1 DEF Graph!Without
<1>2. CASE Graph!Contains(list, x)
  <2>0. PICK l \in Nat : l = Len(list)
    OBVIOUS
  <2>1. PICK hit : hit = CHOOSE k \in 1 .. Len(list) : list[k] = x
    OBVIOUS
  <2>2. hit \in 1 .. l /\ list[hit] = x /\ Graph!Without(list, x) = Graph!RemoveAt(list, hit)
    BY <1>2, <2>0, <2>1 DEF Graph!Contains, Graph!Without
  <2>3. PICK k \in 1 .. l : list[k] = z
    BY <2>0 DEF Graph!Contains
  <2>4. Graph!RemoveAt(list, hit) = RemoveAt(list, hit)
    BY DEF Graph!RemoveAt, RemoveAt
  <2>5. PICK r : r = RemoveAt(list, hit)
    OBVIOUS
  <2>6. /\ Len(r) = l - 1
        /\ \A j \in 1 .. hit - 1 : r[j] = list[j]
        /\ \A j \in hit .. l - 1 : r[j] = list[j + 1]
    BY <2>0, <2>2, <2>5, RemoveAtIs
  <2>7. k # hit
    BY <2>2, <2>3
  <2>8. CASE k < hit
    <3>1. k \in 1 .. hit - 1 /\ k \in 1 .. l - 1
      BY <2>2, <2>8
    <3> QED
      BY <2>2, <2>3, <2>4, <2>5, <2>6, <3>1 DEF Graph!Contains
  <2>9. CASE k > hit
    <3>1. k - 1 \in hit .. l - 1 /\ k - 1 \in 1 .. l - 1 /\ (k - 1) + 1 = k
      BY <2>2, <2>9
    <3>2. r[k - 1] = z
      BY <2>3, <2>6, <3>1
    <3> QED
      BY <2>2, <2>4, <2>5, <2>6, <3>1, <3>2 DEF Graph!Contains
  <2> QED
    BY <2>2, <2>7, <2>8, <2>9
<1> QED
  BY <1>1, <1>2

LEMMA GraphDeleteVertex ==
  ASSUME GraphInv, NEW x, Graph!DeleteVertex(x)
  PROVE  GraphInv'
<1>0. /\ Graph!TypeOK /\ VerticesDiffer
      /\ pc = "open" /\ ~Graph!Missing(x) /\ reused' = reused
  BY DEF GraphInv, Graph!DeleteVertex
<1>a. PICK at, end :
        /\ at = Graph!IndexOf(x) /\ end = Graph!Cut(at)
        /\ data' = Graph!Moved(data, at) /\ nvert' = nvert - 1
        /\ first' = end.first /\ used' = end.used /\ pc' = end.pc
        /\ next' = [a \in Arc |-> IF a \in end.used THEN end.next[a] ELSE None]
        /\ vert' = [a \in Arc |-> IF a \in end.used THEN vert[a] ELSE None]
  BY DEF Graph!DeleteVertex
<1>1. PICK v \in 0 .. nvert - 1 : v = at /\ data[v] = x
  BY <1>0, <1>a, GraphIndex
<1>2. PICK n \in Nat : n = nvert - 1 /\ nvert = n + 1 /\ nvert - 2 = n - 1 /\ n < MaxVertices
  <2>1. nvert \in Nat /\ nvert <= MaxVertices /\ MaxVertices \in Nat
    BY <1>0, GraphShape
  <2>2. nvert - 1 \in Nat /\ nvert - 1 < MaxVertices /\ nvert = (nvert - 1) + 1 /\ nvert - 2 = (nvert - 1) - 1
    BY <2>1
  <2> QED
    BY <2>2
<1>3. PICK start : start = [first |-> Graph!Moved(first, v), next |-> next, used |-> used, pc |-> "open"]
  OBVIOUS
<1>4. PICK w : w = CHOOSE f : f = [i \in -1 .. n - 1 |-> IF i = -1 THEN start ELSE Graph!Unhook(f[i - 1], i, v)]
  OBVIOUS
<1>5. PICK after : after = w[n - 1]
  OBVIOUS
<1>6. /\ data' = Graph!Moved(data, v) /\ nvert' = n
      /\ first' = after.first /\ used' = after.used /\ pc' = after.pc
      /\ next' = [a \in Arc |-> IF a \in after.used THEN after.next[a] ELSE None]
      /\ vert' = [a \in Arc |-> IF a \in after.used THEN vert[a] ELSE None]
  <2>1. Graph!Cut(v) = w[n - 1]
    <3>1. nvert - 2 = n - 1
      BY <1>2
    <3>2. Graph!Cut(v) = (CHOOSE f : f = [i \in -1 .. nvert - 2 |->
                            IF i = -1 THEN [first |-> Graph!Moved(first, v), next |-> next,
                                            used |-> used, pc |-> "open"]
                            ELSE Graph!Unhook(f[i - 1], i, v)])[nvert - 2]
      BY Zenon DEF Graph!Cut
    <3> QED
      BY <1>3, <1>4, <3>1, <3>2, Zenon
  <2>2. after = end
    BY <1>a, <1>1, <1>5, <2>1
  <2> QED
    BY <1>a, <1>1, <1>2, <2>2
<1>7. PICK others : others = Graph!Front(items)
  OBVIOUS
<1>8. /\ stale' = \/ stale
                  \/ Graph!Last(items).vertex # x
                  \/ \E j \in 1 .. Len(others) : Graph!Spared(others[j].arcs, x)
      /\ items' = IF stale' THEN <<>>
                  ELSE [j \in 1 .. Len(others) |-> [others[j] EXCEPT !.arcs = Graph!Without(@, x)]]
  BY <1>7 DEF Graph!DeleteVertex, Graph!Follow
<1>r. removed' = IF stale' THEN {} ELSE {a \in removed : x \notin {a[1], a[2]}}
  BY DEF Graph!DeleteVertex, Graph!Follow
<1>9. start \in Sweeping /\ start.pc = "open" /\ start.first = Graph!Moved(first, v)
      /\ start.next = next /\ start.used = used
  <2>1. first \in [Graph!Cells -> Arc \cup {None}] /\ next \in [Arc -> Arc \cup {None}] /\ used \subseteq Arc
    BY <1>0, GraphShape
  <2>2. Graph!Moved(first, v) \in [Graph!Cells -> Arc \cup {None}]
    BY <1>0, <2>1, MovedIs
  <2> QED
    BY <1>3, <2>1, <2>2 DEF Sweeping
<1>10. Swept(w, start, n - 1, v)
  <2>1. n - 1 \in Int /\ n - 1 >= -1
    OBVIOUS
  <2> QED
    BY <1>4, <1>9, <2>1, Sweeps
<1>11. after \in Sweeping
  <2>1. n - 1 \in Int /\ n - 1 >= -1 /\ n - 1 \in -1 .. n - 1
    OBVIOUS
  <2> QED
    BY <1>5, <1>9, <1>10, <2>1, SweptTypes
<1>12. /\ data \in [Graph!Cells -> Vertex \cup {None}] /\ vert \in [Arc -> Graph!Cells \cup {None}]
       /\ data' \in [Graph!Cells -> Vertex \cup {None}]
       /\ \A c \in 0 .. n - 1 : data'[c] = IF c >= v THEN data[c + 1] ELSE data[c]
  <2>1. data \in [Graph!Cells -> Vertex \cup {None}] /\ vert \in [Arc -> Graph!Cells \cup {None}]
    BY <1>0, GraphShape
  <2>2. PICK U, f, g : U = Vertex \cup {None} /\ f = data /\ g = data'
    OBVIOUS
  <2>3. f \in [Graph!Cells -> U] /\ g = Graph!Moved(f, v)
    BY <1>6, <2>1, <2>2
  <2>4. /\ Graph!Moved(f, v) \in [Graph!Cells -> U]
        /\ \A c \in 0 .. nvert - 2 : Graph!Moved(f, v)[c] = IF c >= v THEN f[c + 1] ELSE f[c]
    BY <1>0, <2>3, MovedIs
  <2> QED
    BY <1>2, <2>1, <2>2, <2>3, <2>4
<1>13. stale \in BOOLEAN /\ reused \in BOOLEAN /\ stale' \in BOOLEAN
  BY <1>0, <1>8 DEF Graph!TypeOK
<1>14. Graph!TypeOK'
  <2>1. first' \in [Graph!Cells -> Arc \cup {None}] /\ used' \subseteq Arc /\ pc' \in {"open", "segv", "wild", "hang"}
    BY <1>6, <1>11 DEF Sweeping
  <2>2. next' \in [Arc -> Arc \cup {None}] /\ vert' \in [Arc -> Graph!Cells \cup {None}]
    BY <1>6, <1>11, <1>12 DEF Sweeping
  <2>3. nvert' \in 0 .. MaxVertices
    BY <1>2, <1>6, Sizes
  <2>4. removed' \subseteq Vertex \X Vertex
    BY <1>0, <1>r DEF Graph!TypeOK
  <2> QED
    BY <1>0, <1>12, <1>13, <2>1, <2>2, <2>3, <2>4 DEF Graph!TypeOK, Graph!Cells
<1>15. VerticesDiffer'
  <2> SUFFICES ASSUME NEW c \in 0 .. n - 1
               PROVE  data'[c] \in Vertex /\ \A d \in 0 .. n - 1 : c # d => data'[c] # data'[d]
    BY <1>6 DEF VerticesDiffer
  <2>1. PICK from : from = [d \in 0 .. n - 1 |-> IF d >= v THEN d + 1 ELSE d]
    OBVIOUS
  <2>2. /\ \A d \in 0 .. n - 1 : from[d] \in 0 .. nvert - 1 /\ data'[d] = data[from[d]]
        /\ \A d \in 0 .. n - 1 : c # d => from[c] # from[d]
    BY <1>2, <1>12, <2>1
  <2> QED
    BY <1>0, <2>2 DEF VerticesDiffer
<1>16. ASSUME NEW L, OwnArcs(L, nvert, first, next, used)
       PROVE  \E K : /\ \A c \in 0 .. n - 1 : K[c] = IF c >= v THEN L[c + 1] ELSE L[c]
                     /\ SweptUpTo(after, K, n, n, v)
  <2>1. PICK K : /\ OwnArcs(K, n, start.first, start.next, start.used)
                 /\ \A c \in 0 .. n - 1 : K[c] = IF c >= v THEN L[c + 1] ELSE L[c]
    <3>1. PICK f : f = Graph!Moved(first, v)
      OBVIOUS
    <3>2. \E K : /\ OwnArcs(K, n, f, next, used)
                 /\ \A c \in 0 .. n - 1 : K[c] = IF c >= v THEN L[c + 1] ELSE L[c]
      BY <1>0, <1>2, <1>16, <3>1, MovedLists
    <3> QED
      BY <1>9, <3>1, <3>2
  <2>2. n <= MaxVertices
    BY <1>2, Sizes
  <2>3. SweptUpTo(after, K, n, n, v)
    BY <1>5, <1>9, <1>10, <2>1, <2>2, SweptLists
  <2> QED
    BY <2>1, <2>3
<1>17. pc' = "wild" => reused'
  <2> SUFFICES ASSUME ~reused PROVE after.pc # "wild"
    BY <1>0, <1>6
  <2>1. PICK L : OwnArcs(L, nvert, first, next, used)
    BY <1>0, GraphOpen
  <2>2. \E K : SweptUpTo(after, K, n, n, v)
    BY <1>16, <2>1
  <2> QED
    BY <2>2 DEF SweptUpTo
<1>18. ASSUME ~stale'
       PROVE  /\ ~reused /\ ~stale /\ v = n
              /\ \A L : AsAsked(L) => /\ Len(others) = n
                                      /\ \A c \in 0 .. n - 1 :
                                           /\ c + 1 \in 1 .. n
                                           /\ others[c + 1] = [vertex |-> data[c], arcs |-> Led(L[c], vert, data)]
                                           /\ ~Graph!Spared(Led(L[c], vert, data), x)
  <2>1. /\ ~stale /\ Graph!Last(items).vertex = x
        /\ \A j \in 1 .. Len(others) : ~Graph!Spared(others[j].arcs, x)
    BY <1>8, <1>18
  <2>2. ~reused
    BY <2>1 DEF GraphInv
  <2>3. ASSUME NEW L, AsAsked(L)
        PROVE  /\ v = n /\ Len(others) = n
               /\ \A c \in 0 .. n - 1 : /\ c + 1 \in 1 .. n
                                        /\ others[c + 1] = [vertex |-> data[c], arcs |-> Led(L[c], vert, data)]
                                        /\ ~Graph!Spared(Led(L[c], vert, data), x)
    <3>1. /\ Len(items) = n + 1 /\ DOMAIN items = 1 .. n + 1
          /\ items = [j \in 1 .. n + 1 |-> [vertex |-> data[j - 1], arcs |-> Led(L[j - 1], vert, data)]]
      BY <1>0, <1>2, <2>3, AskedShape DEF AsAsked
    <3>2. items = [j \in 1 .. n + 1 |-> items[j]]
      BY <3>1
    <3>3. /\ Len(others) = n /\ \A j \in 1 .. n : others[j] = items[j]
          /\ Graph!Last(items) = items[n + 1]
      BY <1>7, <3>1, <3>2, FrontIs
    <3>4. items[n + 1].vertex = data[n]
      <4>1. n + 1 \in 1 .. n + 1 /\ (n + 1) - 1 = n
        OBVIOUS
      <4> QED
        BY <3>1, <4>1
    <3>5. v = n
      <4>1. n \in 0 .. nvert - 1 /\ data[n] = data[v]
        BY <1>1, <1>2, <2>1, <3>3, <3>4
      <4> QED
        BY <1>0, <4>1 DEF VerticesDiffer
    <3>6. ASSUME NEW c \in 0 .. n - 1
          PROVE  /\ c + 1 \in 1 .. n
                 /\ others[c + 1] = [vertex |-> data[c], arcs |-> Led(L[c], vert, data)]
                 /\ ~Graph!Spared(Led(L[c], vert, data), x)
      <4>1. c + 1 \in 1 .. n /\ c + 1 \in 1 .. n + 1 /\ (c + 1) - 1 = c
        OBVIOUS
      <4>2. others[c + 1] = [vertex |-> data[c], arcs |-> Led(L[c], vert, data)]
        BY <3>1, <3>3, <4>1
      <4>3. others[c + 1].arcs = Led(L[c], vert, data)
        BY <4>2
      <4>4. ~Graph!Spared(others[c + 1].arcs, x)
        BY <2>1, <3>3, <4>1
      <4> QED
        BY <4>1, <4>2, <4>3, <4>4
    <3> QED
      BY <3>3, <3>5, <3>6
  <2>4. \E L : AsAsked(L)
    BY <1>0, <2>1, <2>2, GraphOpen
  <2> QED
    BY <2>1, <2>2, <2>3, <2>4
<1>19. pc' = "segv" /\ ~stale' => \E j \in 1 .. Len(items') : items'[j].arcs = <<>>
  <2> SUFFICES ASSUME after.pc = "segv", ~stale' PROVE \E j \in 1 .. Len(items') : items'[j].arcs = <<>>
    BY <1>6
  <2>1. ~reused /\ ~stale /\ v = n
    BY <1>18
  <2>2. PICK L : OwnArcs(L, nvert, first, next, used) /\ AsAsked(L)
    BY <1>0, <2>1, GraphOpen
  <2>3. PICK K : /\ \A c \in 0 .. n - 1 : K[c] = IF c >= v THEN L[c + 1] ELSE L[c]
                 /\ SweptUpTo(after, K, n, n, v)
    BY <1>16, <2>2
  <2>4. PICK c \in 0 .. n - 1 : K[c] = <<>>
    BY <2>3 DEF SweptUpTo
  <2>5. L[c] = <<>>
    BY <2>1, <2>3, <2>4
  <2>6. Len(others) = n /\ c + 1 \in 1 .. n /\ others[c + 1] = [vertex |-> data[c], arcs |-> Led(L[c], vert, data)]
    BY <1>18, <2>2
  <2>7. Led(L[c], vert, data) = <<>>
    BY <2>5 DEF Led
  <2>8. Graph!Without(<<>>, x) = <<>>
    BY DEF Graph!Without, Graph!Contains
  <2>9. items' = [j \in 1 .. n |-> [others[j] EXCEPT !.arcs = Graph!Without(@, x)]]
    BY <1>8, <2>6
  <2>10. items'[c + 1].arcs = <<>>
    BY <2>6, <2>7, <2>8, <2>9
  <2>11. Len(items') = n
    BY <2>9
  <2> QED
    BY <2>6, <2>10, <2>11
<1>20. ASSUME pc' = "open", ~reused
       PROVE  \E L : OwnArcs(L, nvert, first, next, used)' /\ (~stale' => AsAsked(L)')
  <2>1. PICK L : OwnArcs(L, nvert, first, next, used) /\ (~stale => AsAsked(L))
    BY <1>0, <1>20, GraphOpen
  <2>2. PICK K : /\ \A c \in 0 .. n - 1 : K[c] = IF c >= v THEN L[c + 1] ELSE L[c]
                 /\ SweptUpTo(after, K, n, n, v)
    BY <1>16, <2>1
  <2>3. PICK M : /\ OwnArcs(M, n, after.first, after.next, after.used)
                 /\ \A c \in 0 .. n - 1 : IsKept(K[c], M[c], vert, v)
    <3>1. after.pc = "open"
      BY <1>6, <1>20
    <3>2. PICK M : /\ OwnArcs(M, n, after.first, after.next, after.used)
                   /\ \A c \in 0 .. n - 1 : IF c < n THEN IsKept(K[c], M[c], vert, v) ELSE M[c] = K[c]
      BY <2>2, <3>1 DEF SweptUpTo
    <3>3. \A c \in 0 .. n - 1 : c < n
      OBVIOUS
    <3> QED
      BY <3>2, <3>3
  <2>4. \A a \in after.used : a \in Arc /\ next'[a] = after.next[a] /\ vert'[a] = vert[a]
    BY <1>6, <1>11 DEF Sweeping
  <2>5. ASSUME NEW c \in 0 .. n - 1
        PROVE  IsList(Arc, M[c], first'[c], next') /\ NodesOf(M[c]) \subseteq used'
    <3>1. PICK nx, nx2, h : nx = after.next /\ nx2 = next' /\ h = first'[c]
      OBVIOUS
    <3>2. IsList(Arc, M[c], h, nx) /\ NodesOf(M[c]) \subseteq after.used
      BY <1>6, <2>3, <3>1 DEF OwnArcs
    <3>3. \A a \in NodesOf(M[c]) : nx2[a] = nx[a]
      BY <2>4, <3>1, <3>2
    <3>4. IsList(Arc, M[c], h, nx2)
      BY <3>2, <3>3, ListStays
    <3> QED
      BY <1>6, <3>1, <3>2, <3>4
  <2>6. OwnArcs(M, nvert, first, next, used)'
    <3>1. \A c, d \in 0 .. n - 1 : c # d => NodesOf(M[c]) \cap NodesOf(M[d]) = {}
      BY <2>3 DEF OwnArcs
    <3> QED
      BY <1>6, <2>5, <3>1 DEF OwnArcs
  <2>7. ASSUME ~stale' PROVE AsAsked(M)'
    <3>1. ~stale /\ v = n
      BY <1>18, <2>7
    <3>2. AsAsked(L)
      BY <2>1, <3>1
    <3>3. /\ Len(others) = n
          /\ \A c \in 0 .. n - 1 : /\ c + 1 \in 1 .. n
                                   /\ others[c + 1] = [vertex |-> data[c], arcs |-> Led(L[c], vert, data)]
                                   /\ ~Graph!Spared(Led(L[c], vert, data), x)
      BY <1>18, <2>7, <3>2
    <3>4. \A c \in 0 .. n - 1 : K[c] = L[c] /\ data'[c] = data[c] /\ c \in 0 .. nvert - 1
      BY <1>2, <1>12, <2>2, <3>1
    <3>5. ASSUME NEW c \in 0 .. n - 1
          PROVE  /\ Led(M[c], vert, data) = Graph!Without(Led(L[c], vert, data), x)
                 /\ Len(M[c]) \in Nat
                 /\ \A k \in 1 .. Len(M[c]) : /\ M[c][k] \in after.used
                                              /\ vert[M[c][k]] \in 0 .. nvert - 1 /\ vert[M[c][k]] # v
      <4>1. PICK p, q : p = L[c] /\ q = M[c]
        OBVIOUS
      <4>2. p \in Seq(Arc) /\ \A k \in 1 .. Len(p) : vert[p[k]] \in 0 .. nvert - 1
        BY <1>0, <2>1, <3>2, <3>4, <4>1, GraphHas DEF AsAsked
      <4>3. IsKept(p, q, vert, v) /\ ~Graph!Spared(Led(p, vert, data), data[v])
        BY <1>1, <2>3, <3>3, <3>4, <4>1
      <4>4. /\ Led(q, vert, data) = Graph!Without(Led(p, vert, data), data[v])
            /\ Len(q) \in Nat
            /\ \A k \in 1 .. Len(q) : vert[q[k]] \in 0 .. nvert - 1 /\ vert[q[k]] # v
        BY <1>0, <4>2, <4>3, KeptLed
      <4>5. \A k \in 1 .. Len(q) : q[k] \in after.used
        BY <2>3, <4>1 DEF OwnArcs, NodesOf
      <4> QED
        BY <1>1, <4>1, <4>4, <4>5
    <3>6. ASSUME NEW c \in 0 .. n - 1, NEW k \in 1 .. Len(M[c])
          PROVE  vert'[M[c][k]] \in 0 .. n - 1 /\ data'[vert'[M[c][k]]] = data[vert[M[c][k]]]
      <4>1. vert'[M[c][k]] = vert[M[c][k]] /\ vert[M[c][k]] \in 0 .. nvert - 1 /\ vert[M[c][k]] # v
        BY <2>4, <3>5
      <4>2. vert[M[c][k]] \in 0 .. n - 1
        BY <1>2, <3>1, <4>1
      <4> QED
        BY <3>4, <4>1, <4>2
    <3>7. ASSUME NEW c \in 0 .. n - 1
          PROVE  Led(M[c], vert', data') = Graph!Without(Led(L[c], vert, data), x)
      <4>1. Led(M[c], vert', data') = Led(M[c], vert, data)
        BY <3>5, <3>6 DEF Led
      <4> QED
        BY <3>5, <4>1
    <3>8. ASSUME NEW j \in 1 .. n
          PROVE  [others[j] EXCEPT !.arcs = Graph!Without(@, x)]
                 = [vertex |-> data'[j - 1], arcs |-> Led(M[j - 1], vert', data')]
      <4>1. PICK c \in 0 .. n - 1 : c = j - 1 /\ c + 1 = j
        <5>1. j - 1 \in 0 .. n - 1 /\ (j - 1) + 1 = j
          OBVIOUS
        <5> QED
          BY <5>1
      <4>2. PICK s : s = Led(L[c], vert, data)
        OBVIOUS
      <4>3. others[j] = [vertex |-> data[c], arcs |-> s]
        BY <3>3, <4>1, <4>2
      <4>4. [others[j] EXCEPT !.arcs = Graph!Without(@, x)] = [vertex |-> data[c], arcs |-> Graph!Without(s, x)]
        BY <4>3
      <4>5. Led(M[c], vert', data') = Graph!Without(s, x) /\ data'[c] = data[c]
        BY <3>4, <3>7, <4>2
      <4> QED
        BY <4>1, <4>4, <4>5
    <3>9. items' = [j \in 1 .. n |-> [vertex |-> data'[j - 1], arcs |-> Led(M[j - 1], vert', data')]]
      BY <1>8, <2>7, <3>3, <3>8
    <3> QED
      BY <1>6, <3>6, <3>9 DEF AsAsked
  <2> QED
    BY <2>6, <2>7
<1>21. pc' # "hang"
  BY <1>6, <1>11 DEF Sweeping
<1>22. (reused' => stale') /\ (stale' => items' = <<>> /\ removed' = {})
  BY <1>0, <1>8, <1>r DEF GraphInv
<1>23. RemovedAsked'
  <2> SUFFICES ASSUME NEW y \in Vertex, NEW z \in Vertex, <<y, z>> \in removed', ~stale'
               PROVE  HasArc(items', y, z)
    BY <1>r DEF RemovedAsked
  <2>1. /\ ~stale /\ <<y, z>> \in removed /\ x # y /\ x # z
        /\ Graph!Last(items).vertex = x
    BY <1>8, <1>r
  <2>2. PICK j \in 1 .. Len(items) : items[j].vertex = y /\ Graph!Contains(items[j].arcs, z)
    BY <2>1 DEF GraphInv, RemovedAsked, HasArc
  <2>3. /\ Len(items) = n + 1 /\ j \in 1 .. n + 1 /\ items = [k \in 1 .. n + 1 |-> items[k]]
        /\ items[j] = [vertex |-> y, arcs |-> items[j].arcs]
        /\ items[j].arcs \in Seq(Vertex)
    BY <1>0, <1>2, <2>1, <2>2, AskedLists
  <2>4. /\ Len(others) = n /\ \A k \in 1 .. n : others[k] = items[k]
        /\ Graph!Last(items) = items[n + 1]
    <3>1. DOMAIN items = 1 .. n + 1
      BY <2>3
    <3> QED
      BY <1>7, <2>3, <3>1, FrontIs
  <2>5. j \in 1 .. n
    <3>1. j # n + 1
      BY <2>1, <2>2, <2>4
    <3> QED
      BY <2>3, <3>1
  <2>6. PICK list : list = items[j].arcs
    OBVIOUS
  <2>7. others[j] = [vertex |-> y, arcs |-> list]
    BY <2>3, <2>4, <2>5, <2>6
  <2>8. items' = [k \in 1 .. n |-> [others[k] EXCEPT !.arcs = Graph!Without(@, x)]]
    BY <1>8, <2>4
  <2>9. items'[j] = [vertex |-> y, arcs |-> Graph!Without(list, x)] /\ Len(items') = n
    BY <2>5, <2>7, <2>8
  <2>10. Graph!Contains(Graph!Without(list, x), z)
    BY <2>1, <2>2, <2>3, <2>6, WithoutKeeps
  <2> QED
    BY <2>5, <2>9, <2>10 DEF HasArc
<1> QED
  BY <1>0, <1>14, <1>15, <1>17, <1>19, <1>20, <1>21, <1>22, <1>23 DEF GraphInv

LEMMA GraphStep == GraphInv /\ Graph!Next => GraphInv'
<1> SUFFICES ASSUME GraphInv, Graph!Next PROVE GraphInv'
  OBVIOUS
<1>1. ASSUME NEW x \in Vertex, Graph!InsertVertex(x) PROVE GraphInv'
  BY <1>1, GraphInsertVertex
<1>2. ASSUME NEW x \in Vertex, Graph!DeleteVertex(x) PROVE GraphInv'
  BY <1>2, GraphDeleteVertex
<1>3. ASSUME NEW x \in Vertex, NEW y \in Vertex, Graph!RemoveArc(x, y) PROVE GraphInv'
  BY <1>3, GraphRemoveArc
<1>4. ASSUME NEW x \in Vertex, NEW y \in Vertex, Graph!AddArc(x, y) PROVE GraphInv'
  BY <1>4, GraphAddArc
<1>5. ASSUME NEW x \in Vertex, NEW y \in Vertex, Graph!AddToBroken(x, y) PROVE GraphInv'
  BY <1>5, GraphAddToBroken
<1>6. ASSUME NEW x \in Vertex, NEW y \in Vertex, Graph!GetArc(x, y) PROVE GraphInv'
  BY <1>6, GraphGetArc
<1>7. ASSUME NEW x \in Vertex, NEW y \in Vertex, Graph!Adjacent(x, y) PROVE GraphInv'
  BY <1>7, GraphAdjacent
<1> QED
  BY <1>1, <1>2, <1>3, <1>4, <1>5, <1>6, <1>7 DEF Graph!Next
-----------------------------------------------------------------------------
(***************************************************************************)
(* The suite: each part keeps its invariant while it runs, and shares      *)
(* nothing with the others but the names of the variables.                 *)
(***************************************************************************)
SuiteInv == \/ which = "single" /\ SingleInv
            \/ which = "double" /\ DoubleInv
            \/ which = "array" /\ ArrayInv
            \/ which = "graph" /\ GraphInv

LEMMA SuiteStutters == SuiteInv /\ UNCHANGED vars => SuiteInv'
<1> SUFFICES ASSUME SuiteInv, UNCHANGED vars PROVE SuiteInv'
  OBVIOUS
<1>0. UNCHANGED <<which, data, pc, items, next, used, stale, length, out, head, tail, kept, prev, middle,
                  nvert, first, vert, reused, removed>>
  BY DEF vars, heap, lists, linkedOnly, doubleOnly, graphOnly
<1>1. SingleInv => SingleInv'
  <2>1. Single!TypeOK => Single!TypeOK'
    BY <1>0 DEF Single!TypeOK
  <2>2. \A p : Holds(p) => Holds(p)'
    BY <1>0 DEF Holds
  <2>3. /\ Single!LengthDrifts => Single!LengthDrifts'
        /\ Single!CrashNeedsDrift => Single!CrashNeedsDrift'
        /\ Single!AtIsOneBefore => Single!AtIsOneBefore'
    BY <1>0 DEF Single!LengthDrifts, Single!CrashNeedsDrift, Single!AtIsOneBefore
  <2> QED
    BY <1>0, <2>1, <2>2, <2>3 DEF SingleInv
<1>2. DoubleInv => DoubleInv'
  <2>1. Double!TypeOK => Double!TypeOK'
    BY <1>0 DEF Double!TypeOK
  <2>2. Holds(items) => Holds(items)'
    BY <1>0 DEF Holds
  <2>3. BackLinks => BackLinks'
    BY <1>0 DEF BackLinks, Double!BackLink
  <2>4. /\ Double!CrashNeedsDrift => Double!CrashNeedsDrift'
        /\ Single!AtIsOneBefore => Single!AtIsOneBefore'
    BY <1>0 DEF Double!CrashNeedsDrift, Single!AtIsOneBefore
  <2> QED
    BY <1>0, <2>1, <2>2, <2>3, <2>4 DEF DoubleInv
<1>3. ArrayInv => ArrayInv'
  <2>1. Array!TypeOK => Array!TypeOK'
    BY <1>0 DEF Array!TypeOK
  <2>2. Array!FollowsItems => Array!FollowsItems'
    BY <1>0 DEF Array!FollowsItems
  <2>3. Array!CrashAtEnd => Array!CrashAtEnd'
    BY <1>0 DEF Array!CrashAtEnd
  <2>4. Array!MissesLast => Array!MissesLast'
    BY <1>0 DEF Array!MissesLast
  <2> QED
    BY <2>1, <2>2, <2>3, <2>4 DEF ArrayInv
<1>4. GraphInv => GraphInv'
  <2>1. Graph!TypeOK => Graph!TypeOK'
    BY <1>0 DEF Graph!TypeOK
  <2>2. VerticesDiffer => VerticesDiffer'
    BY <1>0 DEF VerticesDiffer
  <2>3. \A L : OwnArcs(L, nvert, first, next, used) => OwnArcs(L, nvert, first, next, used)'
    BY <1>0
  <2>4. \A L : AsAsked(L) => AsAsked(L)'
    BY <1>0 DEF AsAsked
  <2>5. RemovedAsked => RemovedAsked'
    BY <1>0 DEF RemovedAsked, HasArc
  <2> QED
    BY <1>0, <2>1, <2>2, <2>3, <2>4, <2>5 DEF GraphInv
<1> QED
  BY <1>0, <1>1, <1>2, <1>3, <1>4 DEF SuiteInv

LEMMA SuiteStep == SuiteInv /\ [Next]_vars => SuiteInv'
<1> SUFFICES ASSUME SuiteInv, Next PROVE SuiteInv'
  BY SuiteStutters
<1>1. CASE SingleNext
  BY <1>1, SingleStep DEF SuiteInv, SingleNext
<1>2. CASE DoubleNext
  BY <1>2, DoubleStep DEF SuiteInv, DoubleNext
<1>3. CASE ArrayNext
  BY <1>3, ArrayStep DEF SuiteInv, ArrayNext
<1>4. CASE GraphNext
  BY <1>4, GraphStep DEF SuiteInv, GraphNext
<1> QED
  BY <1>1, <1>2, <1>3, <1>4 DEF Next

LEMMA SuiteInvariant == Spec => []SuiteInv
<1>1. Init => SuiteInv
  BY SingleStarts, DoubleStarts, ArrayStarts, GraphStarts DEF Init, SuiteInv
<1> QED
  BY <1>1, SuiteStep, PTL DEF Spec

(***************************************************************************)
(* Whatever the calls, the fields and the nodes of the three lists and of  *)
(* the graph stay of their types, for any number of nodes, values and      *)
(* cells.                                                                  *)
(***************************************************************************)
THEOREM TypesKept == Spec => []TypeOK
<1>1. SuiteInv => TypeOK
  BY DEF SuiteInv, TypeOK, SingleInv, DoubleInv, ArrayInv, GraphInv
<1> QED
  BY SuiteInvariant, <1>1, PTL

(***************************************************************************)
(* Each list, and the adjacency lists of the graph, hold what the calls    *)
(* have asked for, as long as no call has acted on another element than    *)
(* its index names; the links of dlinked_list.c go back as they go forth   *)
(* but at or after a node inserted in the middle.                          *)
(***************************************************************************)
THEOREM ItemsFollowed == Spec => []FollowsItems
<1>1. SuiteInv => FollowsItems
  <2> SUFFICES ASSUME SuiteInv PROVE FollowsItems
    OBVIOUS
  <2>1. CASE which = "single" /\ SingleInv
    BY <2>1, SingleFollows DEF FollowsItems
  <2>2. CASE which = "double" /\ DoubleInv
    BY <2>2, DoubleFollows DEF FollowsItems
  <2>3. CASE which = "array" /\ ArrayInv
    BY <2>3 DEF FollowsItems, ArrayInv
  <2>4. CASE which = "graph" /\ GraphInv
    BY <2>4, GraphFollows DEF FollowsItems
  <2> QED
    BY <2>1, <2>2, <2>3, <2>4 DEF SuiteInv
<1> QED
  BY SuiteInvariant, <1>1, PTL

(***************************************************************************)
(* The length field of the linked lists exceeds the number of elements by  *)
(* the deletes at the head or the tail that forgot length--, and by no     *)
(* other call's doing.                                                     *)
(***************************************************************************)
THEOREM DriftCounted == Spec => []LengthDrifts
<1>1. SuiteInv => LengthDrifts
  BY DEF SuiteInv, LengthDrifts, SingleInv, DoubleInv, Single!LengthDrifts
<1> QED
  BY SuiteInvariant, <1>1, PTL

(***************************************************************************)
(* A call crashes only for the reasons CrashNeedsDrift names: at(0), a     *)
(* length that has drifted, a node inserted in the middle, the end of the  *)
(* array, a vertex without arcs or with those of another.                  *)
(***************************************************************************)
THEOREM CrashesExplained == Spec => []CrashNeedsDrift
<1>1. GraphInv => Graph!CrashNeedsReuse
  BY DEF GraphInv, Graph!CrashNeedsReuse
<1>2. SuiteInv => CrashNeedsDrift
  BY <1>1 DEF SuiteInv, CrashNeedsDrift, SingleInv, DoubleInv, ArrayInv
<1> QED
  BY SuiteInvariant, <1>2, PTL

(***************************************************************************)
(* linked_list_at and dlinked_list_at answer the element before the one    *)
(* asked for, sq_list_index_of overlooks the last and al_graph_get_arc all *)
(* arcs but the first, while al_graph_adjacent answers rightly.            *)
(***************************************************************************)
THEOREM LookupsExplained == Spec => []LookupsMissOne
<1>1. SuiteInv => LookupsMissOne
  <2> SUFFICES ASSUME SuiteInv PROVE LookupsMissOne
    OBVIOUS
  <2>1. CASE which = "single" /\ SingleInv
    BY <2>1 DEF LookupsMissOne, SingleInv
  <2>2. CASE which = "double" /\ DoubleInv
    BY <2>2 DEF LookupsMissOne, DoubleInv
  <2>3. CASE which = "array" /\ ArrayInv
    BY <2>3 DEF LookupsMissOne, ArrayInv
  <2>4. CASE which = "graph" /\ GraphInv
    BY <2>4, GraphLooksUp DEF LookupsMissOne
  <2> QED
    BY <2>1, <2>2, <2>3, <2>4 DEF SuiteInv
<1> QED
  BY SuiteInvariant, <1>1, PTL
=============================================================================
