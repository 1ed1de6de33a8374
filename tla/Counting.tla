------------------------------ MODULE Counting -------------------------------
(***************************************************************************)
(* What the proofs count: the elements of some kind before a place of an   *)
(* array, and the elements of a sequence that repeats none (the vertices   *)
(* a search has accepted, the nodes in a queue).                           *)
(*                                                                         *)
(* A C array of n elements is a function on 0 .. n - 1.  What the programs *)
(* of test/chapter_2_2 do to one depends on how many elements of some kind *)
(* come before a place; the lemmas say how that number grows.              *)
(***************************************************************************)
EXTENDS Integers, Sequences, FiniteSetTheorems, WellFoundedInduction, TLAPS

Size(f) == Cardinality(DOMAIN f)

\* the places before m at which f has an element of S
PlacesIn(f, S, m) == {x \in 0 .. m - 1 : f[x] \in S}

CountIn(f, S, m) == Cardinality(PlacesIn(f, S, m))
-----------------------------------------------------------------------------
(***************************************************************************)
(* An array of n elements has the size n.                                  *)
(***************************************************************************)
LEMMA SizeIs == ASSUME NEW V, NEW n \in Nat, NEW f \in [0 .. n - 1 -> V]
                PROVE  Size(f) = n
  <1>1. Cardinality(0 .. n - 1) = n
    BY FS_Interval
  <1>2. QED
    BY <1>1 DEF Size

LEMMA PlacesFinite ==
  ASSUME NEW f, NEW S, NEW m \in Nat
  PROVE  IsFiniteSet(PlacesIn(f, S, m)) /\ CountIn(f, S, m) \in 0 .. m
  <1>1. IsFiniteSet(0 .. m - 1) /\ Cardinality(0 .. m - 1) = m
    BY FS_Interval
  <1>2. PlacesIn(f, S, m) \subseteq 0 .. m - 1
    BY DEF PlacesIn
  <1>3. IsFiniteSet(PlacesIn(f, S, m)) /\ Cardinality(PlacesIn(f, S, m)) <= m
    BY <1>1, <1>2, FS_Subset
  <1>4. Cardinality(PlacesIn(f, S, m)) \in Nat
    BY <1>3, FS_CardinalityType
  <1>5. QED
    BY <1>3, <1>4 DEF CountIn

(***************************************************************************)
(* The number before place m + 1 is that before m, and one more if the     *)
(* element at m is of the kind.                                            *)
(***************************************************************************)
LEMMA CountNone == ASSUME NEW f, NEW S PROVE CountIn(f, S, 0) = 0
  <1>1. PlacesIn(f, S, 0) = {}
    BY DEF PlacesIn
  <1>2. QED
    BY <1>1, FS_EmptySet DEF CountIn

LEMMA CountOneMore ==
  ASSUME NEW f, NEW S, NEW m \in Nat
  PROVE  CountIn(f, S, m + 1) = IF f[m] \in S THEN CountIn(f, S, m) + 1 ELSE CountIn(f, S, m)
  <1>1. CASE f[m] \in S
    <2>1. PlacesIn(f, S, m + 1) = PlacesIn(f, S, m) \cup {m} /\ m \notin PlacesIn(f, S, m)
      BY <1>1 DEF PlacesIn
    <2>2. QED
      BY <1>1, <2>1, PlacesFinite, FS_AddElement DEF CountIn
  <1>2. CASE f[m] \notin S
    <2>1. PlacesIn(f, S, m + 1) = PlacesIn(f, S, m)
      BY <1>2 DEF PlacesIn
    <2>2. QED
      BY <1>2, <2>1 DEF CountIn
  <1>3. QED
    BY <1>1, <1>2

(***************************************************************************)
(* An element of the kind has a rank below the number before any place     *)
(* after it.                                                               *)
(***************************************************************************)
LEMMA RankBelow ==
  ASSUME NEW f, NEW S, NEW m \in Nat, NEW x \in 0 .. m - 1, f[x] \in S
  PROVE  CountIn(f, S, x) < CountIn(f, S, m)
  <1>1. PlacesIn(f, S, x + 1) \subseteq PlacesIn(f, S, m)
    BY DEF PlacesIn
  <1>2. CountIn(f, S, x + 1) <= CountIn(f, S, m)
    BY <1>1, PlacesFinite, FS_Subset DEF CountIn
  <1>3. CountIn(f, S, x + 1) = CountIn(f, S, x) + 1 /\ CountIn(f, S, x) \in Nat
    BY CountOneMore, PlacesFinite
  <1>4. CountIn(f, S, m) \in Nat
    BY PlacesFinite
  <1>5. QED
    BY <1>2, <1>3, <1>4
-----------------------------------------------------------------------------
(***************************************************************************)
(* Nothing is in the sequence twice.                                       *)
(***************************************************************************)
Distinct(s) == \A j, k \in 1 .. Len(s) : s[j] = s[k] => j = k

LEMMA IntervalCounts ==
  ASSUME NEW n \in Nat
  PROVE  IsFiniteSet(1 .. n) /\ Cardinality(1 .. n) = n
BY FS_Interval

(***************************************************************************)
(* A sequence without repetition is no longer than its elements are many;  *)
(* the same long when it has them all, and shorter when it misses one.     *)
(***************************************************************************)
LEMMA DistinctIsShort ==
  ASSUME NEW T, IsFiniteSet(T), NEW s \in Seq(T), Distinct(s)
  PROVE  Len(s) <= Cardinality(T)
<1>1. Len(s) \in Nat
  OBVIOUS
<1>2. IsFiniteSet(1 .. Len(s)) /\ Cardinality(1 .. Len(s)) = Len(s)
  BY <1>1, IntervalCounts
<1>3. s \in [1 .. Len(s) -> T]
  OBVIOUS
<1>4. Cardinality(T) \in Nat
  BY FS_CardinalityType
<1>5. ~(Cardinality(T) < Cardinality(1 .. Len(s)))
  BY <1>2, <1>3, FS_PigeonHole DEF Distinct
<1> QED
  BY <1>1, <1>2, <1>4, <1>5

LEMMA DistinctCounts ==
  ASSUME NEW T, NEW s \in Seq(T), Distinct(s),
         \A x \in T : \E j \in 1 .. Len(s) : s[j] = x
  PROVE  Cardinality(T) = Len(s)
<1>1. Len(s) \in Nat
  OBVIOUS
<1>a. s \in [1 .. Len(s) -> T]
  OBVIOUS
<1>2. IsFiniteSet(1 .. Len(s)) /\ Cardinality(1 .. Len(s)) = Len(s)
  BY <1>1, IntervalCounts
<1>3. s \in Bijection(1 .. Len(s), T)
  BY <1>1, <1>a DEF Bijection, Injection, Surjection, IsInjective, Distinct
<1>4. ExistsBijection(1 .. Len(s), T)
  BY <1>3 DEF ExistsBijection
<1> QED
  BY <1>2, <1>4, FS_Bijection

LEMMA OneMoreIsShort ==
  ASSUME NEW T, IsFiniteSet(T), NEW s \in Seq(T), Distinct(s),
         NEW x \in T, \A j \in 1 .. Len(s) : s[j] # x
  PROVE  Len(s) < Cardinality(T) /\ Distinct(Append(s, x))
<1>1. Append(s, x) \in Seq(T) /\ Len(Append(s, x)) = Len(s) + 1 /\ Len(s) \in Nat
  OBVIOUS
<1>2. \A j \in 1 .. Len(s) + 1 : Append(s, x)[j] = IF j = Len(s) + 1 THEN x ELSE s[j]
  OBVIOUS
<1>3. Distinct(Append(s, x))
  BY <1>1, <1>2 DEF Distinct
<1>4. Len(s) + 1 <= Cardinality(T)
  BY <1>1, <1>3, DistinctIsShort
<1>5. Cardinality(T) \in Nat
  BY FS_CardinalityType
<1> QED
  BY <1>1, <1>3, <1>4, <1>5
-----------------------------------------------------------------------------
LessThan == {p \in Nat \X Nat : p[1] < p[2]}

(***************************************************************************)
(* Any numbers have a least one among them.                                *)
(***************************************************************************)
LEMMA LeastIn ==
  ASSUME NEW T, T \subseteq Nat, T # {}
  PROVE  \E x \in T : \A y \in T : x <= y
<1>1. IsWellFoundedOn(LessThan, Nat)
  <2>1. OpToRel(<, Nat) = LessThan
    BY DEF OpToRel, LessThan
  <2> QED
    BY NatLessThanWellFounded, <2>1
<1>2. PICK x \in T : \A y \in T : <<y, x>> \notin LessThan
  BY <1>1, WFMin
<1>3. ASSUME NEW y \in T PROVE x <= y
  <2>1. ~(y < x)
    <3>1. x \in Nat /\ y \in Nat /\ <<y, x>> \in Nat \X Nat
      OBVIOUS
    <3>2. y < x => <<y, x>> \in LessThan
      BY <3>1 DEF LessThan
    <3> QED
      BY <1>2, <3>2
  <2>2. x \in Nat /\ y \in Nat
    OBVIOUS
  <2> QED
    BY <2>1, <2>2
<1> QED
  BY <1>3

(***************************************************************************)
(* Induction, the property told as the set of the numbers that have it.    *)
(***************************************************************************)
LEMMA Induct ==
  ASSUME NEW S, 0 \in S, \A n \in Nat : n \in S => n + 1 \in S
  PROVE  Nat \subseteq S
<1> SUFFICES ASSUME Nat \ S # {} PROVE FALSE
  OBVIOUS
<1>1. PICK x \in Nat \ S : \A y \in Nat \ S : x <= y
  <2>1. Nat \ S \subseteq Nat
    OBVIOUS
  <2> QED
    BY <2>1, LeastIn
<1>2. x # 0
  OBVIOUS
<1>3. x - 1 \in Nat /\ ~(x <= x - 1)
  BY <1>2
<1>4. x - 1 \in S
  BY <1>1, <1>3
<1>5. (x - 1) + 1 = x
  OBVIOUS
<1> QED
  BY <1>3, <1>4, <1>5
(***************************************************************************)
(* What is told by a first value and a rule from each value to the next is *)
(* a function on the numbers.                                              *)
(***************************************************************************)
Iteration(b, T, F, s) ==
  /\ b \in [Nat -> T]
  /\ b[0] = s
  /\ \A n \in Nat : b[n + 1] = F[b[n]]

LEMMA Iterates ==
  ASSUME NEW T, NEW F, F \in [T -> T], NEW s, s \in T
  PROVE  \E b : Iteration(b, T, F, s)
<1> DEFINE Upto(n, f) == /\ f \in [0 .. n -> T] /\ f[0] = s
                         /\ \A m \in 0 .. n - 1 : f[m + 1] = F[f[m]]
           Reached == {n \in Nat : \E f : Upto(n, f)}
<1>1. 0 \in Reached
  <2>1. Upto(0, [m \in 0 .. 0 |-> s])
    OBVIOUS
  <2> QED
    BY <2>1
<1>2. ASSUME NEW n \in Nat, n \in Reached PROVE n + 1 \in Reached
  <2>1. PICK f : Upto(n, f)
    BY <1>2
  <2> DEFINE g == [m \in 0 .. n + 1 |-> IF m \in 0 .. n THEN f[m] ELSE F[f[n]]]
  <2>2. n \in 0 .. n /\ f[n] \in T
    BY <2>1
  <2>3. g \in [0 .. n + 1 -> T] /\ g[0] = s
    BY <2>1, <2>2
  <2>4. ASSUME NEW m \in 0 .. (n + 1) - 1 PROVE g[m + 1] = F[g[m]]
    <3>1. m \in 0 .. n /\ m \in 0 .. n + 1 /\ m + 1 \in 0 .. n + 1
      OBVIOUS
    <3>2. CASE m = n
      <4>1. n + 1 \notin 0 .. n
        OBVIOUS
      <4> QED
        BY <3>1, <3>2, <4>1
    <3>3. CASE m # n
      <4>1. m \in 0 .. n - 1 /\ m + 1 \in 0 .. n
        BY <3>1, <3>3
      <4> QED
        BY <2>1, <3>1, <4>1
    <3> QED
      BY <3>2, <3>3
  <2>5. Upto(n + 1, g)
    BY <2>3, <2>4
  <2>6. \E h : Upto(n + 1, h)
    <3> HIDE DEF g, Upto
    <3> QED
      BY <2>5
  <2> QED
    BY <2>6
<1>3. Nat \subseteq Reached
  <2> HIDE DEF Reached
  <2> QED
    BY <1>1, <1>2, Induct
<1>4. ASSUME NEW n \in Nat, NEW f, Upto(n, f), NEW k \in Nat, NEW g, Upto(k, g)
      PROVE  \A m \in Nat : m <= n /\ m <= k => f[m] = g[m]
  <2> DEFINE Same == {m \in Nat : m <= n /\ m <= k => f[m] = g[m]}
  <2>1. 0 \in Same
    BY <1>4
  <2>2. ASSUME NEW m \in Nat, m \in Same PROVE m + 1 \in Same
    <3> SUFFICES ASSUME m + 1 <= n, m + 1 <= k PROVE f[m + 1] = g[m + 1]
      OBVIOUS
    <3>1. m \in 0 .. n - 1 /\ m \in 0 .. k - 1 /\ m <= n /\ m <= k
      OBVIOUS
    <3> QED
      BY <1>4, <2>2, <3>1
  <2>3. Nat \subseteq Same
    <3> HIDE DEF Same
    <3> QED
      BY <2>1, <2>2, Induct
  <2> QED
    BY <2>3
<1> DEFINE at(n) == CHOOSE f : Upto(n, f)
           b == [n \in Nat |-> at(n)[n]]
<1>5. ASSUME NEW n \in Nat PROVE Upto(n, at(n))
  BY <1>3
<1> HIDE DEF at
<1>6. ASSUME NEW n \in Nat PROVE at(n)[n] \in T
  <2>1. n \in 0 .. n
    OBVIOUS
  <2> QED
    BY <1>5, <2>1
<1>7. b[0] = s
  BY <1>5
<1>8. ASSUME NEW n \in Nat PROVE b[n + 1] = F[b[n]]
  <2>1. Upto(n + 1, at(n + 1)) /\ Upto(n, at(n))
    BY <1>5
  <2>2. n \in 0 .. (n + 1) - 1 /\ n <= n /\ n <= n + 1 /\ n + 1 \in Nat
    OBVIOUS
  <2>3. at(n + 1)[n + 1] = F[at(n + 1)[n]]
    BY <2>1, <2>2
  <2>4. at(n + 1)[n] = at(n)[n]
    <3> HIDE DEF Upto
    <3> QED
      BY <1>4, <2>1, <2>2
  <2> QED
    BY <2>2, <2>3, <2>4
<1>9. b \in [Nat -> T]
  BY <1>6
<1> HIDE DEF b
<1>10. Iteration(b, T, F, s)
  BY <1>7, <1>8, <1>9 DEF Iteration
<1> QED
  BY <1>10
=============================================================================
