--------------------------- MODULE ExercisesProofs ----------------------------
(***************************************************************************)
(* Theorems of MCExercises, for arrays and strings of any length over any  *)
(* elements: the passes that delete keep what they should, in order, and   *)
(* never leave the array; the vote finds the majority; the tables of the   *)
(* string matching hold the longest borders, and the matching finds the    *)
(* first occurrence that does not begin at str[0].                         *)
(***************************************************************************)
EXTENDS MCExercises, Counting

-----------------------------------------------------------------------------
(***************************************************************************)
(* remove_all, remove_all_in_range5 and remove_all_same (Compaction).      *)
(***************************************************************************)
(***************************************************************************)
(* The invariant of both goals: the deletes of a pass have shortened the   *)
(* list, so that the place it reads, i + ndel, lies within the array.      *)
(***************************************************************************)
CompactShape ==
  /\ goal \in {"once", "same"}
  /\ Size(given) \in Nat
  /\ given \in [0 .. Size(given) - 1 -> Value]
  /\ arr \in [0 .. Size(given) - 1 -> Value]
  /\ length \in Nat /\ i \in Nat /\ ndel \in Nat /\ base \in Int /\ base >= -1
  /\ length + ndel <= Size(given)
  /\ goal = "once" => length + ndel = Size(given) /\ i <= length

CompactInv == CompactShape /\ KeepsOrder

LEMMA CompactInit == Init => CompactInv
<1> SUFFICES ASSUME Init PROVE CompactInv
  OBVIOUS
<1>1. PICK n \in Nat : given \in [0 .. n - 1 -> Value]
  BY Sizes, ArrayElements DEF Init, Functions
<1>2. Size(given) = n
  BY <1>1, SizeIs
<1>3. goal = "once" => i = 0 /\ ndel = 0
  BY DEF Init
<1>4. CompactShape
  BY <1>1, <1>2 DEF Init, CompactShape
<1>5. KeepsOrder
  BY <1>3, CountNone DEF Init, KeepsOrder
<1> QED
  BY <1>4, <1>5 DEF CompactInv

(***************************************************************************)
(* A turn writes cell i, which is not behind the place it reads, and holds *)
(* no element that has found its place: those are below it.                *)
(***************************************************************************)
LEMMA TurnKeepsOrder ==
  ASSUME CompactShape, KeepsOrder, Turn, goal = "once"
  PROVE  KeepsOrder'
<1> DEFINE w == i + ndel
           n == Size(given)
<1>1. /\ w \in 0 .. n - 1 /\ i \in 0 .. n - 1 /\ i <= w
      /\ arr' = [arr EXCEPT ![i] = arr[w]]
      /\ given' = given /\ Kept' = Kept /\ goal' = goal
      /\ i' \in Int /\ ndel' \in Int /\ ndel \in Int /\ i' + ndel' = w + 1
  BY DEF CompactShape, Turn, Kept
<1>2. /\ i = CountIn(given, Kept, i + ndel)
      /\ \A x \in 0 .. i + ndel - 1 : given[x] \in Kept => arr[CountIn(given, Kept, x)] = given[x]
      /\ \A x \in i + ndel .. n - 1 : arr[x] = given[x]
  BY goal = "once" DEF KeepsOrder
<1>3. arr[w] = given[w] /\ given[w] \in Value
  BY <1>1, <1>2 DEF CompactShape
<1>4. i' = CountIn(given, Kept, w + 1)
  <2>1. w \in Nat
    BY <1>1
  <2>2. CASE given[w] \in drops
    <3>1. given[w] \notin Kept /\ i' = i
      BY <1>3, <2>2 DEF Turn, Kept
    <3> QED
      BY <1>2, <2>1, <3>1, CountOneMore
  <2>3. CASE given[w] \notin drops
    <3>1. given[w] \in Kept /\ i' = i + 1
      BY <1>3, <2>3 DEF Turn, Kept
    <3> QED
      BY <1>2, <2>1, <3>1, CountOneMore
  <2> QED
    BY <2>2, <2>3
<1>5. ASSUME NEW x \in 0 .. w, given[x] \in Kept
      PROVE  arr'[CountIn(given, Kept, x)] = given[x]
  <2>1. CASE x = w
    BY <1>1, <1>2, <1>3, <2>1 DEF CompactShape
  <2>2. CASE x # w
    <3>1. x \in 0 .. w - 1 /\ w \in Nat
      BY <1>1, <2>2
    <3>2. CountIn(given, Kept, x) < CountIn(given, Kept, w)
      BY <1>5, <3>1, RankBelow
    <3>3. CountIn(given, Kept, x) \in Nat
      BY <3>1, PlacesFinite
    <3>4. CountIn(given, Kept, x) # i /\ CountIn(given, Kept, x) \in 0 .. n - 1
      <4>1. i = CountIn(given, Kept, w)
        BY <1>2
      <4>2. \A a, b, d \in Int : 0 <= a /\ a < b /\ b \in 0 .. d - 1 => a # b /\ a \in 0 .. d - 1
        OBVIOUS
      <4>3. i \in 0 .. n - 1 /\ n \in Int
        BY <1>1 DEF CompactShape
      <4> QED
        BY <3>2, <3>3, <4>1, <4>2, <4>3
    <3>5. arr'[CountIn(given, Kept, x)] = arr[CountIn(given, Kept, x)]
      BY <1>1, <3>4 DEF CompactShape
    <3>6. x \in 0 .. i + ndel - 1
      BY <1>1, <3>1
    <3> QED
      BY <1>2, <1>5, <3>5, <3>6
  <2> QED
    BY <2>1, <2>2
<1>6. ASSUME NEW x \in w + 1 .. n - 1
      PROVE  arr'[x] = given[x]
  <2>1. x # i /\ x \in 0 .. n - 1 /\ x \in w .. n - 1
    BY <1>1
  <2> QED
    BY <1>1, <1>2, <2>1 DEF CompactShape
<1>7. i' + ndel' = w + 1 /\ i' + ndel' - 1 = w
  BY <1>1
<1>8. 0 .. i' + ndel' - 1 = 0 .. w
  BY <1>7
<1> QED
  BY <1>1, <1>4, <1>5, <1>6, <1>7, <1>8 DEF KeepsOrder

LEMMA CompactStep == CompactInv /\ [Next]_vars => CompactInv'
<1> SUFFICES ASSUME CompactInv, [Next]_vars PROVE CompactInv'
  OBVIOUS
<1>1. CASE Turn
  <2>1. CompactShape'
    <3>1. i \in 0 .. Size(given) - 1 /\ i + ndel \in 0 .. Size(given) - 1
      BY <1>1 DEF CompactInv, CompactShape, Turn
    <3>2. arr' \in [0 .. Size(given) - 1 -> Value]
      BY <1>1, <3>1 DEF CompactInv, CompactShape, Turn
    <3> QED
      BY <1>1, <3>2 DEF CompactInv, CompactShape, Turn
  <2>2. CASE goal = "once"
    BY <1>1, <2>1, <2>2, TurnKeepsOrder DEF CompactInv
  <2>3. CASE goal # "once"
    BY <1>1, <2>1, <2>3 DEF CompactInv, KeepsOrder, Turn
  <2> QED
    BY <2>2, <2>3
<1>2. CASE NextPass
  BY <1>2 DEF CompactInv, CompactShape, KeepsOrder, NextPass
<1>3. CASE UNCHANGED vars
  BY <1>3 DEF CompactInv, CompactShape, KeepsOrder, Kept, vars
<1> QED
  BY <1>1, <1>2, <1>3 DEF Next

(***************************************************************************)
(* When one pass has ended, the list is as long as the number of elements  *)
(* it keeps, and each of those is at its rank.                             *)
(***************************************************************************)
OnlyKept ==
  goal = "once" /\ Finished =>
    /\ length = CountIn(given, Kept, Size(given))
    /\ \A x \in DOMAIN given : given[x] \in Kept => arr[CountIn(given, Kept, x)] = given[x]

LEMMA CompactLeaves == CompactInv => OnlyKept
<1> SUFFICES ASSUME CompactInv, goal = "once", Finished
             PROVE  /\ length = CountIn(given, Kept, Size(given))
                    /\ \A x \in DOMAIN given :
                         given[x] \in Kept => arr[CountIn(given, Kept, x)] = given[x]
  BY DEF OnlyKept
<1>1. /\ i = length /\ i + ndel = Size(given)
      /\ DOMAIN given = 0 .. Size(given) - 1
      /\ i \in Int /\ ndel \in Int /\ Size(given) \in Int
  BY DEF CompactInv, CompactShape, Finished
<1>2. /\ i = CountIn(given, Kept, i + ndel)
      /\ \A x \in 0 .. i + ndel - 1 :
           given[x] \in Kept => arr[CountIn(given, Kept, x)] = given[x]
  BY DEF CompactInv, KeepsOrder
<1>3. 0 .. i + ndel - 1 = DOMAIN given
  BY <1>1
<1>4. length = CountIn(given, Kept, Size(given))
  BY <1>1, <1>2
<1> QED
  BY <1>2, <1>3, <1>4

-----------------------------------------------------------------------------
(***************************************************************************)
(* primary_elem_search (Majority).                                         *)
(***************************************************************************)
Votes == Vote!Size(arr)

VoteShape ==
  /\ Votes \in Nat /\ Votes >= 1
  /\ arr \in [0 .. Votes - 1 -> Value]
  /\ c \in Value
  /\ at \in {"vote", "count", "done"}
  /\ i \in 0 .. Votes /\ count \in 0 .. i

(***************************************************************************)
(* From the second pass on no value other than c can be that of more than  *)
(* half, and the second pass counts c.                                     *)
(***************************************************************************)
OnlyCandidate ==
  at = "count" => /\ \A v \in Value \ {c} : 2 * Vote!Occurs(v, Votes) <= Votes
                  /\ count = Vote!Occurs(c, i)

VoteInv == VoteShape /\ Vote!VotesBound /\ OnlyCandidate /\ Vote!FindsMajority

LEMMA CountsSame ==
  /\ \A f : Vote!Size(f) = Size(f)
  /\ \A f, S : \A k \in Nat : Vote!CountIn(f, S, k) = CountIn(f, S, k)
BY DEF Vote!Size, Size, Vote!CountIn, CountIn, Vote!PlacesIn, PlacesIn, Vote!Cardinality,
       Cardinality

LEMMA OccursMore ==
  ASSUME NEW v \in Value, NEW k \in Nat
  PROVE  /\ Vote!Occurs(v, k) \in Nat
         /\ Vote!Occurs(v, k + 1) = IF arr[k] = v THEN Vote!Occurs(v, k) + 1 ELSE Vote!Occurs(v, k)
<1>1. CountIn(arr, {v}, k) \in 0 .. k
  BY PlacesFinite
<1>2. CountIn(arr, {v}, k + 1)
        = IF arr[k] \in {v} THEN CountIn(arr, {v}, k) + 1 ELSE CountIn(arr, {v}, k)
  BY CountOneMore
<1> QED
  BY <1>1, <1>2, CountsSame DEF Vote!Occurs

LEMMA VoteInit == Vote!Init => VoteInv
<1> SUFFICES ASSUME Vote!Init PROVE VoteInv
  OBVIOUS
<1>1. PICK n \in Nat \ {0} : arr \in [0 .. n - 1 -> Value]
  <2>1. PICK n \in 0 .. LongestSearched : arr \in [0 .. n - 1 -> Digits]
    BY DEF Vote!Init, Functions
  <2>2. n \in Nat /\ n # 0
    <3>1. n \in Nat
      BY <2>1, Sizes
    <3>2. arr \notin [0 .. 0 - 1 -> Digits]
      BY DEF Vote!Init, Functions
    <3> QED
      BY <2>1, <3>1, <3>2
  <2> QED
    BY <2>1, <2>2, ArrayElements
<1>2. Votes = n
  BY <1>1, SizeIs, CountsSame DEF Votes
<1>3. VoteShape
  BY <1>1, <1>2 DEF Vote!Init, VoteShape
<1>4. Vote!VotesBound
  <2>1. Vote!Occurs(c, 1) = 1 /\ \A v \in Value \ {c} : Vote!Occurs(v, 1) = 0
    <3>1. \A v \in Value : Vote!Occurs(v, 0) = 0
      BY CountNone, CountsSame DEF Vote!Occurs
    <3>2. \A v \in Value : Vote!Occurs(v, 0 + 1) = IF arr[0] = v THEN Vote!Occurs(v, 0) + 1 ELSE Vote!Occurs(v, 0)
      BY OccursMore
    <3> QED
      BY <1>3, <3>1, <3>2 DEF Vote!Init, VoteShape
  <2> QED
    BY <2>1 DEF Vote!Init, Vote!VotesBound
<1>5. OnlyCandidate /\ Vote!FindsMajority
  BY DEF Vote!Init, OnlyCandidate, Vote!FindsMajority
<1> QED
  BY <1>3, <1>4, <1>5 DEF VoteInv

(***************************************************************************)
(* One more vote.  An element that is the candidate adds 2 to the left of  *)
(* the bound on the candidate and 2 to its right; one that is not cancels a*)
(* vote, or becomes the candidate when none is left.                       *)
(***************************************************************************)
LEMMA VoteKeepsBound ==
  ASSUME VoteShape, Vote!VotesBound, Vote!ForCandidate \/ Vote!Against
  PROVE  Vote!VotesBound'
<1>1. /\ at = "vote" /\ i \in Nat /\ i < Votes /\ Votes \in Nat /\ count \in Nat
      /\ i' = i + 1 /\ arr' = arr /\ at' = at
      /\ arr[i] \in Value /\ c \in Value /\ count' \in Int
  BY DEF VoteShape, Vote!ForCandidate, Vote!Against, Vote!Voting, Votes
<1>2. /\ 2 * Vote!Occurs(c, i) <= i + count
      /\ \A v \in Value \ {c} : 2 * Vote!Occurs(v, i) <= i - count
  BY <1>1 DEF Vote!VotesBound
<1>3. \A v \in Value : /\ Vote!Occurs(v, i) \in Nat
                       /\ Vote!Occurs(v, i + 1) = IF arr[i] = v THEN Vote!Occurs(v, i) + 1 ELSE Vote!Occurs(v, i)
  BY <1>1, OccursMore
<1>4. /\ c' \in Value
      /\ 2 * Vote!Occurs(c', i + 1) <= i + 1 + count'
      /\ \A v \in Value \ {c'} : 2 * Vote!Occurs(v, i + 1) <= i + 1 - count'
  <2>1. CASE arr[i] = c
    <3>1. c' = c /\ count' = count + 1
      BY <2>1 DEF Vote!ForCandidate, Vote!Against
    <3> QED
      BY <1>1, <1>2, <1>3, <2>1, <3>1
  <2>2. CASE arr[i] # c /\ count > 0
    <3>1. c' = c /\ count' = count - 1
      BY <2>2 DEF Vote!ForCandidate, Vote!Against
    <3>2. \A v \in Value \ {c} : 2 * Vote!Occurs(v, i + 1) <= i + 1 - (count - 1)
      <4> TAKE v \in Value \ {c}
      <4>1. 2 * Vote!Occurs(v, i) <= i - count /\ Vote!Occurs(v, i) \in Nat
        BY <1>2, <1>3
      <4>2. Vote!Occurs(v, i + 1) = Vote!Occurs(v, i) + 1 \/ Vote!Occurs(v, i + 1) = Vote!Occurs(v, i)
        BY <1>3
      <4> QED
        BY <1>1, <4>1, <4>2
    <3> QED
      BY <1>1, <1>2, <1>3, <2>2, <3>1, <3>2
  <2>3. CASE arr[i] # c /\ ~(count > 0)
    <3>1. c' = arr[i] /\ count' = 1 /\ count = 0
      BY <1>1, <2>3 DEF Vote!ForCandidate, Vote!Against
    <3>2. \A v \in Value : 2 * Vote!Occurs(v, i) <= i
      BY <1>1, <1>2, <3>1
    <3> QED
      BY <1>1, <1>3, <3>1, <3>2
  <2> QED
    BY <2>1, <2>2, <2>3
<1> QED
  <2>1. SUFFICES /\ 2 * Vote!CountIn(arr', {c'}, i') <= i' + count'
                 /\ \A v \in Value \ {c'} : 2 * Vote!CountIn(arr', {v}, i') <= i' - count'
    BY DEF Vote!VotesBound, Vote!Occurs
  <2>2. /\ 2 * Vote!CountIn(arr, {c'}, i + 1) <= i + 1 + count'
        /\ \A v \in Value \ {c'} : 2 * Vote!CountIn(arr, {v}, i + 1) <= i + 1 - count'
    BY <1>4 DEF Vote!Occurs
  <2>3. ASSUME NEW v PROVE Vote!CountIn(arr', {v}, i') = Vote!CountIn(arr, {v}, i + 1)
    BY <1>1
  <2>4. 2 * Vote!CountIn(arr', {c'}, i') <= i' + count'
    BY <1>1, <2>2, <2>3
  <2>5. ASSUME NEW v \in Value \ {c'} PROVE 2 * Vote!CountIn(arr', {v}, i') <= i' - count'
    <3>1. Vote!CountIn(arr', {v}, i') = Vote!CountIn(arr, {v}, i + 1)
      BY <2>3
    <3>2. 2 * Vote!CountIn(arr, {v}, i + 1) <= i + 1 - count'
      BY <2>2
    <3>3. i' = i + 1 /\ i \in Int /\ count' \in Int
      BY <1>1
    <3> QED
      BY <3>1, <3>2, <3>3
  <2> QED
    BY <2>4, <2>5

LEMMA VoteStep == VoteInv /\ [Vote!Next]_(Vote!vars) => VoteInv'
<1> SUFFICES ASSUME VoteInv, [Vote!Next]_(Vote!vars) PROVE VoteInv'
  OBVIOUS
<1> USE DEF VoteInv
<1>1. CASE Vote!ForCandidate \/ Vote!Against
  <2>1. VoteShape'
    BY <1>1 DEF VoteShape, Vote!ForCandidate, Vote!Against, Vote!Voting, Votes
  <2>2. Vote!VotesBound'
    BY <1>1, VoteKeepsBound
  <2>3. OnlyCandidate' /\ Vote!FindsMajority'
    BY <1>1 DEF Vote!ForCandidate, Vote!Against, Vote!Voting, OnlyCandidate, Vote!FindsMajority
  <2> QED
    BY <2>1, <2>2, <2>3
<1>2. CASE Vote!NoCandidate
  <2>1. i = Votes /\ count = 0 /\ Votes \in Nat /\ arr' = arr /\ at' = "done" /\ result' = None
    BY <1>2 DEF VoteShape, Vote!NoCandidate, Vote!Voting, Votes
  <2>2. \A v \in Value : ~(2 * Vote!Occurs(v, Votes) > Votes)
    <3>1. \A v \in Value : 2 * Vote!Occurs(v, Votes) <= Votes /\ Vote!Occurs(v, Votes) \in Nat
      BY <1>2, <2>1, OccursMore DEF Vote!VotesBound, Vote!NoCandidate
    <3> QED
      BY <2>1, <3>1
  <2>3. Vote!FindsMajority'
    BY <2>1, <2>2, NullIsApart, ArrayElements DEF Vote!FindsMajority, Vote!Occurs, Votes
  <2> QED
    BY <1>2, <2>1, <2>3 DEF Vote!NoCandidate, VoteShape, Vote!VotesBound, OnlyCandidate, Votes
<1>3. CASE Vote!Recount
  <2>1. i = Votes /\ Votes \in Nat /\ count \in Nat /\ arr' = arr /\ c' = c /\ i' = 0 /\ count' = 0 /\ at' = "count"
    BY <1>3 DEF VoteShape, Vote!Recount, Vote!Voting, Votes
  <2>2. \A v \in Value \ {c} : 2 * Vote!Occurs(v, Votes) <= Votes
    <3>1. \A v \in Value \ {c} : 2 * Vote!Occurs(v, Votes) <= Votes - count /\ Vote!Occurs(v, Votes) \in Nat
      BY <1>3, <2>1, OccursMore DEF Vote!VotesBound, Vote!Recount
    <3> QED
      BY <2>1, <3>1
  <2>3. OnlyCandidate'
    <3>1. Vote!Occurs(c, 0) = 0
      BY CountNone, CountsSame DEF Vote!Occurs
    <3> QED
      BY <2>1, <2>2, <3>1 DEF OnlyCandidate, Vote!Occurs, Votes
  <2> QED
    BY <1>3, <2>1, <2>3 DEF Vote!Recount, VoteShape, Vote!VotesBound, Vote!FindsMajority, Votes
<1>4. CASE Vote!Count
  <2>1. /\ at = "count" /\ i \in Nat /\ i < Votes /\ c \in Value
        /\ i' = i + 1 /\ arr' = arr /\ c' = c /\ at' = at
        /\ count' = IF arr[i] = c THEN count + 1 ELSE count
    BY <1>4 DEF VoteShape, Vote!Count, Vote!Counting, Votes
  <2>2. count' = Vote!Occurs(c, i + 1)
    BY <2>1, OccursMore DEF OnlyCandidate
  <2>3. OnlyCandidate'
    BY <2>1, <2>2 DEF OnlyCandidate, Vote!Occurs, Votes
  <2>4. VoteShape'
    BY <1>4, <2>1 DEF VoteShape, Vote!Count, Votes
  <2> QED
    BY <2>1, <2>3, <2>4 DEF Vote!VotesBound, Vote!FindsMajority
<1>5. CASE Vote!Return
  <2>1. /\ i = Votes /\ Votes \in Nat /\ count \in Nat /\ count = Vote!Occurs(c, Votes) /\ c \in Value
        /\ arr' = arr /\ at' = "done"
        /\ result' = IF count > Votes \div 2 THEN c ELSE None
    BY <1>5 DEF VoteShape, Vote!Return, Vote!Counting, OnlyCandidate, Votes
  <2>2. \A v \in Value \ {c} : 2 * Vote!Occurs(v, Votes) <= Votes /\ Vote!Occurs(v, Votes) \in Nat
    BY <1>5, <2>1, OccursMore DEF OnlyCandidate, Vote!Return
  <2>3. count > Votes \div 2 <=> 2 * Vote!Occurs(c, Votes) > Votes
    BY <2>1
  <2>4. \A v \in Value : result' = v <=> 2 * Vote!Occurs(v, Votes) > Votes
    BY <2>1, <2>2, <2>3, NullIsApart, ArrayElements
  <2>5. Vote!FindsMajority'
    BY <2>1, <2>4 DEF Vote!FindsMajority, Vote!Occurs, Votes
  <2> QED
    BY <1>5, <2>1, <2>5 DEF Vote!Return, VoteShape, Vote!VotesBound, OnlyCandidate, Votes
<1>6. CASE UNCHANGED Vote!vars
  BY <1>6 DEF Vote!vars, VoteShape, Vote!VotesBound, OnlyCandidate, Vote!FindsMajority, Vote!Occurs, Votes
<1> QED
  BY <1>1, <1>2, <1>3, <1>4, <1>5, <1>6 DEF Vote!Next

-----------------------------------------------------------------------------
(***************************************************************************)
(* get_next, get_nextval and kmp (Kmp).  The maxima of the specification   *)
(* are those of sets of places below some x, to which -1 has been added.   *)
(***************************************************************************)
LEMMA MaxIs ==
  ASSUME NEW x \in Nat, NEW S, S \subseteq -1 .. x - 1, -1 \in S
  PROVE  /\ Strings!Max(S) \in S
         /\ \A y \in S : y <= Strings!Max(S)
<1> DEFINE T == {x - y : y \in S}
<1>1. T \subseteq Nat /\ T # {}
  OBVIOUS
<1>2. PICK t \in T : \A u \in T : t <= u
  <2> HIDE DEF T
  <2> QED
    BY <1>1, LeastIn
<1>3. PICK z \in S : t = x - z
  OBVIOUS
<1>4. \A y \in S : z >= y
  BY <1>2, <1>3
<1>5. /\ Strings!Max(S) \in S
      /\ \A y \in S : Strings!Max(S) >= y
  BY <1>4 DEF Strings!Max
<1>6. \A y \in S : y \in Int
  OBVIOUS
<1> QED
  BY <1>5, <1>6

\* q is the longest proper border before place x, or -1
Longest(q, x) ==
  /\ q \in -1 .. x - 1
  /\ q # -1 => Strings!IsBorder(q, x)
  /\ \A k \in 0 .. x - 1 : Strings!IsBorder(k, x) => k <= q

\* the longest that another character than p[x] follows
LongestOther(q, x) ==
  /\ q \in -1 .. x - 1
  /\ q # -1 => Strings!IsBorder(q, x) /\ p[q] # p[x]
  /\ \A k \in 0 .. x - 1 : Strings!IsBorder(k, x) /\ p[k] # p[x] => k <= q

LEMMA LongestIs ==
  ASSUME NEW x \in Nat
  PROVE  /\ Longest(Strings!LongestBorder(x), x)
         /\ \A q : Longest(q, x) => q = Strings!LongestBorder(x)
<1> DEFINE S == {k \in 0 .. x - 1 : Strings!IsBorder(k, x)} \cup {-1}
<1>1. S \subseteq -1 .. x - 1 /\ -1 \in S
  OBVIOUS
<1>2. Strings!LongestBorder(x) \in S /\ \A y \in S : y <= Strings!LongestBorder(x)
  <2>1. Strings!LongestBorder(x) = Strings!Max(S)
    BY DEF Strings!LongestBorder
  <2> HIDE DEF S
  <2> QED
    BY <1>1, <2>1, MaxIs
<1>3. Longest(Strings!LongestBorder(x), x)
  BY <1>2 DEF Longest
<1>4. ASSUME NEW q, Longest(q, x) PROVE q = Strings!LongestBorder(x)
  <2>1. q \in S /\ \A y \in S : y <= q
    BY <1>4 DEF Longest
  <2>2. q \in Int /\ Strings!LongestBorder(x) \in Int
    BY <1>1, <1>2, <2>1
  <2> QED
    BY <1>2, <2>1, <2>2
<1> QED
  BY <1>3, <1>4

LEMMA LongestOtherIs ==
  ASSUME NEW x \in Nat
  PROVE  /\ LongestOther(Strings!Optimised(x), x)
         /\ \A q : LongestOther(q, x) => q = Strings!Optimised(x)
<1> DEFINE S == {k \in 0 .. x - 1 : Strings!IsBorder(k, x) /\ p[k] # p[x]} \cup {-1}
<1>1. S \subseteq -1 .. x - 1 /\ -1 \in S
  OBVIOUS
<1>2. Strings!Optimised(x) \in S /\ \A y \in S : y <= Strings!Optimised(x)
  <2>1. Strings!Optimised(x) = Strings!Max(S)
    BY DEF Strings!Optimised
  <2> HIDE DEF S
  <2> QED
    BY <1>1, <2>1, MaxIs
<1>3. LongestOther(Strings!Optimised(x), x)
  BY <1>2 DEF LongestOther
<1>4. ASSUME NEW q, LongestOther(q, x) PROVE q = Strings!Optimised(x)
  <2>1. q \in S /\ \A y \in S : y <= q
    BY <1>4 DEF LongestOther
  <2>2. q \in Int /\ Strings!Optimised(x) \in Int
    BY <1>1, <1>2, <2>1
  <2> QED
    BY <1>2, <2>1, <2>2
<1> QED
  BY <1>3, <1>4

(***************************************************************************)
(* Borders of borders are borders, and a border grows by a character that  *)
(* comes after both ends of it.                                            *)
(***************************************************************************)
LEMMA ShorterBorder ==
  ASSUME NEW x \in Nat, NEW q \in 0 .. x, NEW k \in 0 .. q, Strings!IsBorder(q, x)
  PROVE  Strings!IsBorder(k, x) <=> Strings!IsBorder(k, q)
<1>1. ASSUME NEW y \in 0 .. k - 1 PROVE p[q - k + y] = p[x - k + y]
  <2>1. q - k + y \in 0 .. q - 1 /\ x - q + (q - k + y) = x - k + y
    OBVIOUS
  <2>2. p[q - k + y] = p[x - q + (q - k + y)]
    BY <2>1 DEF Strings!IsBorder
  <2> QED
    BY <2>1, <2>2
<1> QED
  BY <1>1 DEF Strings!IsBorder

LEMMA BorderGrows ==
  ASSUME NEW x \in Nat, NEW k \in Nat
  PROVE  Strings!IsBorder(k + 1, x + 1) <=> Strings!IsBorder(k, x) /\ p[k] = p[x]
<1>1. \A y \in 0 .. k : (x + 1) - (k + 1) + y = x - k + y
  OBVIOUS
<1>2. /\ (k + 1) - 1 = k /\ x - k + k = x
      /\ \A y : y \in 0 .. k <=> y \in 0 .. k - 1 \/ y = k
  OBVIOUS
<1>3. Strings!IsBorder(k + 1, x + 1) <=> \A y \in 0 .. k : p[y] = p[x - k + y]
  BY <1>1, <1>2 DEF Strings!IsBorder
<1>4. (\A y \in 0 .. k : p[y] = p[x - k + y])
        <=> (\A y \in 0 .. k - 1 : p[y] = p[x - k + y]) /\ p[k] = p[x]
  BY <1>2
<1> QED
  BY <1>3, <1>4 DEF Strings!IsBorder

(***************************************************************************)
(* The invariant of the loops that fill a table: the border of place i in  *)
(* hand has j characters, and no longer one can be extended.               *)
(***************************************************************************)
KmpShape ==
  /\ Strings!plen \in Nat \ {0}
  /\ goal \in {"match", "nextval"} /\ (goal = "match" => Strings!slen \in Nat)
  /\ at \in {"table", "match", "done"} /\ (at = "match" => goal = "match")
  /\ i \in Nat /\ j \in Int /\ j >= -1
  /\ DOMAIN table = 0 .. Strings!plen - 1

BorderInHand ==
  /\ i <= Strings!plen - 1 /\ j < i
  /\ j # -1 => Strings!IsBorder(j, i)
  /\ \A k \in 0 .. i - 1 : k > j /\ Strings!IsBorder(k, i) => p[k] # p[i]

(***************************************************************************)
(* The invariant of the matching: the pattern may occur at i - j, and does *)
(* not occur before, from str[1] on.                                       *)
(***************************************************************************)
MatchInHand ==
  /\ j <= Strings!plen /\ i <= Strings!slen /\ i - j >= 1
  /\ \A y \in 0 .. j - 1 : str[i - j + y] = p[y]
  /\ \A x \in 1 .. i - j - 1 : ~Strings!OccursAt(x)

(***************************************************************************)
(* What kmp returns: the first occurrence that does not begin at str[0].   *)
(***************************************************************************)
MatchedFromOne == at = "done" /\ goal = "match" => result = Strings!First(1)

KmpInv ==
  /\ KmpShape
  /\ Strings!BorderTables
  /\ at = "table" => BorderInHand
  /\ at = "match" => MatchInHand
  /\ MatchedFromOne

\* what an entry of either table says
Entry(x) == IF goal = "match" THEN Strings!LongestBorder(x) ELSE Strings!Optimised(x)

LEMMA EntryIs ==
  ASSUME NEW x \in Nat
  PROVE  /\ Entry(x) \in -1 .. x - 1
         /\ Entry(x) # -1 => Strings!IsBorder(Entry(x), x)
         /\ \A k \in 0 .. x - 1 : k > Entry(x) /\ Strings!IsBorder(k, x) =>
              goal # "match" /\ p[k] = p[x]
<1>1. CASE goal = "match"
  <2>1. Longest(Entry(x), x) /\ Entry(x) \in Int
    BY <1>1, LongestIs DEF Entry, Longest
  <2> QED
    BY <2>1 DEF Longest
<1>2. CASE goal # "match"
  <2>1. LongestOther(Entry(x), x) /\ Entry(x) \in Int
    BY <1>2, LongestOtherIs DEF Entry, LongestOther
  <2> QED
    BY <1>2, <2>1 DEF LongestOther
<1> QED
  BY <1>1, <1>2

\* the entries that have been written
LEMMA Written ==
  ASSUME KmpShape, Strings!BorderTables, NEW x \in 0 .. Strings!plen - 1,
         at = "table" => x <= i
  PROVE  table[x] = Entry(x)
<1>1. x \in Int /\ i \in Int
  BY DEF KmpShape
<1>2. ~(at = "table" /\ x > i)
  BY <1>1
<1> QED
  BY <1>2 DEF Strings!BorderTables, Entry

LEMMA EntriesStay ==
  ASSUME UNCHANGED <<p, goal>>
  PROVE  /\ Strings!plen' = Strings!plen
         /\ \A x : Entry(x)' = Entry(x)
         /\ \A k, x : Strings!IsBorder(k, x)' <=> Strings!IsBorder(k, x)
<1>1. Strings!plen' = Strings!plen
  BY DEF Strings!plen
<1>2. \A k, x : Strings!IsBorder(k, x)' <=> Strings!IsBorder(k, x)
  BY DEF Strings!IsBorder
<1>3. ASSUME NEW x PROVE Entry(x)' = Entry(x)
  BY DEF Entry, Strings!LongestBorder, Strings!Optimised, Strings!IsBorder
<1> QED
  BY <1>1, <1>2, <1>3

LEMMA TablesAre ==
  Strings!BorderTables <=> \A x \in 0 .. Strings!plen - 1 :
                             table[x] = IF at = "table" /\ x > i THEN None ELSE Entry(x)
BY DEF Strings!BorderTables, Entry

LEMMA TablesAreNext ==
  Strings!BorderTables' <=> \A x \in 0 .. Strings!plen' - 1 :
                              table'[x] = IF at' = "table" /\ x > i' THEN None ELSE Entry(x)'
BY DEF Strings!BorderTables, Entry

LEMMA KmpInit == Strings!Init => KmpInv
<1> SUFFICES ASSUME Strings!Init PROVE KmpInv
  OBVIOUS
<1>1. ASSUME NEW n \in Nat, NEW V, NEW s \in [0 .. n - 1 -> V] PROVE Strings!Size(s) = n
  <2>1. Size(s) = n
    BY SizeIs
  <2> QED
    BY <2>1 DEF Strings!Size, Size, Strings!Cardinality, Cardinality
<1>2. Strings!plen \in Nat \ {0}
  <2>1. PICK n \in 0 .. LongestPattern : p \in [0 .. n - 1 -> Char]
    BY DEF Strings!Init, Functions
  <2>2. p \notin [0 .. 0 - 1 -> Char]
    BY DEF Strings!Init, Functions
  <2>3. n \in Nat \ {0}
    BY <2>1, <2>2, Sizes
  <2> QED
    BY <1>1, <2>1, <2>3 DEF Strings!plen
<1>3. goal = "match" => Strings!slen \in Nat
  <2>1. SUFFICES ASSUME goal = "match" PROVE Strings!slen \in Nat
    OBVIOUS
  <2>2. PICK n \in 0 .. LongestText : str \in [0 .. n - 1 -> Char]
    BY <2>1 DEF Strings!Init, Functions
  <2>3. n \in Nat
    BY Sizes
  <2> QED
    BY <1>1, <2>2, <2>3 DEF Strings!slen
<1>4. /\ goal \in {"match", "nextval"} /\ at = "table" /\ i = 0 /\ j = -1
      /\ table = [x \in 0 .. Strings!plen - 1 |-> IF x = 0 THEN -1 ELSE None]
  BY DEF Strings!Init
<1>5. KmpShape
  BY <1>2, <1>3, <1>4 DEF KmpShape
<1>6. Entry(0) = -1
  <2>1. Entry(0) \in -1 .. 0 - 1
    BY EntryIs
  <2> QED
    BY <2>1
<1>7. Strings!BorderTables
  BY <1>2, <1>4, <1>6, TablesAre
<1>8. BorderInHand
  BY <1>2, <1>4 DEF BorderInHand
<1> QED
  BY <1>4, <1>5, <1>7, <1>8 DEF KmpInv, MatchedFromOne

(***************************************************************************)
(* The characters at i and j extend the border in hand: it is the longest  *)
(* border of the next place.                                               *)
(***************************************************************************)
LEMMA BorderExtended ==
  ASSUME KmpShape, BorderInHand, Strings!Extends
  PROVE  Longest(j + 1, i + 1)
<1>1. i \in Nat /\ j \in -1 .. i - 1
  BY DEF KmpShape, BorderInHand
<1>2. Strings!IsBorder(j + 1, i + 1)
  <2>1. CASE j = -1
    BY <2>1 DEF Strings!IsBorder
  <2>2. CASE j # -1
    <3>1. j \in Nat /\ Strings!IsBorder(j, i) /\ p[j] = p[i]
      BY <1>1, <2>2 DEF BorderInHand, Strings!Extends
    <3> QED
      BY <1>1, <3>1, BorderGrows
  <2> QED
    BY <2>1, <2>2
<1>3. ASSUME NEW k \in 0 .. (i + 1) - 1, Strings!IsBorder(k, i + 1), ~(k <= j + 1)
      PROVE  FALSE
  <2>1. PICK q \in Nat : k = q + 1
    BY <1>1, <1>3
  <2>2. q \in 0 .. i - 1 /\ q > j
    BY <1>1, <1>3, <2>1
  <2>3. Strings!IsBorder(q, i) /\ p[q] = p[i]
    BY <1>1, <1>3, <2>1, BorderGrows
  <2> QED
    BY <2>2, <2>3 DEF BorderInHand
<1>4. j + 1 \in -1 .. (i + 1) - 1
  BY <1>1
<1> QED
  BY <1>2, <1>3, <1>4 DEF Longest

\* the entry that the turn of get_nextval writes
LEMMA NextvalEntry ==
  ASSUME KmpShape, BorderInHand, Strings!BorderTables, at = "table", goal = "nextval",
         Strings!Filling, Strings!Extends
  PROVE  (IF p[i + 1] # p[j + 1] THEN j + 1 ELSE table[j + 1]) = Strings!Optimised(i + 1)
<1> PICK x \in Nat : x = i + 1
  BY DEF KmpShape
<1> PICK q \in Nat : q = j + 1
  BY DEF KmpShape
<1>1. Longest(q, x)
  BY BorderExtended
<1>2. q \in 0 .. x - 1 /\ q \in 0 .. x /\ Strings!IsBorder(q, x)
  BY <1>1 DEF Longest
<1>3. CASE p[x] # p[q]
  <2>1. LongestOther(q, x)
    BY <1>1, <1>2, <1>3 DEF Longest, LongestOther
  <2> QED
    BY <1>3, <2>1, LongestOtherIs
<1>4. CASE p[x] = p[q]
  <2>1. q \in 0 .. Strings!plen - 1 /\ q <= i
    BY <1>2 DEF KmpShape, Strings!Filling
  <2>2. table[q] = Strings!Optimised(q)
    BY <2>1, Written DEF Entry
  <2> PICK o : o = Strings!Optimised(q)
    OBVIOUS
  <2>3. LongestOther(o, q)
    BY LongestOtherIs
  <2>4. o \in -1 .. x - 1 /\ o \in Int
    BY <1>2, <2>3 DEF LongestOther
  <2>5. o # -1 => Strings!IsBorder(o, x) /\ p[o] # p[x]
    <3> SUFFICES ASSUME o # -1 PROVE Strings!IsBorder(o, x) /\ p[o] # p[x]
      OBVIOUS
    <3>1. o \in 0 .. q /\ Strings!IsBorder(o, q) /\ p[o] # p[q]
      BY <2>3 DEF LongestOther
    <3> QED
      BY <1>2, <1>4, <3>1, ShorterBorder
  <2>6. ASSUME NEW k \in 0 .. x - 1, Strings!IsBorder(k, x), p[k] # p[x] PROVE k <= o
    <3>1. k <= q
      BY <1>1, <2>6 DEF Longest
    <3>2. k # q
      BY <1>4, <2>6
    <3>3. k \in 0 .. q - 1 /\ k \in 0 .. q
      BY <3>1, <3>2
    <3>4. Strings!IsBorder(k, q)
      BY <1>2, <2>6, <3>3, ShorterBorder
    <3> QED
      BY <1>4, <2>3, <2>6, <3>3, <3>4 DEF LongestOther
  <2>7. LongestOther(o, x)
    BY <2>4, <2>5, <2>6 DEF LongestOther
  <2> QED
    BY <1>4, <2>2, <2>7, LongestOtherIs
<1> QED
  BY <1>3, <1>4

LEMMA KmpFills ==
  ASSUME KmpInv, Strings!NextTurn \/ Strings!NextvalTurn
  PROVE  KmpInv'
<1>1. /\ KmpShape /\ Strings!BorderTables /\ BorderInHand /\ at = "table"
      /\ Strings!Filling /\ Strings!Extends
  BY DEF KmpInv, Strings!NextTurn, Strings!NextvalTurn, Strings!Filling
<1> PICK x \in Nat : x = i + 1
  BY <1>1 DEF KmpShape
<1> PICK q \in Nat : q = j + 1
  BY <1>1 DEF KmpShape
<1>2. Longest(q, x)
  BY <1>1, BorderExtended
<1>3. /\ i' = x /\ j' = q /\ UNCHANGED <<str, p, goal, at, result>>
  BY DEF Strings!NextTurn, Strings!NextvalTurn
<1>4. table' = [table EXCEPT ![x] = Entry(x)]
  <2>1. CASE Strings!NextTurn
    <3>1. q = Entry(x)
      BY <1>2, <2>1, LongestIs DEF Strings!NextTurn, Entry
    <3> QED
      BY <2>1, <3>1 DEF Strings!NextTurn
  <2>2. CASE Strings!NextvalTurn
    <3>1. goal = "nextval"
      BY <2>2 DEF Strings!NextvalTurn
    <3>2. (IF p[x] # p[q] THEN q ELSE table[q]) = Entry(x)
      BY <1>1, <3>1, NextvalEntry DEF Entry
    <3> QED
      BY <2>2, <3>2 DEF Strings!NextvalTurn
  <2> QED
    BY <2>1, <2>2
<1>5. UNCHANGED <<p, goal>>
  BY <1>3
<1>6. KmpShape'
  <2>1. Strings!slen' = Strings!slen
    BY <1>3 DEF Strings!slen
  <2>2. Strings!plen' = Strings!plen
    BY <1>5, EntriesStay
  <2>3. DOMAIN table' = 0 .. Strings!plen - 1
    BY <1>1, <1>4 DEF KmpShape
  <2> QED
    BY <1>1, <1>3, <2>1, <2>2, <2>3 DEF KmpShape
<1>7. Strings!BorderTables'
  <2>1. x \in 0 .. Strings!plen - 1
    BY <1>1 DEF KmpShape, Strings!Filling
  <2>2. ASSUME NEW y \in 0 .. Strings!plen - 1
        PROVE  table'[y] = IF y > x THEN None ELSE Entry(y)
    <3>1. table[y] = IF y > i THEN None ELSE Entry(y)
      BY <1>1, TablesAre
    <3>2. table'[y] = IF y = x THEN Entry(x) ELSE table[y]
      BY <1>1, <1>4 DEF KmpShape
    <3>3. i \in Int /\ y \in Int /\ (y # x => (y > i <=> y > x)) /\ ~(x > x)
      BY <1>1 DEF KmpShape
    <3> QED
      BY <3>1, <3>2, <3>3
  <2>3. \A y \in 0 .. Strings!plen' - 1 :
          table'[y] = IF at' = "table" /\ y > i' THEN None ELSE Entry(y)'
    BY <1>1, <1>3, <1>5, <2>2, EntriesStay
  <2> QED
    BY <2>3, TablesAreNext
<1>8. BorderInHand'
  <2>1. /\ x <= Strings!plen - 1 /\ q < x
        /\ Strings!IsBorder(q, x)
    BY <1>1, <1>2 DEF KmpShape, Strings!Filling, Longest
  <2>2. \A k \in 0 .. x - 1 : ~(k > q /\ Strings!IsBorder(k, x))
    BY <1>2 DEF Longest
  <2>3. /\ Strings!plen' = Strings!plen
        /\ Strings!IsBorder(q, x)'
        /\ \A k \in 0 .. x - 1 : ~(k > q /\ Strings!IsBorder(k, x)')
    BY <1>5, <2>1, <2>2, EntriesStay
  <2> QED
    BY <1>3, <2>1, <2>3 DEF BorderInHand, Strings!IsBorder
<1> QED
  BY <1>1, <1>3, <1>6, <1>7, <1>8 DEF KmpInv, MatchedFromOne

LEMMA KmpFallsBack ==
  ASSUME KmpInv, Strings!FallBack
  PROVE  KmpInv'
<1>1. /\ KmpShape /\ Strings!BorderTables /\ BorderInHand /\ at = "table"
      /\ j # -1 /\ p[i] # p[j]
      /\ UNCHANGED <<str, p, goal, at, i, table, result>> /\ j' = table[j]
  BY DEF KmpInv, Strings!FallBack, Strings!Filling, Strings!Extends
<1>2. j \in 0 .. i - 1 /\ j \in 0 .. i /\ i \in Nat /\ i <= Strings!plen - 1
      /\ j \in 0 .. Strings!plen - 1 /\ j \in Nat
  BY <1>1 DEF KmpShape, BorderInHand
<1> PICK a \in Nat : a = i
  BY <1>2
<1> PICK b \in Nat : b = j
  BY <1>2
<1> PICK q : q = Entry(b)
  OBVIOUS
<1>3. j' = q
  BY <1>1, <1>2, Written
<1>4. /\ q \in -1 .. b - 1
      /\ q # -1 => Strings!IsBorder(q, b)
      /\ \A k \in 0 .. b - 1 : k > q /\ Strings!IsBorder(k, b) => p[k] = p[b]
  BY EntryIs
<1>5. UNCHANGED <<p, goal>>
  BY <1>1
<1>6. KmpShape'
  <2>1. Strings!slen' = Strings!slen
    BY <1>1 DEF Strings!slen
  <2>2. Strings!plen' = Strings!plen
    BY <1>5, EntriesStay
  <2>3. q \in Int /\ q >= -1
    BY <1>4
  <2> QED
    BY <1>1, <1>3, <2>1, <2>2, <2>3 DEF KmpShape
<1>7. Strings!BorderTables'
  <2>1. \A y \in 0 .. Strings!plen' - 1 :
          table'[y] = IF at' = "table" /\ y > i' THEN None ELSE Entry(y)'
    BY <1>1, <1>5, EntriesStay, TablesAre
  <2> QED
    BY <2>1, TablesAreNext
<1>8. BorderInHand'
  <2>1. Strings!IsBorder(b, a)
    BY <1>1 DEF BorderInHand
  <2>2. q # -1 => Strings!IsBorder(q, a)
    BY <1>2, <1>4, <2>1, ShorterBorder
  <2>3. ASSUME NEW k \in 0 .. a - 1, k > q, Strings!IsBorder(k, a) PROVE p[k] # p[a]
    <3>1. CASE k > b
      BY <1>1, <2>3, <3>1 DEF BorderInHand
    <3>2. CASE k = b
      BY <1>1, <3>2
    <3>3. CASE k < b
      <4>1. k \in 0 .. b - 1 /\ k \in 0 .. b
        BY <3>3
      <4>2. Strings!IsBorder(k, b)
        BY <1>2, <2>1, <2>3, <4>1, ShorterBorder
      <4> QED
        BY <1>1, <1>4, <2>3, <4>1, <4>2
    <3> QED
      BY <3>1, <3>2, <3>3
  <2>4. /\ Strings!plen' = Strings!plen
        /\ q # -1 => Strings!IsBorder(q, a)'
        /\ \A k \in 0 .. a - 1 : k > q /\ Strings!IsBorder(k, a)' => p[k] # p[a]
    BY <1>5, <2>2, <2>3, EntriesStay
  <2>5. a <= Strings!plen - 1 /\ q < a
    BY <1>2, <1>4
  <2> QED
    BY <1>1, <1>3, <2>4, <2>5 DEF BorderInHand, Strings!IsBorder
<1> QED
  BY <1>1, <1>6, <1>7, <1>8 DEF KmpInv, MatchedFromOne

LEMMA KmpTableDone ==
  ASSUME KmpInv, Strings!TableDone
  PROVE  KmpInv'
<1>1. /\ KmpShape /\ Strings!BorderTables /\ BorderInHand /\ at = "table"
      /\ ~Strings!Filling
      /\ at' = (IF goal = "match" THEN "match" ELSE "done")
      /\ i' = 0 /\ j' = -1 /\ UNCHANGED <<str, p, goal, table, result>>
  BY DEF KmpInv, Strings!TableDone
<1>2. i \in Nat /\ i = Strings!plen - 1 /\ Strings!plen \in Nat \ {0}
  BY <1>1 DEF KmpShape, BorderInHand, Strings!Filling
<1>3. UNCHANGED <<p, goal>>
  BY <1>1
<1>4. Strings!plen' = Strings!plen /\ Strings!slen' = Strings!slen
  BY <1>1, <1>3, EntriesStay DEF Strings!slen
<1>5. KmpShape'
  BY <1>1, <1>4 DEF KmpShape
<1>6. Strings!BorderTables'
  <2>1. ASSUME NEW y \in 0 .. Strings!plen - 1 PROVE table[y] = Entry(y)
    BY <1>1, <1>2, Written
  <2>2. at' # "table"
    BY <1>1
  <2>3. \A y \in 0 .. Strings!plen' - 1 :
          table'[y] = IF at' = "table" /\ y > i' THEN None ELSE Entry(y)'
    BY <1>1, <1>3, <1>4, <2>1, <2>2, EntriesStay
  <2> QED
    BY <2>3, TablesAreNext
<1>7. at' = "match" => MatchInHand'
  <2>1. SUFFICES ASSUME at' = "match" PROVE MatchInHand'
    OBVIOUS
  <2>2. Strings!slen \in Nat
    BY <1>1, <2>1 DEF KmpShape
  <2> QED
    BY <1>1, <1>2, <1>4, <2>2 DEF MatchInHand
<1> QED
  BY <1>1, <1>5, <1>6, <1>7 DEF KmpInv, MatchedFromOne

LEMMA KmpMoves ==
  ASSUME KmpInv, Strings!Advance \/ Strings!Shift
  PROVE  KmpInv'
<1>1. /\ KmpShape /\ Strings!BorderTables /\ MatchInHand /\ at = "match"
      /\ i < Strings!slen /\ j < Strings!plen
      /\ UNCHANGED <<str, p, goal, at, table, result>>
  BY DEF KmpInv, Strings!Advance, Strings!Shift, Strings!Matching
<1>2. UNCHANGED <<p, goal>>
  BY <1>1
<1>3. Strings!plen' = Strings!plen /\ Strings!slen' = Strings!slen
  BY <1>1, <1>2, EntriesStay DEF Strings!slen
<1>4. goal = "match" /\ Strings!slen \in Nat /\ i \in Nat /\ j \in Int /\ j >= -1
      /\ Strings!plen \in Nat
  BY <1>1 DEF KmpShape
<1> PICK a \in Nat : a = i
  BY <1>4
<1> PICK b \in Int : b = j
  BY <1>4
<1>5. Strings!BorderTables'
  <2>1. \A y \in 0 .. Strings!plen' - 1 :
          table'[y] = IF at' = "table" /\ y > i' THEN None ELSE Entry(y)'
    BY <1>1, <1>2, <1>3, EntriesStay, TablesAre
  <2> QED
    BY <2>1, TablesAreNext
<1>6. \A x : Strings!OccursAt(x)' <=> Strings!OccursAt(x)
  BY <1>1, <1>3 DEF Strings!OccursAt
<1>7. CASE Strings!Advance
  <2>1. i' = a + 1 /\ j' = b + 1 /\ (b # -1 => str[a] = p[b])
    BY <1>7 DEF Strings!Advance
  <2>2. KmpShape'
    BY <1>1, <1>3, <2>1 DEF KmpShape
  <2>3. ASSUME NEW y \in 0 .. b PROVE str[a - b + y] = p[y]
    <3>1. CASE y = b
      <4>1. b # -1 /\ a - b + y = a
        BY <3>1
      <4> QED
        BY <2>1, <3>1, <4>1
    <3>2. CASE y # b
      BY <1>1, <3>2 DEF MatchInHand
    <3> QED
      BY <3>1, <3>2
  <2>4. (a + 1) - (b + 1) = a - b /\ (b + 1) - 1 = b
    OBVIOUS
  <2>5. \A x \in 1 .. a - b - 1 : ~Strings!OccursAt(x)'
    BY <1>1, <1>6 DEF MatchInHand
  <2>6. /\ \A y \in 0 .. j' - 1 : str'[i' - j' + y] = p'[y]
        /\ \A x \in 1 .. i' - j' - 1 : ~Strings!OccursAt(x)'
    BY <1>1, <2>1, <2>3, <2>4, <2>5
  <2>7. j' <= Strings!plen' /\ i' <= Strings!slen' /\ i' - j' >= 1
    BY <1>1, <1>3, <1>4, <2>1 DEF MatchInHand
  <2>8. MatchInHand'
    BY <2>6, <2>7 DEF MatchInHand
  <2> QED
    BY <1>1, <1>5, <2>2, <2>8 DEF KmpInv, MatchedFromOne
<1>8. CASE Strings!Shift
  <2>1. i' = a /\ j' = table[b] /\ b # -1 /\ str[a] # p[b]
    BY <1>8 DEF Strings!Shift
  <2>2. b \in 0 .. Strings!plen - 1 /\ b \in Nat
    BY <1>1, <1>4, <2>1
  <2> PICK q : q = Entry(b)
    OBVIOUS
  <2>3. j' = q
    BY <1>1, <2>1, <2>2, Written
  <2>4. /\ q \in -1 .. b - 1 /\ q \in Int
        /\ q # -1 => Strings!IsBorder(q, b)
        /\ \A k \in 0 .. b - 1 : ~(k > q /\ Strings!IsBorder(k, b))
    BY <1>4, <2>2, EntryIs
  <2>5. KmpShape'
    BY <1>1, <1>3, <2>1, <2>3, <2>4 DEF KmpShape
  <2>6. /\ a - b >= 1
        /\ \A y \in 0 .. b - 1 : str[a - b + y] = p[y]
        /\ \A x \in 1 .. a - b - 1 : ~Strings!OccursAt(x)
    BY <1>1 DEF MatchInHand
  <2>7. ASSUME NEW y \in 0 .. q - 1 PROVE str[a - q + y] = p[y]
    <3>1. b - q + y \in 0 .. b - 1 /\ a - b + (b - q + y) = a - q + y /\ q # -1
      BY <2>4
    <3>2. str[a - b + (b - q + y)] = p[b - q + y]
      BY <2>6, <3>1
    <3>3. p[y] = p[b - q + y]
      BY <2>4, <3>1 DEF Strings!IsBorder
    <3> QED
      BY <3>1, <3>2, <3>3
  <2>8. ASSUME NEW x \in 1 .. a - q - 1, Strings!OccursAt(x) PROVE FALSE
    <3>1. \A y \in 0 .. Strings!plen - 1 : str[x + y] = p[y]
      BY <2>8 DEF Strings!OccursAt
    <3>2. CASE x <= a - b - 1
      BY <2>6, <2>8, <3>2
    <3>3. CASE x = a - b
      <4>1. x + b = a
        BY <3>3
      <4> QED
        BY <2>1, <2>2, <3>1, <4>1
    <3>4. CASE x > a - b
      <4> PICK k \in Int : k = a - x
        OBVIOUS
      <4>1. k \in 0 .. b - 1 /\ k > q /\ x = a - k
        BY <2>4, <3>4
      <4>2. ASSUME NEW y \in 0 .. k - 1 PROVE p[y] = p[b - k + y]
        <5>1. /\ y \in 0 .. Strings!plen - 1 /\ b - k + y \in 0 .. b - 1
              /\ a - b + (b - k + y) = x + y
          BY <1>4, <2>2, <4>1
        <5>2. str[x + y] = p[y]
          BY <3>1, <5>1
        <5>3. str[a - b + (b - k + y)] = p[b - k + y]
          BY <2>6, <5>1
        <5> QED
          BY <5>1, <5>2, <5>3
      <4>3. Strings!IsBorder(k, b)
        BY <4>2 DEF Strings!IsBorder
      <4> QED
        BY <2>4, <4>1, <4>3
    <3> QED
      BY <3>2, <3>3, <3>4
  <2>9. /\ \A y \in 0 .. j' - 1 : str'[i' - j' + y] = p'[y]
        /\ \A x \in 1 .. i' - j' - 1 : ~Strings!OccursAt(x)'
    BY <1>1, <1>6, <2>1, <2>3, <2>7, <2>8
  <2>10. j' <= Strings!plen' /\ i' <= Strings!slen' /\ i' - j' >= 1
    BY <1>1, <1>3, <1>4, <2>1, <2>2, <2>3, <2>4, <2>6
  <2>11. MatchInHand'
    BY <2>9, <2>10 DEF MatchInHand
  <2> QED
    BY <1>1, <1>5, <2>5, <2>11 DEF KmpInv, MatchedFromOne
<1> QED
  BY <1>7, <1>8

LEMMA FirstIs ==
  ASSUME Strings!slen \in Nat, NEW x \in 1 .. Strings!slen, Strings!OccursAt(x),
         \A y \in 1 .. x - 1 : ~Strings!OccursAt(y)
  PROVE  Strings!First(1) = x
<1> DEFINE places == {y \in 1 .. Strings!slen : Strings!OccursAt(y)}
<1>1. x \in places /\ \A y \in places : x <= y
  OBVIOUS
<1>2. \A y \in places : y \in Int
  OBVIOUS
<1>3. Strings!Min(places) = x
  <2> HIDE DEF places
  <2>1. /\ Strings!Min(places) \in places
        /\ \A y \in places : Strings!Min(places) <= y
    BY <1>1 DEF Strings!Min
  <2>2. /\ Strings!Min(places) \in Int /\ x \in Int
        /\ x <= Strings!Min(places) /\ Strings!Min(places) <= x
    BY <1>1, <1>2, <2>1
  <2> QED
    BY <2>2
<1>4. places # {}
  BY <1>1
<1>5. Strings!First(1) = IF places = {} THEN -1 ELSE Strings!Min(places)
  BY DEF Strings!First
<1> QED
  BY <1>3, <1>4, <1>5

LEMMA KmpReturns ==
  ASSUME KmpInv, Strings!Return
  PROVE  KmpInv'
<1>1. /\ KmpShape /\ Strings!BorderTables /\ MatchInHand /\ at = "match"
      /\ ~Strings!Matching /\ at' = "done"
      /\ result' = (IF j = Strings!plen THEN i - Strings!plen ELSE -1)
      /\ UNCHANGED <<str, p, goal, i, j, table>>
  BY DEF KmpInv, Strings!Return
<1>2. UNCHANGED <<p, goal>>
  BY <1>1
<1>3. Strings!plen' = Strings!plen /\ Strings!slen' = Strings!slen
  BY <1>1, <1>2, EntriesStay DEF Strings!slen
<1>4. /\ Strings!slen \in Nat /\ i \in Nat /\ j \in Int /\ Strings!plen \in Nat \ {0}
      /\ j <= Strings!plen /\ i <= Strings!slen /\ i - j >= 1
  BY <1>1 DEF KmpShape, MatchInHand
<1>5. Strings!BorderTables'
  <2>1. \A y \in 0 .. Strings!plen' - 1 :
          table'[y] = IF at' = "table" /\ y > i' THEN None ELSE Entry(y)'
    BY <1>1, <1>2, <1>3, EntriesStay, TablesAre
  <2> QED
    BY <2>1, TablesAreNext
<1>6. KmpShape'
  BY <1>1, <1>3 DEF KmpShape
<1>7. result' = Strings!First(1)
  <2>1. CASE j = Strings!plen
    <3> PICK x \in Int : x = i - j
      BY <1>4
    <3>1. x \in 1 .. Strings!slen /\ x + Strings!plen = i
      BY <1>4, <2>1
    <3>2. Strings!OccursAt(x)
      BY <1>1, <1>4, <2>1, <3>1 DEF MatchInHand, Strings!OccursAt
    <3>3. \A y \in 1 .. x - 1 : ~Strings!OccursAt(y)
      BY <1>1 DEF MatchInHand
    <3>4. Strings!First(1) = x
      BY <1>4, <3>1, <3>2, <3>3, FirstIs
    <3> QED
      BY <1>1, <2>1, <3>4
  <2>2. CASE j # Strings!plen
    <3>1. i = Strings!slen /\ j < Strings!plen
      BY <1>1, <1>4, <2>2 DEF Strings!Matching
    <3>2. ASSUME NEW x \in 1 .. Strings!slen, Strings!OccursAt(x) PROVE FALSE
      <4>1. x + Strings!plen <= Strings!slen
        BY <3>2 DEF Strings!OccursAt
      <4>2. x \in 1 .. i - j - 1
        BY <1>4, <3>1, <4>1
      <4> QED
        BY <1>1, <3>2, <4>2 DEF MatchInHand
    <3>3. Strings!First(1) = -1
      BY <3>2 DEF Strings!First
    <3> QED
      BY <1>1, <2>2, <3>3
  <2> QED
    BY <2>1, <2>2
<1>8. Strings!First(1)' = Strings!First(1)
  BY <1>1, <1>3 DEF Strings!First, Strings!OccursAt
<1> QED
  BY <1>1, <1>5, <1>6, <1>7, <1>8 DEF KmpInv, MatchedFromOne

LEMMA KmpStep == KmpInv /\ [Strings!Next]_(Strings!vars) => KmpInv'
<1> SUFFICES ASSUME KmpInv, [Strings!Next]_(Strings!vars) PROVE KmpInv'
  OBVIOUS
<1>1. CASE UNCHANGED Strings!vars
  <2>1. UNCHANGED <<str, p, goal, at, i, j, table, result>>
    BY <1>1 DEF Strings!vars
  <2>2. UNCHANGED <<p, goal>>
    BY <2>1
  <2>3. Strings!plen' = Strings!plen /\ Strings!slen' = Strings!slen
    BY <2>1, <2>2, EntriesStay DEF Strings!slen
  <2>4. KmpShape'
    BY <2>1, <2>3 DEF KmpInv, KmpShape
  <2>5. Strings!BorderTables'
    <3>1. \A y \in 0 .. Strings!plen' - 1 :
            table'[y] = IF at' = "table" /\ y > i' THEN None ELSE Entry(y)'
      BY <2>1, <2>2, <2>3, EntriesStay, TablesAre DEF KmpInv
    <3> QED
      BY <3>1, TablesAreNext
  <2>6. at' = "table" => BorderInHand'
    BY <2>1, <2>3 DEF KmpInv, BorderInHand, Strings!IsBorder
  <2>7. at' = "match" => MatchInHand'
    BY <2>1, <2>3 DEF KmpInv, MatchInHand, Strings!OccursAt
  <2>8. MatchedFromOne'
    BY <2>1, <2>3 DEF KmpInv, MatchedFromOne, Strings!First, Strings!OccursAt
  <2> QED
    BY <2>4, <2>5, <2>6, <2>7, <2>8 DEF KmpInv
<1> QED
  BY <1>1, KmpFills, KmpFallsBack, KmpTableDone, KmpMoves, KmpReturns DEF Strings!Next
-----------------------------------------------------------------------------
(***************************************************************************)
(* The suite: the invariant of the program that runs.  Only Compaction has *)
(* the goal "once".                                                        *)
(***************************************************************************)
Programs ==
  {"Kmp", "Compaction", "Majority", "ArrayExercises", "ListQueries", "ListRemovals", "ListRelinks"}

SuiteInv ==
  /\ which \in Programs
  /\ which = "Kmp" => KmpInv
  /\ which = "Compaction" => CompactInv
  /\ which = "Majority" => VoteInv
  /\ which # "Compaction" => goal # "once"

LEMMA SuiteStarts == SuiteInit => SuiteInv
<1> SUFFICES ASSUME SuiteInit PROVE SuiteInv
  OBVIOUS
<1>1. CASE which = "Kmp"
  <2>1. Strings!Init
    BY <1>1 DEF SuiteInit
  <2> QED
    BY <1>1, <2>1, KmpInit DEF SuiteInv, Programs, Strings!Init
<1>2. CASE which = "Compaction"
  <2>1. Init
    BY <1>2 DEF SuiteInit
  <2> QED
    BY <1>2, <2>1, CompactInit DEF SuiteInv, Programs
<1>3. CASE which = "Majority"
  <2>1. Vote!Init /\ goal = None
    BY <1>3 DEF SuiteInit, Off
  <2> QED
    BY <1>3, <2>1, VoteInit, NullIsApart DEF SuiteInv, Programs
<1>4. CASE which \in {"ArrayExercises", "ListQueries"}
  <2>1. goal = None
    BY <1>4 DEF SuiteInit, ControlOff, Off
  <2> QED
    BY <1>4, <2>1, NullIsApart DEF SuiteInv, Programs
<1>5. CASE which = "ListRemovals"
  <2>1. Removal!Init
    BY <1>5 DEF SuiteInit
  <2> QED
    BY <1>5, <2>1 DEF SuiteInv, Programs, Removal!Init
<1>6. CASE which = "ListRelinks"
  <2>1. Relink!Init
    BY <1>6 DEF SuiteInit
  <2>2. goal # "once"
    BY <2>1 DEF Relink!Init, Relink!Dividing
  <2> QED
    BY <1>6, <2>2 DEF SuiteInv, Programs
<1> QED
  BY <1>1, <1>2, <1>3, <1>4, <1>5, <1>6 DEF SuiteInit

\* the other programs keep their goal
LEMMA RemovalGoal == Removal!Next => goal' = goal
BY DEF Removal!Next, Removal!list, Removal!Keep, Removal!Drop, Removal!OutsideBitmap,
       Removal!Return, Removal!Look, Removal!TakeLeast, Removal!NoneLeft, Removal!MinOfNone,
       Removal!InBoth, Removal!OnlyInFirst, Removal!OnlyInOther, Removal!CallReturns

LEMMA RelinkGoal == Relink!Next => goal' = goal
<1>1. Relink!LastCall \/ Relink!CallReturns \/ Relink!Divide \/ Relink!Divided \/ Relink!Halved
        => goal' = goal
  BY DEF Relink!lists, Relink!LastCall, Relink!CallReturns, Relink!Divide, Relink!Divided,
         Relink!Halved
<1>2. ASSUME \/ Relink!Interleave \/ Relink!Interleaved \/ Relink!TakeFromA
             \/ Relink!TakeFromB \/ Relink!AllTaken \/ Relink!SeekTail \/ Relink!Join
      PROVE  goal' = goal
  BY <1>2 DEF Relink!lists, Relink!Interleave, Relink!Interleaved, Relink!TakeFromA,
         Relink!TakeFromB, Relink!AllTaken, Relink!SeekTail, Relink!Join
<1>3. ASSUME NEW u, Relink!Get(u) PROVE goal' = goal
  <2>1. UNCHANGED Relink!lists
    BY <1>3, Zenon DEF Relink!Get
  <2> QED
    BY <2>1 DEF Relink!lists
<1>4. ASSUME \E u \in Relink!Values : Relink!Get(u) PROVE goal' = goal
  <2>1. PICK u \in Relink!Values : Relink!Get(u)
    BY <1>4
  <2> QED
    BY <2>1, <1>3
<1>5. SUFFICES ASSUME Relink!Next PROVE goal' = goal
  OBVIOUS
<1> QED
  BY <1>1, <1>2, <1>4, <1>5 DEF Relink!Next

LEMMA SuiteStep == SuiteInv /\ [SuiteNext]_suiteVars => SuiteInv'
<1> SUFFICES ASSUME SuiteInv, [SuiteNext]_suiteVars PROVE SuiteInv'
  OBVIOUS
<1>1. which' = which
  BY DEF SuiteNext, KmpNext, CompactNext, VoteNext, CallNext, RemovalNext, RelinkNext, suiteVars
<1>2. ASSUME UNCHANGED suiteVars PROVE
        /\ UNCHANGED Strings!vars /\ UNCHANGED vars /\ UNCHANGED Vote!vars /\ goal' = goal
  BY <1>2 DEF suiteVars, kmpOnly, compactOnly, voteOnly, Strings!vars, vars, Vote!vars
<1>3. CASE which = "Kmp"
  <2>1. [Strings!Next]_(Strings!vars)
    BY <1>2, <1>3 DEF SuiteNext, KmpNext, CompactNext, VoteNext, CallNext, RemovalNext, RelinkNext
  <2>2. KmpInv'
    BY <1>3, <2>1, KmpStep DEF SuiteInv
  <2>3. goal' # "once"
    BY <2>2 DEF KmpInv, KmpShape
  <2> QED
    BY <1>1, <1>3, <2>2, <2>3 DEF SuiteInv
<1>4. CASE which = "Compaction"
  <2>1. [Next]_vars
    BY <1>2, <1>4 DEF SuiteNext, KmpNext, CompactNext, VoteNext, CallNext, RemovalNext, RelinkNext
  <2> QED
    BY <1>1, <1>4, <2>1, CompactStep DEF SuiteInv
<1>5. CASE which = "Majority"
  <2>1. [Vote!Next]_(Vote!vars) /\ goal' = goal
    BY <1>2, <1>5 DEF SuiteNext, KmpNext, CompactNext, VoteNext, CallNext, RemovalNext, RelinkNext
  <2> QED
    BY <1>1, <1>5, <2>1, VoteStep DEF SuiteInv
<1>6. CASE which \notin {"Kmp", "Compaction", "Majority"}
  <2>1. goal' = goal
    BY <1>2, <1>6, RemovalGoal, RelinkGoal
       DEF SuiteNext, KmpNext, CompactNext, VoteNext, CallNext, RemovalNext, RelinkNext
  <2> QED
    BY <1>1, <1>6, <2>1 DEF SuiteInv
<1> QED
  BY <1>3, <1>4, <1>5, <1>6

THEOREM SuiteInvariant == SuiteSpec => []SuiteInv
BY SuiteStarts, SuiteStep, PTL DEF SuiteSpec

(***************************************************************************)
(* Whatever the list and whatever the pass deletes, remove_all and         *)
(* remove_all_in_range5 keep the order of what they leave.                 *)
(***************************************************************************)
THEOREM PassKeepsOrder == SuiteSpec => []KeepsOrder
<1>1. SuiteInv => KeepsOrder
  BY DEF SuiteInv, CompactInv, KeepsOrder
<1> QED
  BY SuiteInvariant, <1>1, PTL

(***************************************************************************)
(* No turn of the passes leaves the array; and when one pass has ended the *)
(* list holds each element it keeps, at its rank, and is no longer.        *)
(***************************************************************************)
PassInArray == which = "Compaction" => TypeOK /\ OnlyKept

THEOREM PassLeavesKept == SuiteSpec => []PassInArray
<1>1. CompactInv => TypeOK
  BY DEF CompactInv, CompactShape, TypeOK
<1>2. SuiteInv => PassInArray
  BY <1>1, CompactLeaves DEF SuiteInv, PassInArray
<1> QED
  BY SuiteInvariant, <1>2, PTL

(***************************************************************************)
(* For arrays of any length the answer of primary_elem_search is v if and  *)
(* only if more than half of the elements are v.                           *)
(***************************************************************************)
THEOREM VoteFindsMajority == SuiteSpec => []FindsMajority
<1>1. SuiteInv => FindsMajority
  BY DEF SuiteInv, VoteInv, FindsMajority
<1> QED
  BY SuiteInvariant, <1>1, PTL

(***************************************************************************)
(* For every pattern, get_next fills its table with the lengths of the     *)
(* longest borders and get_nextval with those of the longest ones that     *)
(* another character follows.                                              *)
(***************************************************************************)
THEOREM TablesHoldBorders == SuiteSpec => []BorderTables
<1>1. SuiteInv => BorderTables
  BY DEF SuiteInv, KmpInv, BorderTables
<1> QED
  BY SuiteInvariant, <1>1, PTL

(***************************************************************************)
(* For every text and every pattern, kmp returns where the pattern occurs  *)
(* first from str[1] on, and -1 if it occurs nowhere but perhaps at str[0]:*)
(* its loop begins with j = -1.                                            *)
(***************************************************************************)
KmpFinds == which = "Kmp" => MatchedFromOne

THEOREM KmpFindsFromOne == SuiteSpec => []KmpFinds
<1>1. SuiteInv => KmpFinds
  BY DEF SuiteInv, KmpInv, KmpFinds
<1> QED
  BY SuiteInvariant, <1>1, PTL
=============================================================================
