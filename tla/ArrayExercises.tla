---------------------------- MODULE ArrayExercises -----------------------------
(***************************************************************************)
(* The other programs of test/chapter_2_2.  Each is one call that computes *)
(* its answer from its arguments: `call' names it, and its step returns.   *)
(* A loop is a recursive function on what its turns change.                *)
(*                                                                         *)
(* Where the code leaves its array the result says so (wild), or holds     *)
(* None for what was read there.                                           *)
(***************************************************************************)
EXTENDS Counting, Sequences, FiniteSetsExt

CONSTANTS Most,   \* the values are 0 .. Most, and Most stands for INT_MAX
          Arrays, \* the arrays of such values
          None    \* no result yet, or a cell beyond the array

VARIABLES call, result

vars == <<call, result>>

Returns(op, res) == call.op = op /\ result = None /\ result' = res /\ UNCHANGED call

Ascending == {f \in Arrays : \A x, y \in DOMAIN f : x < y => f[x] <= f[y]}

\* q1.c. length stays; without an element below INT_MAX min_idx stays -1.
RemoveMin(a) ==
  LET n == Size(a)
      min == Min({a[x] : x \in DOMAIN a})
      at == Min({x \in DOMAIN a : a[x] = min})
  IN  IF n = 0 THEN [ret |-> -1, arr |-> a, wild |-> FALSE]
      ELSE IF min = Most THEN [ret |-> Most, arr |-> a, wild |-> TRUE]
      ELSE [ret |-> min, arr |-> [a EXCEPT ![at] = a[n - 1]], wild |-> FALSE]

\* reverse of q8.c and q10.c; q2.c reverses a whole list with the same turns
ReverseSpan(a, begin, end) ==
  LET go[k \in Nat] == IF k = 0 THEN a
                       ELSE LET f == go[k - 1]
                                x == begin + k - 1
                                y == end - k + 1
                            IN  [f EXCEPT ![x] = f[y], ![y] = f[x]]
  IN  IF begin < end THEN go[(end - begin + 1) \div 2] ELSE a

\* left_move of q10.c, which is swap_mn of q8.c for p and n - p elements
LeftMove(a, p) ==
  LET n == Size(a)
  IN  ReverseSpan(ReverseSpan(ReverseSpan(a, 0, p - 1), p, n - 1), 0, n - 1)

(***************************************************************************)
(* remove_all_in_range4 of q4_and_5.c.  The loop moves right - left        *)
(* elements down, whatever number comes after right; if every element is   *)
(* at most s it starts at arr[-1].                                         *)
(***************************************************************************)
RemoveRange(a, s, t) ==
  LET n == Size(a)
      above == {x \in DOMAIN a : a[x] > s}
      below == {x \in DOMAIN a : a[x] < t}
      left == IF above = {} THEN -1 ELSE Min(above)
      right == IF below = {} THEN -1 ELSE Max(below)
      range == right + 1 - left
      from(x) == IF x + range < n THEN a[x + range] ELSE None
  IN  IF n = 0 \/ s >= t THEN [arr |-> a, length |-> n, wild |-> FALSE]
      ELSE [arr |-> [x \in DOMAIN a |-> IF x \in left .. right - 1 THEN from(x) ELSE a[x]],
            length |-> n - range,
            wild |-> left = -1]

\* sq_list_combine of q7.c
Combine(a, b) ==
  LET go[i \in Nat, j \in Nat] ==
        IF i = Size(a) /\ j = Size(b) THEN <<>>
        ELSE IF j = Size(b) \/ (i < Size(a) /\ a[i] < b[j]) THEN <<a[i]>> \o go[i + 1, j]
        ELSE <<b[j]>> \o go[i, j + 1]
  IN  go[0, 0]

(***************************************************************************)
(* insert_or_swap_with_next of q9.c: the list is full or has one cell to   *)
(* spare.  A list of at most one element is not searched, and idx is what  *)
(* the stack holds.  sq_list_insert refuses an index out of range.         *)
(***************************************************************************)
InsertOrSwap(a, x, spare, unset) ==
  LET n == Size(a)
      search[left \in 0 .. n, right \in -1 .. n - 1, idx \in Int] ==
        LET mid == left + (right - left) \div 2
        IN  IF left >= right THEN [found |-> FALSE, idx |-> idx]
            ELSE IF a[mid] > x THEN search[left, mid - 1, mid]
            ELSE IF a[mid] < x THEN search[mid + 1, right, mid]
            ELSE [found |-> TRUE, idx |-> mid]
      end == search[0, n - 1, unset]
      inserted == [y \in 0 .. n |-> IF y < end.idx THEN a[y]
                                    ELSE IF y = end.idx THEN x ELSE a[y - 1]]
  IN  [found |-> end.found, idx |-> end.idx,
       arr |-> IF end.found /\ end.idx < n - 1
                 THEN [a EXCEPT ![end.idx] = a[end.idx + 1], ![end.idx + 1] = a[end.idx]]
               ELSE IF ~end.found /\ spare /\ end.idx \in 0 .. n THEN inserted
               ELSE a]

\* mid_search of q11.c, on the parts of l elements that begin at x and y
MidSearch(a, b) ==
  LET go[x \in Nat, y \in Nat, l \in Nat] ==
        LET idx == IF l = 0 THEN 0 ELSE (l - 1) \div 2 \* -1 / 2 is 0 in C
            u == a[x + idx]
            v == b[y + idx]
        IN  IF l = 0 THEN Min({u, v})
            ELSE IF u = v THEN u
            ELSE IF u > v THEN go[x, y + idx + 1, idx]
            ELSE go[x + idx + 1, y, idx]
  IN  go[0, 0, Size(a)]

\* find_min_positive of q13.c: a value of n is not looked at
FindMinPositive(a) ==
  LET n == Size(a)
      free == (1 .. n) \ {a[x] : x \in {y \in DOMAIN a : a[y] < n}}
  IN  IF free = {} THEN -1 ELSE Min(free)

\* main of q14.c: the pointer at the least of the three elements moves on
ShortestDist(a, b, c) ==
  LET go[i \in Nat, j \in Nat, k \in Nat, shortest \in Nat] ==
        IF i = Size(a) \/ j = Size(b) \/ k = Size(c) THEN shortest
        ELSE LET S == {a[i], b[j], c[k]}
                 dist == (Max(S) - Min(S)) * 2
                 nearer == IF dist < shortest THEN dist ELSE shortest
             IN  IF a[i] = Min(S) THEN go[i + 1, j, k, nearer]
                 ELSE IF b[j] = Min(S) THEN go[i, j + 1, k, nearer]
                 ELSE go[i, j, k + 1, nearer]
  IN  go[0, 0, 0, 2 * Most + 1]

Calls ==
  {[op |-> "remove_min", a |-> f] : f \in Arrays}
    \cup {[op |-> "reverse", a |-> f] : f \in Arrays}
    \cup {c \in [op : {"left_move"}, a : Arrays, p : 0 .. 5] : c.p <= Size(c.a)}
    \cup {[op |-> "remove_range", a |-> f, s |-> x, t |-> y] :
            f \in Ascending, x \in -1 .. Most, y \in 0 .. Most + 1}
    \cup {[op |-> "combine", a |-> f, b |-> g] : f, g \in Ascending}
    \cup {[op |-> "insert_or_swap", a |-> f, x |-> v, spare |-> room] :
            f \in Ascending, v \in 0 .. Most, room \in BOOLEAN}
    \cup {[op |-> "mid_search", a |-> f, b |-> g] :
            f \in {h \in Ascending : Size(h) = 2}, g \in {h \in Ascending : Size(h) = 2}}
    \cup {[op |-> "mid_search", a |-> f, b |-> g] :
            f \in {h \in Ascending : Size(h) = 5}, g \in {h \in Ascending : Size(h) = 5}}
    \cup {[op |-> "find_min_positive", a |-> f] : f \in Arrays}
    \cup {[op |-> "shortest_dist", a |-> f, b |-> g, c |-> h] :
            f, g, h \in {k \in Ascending : Size(k) \in 1 .. 2}}

Init == call \in Calls /\ result = None

Next ==
  \/ Returns("remove_min", RemoveMin(call.a))
  \/ Returns("reverse", ReverseSpan(call.a, 0, Size(call.a) - 1))
  \/ Returns("left_move", LeftMove(call.a, call.p))
  \/ Returns("remove_range", RemoveRange(call.a, call.s, call.t))
  \/ Returns("combine", Combine(call.a, call.b))
  \/ \E unset \in -1 .. 2 :
       Returns("insert_or_swap", InsertOrSwap(call.a, call.x, call.spare, unset))
  \/ Returns("mid_search", MidSearch(call.a, call.b))
  \/ Returns("find_min_positive", FindMinPositive(call.a))
  \/ Returns("shortest_dist", ShortestDist(call.a, call.b, call.c))

Spec == Init /\ [][Next]_vars /\ WF_vars(Next)
-----------------------------------------------------------------------------
Answered(op) == call.op = op /\ result # None

\* how often v comes in the first n elements of f
Times(f, v, n) == CountIn(f, {v}, n)

(***************************************************************************)
(* remove_min fills the place of the least element with the last one but   *)
(* keeps length: without the last cell the list has lost that element and  *)
(* no other.  If all elements are INT_MAX it writes before the array.      *)
(***************************************************************************)
MinRemoved ==
  Answered("remove_min") =>
    LET n == Size(call.a)
    IN  IF n = 0 THEN result.ret = -1
        ELSE /\ result.ret = Min({call.a[x] : x \in 0 .. n - 1})
             /\ result.wild <=> result.ret = Most
             /\ ~result.wild => \A v \in 0 .. Most :
                  Times(result.arr, v, n - 1)
                    = Times(call.a, v, n) - (IF v = result.ret THEN 1 ELSE 0)

(***************************************************************************)
(* Three reversals turn the list round by p places, and one turns it over, *)
(* also when its length is odd and when p is 0 or the whole length.        *)
(***************************************************************************)
Turned ==
  LET n == Size(call.a)
  IN  /\ Answered("reverse") => \A x \in 0 .. n - 1 : result[x] = call.a[n - 1 - x]
      /\ Answered("left_move") => \A x \in 0 .. n - 1 : result[x] = call.a[(x + call.p) % n]

Elements(f, n) == [x \in 1 .. n |-> f[x - 1]]

RightRange == Elements(result.arr, result.length)
                = SelectSeq(Elements(call.a, Size(call.a)), LAMBDA v : v <= call.s \/ v >= call.t)

(***************************************************************************)
(* remove_all_in_range4 is to delete all elements between s and t          *)
(* (chapter_2_2/q4_and_5.c:3).  It does if fewer elements follow than it   *)
(* removes, or if it has none to remove; its loop moves no more elements   *)
(* down than it removes.  It writes before the array if and only if no     *)
(* element is greater than s.                                              *)
(***************************************************************************)
RangeIfFewFollow ==
  Answered("remove_range") /\ Size(call.a) > 0 /\ call.s < call.t =>
    LET n == Size(call.a)
        between == CountIn(call.a, call.s + 1 .. call.t - 1, n)
        follow == CountIn(call.a, call.t .. Most, n)
    IN  /\ result.wild <=> \A x \in DOMAIN call.a : call.a[x] <= call.s
        /\ ~result.wild /\ (between = 0 \/ follow < between) => RightRange

(***************************************************************************)
(* sq_list_combine makes one ordered list of all elements of both.         *)
(***************************************************************************)
Combined ==
  Answered("combine") =>
    LET merged == [x \in 0 .. Len(result) - 1 |-> result[x + 1]]
    IN  /\ \A x, y \in DOMAIN merged : x < y => merged[x] <= merged[y]
        /\ \A v \in 0 .. Most :
             Times(merged, v, Size(merged))
               = Times(call.a, v, Size(call.a)) + Times(call.b, v, Size(call.b))

(***************************************************************************)
(* The search of insert_or_swap_with_next leaves its last interval         *)
(* unlooked at: it can miss x only in a neighbour of the index it inserts  *)
(* at, and that index is at most two before, or one after, the place which *)
(* keeps the list ordered.                                                 *)
(***************************************************************************)
NearPlace ==
  Answered("insert_or_swap") /\ Size(call.a) > 1 =>
    IF result.found THEN call.a[result.idx] = call.x
    ELSE /\ result.idx - CountIn(call.a, 0 .. call.x, Size(call.a)) \in -2 .. 1
         /\ \A y \in DOMAIN call.a :
              call.a[y] = call.x => y \in {result.idx - 1, result.idx + 1}

\* the lower median of as many elements again
Median(f, g) ==
  Min({v \in 0 .. Most : CountIn(f, 0 .. v, Size(f)) + CountIn(g, 0 .. v, Size(g)) >= Size(f)})

(***************************************************************************)
(* mid_search gives the median of two lists of two elements.  With five    *)
(* the halves it goes on with may be those without the median: what it     *)
(* finds is never above it, but may be below.                              *)
(***************************************************************************)
NotAboveMedian ==
  Answered("mid_search") =>
    /\ result <= Median(call.a, call.b)
    /\ Size(call.a) = 2 => result = Median(call.a, call.b)

(***************************************************************************)
(* find_min_positive is to give the least positive integer that does not   *)
(* occur (chapter_2_2/q13.c:3).  It does, except that for an array with all*)
(* of 1 .. n it gives n, which occurs, and for an empty one -1.            *)
(***************************************************************************)
LeastMissing ==
  Answered("find_min_positive") =>
    LET n == Size(call.a)
        asked == Min((1 .. n + 1) \ {call.a[x] : x \in DOMAIN call.a})
    IN  result = IF n = 0 THEN -1 ELSE IF asked = n + 1 THEN n ELSE asked

Spread(x, y, z) == 2 * (Max({x, y, z}) - Min({x, y, z}))

(***************************************************************************)
(* Moving on at the least element misses no closest triple, with equal     *)
(* elements too.                                                           *)
(***************************************************************************)
ShortestFound ==
  Answered("shortest_dist") =>
    result = Min({Spread(call.a[x], call.b[y], call.c[z]) :
                    x \in DOMAIN call.a, y \in DOMAIN call.b, z \in DOMAIN call.c})

Answers == /\ MinRemoved /\ Turned /\ RangeIfFewFollow /\ Combined
           /\ NearPlace /\ NotAboveMedian /\ LeastMissing /\ ShortestFound
=============================================================================
