------------------------------ MODULE ListQueries ------------------------------
(***************************************************************************)
(* The programs of test/chapter_2_3 that answer a question about lists, and*)
(* those of test/chapter_3_1 and test/chapter_3_3 that use a stack in one  *)
(* call: is_symmetry (q4.c), the main of q2.c, func and func1 (q3.c).      *)
(* `call' names the call, and its step returns.  A list is the sequence of *)
(* its data, or of its nodes where pointers are compared.                  *)
(*                                                                         *)
(* Operators named Faulty... are plausible bugs of the definition that     *)
(* follows; no specification uses them.                                    *)
(***************************************************************************)
EXTENDS Integers, Sequences, FiniteSetsExt

CONSTANTS Data,    \* what lists may hold, in order
          Short,   \* those of them that calls with two lists are made with
          Longest, \* of the lists of nodes
          None     \* NULL; no result yet

VARIABLES call, result

vars == <<call, result>>

Returns(op, res) == call.op = op /\ result = None /\ result' = res /\ UNCHANGED call

\* print_reverse of q3.c
PrintReverse(s) ==
  LET go[x \in 1 .. Len(s) + 1] == IF x > Len(s) THEN <<>> ELSE Append(go[x + 1], s[x])
  IN  go[1]

(***************************************************************************)
(* list_sort and merge_sort of q6.c, on the nodes x .. y of the list: the  *)
(* first half is the shorter one, and of equal data the second list's go   *)
(* first.  The answer is the nodes in their new order.                     *)
(***************************************************************************)
Merge(s, a, b) ==
  LET go[x \in 1 .. Len(a) + 1, y \in 1 .. Len(b) + 1] ==
        IF x > Len(a) THEN SubSeq(b, y, Len(b))
        ELSE IF y > Len(b) THEN SubSeq(a, x, Len(a))
        ELSE IF s[a[x]] < s[b[y]] THEN <<a[x]>> \o go[x + 1, y]
        ELSE <<b[y]>> \o go[x, y + 1]
  IN  go[1, 1]

ListSort(s) ==
  LET go[x \in 1 .. Len(s) + 1, y \in 0 .. Len(s)] ==
        LET half == (y + 1 - x) \div 2
        IN  IF x > y THEN <<>>
            ELSE IF x = y THEN <<x>>
            ELSE Merge(s, go[x, x + half - 1], go[x + half, y])
  IN  go[1, Len(s)]

\* main of q6.c does not use what list_sort returns: it prints from the first node on
PrintedSorted(s) ==
  LET order == ListSort(s)
      from == CHOOSE k \in DOMAIN order : order[k] = 1
  IN  IF s = <<>> THEN <<>> ELSE [k \in 1 .. Len(s) + 1 - from |-> s[order[from + k - 1]]]

\* print_same of q8.c
PrintSame(s, t) == SelectSeq(s, LAMBDA v : \E y \in DOMAIN t : t[y] = v)

\* intersection_of_ordered_list of q14.c
Intersection(s, t) ==
  LET go[x \in 1 .. Len(s) + 1, y \in 1 .. Len(t) + 1] ==
        IF x > Len(s) \/ y > Len(t) THEN <<>>
        ELSE IF s[x] = t[y] THEN <<s[x]>> \o go[x + 1, y + 1]
        ELSE IF s[x] < t[y] THEN go[x + 1, y]
        ELSE go[x, y + 1]
  IN  go[1, 1]

(***************************************************************************)
(* is_continuous_sublist of q16.c: acur, cur and pre (0 for NULL), which   *)
(* is where the present match began.                                       *)
(***************************************************************************)
FaultyContinuousSublist(s, t) ==
  LET go[acur \in Nat, cur \in Nat, pre \in Nat] ==
        IF acur > Len(s) \/ cur > Len(t) THEN cur > Len(t)
        ELSE IF s[acur] = t[cur] THEN go[acur + 1, cur + 1, IF pre = 0 THEN acur ELSE pre]
        ELSE go[acur + 1, 1, 0]
  IN  go[1, 1, 0]

ContinuousSublist(s, t) ==
  LET go[acur \in Nat, cur \in Nat, pre \in Nat] ==
        IF acur > Len(s) \/ cur > Len(t) THEN cur > Len(t)
        ELSE IF s[acur] = t[cur] THEN go[acur + 1, cur + 1, IF pre = 0 THEN acur ELSE pre]
        ELSE IF pre # 0 THEN go[pre + 1, 1, 0]
        ELSE go[acur + 1, cur, 0]
  IN  go[1, 1, 0]

\* is_symmetric of q17.c: the pointers go round the circle, whose head node is 0
Symmetric(s) ==
  LET after(x) == (x + 1) % (Len(s) + 1)
      before(x) == (x + Len(s)) % (Len(s) + 1)
      go[left \in 0 .. Len(s), right \in 0 .. Len(s)] ==
        IF left = right \/ after(left) = right THEN TRUE
        ELSE IF s[left] # s[right] THEN FALSE
        ELSE go[before(left), after(right)]
  IN  go[before(0), after(0)]

(***************************************************************************)
(* q21.c, on a list of m nodes whose last one leads to node back or has    *)
(* NULL (0) for next.  is_circular2: fast takes two steps for one of slow; *)
(* is_circular looks for each node among those before it.                  *)
(***************************************************************************)
After(m, back, x) == IF x < m THEN x + 1 ELSE back

Circular2(m, back) ==
  LET go[fast \in 0 .. m, slow \in 0 .. m] ==
        LET ahead == After(m, back, fast)
            fast2 == After(m, back, ahead)
            slow2 == After(m, back, slow)
        IN  IF fast = 0 \/ ahead = 0 THEN FALSE
            ELSE IF fast2 = slow2 THEN fast2 # 0 /\ After(m, back, fast2) # 0
            ELSE go[fast2, slow2]
  IN  m > 0 /\ go[1, 1]

CircularByPairs(m, back) ==
  LET meets[node \in 1 .. m, pre \in 1 .. m, cur \in 1 .. m] ==
        IF node \in {pre, cur} THEN node = cur ELSE meets[After(m, back, node), pre, cur]
      go[pre \in 1 .. m, cur \in 0 .. m] ==
        IF cur = 0 THEN FALSE
        ELSE IF meets[1, pre, cur] THEN TRUE
        ELSE go[cur, After(m, back, cur)]
  IN  m > 0 /\ go[1, After(m, back, 1)]

\* q22.c, on the way back from the end: found, and what is printed, if anything
ReciprocalRecursive(s, k) ==
  LET go[x \in 1 .. Len(s) + 1] ==
        LET inner == go[x + 1]
        IN  IF x > Len(s) THEN [found |-> FALSE, k |-> k, printed |-> None]
            ELSE IF inner.found \/ inner.k < 0 THEN inner
            ELSE IF inner.k = 0 THEN [found |-> TRUE, k |-> 0, printed |-> s[x]]
            ELSE [inner EXCEPT !.k = @ - 1]
  IN  [found |-> go[1].found, printed |-> go[1].printed]

\* reciprocal_k2 of q22.c: q goes k + 1 nodes ahead of p; NULL->data for a k below 0
Reciprocal2(s, k) ==
  LET ahead == IF k < 0 THEN 0 ELSE k + 1
      to == Len(s) + 1 - ahead
  IN  IF ahead > Len(s) THEN [found |-> FALSE, printed |-> None]
      ELSE IF to > Len(s) THEN "segv"
      ELSE [found |-> TRUE, printed |-> s[to]]

(***************************************************************************)
(* suffix_node of q23.c, on the nodes of two lists, head nodes included:   *)
(* the longer one skips what it has more, then both go on together.        *)
(***************************************************************************)
SuffixNode(s, t) ==
  LET m == Len(s)
      k == Len(t)
      go[x \in Nat, y \in Nat] ==
        IF x > m \/ y > k THEN None
        ELSE IF s[x] = t[y] THEN s[x]
        ELSE go[x + 1, y + 1]
  IN  go[IF k < m THEN m - k + 1 ELSE 1, IF m < k THEN k - m + 1 ELSE 1]

(***************************************************************************)
(* is_symmetry of chapter_3_1/q4.c: the calls for the nodes from the second*)
(* on return from the last to the first, while n1 moves on from the first. *)
(***************************************************************************)
IsSymmetry(s) ==
  LET go[n2 \in 2 .. Len(s) + 1] ==
        LET inner == go[n2 + 1]
            n1 == inner.n1
        IN  IF n2 > Len(s) THEN [ret |-> "TAIL", n1 |-> 1]
            ELSE IF inner.ret \in {"NO", "DONE"} THEN inner
            ELSE IF n1 = n2 THEN [ret |-> "DONE", n1 |-> n1]
            ELSE IF s[n1] # s[n2] THEN [ret |-> "NO", n1 |-> n1]
            ELSE [ret |-> IF n1 + 1 = n2 THEN "DONE" ELSE "YES", n1 |-> n1 + 1]
  IN  go[2].ret = "DONE"

\* main of chapter_3_3/q2.c: even data stand for the wagons that leave at once
Shunt(s) ==
  LET go[origin \in Seq(Nat), hstack \in Seq(Nat)] ==
        LET x == origin[Len(origin)]
            rest == SubSeq(origin, 1, Len(origin) - 1)
        IN  IF origin = <<>> THEN PrintReverse(hstack)
            ELSE IF x % 2 = 0 THEN <<x>> \o go[rest, hstack]
            ELSE go[rest, Append(hstack, x)]
  IN  go[s, <<>>]

\* func of chapter_3_3/q3.c, on the two values on top of its stack; and func1
Func(k, x) ==
  LET top[i \in 0 .. k + 1] == IF i = 0 THEN 1
                               ELSE IF i = 1 THEN 2 * x
                               ELSE 2 * x * top[i - 1] - 2 * (i - 1) * top[i - 2]
  IN  IF k < 2 THEN top[1] ELSE top[k]

Func1(k, x) ==
  LET f[i \in 0 .. k] == IF i = 0 THEN 1
                         ELSE IF i = 1 THEN 2 * x
                         ELSE f[i - 1] * 2 * x - 2 * (i - 1) * f[i - 2]
  IN  f[k]

Ordered(s) == \A x, y \in DOMAIN s : x < y => s[x] <= s[y]

\* own nodes of the first list, of the second one, and those that they share
Numbers(from, k) == [x \in 1 .. k |-> from + x]

Calls ==
  {[op |-> o, s |-> d] : o \in {"print_reverse", "list_sort", "is_symmetric", "shunt"}, d \in Data}
    \cup {[op |-> o, s |-> d, t |-> e] :
            o \in {"print_same", "is_continuous_sublist"}, d \in Data, e \in Short}
    \cup {[op |-> "intersection", s |-> d, t |-> e] :
            d \in {f \in Data : Ordered(f)}, e \in {f \in Data : Ordered(f)}}
    \cup {c \in [op : {"is_circular"}, m : 0 .. Longest, back : 0 .. Longest] : c.back <= c.m}
    \cup [op : {"reciprocal_k"}, s : Data, k : -1 .. 4]
    \cup [op : {"is_symmetry"}, s : Data \ {<<>>}]
    \cup [op : {"func"}, n : 0 .. 6, x : -2 .. 2]
    \cup {[op |-> "suffix_node", s |-> Numbers(0, a) \o Numbers(20, k),
                                 t |-> Numbers(10, b) \o Numbers(20, k)] :
            a, b \in 1 .. Longest, k \in 0 .. 2}

Init == call \in Calls /\ result = None

Next ==
  \/ Returns("print_reverse", PrintReverse(call.s))
  \/ Returns("list_sort", [order |-> ListSort(call.s), printed |-> PrintedSorted(call.s)])
  \/ Returns("print_same", PrintSame(call.s, call.t))
  \/ Returns("intersection", Intersection(call.s, call.t))
  \/ Returns("is_continuous_sublist", ContinuousSublist(call.s, call.t))
  \/ Returns("is_symmetric", Symmetric(call.s))
  \/ Returns("is_circular", [slowfast |-> Circular2(call.m, call.back),
                             pairs |-> CircularByPairs(call.m, call.back)])
  \/ Returns("reciprocal_k", [recursive |-> ReciprocalRecursive(call.s, call.k),
                              pointers |-> Reciprocal2(call.s, call.k)])
  \/ Returns("suffix_node", [ret |-> SuffixNode(call.s, call.t)])
  \/ Returns("is_symmetry", IsSymmetry(call.s))
  \/ Returns("shunt", Shunt(call.s))
  \/ Returns("func", [stack |-> Func(call.n, call.x), calls |-> Func1(call.n, call.x)])

Spec == Init /\ [][Next]_vars /\ WF_vars(Next)
-----------------------------------------------------------------------------
Answered(op) == call.op = op /\ result # None

Times(s, v) == Cardinality({x \in DOMAIN s : s[x] = v})
Values(s) == {s[x] : x \in DOMAIN s}

\* the nodes in order; main prints the first node and those of greater data
Sorted ==
  Answered("list_sort") =>
    LET s == call.s
        order == result.order
    IN  /\ Values(order) = DOMAIN s /\ Len(order) = Len(s)
        /\ Ordered([k \in DOMAIN order |-> s[order[k]]])
        /\ Ordered(result.printed)
        /\ \A v \in Values(s) : Times(result.printed, v) = IF v = s[1] THEN 1
                                                          ELSE IF v > s[1] THEN Times(s, v)
                                                          ELSE 0

Intersected ==
  Answered("intersection") =>
    /\ Ordered(result)
    /\ \A v \in Values(call.s) \cup Values(call.t) :
         Times(result, v) = Min({Times(call.s, v), Times(call.t, v)})

Matched ==
  Answered("is_continuous_sublist") =>
    (result <=> \E from \in 0 .. Len(call.s) - Len(call.t) :
                  \A y \in DOMAIN call.t : call.s[from + y] = call.t[y])

\* is_symmetry says no of a list of one node
Mirrored ==
  Answered("is_symmetric") \/ Answered("is_symmetry") =>
    LET s == call.s
    IN  result <=> /\ \A x \in DOMAIN s : s[x] = s[Len(s) + 1 - x]
                   /\ call.op = "is_symmetry" => Len(s) > 1

\* both ways to look for a circle find one exactly if there is one
CircleFound == Answered("is_circular") => \A way \in DOMAIN result : result[way] <=> call.back # 0

\* the node that k others follow; for a negative k one says no and one crashes
FromTheEnd ==
  Answered("reciprocal_k") =>
    LET k == call.k
        answer == IF k \in 0 .. Len(call.s) - 1
                    THEN [found |-> TRUE, printed |-> call.s[Len(call.s) - k]]
                    ELSE [found |-> FALSE, printed |-> None]
    IN  /\ result.recursive = answer
        /\ result.pointers = IF k < 0 THEN "segv" ELSE answer

\* a node that the lists share is the first of the shared ones
FirstShared ==
  Answered("suffix_node") =>
    \/ result.ret = 21
    \/ result.ret = None /\ Values(call.s) \cap Values(call.t) = {}

\* each value of the first list that the second has, as often as the first has it
SamePrinted ==
  Answered("print_same") =>
    \A v \in Values(call.s) \cup Values(call.t) :
      Times(result, v) = IF v \in Values(call.t) THEN Times(call.s, v) ELSE 0

\* the wagons that leave at once from the last to the first, then the others
Shunted ==
  Answered("shunt") =>
    LET leave == SelectSeq(call.s, LAMBDA v : v % 2 = 0)
        stay == SelectSeq(call.s, LAMBDA v : v % 2 # 0)
    IN  result = [k \in DOMAIN leave |-> leave[Len(leave) + 1 - k]] \o stay

\* the stack and the recursion compute the same numbers, but of 0
SameNumbers ==
  Answered("func") => result.stack = IF call.n = 0 THEN 2 * call.x ELSE result.calls

(***************************************************************************)
(* The answers are right, but for list_sort's main, which prints only what *)
(* follows the node that was first, reciprocal_k2 of a negative k,         *)
(* is_symmetry of one node and func of 0.                                  *)
(***************************************************************************)
Answers == /\ Sorted /\ Intersected /\ Matched /\ Mirrored
           /\ CircleFound /\ FromTheEnd /\ FirstShared /\ SamePrinted /\ Shunted /\ SameNumbers
           /\ Answered("print_reverse") =>
                \A x \in DOMAIN call.s : result[Len(call.s) + 1 - x] = call.s[x]
=============================================================================
