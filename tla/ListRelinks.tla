------------------------------ MODULE ListRelinks ------------------------------
(***************************************************************************)
(* The programs of test/chapter_2_3 that link the nodes of a list in       *)
(* another order: node_reverse (q5.c), odd_even_divide (q10.c, and q11.c,  *)
(* which reverses one of the halves: divide_reversed), reverse_ab (q13.c), *)
(* circular_list_combine (q18.c) and solve_list (q25.c), one step a turn of*)
(* a loop or a call that returns; and list_get (q20.c), one step a call.   *)
(*                                                                         *)
(* The nodes are 1, 2, ...; the first m of them are one list, the others   *)
(* the second one of reverse_ab and circular_list_combine.  The cells that *)
(* hold the beginning of a list are numbered from 0 downwards.  prev of    *)
(* q20.c is never read.                                                    *)
(*                                                                         *)
(* Operators named Faulty... are plausible bugs of the definition that     *)
(* follows; no specification uses them.                                    *)
(***************************************************************************)
EXTENDS Integers, Sequences, FiniteSets, FiniteSetsExt

CONSTANTS Data,      \* what the nodes may hold, in order, where it matters
          MaxLength, \* of a list where it does not
          MaxGets,   \* bound of the model: calls of list_get
          None       \* NULL

VARIABLES goal,
          data, m, next,
          at,     \* "run", "merge" (second loop of solve_list), "done", "segv"
          cur,    \* cur or la of the code; the node whose call returns;
                  \* the node that the last call of list_get has found
          lb,     \* lb; btail
          i,      \* turns of the loop; calls of list_get
          pa, pb, \* where the code appends: pa, or p of solve_list; b
          freq,   \* how often list_get has found each node
          result  \* what list_get returned

vars == <<goal, data, m, next, at, cur, lb, i, pa, pb, freq, result>>
lists == <<goal, data, m>>
gets == <<freq, result>>

L == 0    \* the head node of the list, or of a
B == -1   \* b, l2, lc
A == -2   \* ahead, l1
n == Len(data)
Nodes == 1 .. n
Links == {L, B, A} \cup Nodes

Dividing == goal \in {"odd_even_divide", "divide_reversed", "solve_list"}

Numbered(k) == [x \in 1 .. k |-> x]
Ordered(from, to) == \A x, y \in from .. to : x < y => data[x] <= data[y]

NodeOrNone(x, last) == IF x <= last THEN x ELSE None
End(x) == IF goal = "circular_list_combine" THEN x ELSE None

After(x) == IF x = L THEN NodeOrNone(1, n)
            ELSE IF x < 0 THEN None
            ELSE IF x = m THEN End(1)
            ELSE IF x = n THEN End(m + 1)
            ELSE x + 1

Init ==
  /\ \/ Dividing /\ (\E k \in 0 .. MaxLength : data = Numbered(k)) /\ m = n
     \/ goal = "node_reverse" /\ (\E k \in 0 .. MaxLength : data = Numbered(k)) /\ m = n
     \/ goal = "circular_list_combine" /\ (\E k \in 2 .. MaxLength : data = Numbered(k))
        /\ m \in 1 .. n - 1
     \/ goal = "reverse_ab" /\ data \in Data /\ m \in 0 .. n
        /\ Ordered(1, m) /\ Ordered(m + 1, n)
     \/ goal = "list_get" /\ data \in Data /\ m = n
  /\ next = [x \in Links |-> After(x)]
  /\ at = "run"
  /\ cur = CASE goal = "node_reverse" -> n
             [] goal = "list_get" -> None
             [] OTHER -> NodeOrNone(1, m)
  /\ lb = IF goal \in {"reverse_ab", "circular_list_combine"} THEN NodeOrNone(m + 1, n) ELSE None
  /\ i = 0 /\ pa = A /\ pb = B
  /\ freq = [x \in Nodes |-> 0] /\ result = None

Running(g) == at = "run" /\ goal = g

\* the call for the last node sets *new_head, which is the link of the head node
LastCall == /\ Running("node_reverse") /\ i = 0
            /\ IF n = 0 THEN at' = "segv" /\ UNCHANGED <<next, cur>>
                        ELSE next' = [next EXCEPT ![L] = n] /\ cur' = n - 1 /\ UNCHANGED at
            /\ i' = 1
            /\ UNCHANGED <<lists, lb, pa, pb, gets>>

CallReturns == /\ Running("node_reverse") /\ i = 1
               /\ IF cur = 0 THEN at' = "done" /\ UNCHANGED <<next, cur>>
                  ELSE /\ next' = [next EXCEPT ![next[cur]] = cur, ![cur] = None]
                       /\ cur' = cur - 1
                       /\ UNCHANGED at
               /\ UNCHANGED <<lists, lb, i, pa, pb, gets>>

\* cur goes to the front of the second list, or to the end of one of the two
ToFront == \/ goal = "divide_reversed" /\ i % 2 = 0
           \/ goal = "solve_list" /\ i >= n \div 2
ToB == goal = "odd_even_divide" /\ i % 2 = 0

\* follows the link it has just written
FaultyDivide ==
  /\ at = "run" /\ Dividing /\ cur # None
  /\ IF ToFront THEN next' = [next EXCEPT ![cur] = next[B], ![B] = cur] /\ UNCHANGED <<pa, pb>>
     ELSE IF ToB THEN next' = [next EXCEPT ![pb] = cur] /\ pb' = cur /\ UNCHANGED pa
     ELSE next' = [next EXCEPT ![pa] = cur] /\ pa' = cur /\ UNCHANGED pb
  /\ cur' = next'[cur]
  /\ i' = i + 1
  /\ UNCHANGED <<lists, at, lb, gets>>

Divide ==
  /\ at = "run" /\ Dividing /\ cur # None
  /\ IF ToFront THEN next' = [next EXCEPT ![cur] = next[B], ![B] = cur] /\ UNCHANGED <<pa, pb>>
     ELSE IF ToB THEN next' = [next EXCEPT ![pb] = cur] /\ pb' = cur /\ UNCHANGED pa
     ELSE next' = [next EXCEPT ![pa] = cur] /\ pa' = cur /\ UNCHANGED pb
  /\ cur' = next[cur]
  /\ i' = i + 1
  /\ UNCHANGED <<lists, at, lb, gets>>

\* the ends are closed; a->next = ahead.next
Divided ==
  /\ at = "run" /\ Dividing /\ goal # "solve_list" /\ cur = None
  /\ LET closed == IF goal = "odd_even_divide" THEN {pa, pb} ELSE {pa}
         cut == [x \in Links |-> IF x \in closed THEN None ELSE next[x]]
     IN  next' = [cut EXCEPT ![L] = cut[A]]
  /\ at' = "done"
  /\ UNCHANGED <<lists, cur, lb, i, pa, pb, gets>>

\* solve_list: the second loop begins at l, with p = l1.next and q = &l2.next
Halved == /\ Running("solve_list") /\ cur = None
          /\ next' = [next EXCEPT ![pa] = None]
          /\ at' = "merge" /\ i' = 0
          /\ cur' = L /\ pa' = next'[A]
          /\ UNCHANGED <<lists, lb, pb, gets>>

Interleave == /\ at = "merge" /\ pa # None /\ next[B] # None
              /\ IF i % 2 = 0
                   THEN next' = [next EXCEPT ![cur] = pa] /\ cur' = pa /\ pa' = next[pa]
                   ELSE /\ next' = [next EXCEPT ![cur] = next[B], ![B] = next[next[B]]]
                        /\ cur' = next[B]
                        /\ UNCHANGED pa
              /\ i' = i + 1
              /\ UNCHANGED <<lists, at, lb, pb, gets>>

Interleaved == /\ at = "merge" /\ (pa = None \/ next[B] = None)
               /\ at' = "done"
               /\ UNCHANGED <<lists, next, cur, lb, i, pa, pb, gets>>

PushOnC(x) == next' = [next EXCEPT ![x] = next[B], ![B] = x]

TakeFromA == /\ Running("reverse_ab") /\ cur # None
             /\ lb # None => data[cur] < data[lb]
             /\ PushOnC(cur) /\ cur' = next[cur]
             /\ UNCHANGED <<lists, at, lb, i, pa, pb, gets>>

TakeFromB == /\ Running("reverse_ab") /\ lb # None
             /\ cur # None => data[cur] >= data[lb]
             /\ PushOnC(lb) /\ lb' = next[lb]
             /\ UNCHANGED <<lists, at, cur, i, pa, pb, gets>>

AllTaken == /\ Running("reverse_ab") /\ cur = None /\ lb = None
            /\ at' = "done"
            /\ UNCHANGED <<lists, next, cur, lb, i, pa, pb, gets>>

SeekTail == /\ Running("circular_list_combine") /\ next[lb] # m + 1
            /\ lb' = next[lb]
            /\ UNCHANGED <<lists, next, at, cur, i, pa, pb, gets>>

Join == /\ Running("circular_list_combine") /\ next[lb] = m + 1
        /\ next' = [next EXCEPT ![1] = m + 1, ![lb] = next[1]]
        /\ at' = "done"
        /\ UNCHANGED <<lists, cur, lb, i, pa, pb, gets>>

\* x, its next, and so on, at most n more
ChainFrom(x) ==
  LET succ == [y \in Links \cup {None} |-> IF y = None THEN None ELSE next[y]]
      nth[k \in 0 .. n] == IF k = 0 THEN x ELSE succ[nth[k - 1]]
  IN  SelectSeq([k \in 1 .. n + 1 |-> nth[k - 1]], LAMBDA y : y # None)

Chain(h) == SelectSeq(ChainFrom(h), LAMBDA y : y # h)

(***************************************************************************)
(* list_get(l, v): the first node with v leaves its place and goes before  *)
(* the first one that was found less often, or behind the last one, and    *)
(* then its own next stays what it was and the answer is NULL.             *)
(***************************************************************************)
Get(v) ==
  LET chain == Chain(L)
      before(k) == IF k = 1 THEN L ELSE chain[k - 1]
      found == {k \in DOMAIN chain : data[chain[k]] = v}
      at1 == Min(found)
      x == chain[at1]
      others == SelectSeq(chain, LAMBDA y : y # x)
      rarer == {k \in DOMAIN others : freq[others[k]] < freq[x] + 1}
      to == Min(rarer)
      unlinked == [next EXCEPT ![before(at1)] = next[x]]
  IN  /\ Running("list_get") /\ i < MaxGets
      /\ i' = i + 1
      /\ IF found = {} THEN result' = None /\ cur' = None /\ UNCHANGED <<next, freq>>
         ELSE /\ freq' = [freq EXCEPT ![x] = @ + 1]
              /\ cur' = x
              /\ IF rarer = {}
                   THEN /\ next' = [unlinked EXCEPT ![IF others = <<>> THEN L
                                                      ELSE others[Len(others)]] = x]
                        /\ result' = None
                   ELSE /\ next' = [unlinked EXCEPT ![IF to = 1 THEN L ELSE others[to - 1]] = x,
                                                    ![x] = others[to]]
                        /\ result' = x
      /\ UNCHANGED <<lists, at, lb, pa, pb>>

Values == UNION {{s[x] : x \in DOMAIN s} : s \in Data}

Next == \/ LastCall \/ CallReturns
        \/ Divide \/ Divided \/ Halved \/ Interleave \/ Interleaved
        \/ TakeFromA \/ TakeFromB \/ AllTaken
        \/ SeekTail \/ Join
        \/ \E v \in Values : Get(v)

Spec == Init /\ [][Next]_vars /\ WF_vars(Next)
-----------------------------------------------------------------------------
TypeOK == /\ next \in [Links -> Links \cup {None}]
          /\ at \in {"run", "merge", "done", "segv"}
          /\ {cur, lb, pa, pb, result} \subseteq Links \cup {None}

\* what the program still reads: the heads of its lists and the nodes that its
\* variables and the calls not yet returned hold
Roots == CASE goal = "circular_list_combine" -> {1, m + 1}
           [] goal = "node_reverse" -> {L} \cup IF at = "run" THEN 1 .. cur ELSE {}
           [] goal = "reverse_ab" -> {B, cur, lb} \ {None}
           [] goal = "list_get" \/ (goal = "solve_list" /\ at = "done") -> {L}
           [] at = "merge" -> {L, B, pa} \ {None}
           [] Dividing /\ at = "run" -> {A, B, cur} \ {None}
           [] Dividing /\ at = "done" -> {L, B}

NodesFrom(x) == LET c == ChainFrom(x) IN {c[k] : k \in DOMAIN c}
Reached == UNION {NodesFrom(r) : r \in Roots} \cap Nodes

\* how many nodes solve_list forgets: its second loop ends when one half does
Forgotten == IF goal = "solve_list" /\ at = "done" /\ n > 1 THEN 1 + (n % 2) ELSE 0

(***************************************************************************)
(* While the programs link the nodes anew, no node gets out of their reach;*)
(* at the end only solve_list has lost any: of two or more nodes, the last *)
(* one or two of the order it builds.                                      *)
(***************************************************************************)
NoNodeLost == Cardinality(Reached) = n - Forgotten

Odd == [k \in 1 .. (n + 1) \div 2 |-> 2 * k - 1]
Even == [k \in 1 .. n \div 2 |-> 2 * k]
Backwards(s) == [k \in DOMAIN s |-> s[Len(s) + 1 - k]]

\* a1, an, a2, an-1, ... as the exercise wants it, as far as the loop comes
FirstAndLast == [k \in 1 .. IF n < 2 THEN n ELSE 2 * (n \div 2) - 1 |->
                   IF k % 2 = 1 THEN (k + 1) \div 2 ELSE n + 1 - k \div 2]

LinkedAsAsked ==
  CASE goal = "node_reverse" -> Chain(L) = Backwards(Numbered(n))
    [] goal = "odd_even_divide" -> Chain(L) = Even /\ Chain(B) = Odd
    [] goal = "divide_reversed" -> Chain(L) = Even /\ Chain(B) = Backwards(Odd)
    [] goal = "solve_list" -> Chain(L) = FirstAndLast
    [] goal = "circular_list_combine" ->
         /\ next[n] = IF m = 1 THEN 1 ELSE 2
         /\ ChainFrom(1) = <<1>> \o [k \in 1 .. n - m |-> m + k]
                                \o [k \in 1 .. m - 1 |-> k + 1] \o <<1>>
    [] goal = "reverse_ab" -> LET c == Chain(B)
                              IN  /\ Len(c) = n
                                  /\ \A x, y \in 1 .. n : x < y => data[c[x]] >= data[c[y]]

(***************************************************************************)
(* When they have ended, the lists are in the order asked for; only an     *)
(* empty one crashes node_reverse.                                         *)
(***************************************************************************)
Relinked == /\ at = "done" => LinkedAsAsked
            /\ at = "segv" <=> goal = "node_reverse" /\ n = 0 /\ i = 1

(***************************************************************************)
(* After any calls of list_get the nodes found more often come first, and  *)
(* the list has an end: the next that a node keeps when it becomes the last*)
(* is NULL, because it was the last one before.  A call answers with the   *)
(* node it has found, but with NULL when that node is the last one now.    *)
(***************************************************************************)
OftenFoundFirst ==
  goal = "list_get" =>
    LET c == Chain(L)
    IN  /\ Len(c) = n /\ (n > 0 => next[c[n]] = None)
        /\ \A x, y \in 1 .. n : x < y => freq[c[x]] >= freq[c[y]]
        /\ result = IF n > 0 /\ cur = c[n] THEN None ELSE cur
        /\ cur # None => freq[cur] > 0

Ends == <>(at \notin {"run", "merge"} \/ goal = "list_get")
=============================================================================
