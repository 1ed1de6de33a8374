----------------------------- MODULE ListRemovals ------------------------------
(***************************************************************************)
(* The programs of test/chapter_2_3 that free nodes of a singly linked     *)
(* list, one step a turn of a loop: the sweeps remove_all (q2.c),          *)
(* remove_by_range (q7.c), ordered_list_del_same (q12.c) and               *)
(* remove_abs_same (q24.c); the searches for a least node remove_min       *)
(* (q4.c), print_in_order (q9.c) and, in a circle, ordered_print_and_del   *)
(* (q19.c); intersection_of_ordered_list (q15.c); and recursion_del (q1.c),*)
(* a step for each call that returns.                                      *)
(*                                                                         *)
(* The nodes of the list are 1, 2, ... in the order it begins with; Header   *)
(* is the head node or, for the programs without one, the pointer to the   *)
(* first node.  A sweep removes the nodes whose data are in `drops'.       *)
(***************************************************************************)
EXTENDS Integers, Sequences, FiniteSets

CONSTANTS Data,   \* what the nodes of a list may hold, in order
          Items,  \* the sets of data to remove
          Others, \* the second lists of intersection_of_ordered_list
          Bits,   \* the bytes of remove_abs_same's bitmap, n
          None    \* NULL

VARIABLES goal,
          data, next, freed, \* the list
          cur, pre,          \* the variables of the code
          min, minPre,
          drops,
          other, rest, \* the second list and what is left of it
          printed,
          at    \* "run", "done", "segv", or "wild" (outside the bitmap)

vars == <<goal, data, next, freed, cur, pre, min, minPre, drops, other, rest, printed, at>>
list == <<goal, data, other>>
least == <<min, minPre>>

Header == 0
Nodes == 1 .. Len(data)

Ordered == {s \in Data : \A x, y \in DOMAIN s : x < y => s[x] <= s[y]}

Circular == goal = "ordered_print_and_del"
Selecting == goal \in {"remove_min", "print_in_order", "ordered_print_and_del"}
Sweeping == goal \in {"remove", "ordered_list_del_same", "remove_abs_same"}

\* where the links of a list end
Stop == IF Circular THEN Header ELSE None

SameAbs(v) == {v, -v}
After(x) == IF x < Len(data) THEN x + 1 ELSE Stop

\* "remove" is the sweep of q2.c and q7.c
Init ==
  /\ \/ goal \in {"remove", "recursion_del"} /\ data \in Data /\ drops \in Items
     \/ goal = "ordered_list_del_same" /\ data \in Ordered
        /\ drops = IF data = <<>> THEN {} ELSE {data[1]}
     \/ goal \in {"remove_abs_same", "remove_min", "print_in_order", "ordered_print_and_del"}
        /\ data \in Data /\ drops = {}
     \/ goal = "intersection" /\ data \in Ordered /\ drops = {}
  /\ other \in IF goal = "intersection" THEN Others ELSE {<<>>}
  /\ rest = other
  /\ next = [x \in {Header} \cup Nodes |-> After(x)]
  /\ freed = {} /\ printed = <<>> /\ at = "run"
  /\ IF goal = "ordered_list_del_same" /\ data # <<>>
       THEN pre = 1 /\ cur = After(1)
       ELSE IF goal = "recursion_del" THEN pre = None /\ cur = Len(data)
       ELSE pre = Header /\ cur = After(Header)
  /\ IF Selecting THEN min = cur /\ minPre = pre ELSE min = None /\ minPre = None

Running == at = "run"

\* what the sweep remembers of a node that it keeps
Learnt(v) == CASE goal = "remove" -> drops
               [] goal = "ordered_list_del_same" -> {v}
               [] goal = "remove_abs_same" -> drops \cup SameAbs(v)

InBitmap(v) == goal = "remove_abs_same" => v \in 1 - Bits .. Bits - 1

Keep == /\ Running /\ Sweeping /\ cur # None /\ InBitmap(data[cur])
        /\ data[cur] \notin drops
        /\ drops' = Learnt(data[cur])
        /\ pre' = cur /\ cur' = next[cur]
        /\ UNCHANGED <<list, next, freed, least, rest, printed, at>>

UnlinkCur == /\ next' = [next EXCEPT ![pre] = next[cur]]
             /\ freed' = freed \cup {cur}
             /\ cur' = next[cur] /\ UNCHANGED pre

Drop == /\ Running /\ Sweeping /\ cur # None /\ InBitmap(data[cur])
        /\ data[cur] \in drops
        /\ UnlinkCur
        /\ UNCHANGED <<list, least, drops, rest, printed, at>>

\* a byte outside the bitmap is read and written
OutsideBitmap == /\ Running /\ Sweeping /\ cur # None /\ ~InBitmap(data[cur])
                 /\ at' = "wild"
                 /\ UNCHANGED <<list, next, freed, cur, pre, least, drops, rest, printed>>

Return == /\ Running /\ (Sweeping \/ goal = "intersection")
          /\ cur = None \/ (goal = "intersection" /\ rest = <<>>)
          /\ at' = "done"
          /\ UNCHANGED <<list, next, freed, cur, pre, least, drops, rest, printed>>

Look == /\ Running /\ Selecting /\ cur # Stop
        /\ IF data[cur] < data[min] THEN min' = cur /\ minPre' = pre ELSE UNCHANGED least
        /\ pre' = cur /\ cur' = next[cur]
        /\ UNCHANGED <<list, next, freed, drops, rest, printed, at>>

(***************************************************************************)
(* The end of a round: the least node goes, and the programs that print    *)
(* begin again.  The one in the circle goes on past the first node in the  *)
(* same turn.                                                              *)
(***************************************************************************)
TakeLeast ==
  /\ Running /\ Selecting /\ cur = Stop /\ next[Header] # Stop
  /\ next' = [next EXCEPT ![minPre] = next[min]]
  /\ freed' = freed \cup {min}
  /\ IF goal = "remove_min"
       THEN at' = "done" /\ UNCHANGED <<cur, pre, least, printed>>
       ELSE /\ printed' = Append(printed, data[min])
            /\ min' = next'[Header] /\ minPre' = Header
            /\ IF Circular THEN pre' = next'[Header] /\ cur' = next'[next'[Header]]
                           ELSE pre' = Header /\ cur' = next'[Header]
            /\ UNCHANGED at
  /\ UNCHANGED <<list, drops, rest>>

\* the head node of the circle is freed too
NoneLeft == /\ Running /\ Selecting /\ goal # "remove_min" /\ next[Header] = Stop
            /\ at' = "done"
            /\ freed' = IF Circular THEN freed \cup {Header} ELSE freed
            /\ UNCHANGED <<list, next, cur, pre, least, drops, rest, printed>>

\* min->next of an empty list
MinOfNone == /\ Running /\ goal = "remove_min" /\ cur = Stop /\ next[Header] = Stop
             /\ at' = "segv"
             /\ UNCHANGED <<list, next, freed, cur, pre, least, drops, rest, printed>>

Comparing == Running /\ goal = "intersection" /\ cur # None /\ rest # <<>>

InBoth == /\ Comparing /\ data[cur] = rest[1]
          /\ pre' = cur /\ cur' = next[cur] /\ rest' = Tail(rest)
          /\ UNCHANGED <<list, next, freed, least, drops, printed, at>>

OnlyInFirst == /\ Comparing /\ data[cur] < rest[1]
               /\ UnlinkCur
               /\ UNCHANGED <<list, least, drops, rest, printed, at>>

OnlyInOther == /\ Comparing /\ data[cur] > rest[1]
               /\ rest' = Tail(rest)
               /\ UNCHANGED <<list, next, freed, cur, pre, least, drops, printed, at>>

(***************************************************************************)
(* The call of recursion_del for node cur goes on with what the inner call *)
(* has returned (pre); the outermost call returns to the caller's pointer. *)
(***************************************************************************)
CallReturns ==
  /\ Running /\ goal = "recursion_del"
  /\ next' = [next EXCEPT ![cur] = pre]
  /\ IF cur = Header THEN at' = "done" /\ UNCHANGED <<freed, cur, pre>>
     ELSE /\ IF data[cur] \in drops THEN freed' = freed \cup {cur} /\ UNCHANGED pre
                                    ELSE pre' = cur /\ UNCHANGED freed
          /\ cur' = cur - 1
          /\ UNCHANGED at
  /\ UNCHANGED <<list, least, drops, rest, printed>>

Next == \/ Keep \/ Drop \/ OutsideBitmap \/ Return
        \/ Look \/ TakeLeast \/ NoneLeft \/ MinOfNone
        \/ InBoth \/ OnlyInFirst \/ OnlyInOther \/ CallReturns

Spec == Init /\ [][Next]_vars /\ WF_vars(Next)
-----------------------------------------------------------------------------
TypeOK == /\ data \in Data
          /\ next \in [{Header} \cup Nodes -> {None, Header} \cup Nodes]
          /\ freed \subseteq {Header} \cup Nodes
          /\ at \in {"run", "done", "segv", "wild"}
          /\ {cur, pre, min, minPre} \subseteq {None, Header} \cup Nodes

\* x, its next, and so on up to the end of the list, at most one node too many
ChainFrom(x) ==
  LET ends == {None, Stop}
      succ == [y \in Nodes \cup ends |-> IF y \in ends THEN None ELSE next[y]]
      nth[k \in Nat] == IF k = 0 THEN x ELSE succ[nth[k - 1]]
  IN  SelectSeq([k \in 1 .. Len(data) + 1 |-> nth[k - 1]], LAMBDA y : y \notin ends)

Chain == ChainFrom(next[Header])
InChain == {Chain[k] : k \in DOMAIN Chain}

(***************************************************************************)
(* Every node is in the list or freed, and never both; what the program    *)
(* goes on with it has not freed.  While the calls of recursion_del return *)
(* this holds of the nodes behind the present one.                         *)
(***************************************************************************)
NoNodeLost ==
  IF goal = "recursion_del" /\ at = "run"
    THEN LET behind == ChainFrom(pre)
         IN  /\ {behind[k] : k \in DOMAIN behind} = (cur + 1 .. Len(data)) \ freed
             /\ freed \subseteq cur + 1 .. Len(data)
    ELSE /\ InChain = Nodes \ freed /\ Len(Chain) = Cardinality(InChain)
         /\ Running => freed \cap {cur, pre, min, minPre} = {}

DataLeft == [k \in DOMAIN Chain |-> data[Chain[k]]]
IsOrdered(s) == \A x, y \in DOMAIN s : x < y => s[x] <= s[y]
Times(s, v) == Cardinality({x \in DOMAIN s : s[x] = v})
FirstOfAbs(x) == \A y \in 1 .. x - 1 : data[y] \notin SameAbs(data[x])
FirstLeast(x) == \A y \in Nodes : data[x] < data[y] \/ (data[x] = data[y] /\ x <= y)

\* the nodes that the program should leave in the list
Left ==
  CASE goal \in {"remove", "recursion_del"} -> {x \in Nodes : data[x] \notin drops}
    [] goal = "ordered_list_del_same" -> {x \in Nodes : \A y \in 1 .. x - 1 : data[y] # data[x]}
    [] goal = "remove_abs_same" -> {x \in Nodes : FirstOfAbs(x)}
    [] goal = "remove_min" -> {x \in Nodes : ~FirstLeast(x)}
    [] OTHER -> {}

(***************************************************************************)
(* Each program leaves the nodes it should, in their order: the sweeps all *)
(* others, also when a removed one is first, last or next to another.      *)
(* remove_min of an empty list crashes, and remove_abs_same leaves its     *)
(* bitmap if and only if an absolute value is not below n.                 *)
(***************************************************************************)
RightNodesLeft ==
  /\ at = "done" /\ goal # "intersection" => /\ InChain = Left
                                             /\ IsOrdered(Chain)
  /\ at = "segv" => data = <<>>
  /\ at = "wild" => \E x \in Nodes : data[x] \notin 1 - Bits .. Bits - 1
  /\ at = "done" /\ goal = "remove_abs_same" => \A x \in Nodes : data[x] \in 1 - Bits .. Bits - 1

(***************************************************************************)
(* The programs that print print all data in order.                        *)
(***************************************************************************)
PrintsOrdered ==
  at = "done" /\ goal \in {"print_in_order", "ordered_print_and_del"} =>
    IsOrdered(printed) /\ \A x \in Nodes : Times(printed, data[x]) = Times(data, data[x])

Fewer(m, n) == IF m < n THEN m ELSE n

(***************************************************************************)
(* intersection_of_ordered_list leaves each value as often as both lists   *)
(* have it, but only up to the end of the second one: from its last value  *)
(* on, everything stays.                                                   *)
(***************************************************************************)
IntersectsUpToLast ==
  at = "done" /\ goal = "intersection" =>
    /\ IsOrdered(Chain)
    /\ \A x \in Nodes :
         LET v == data[x]
             beyond == other = <<>> \/ v >= other[Len(other)]
         IN  Times(DataLeft, v) =
               IF beyond THEN Times(data, v) ELSE Fewer(Times(data, v), Times(other, v))

Ends == <>(at # "run")
=============================================================================
