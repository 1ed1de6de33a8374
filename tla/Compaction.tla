------------------------------ MODULE Compaction ------------------------------
(***************************************************************************)
(* The loops of test/chapter_2_2 that delete elements of a sq_list_t by    *)
(* moving the ones they keep over them, one step a turn: remove_all (q3.c) *)
(* and remove_all_in_range5 (q4_and_5.c) in one pass (goal "once"), and    *)
(* remove_all_same (q6.c), which makes a pass for every element it keeps   *)
(* (goal "same").                                                          *)
(*                                                                         *)
(* What a pass deletes is the set `drops': for remove_all the item alone,  *)
(* for the range the values strictly between its ends, which are none when *)
(* the code refuses the range, and for remove_all_same the element at base.*)
(*                                                                         *)
(* Operators named Faulty... are plausible bugs of the definition that     *)
(* follows; no specification uses them.                                    *)
(***************************************************************************)
EXTENDS Counting

CONSTANTS Value,   \* the elements
          Arrays,  \* the lists to begin with
          Deleted  \* what one pass may have to delete

VARIABLES goal,
          arr, length, \* the list; the cells stay
          i, ndel,     \* of the pass: the next place to fill, and the deletes
          drops, base, \* what it deletes, and for whom
          given        \* history: the list at the start

vars == <<goal, arr, length, i, ndel, drops, base, given>>

\* what the pass for the element at b deletes
SameAs(b, len) == IF b < len THEN {arr[b]} ELSE {}

Init == /\ given \in Arrays
        /\ arr = given /\ length = Size(given) /\ ndel = 0
        /\ \/ goal = "once" /\ drops \in Deleted /\ base = -1
           \/ goal = "same" /\ base = 0 /\ drops = SameAs(0, length)
        /\ i = base + 1

\* takes the element in place, without moving the next one there
FaultyTurn == /\ i < length
              /\ IF arr[i] \in drops
                   THEN length' = length - 1 /\ ndel' = ndel + 1 /\ UNCHANGED i
                   ELSE i' = i + 1 /\ UNCHANGED <<length, ndel>>
              /\ UNCHANGED <<goal, arr, drops, base, given>>

Turn == /\ i < length
        /\ arr' = [arr EXCEPT ![i] = arr[i + ndel]]
        /\ IF arr[i + ndel] \in drops
             THEN length' = length - 1 /\ ndel' = ndel + 1 /\ UNCHANGED i
             ELSE i' = i + 1 /\ UNCHANGED <<length, ndel>>
        /\ UNCHANGED <<goal, drops, base, given>>

NextPass == /\ goal = "same" /\ base < length /\ i >= length
            /\ base' = base + 1
            /\ i' = base + 2 /\ ndel' = 0
            /\ drops' = SameAs(base + 1, length)
            /\ UNCHANGED <<goal, arr, length, given>>

Next == Turn \/ NextPass

Spec == Init /\ [][Next]_vars /\ WF_vars(Next)
-----------------------------------------------------------------------------
Finished == i >= length /\ (goal = "same" => base >= length)

Kept == Value \ drops

(***************************************************************************)
(* Every cell that is read or written is one of the list, and length has   *)
(* fallen by one for each delete.                                          *)
(***************************************************************************)
TypeOK == /\ arr \in [0 .. Size(given) - 1 -> Value]
          /\ length \in 0 .. Size(given)
          /\ i < length => i \in 0 .. length - 1 /\ i + ndel < Size(given)
          /\ goal = "once" => length = Size(given) - ndel

(***************************************************************************)
(* While one pass runs, each element it keeps is in the place that the     *)
(* number of kept ones before it gives, and what it has not come to is     *)
(* where it was: the elements move down over the cells the pass has read   *)
(* already.  At the end the list is what was kept, in its order.           *)
(***************************************************************************)
KeepsOrder ==
  goal = "once" =>
    /\ i = CountIn(given, Kept, i + ndel)
    /\ \A x \in 0 .. i + ndel - 1 :
         given[x] \in Kept => arr[CountIn(given, Kept, x)] = given[x]
    /\ \A x \in i + ndel .. Size(given) - 1 : arr[x] = given[x]

FirstPlace(f, v) == CHOOSE x \in DOMAIN f : f[x] = v /\ \A y \in 0 .. x - 1 : f[y] # v

(***************************************************************************)
(* remove_all_same leaves every value once, in the order in which they     *)
(* first appeared, although later passes read cells that earlier ones have *)
(* moved.                                                                  *)
(***************************************************************************)
EachValueOnce ==
  goal = "same" /\ Finished =>
    /\ {arr[x] : x \in 0 .. length - 1} = {given[x] : x \in DOMAIN given}
    /\ \A x, y \in 0 .. length - 1 :
         x < y => FirstPlace(given, arr[x]) < FirstPlace(given, arr[y])
=============================================================================
