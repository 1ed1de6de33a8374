------------------------------- MODULE Majority -------------------------------
(***************************************************************************)
(* test/chapter_2_2/q12.c: primary_elem_search, which looks for the value  *)
(* of more than half of the elements in two passes over the array.  The    *)
(* first one (at "vote") lets different elements cancel each other out, the*)
(* second (at "count") counts the candidate that is left, if one is.  One  *)
(* step is one turn of a loop.                                             *)
(*                                                                         *)
(* The empty array is left out: arr[0] is read before n is looked at.      *)
(*                                                                         *)
(* Operators named Faulty... are plausible bugs of the definition that     *)
(* follows; no specification uses them.                                    *)
(***************************************************************************)
EXTENDS Counting

CONSTANTS Value,  \* the elements
          Arrays, \* the arrays to search
          None    \* not returned yet; stands for the answer -1 as well

VARIABLES arr,
          at,      \* "vote", "count" or "done"
          i, c, count, \* the variables of the code
          result

vars == <<arr, at, i, c, count, result>>

Init == /\ arr \in Arrays
        /\ at = "vote"
        /\ i = 1 /\ c = arr[0] /\ count = 1
        /\ result = None

Voting == at = "vote" /\ i < Size(arr)

ForCandidate == /\ Voting /\ arr[i] = c
                /\ count' = count + 1
                /\ i' = i + 1
                /\ UNCHANGED <<arr, at, c, result>>

\* takes the new candidate together with the last vote of the old one
FaultyAgainst == /\ Voting /\ arr[i] # c
                 /\ IF count > 1 THEN count' = count - 1 /\ UNCHANGED c
                                 ELSE c' = arr[i] /\ count' = 1
                 /\ i' = i + 1
                 /\ UNCHANGED <<arr, at, result>>

Against == /\ Voting /\ arr[i] # c
           /\ IF count > 0 THEN count' = count - 1 /\ UNCHANGED c
                           ELSE c' = arr[i] /\ count' = 1
           /\ i' = i + 1
           /\ UNCHANGED <<arr, at, result>>

\* without a vote left the second pass is skipped, and 0 > n / 2 is false
NoCandidate == /\ at = "vote" /\ ~Voting /\ count = 0
               /\ at' = "done" /\ result' = None
               /\ UNCHANGED <<arr, i, c, count>>

Recount == /\ at = "vote" /\ ~Voting /\ count > 0
           /\ at' = "count" /\ i' = 0 /\ count' = 0
           /\ UNCHANGED <<arr, c, result>>

Counting == at = "count" /\ i < Size(arr)

Count == /\ Counting
         /\ count' = IF arr[i] = c THEN count + 1 ELSE count
         /\ i' = i + 1
         /\ UNCHANGED <<arr, at, c, result>>

Return == /\ at = "count" /\ ~Counting
          /\ at' = "done"
          /\ result' = IF count > Size(arr) \div 2 THEN c ELSE None
          /\ UNCHANGED <<arr, i, c, count>>

Next == ForCandidate \/ Against \/ NoCandidate \/ Recount \/ Count \/ Return

Spec == Init /\ [][Next]_vars /\ WF_vars(Next)
-----------------------------------------------------------------------------
Occurs(v, m) == CountIn(arr, {v}, m)

TypeOK == /\ arr \in Arrays /\ c \in Value
          /\ at \in {"vote", "count", "done"}
          /\ i \in 0 .. Size(arr)
          /\ count \in 0 .. Size(arr)
          /\ result \in Value \cup {None}

(***************************************************************************)
(* The votes left over bound how often a value can have come: the          *)
(* candidate at most count times more often than all others together, any  *)
(* other value at most as often as all that is not it, less count.         *)
(***************************************************************************)
VotesBound ==
  at = "vote" => /\ 2 * Occurs(c, i) <= i + count
                 /\ \A v \in Value \ {c} : 2 * Occurs(v, i) <= i - count

(***************************************************************************)
(* The search finds the value of more than half of the elements if there   *)
(* is one, and answers that there is none otherwise, although the first    *)
(* pass may end with any candidate.                                        *)
(***************************************************************************)
FindsMajority ==
  at = "done" => \A v \in Value : result = v <=> 2 * Occurs(v, Size(arr)) > Size(arr)
=============================================================================
