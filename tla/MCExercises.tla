------------------------------ MODULE MCExercises ------------------------------
(***************************************************************************)
(* The programs of the exercises on arrays, lists and strings, side by     *)
(* side, each over small inputs: `which' names the module of the one that  *)
(* runs.  The names of variables are those of the modules, which share     *)
(* them; what a program does not use is None while it runs.  The module    *)
(* extends Compaction, whose KeepsOrder it checks as it is: no other       *)
(* program has the goal "once".                                            *)
(***************************************************************************)
EXTENDS Compaction, Sequences

CONSTANTS Char,        \* of the strings
          LongestText, LongestPattern,
          Most,        \* the elements of arrays, Value, are 0 .. Most
          LongestArray, LongestSearched, LongestList, MaxGets,
          None

VARIABLES which,
          at, result,                           \* used by several
          str, p, j, table,                     \* Kmp
          c, count,                             \* Majority
          call,                                 \* ArrayExercises, ListQueries
          data, next, cur,                      \* ListRemovals, ListRelinks
          freed, pre, min, minPre, other, rest, printed, \* ListRemovals
          m, lb, pa, pb, freq                   \* ListRelinks

kmpOnly == <<str, p, j, table>>
compactOnly == <<length, ndel, base, given>>
voteOnly == <<c, count>>
nodes == <<data, next, cur>>
removeOnly == <<freed, pre, min, minPre, other, rest, printed>>
relinkOnly == <<m, lb, pa, pb, freq>>
suiteVars == <<which, goal, at, i, result, kmpOnly, arr, drops, compactOnly, voteOnly, call,
          nodes, removeOnly, relinkOnly>>

Functions(n, S) == UNION {[0 .. k - 1 -> S] : k \in 0 .. n}
Lists(n, S) == UNION {[1 .. k -> S] : k \in 0 .. n}
Ascending(S) == {s \in S : \A x, y \in DOMAIN s : x < y => s[x] <= s[y]}
Digits == 0 .. Most
Few == 0 .. 2
SmallArrays == Functions(LongestArray, Digits)
SmallSets == {{}, {1}, {0, 2}}

\* what the proofs use of the constants
ASSUME Sizes == {LongestText, LongestPattern, LongestArray, LongestSearched} \subseteq Nat
ASSUME ArrayElements == Value = Digits /\ Arrays \subseteq Functions(LongestArray, Value)
ASSUME NullIsApart == None \notin Digits /\ None # "once"

Strings == INSTANCE Kmp WITH Texts <- Functions(LongestText, Char),
                             Patterns <- Functions(LongestPattern, Char) \ Functions(0, Char)
Vote == INSTANCE Majority WITH Arrays <- Functions(LongestSearched, Digits) \ Functions(0, Digits)
Array == INSTANCE ArrayExercises WITH
           Arrays <- Functions(4, Digits) \cup Ascending([0 .. 4 -> Digits])
Removal == INSTANCE ListRemovals WITH Data <- Lists(LongestList, {-1, 0, 2}),
                                      Items <- {{}, {0}, {0, 2}},
                                      Others <- Ascending(Lists(3, {-1, 0, 2})),
                                      Bits <- 2
Relink == INSTANCE ListRelinks WITH Data <- Lists(3, Few), MaxLength <- 7
Query == INSTANCE ListQueries WITH Data <- Lists(LongestList, Few),
                                   Short <- Lists(LongestList - 1, Few),
                                   Longest <- 4

Off(x) == x = None

KmpOff == Off(str) /\ Off(p) /\ Off(j) /\ Off(table)
CompactOff == Off(length) /\ Off(ndel) /\ Off(base) /\ Off(given)
VoteOff == Off(c) /\ Off(count)
ArraysOff == Off(arr) /\ CompactOff /\ VoteOff
RemoveOff == /\ Off(freed) /\ Off(pre) /\ Off(min) /\ Off(minPre)
             /\ Off(other) /\ Off(rest) /\ Off(printed)
RelinkOff == Off(m) /\ Off(lb) /\ Off(pa) /\ Off(pb) /\ Off(freq)
ListsOff == Off(data) /\ Off(next) /\ Off(cur) /\ RemoveOff /\ RelinkOff
ControlOff == Off(goal) /\ Off(at) /\ Off(i)

SuiteInit ==
  \/ which = "Kmp" /\ Strings!Init /\ Off(drops) /\ ArraysOff /\ Off(call) /\ ListsOff
  \/ which = "Compaction" /\ Init
     /\ Off(at) /\ Off(result) /\ KmpOff /\ VoteOff /\ Off(call) /\ ListsOff
  \/ which = "Majority" /\ Vote!Init
     /\ Off(goal) /\ Off(drops) /\ KmpOff /\ CompactOff /\ Off(call) /\ ListsOff
  \/ /\ (which = "ArrayExercises" /\ Array!Init) \/ (which = "ListQueries" /\ Query!Init)
     /\ ControlOff /\ Off(drops) /\ KmpOff /\ ArraysOff /\ ListsOff
  \/ which = "ListRemovals" /\ Removal!Init
     /\ Off(i) /\ Off(result) /\ KmpOff /\ ArraysOff /\ Off(call) /\ RelinkOff
  \/ which = "ListRelinks" /\ Relink!Init
     /\ Off(drops) /\ KmpOff /\ ArraysOff /\ Off(call) /\ RemoveOff

KmpNext == /\ which = "Kmp" /\ Strings!Next
           /\ UNCHANGED <<which, arr, drops, compactOnly, voteOnly, call, nodes, removeOnly,
                          relinkOnly>>
CompactNext == /\ which = "Compaction" /\ Next
               /\ UNCHANGED <<which, at, result, kmpOnly, voteOnly, call, nodes, removeOnly,
                              relinkOnly>>
VoteNext == /\ which = "Majority" /\ Vote!Next
            /\ UNCHANGED <<which, goal, kmpOnly, drops, compactOnly, call, nodes, removeOnly,
                           relinkOnly>>
CallNext == /\ (which = "ArrayExercises" /\ Array!Next) \/ (which = "ListQueries" /\ Query!Next)
            /\ UNCHANGED <<which, goal, at, i, kmpOnly, arr, drops, compactOnly, voteOnly, nodes,
                           removeOnly, relinkOnly>>
RemovalNext == /\ which = "ListRemovals" /\ Removal!Next
               /\ UNCHANGED <<which, i, result, kmpOnly, arr, compactOnly, voteOnly, call,
                              relinkOnly>>
RelinkNext == /\ which = "ListRelinks" /\ Relink!Next
              /\ UNCHANGED <<which, kmpOnly, arr, drops, compactOnly, voteOnly, call, removeOnly>>

SuiteNext == KmpNext \/ CompactNext \/ VoteNext \/ CallNext \/ RemovalNext \/ RelinkNext

\* each program is one sequential call, which runs on
SuiteSpec == SuiteInit /\ [][SuiteNext]_suiteVars /\ WF_suiteVars(SuiteNext)
-----------------------------------------------------------------------------
SuiteTypeOK ==
  CASE which = "Kmp" -> Strings!TypeOK
    [] which = "Compaction" -> TypeOK
    [] which = "Majority" -> Vote!TypeOK
    [] which = "ListRemovals" -> Removal!TypeOK
    [] which = "ListRelinks" -> Relink!TypeOK
    [] OTHER -> which \in {"ArrayExercises", "ListQueries"}

(***************************************************************************)
(* get_next and get_nextval (chapter_4_1/kmp.c) fill their tables with the *)
(* longest borders, nextval with those that another character follows.     *)
(***************************************************************************)
BorderTables == which = "Kmp" => Strings!BorderTables

(***************************************************************************)
(* primary_elem_search (chapter_2_2/q12.c) finds the value of more than    *)
(* half of the elements, if there is one, and no other.                    *)
(***************************************************************************)
FindsMajority == which = "Majority" => Vote!VotesBound /\ Vote!FindsMajority

(***************************************************************************)
(* What the programs of chapter_2_2, 2_3, 3_1 and 3_3 return, print, leave *)
(* is what their exercise asks for, but for the exceptions that the modules*)
(* state.  Of an array: remove_min keeps its length, remove_all_in_range4  *)
(* moves too few elements, insert_or_swap_with_next misses its place,      *)
(* mid_search's answer is at most the median, find_min_positive gives n    *)
(* where all of 1 .. n occur and -1 for an empty array.  Of a list:        *)
(* list_get answers NULL for a found node that is the last then,           *)
(* node_reverse and remove_min (2_3/q4.c) crash on an empty list, the main *)
(* of list_sort prints a part, reciprocal_k2 crashes,                      *)
(* intersection_of_ordered_list (q15.c) and solve_list stop at the end of  *)
(* the shorter list, remove_abs_same can leave its bitmap.  Of the others: *)
(* is_symmetry refuses one node and func(0) is 2x.                         *)
(***************************************************************************)
Answers == /\ which = "Compaction" => EachValueOnce
           /\ which = "ArrayExercises" => Array!Answers
           /\ which = "ListQueries" => Query!Answers
           /\ which = "ListRemovals" => /\ Removal!RightNodesLeft
                                        /\ Removal!PrintsOrdered
                                        /\ Removal!IntersectsUpToLast
           /\ which = "ListRelinks" => Relink!Relinked /\ Relink!OftenFoundFirst

(***************************************************************************)
(* At every step of the programs of chapter_2_3 each node is in a list or  *)
(* freed, and never both; only solve_list ends with nodes it has lost.     *)
(***************************************************************************)
NoNodeLost == /\ which = "ListRemovals" => Removal!NoNodeLost
              /\ which = "ListRelinks" => Relink!NoNodeLost

(***************************************************************************)
(* Every call ends, those over circles and those whose tables send them    *)
(* back included; kmp with the first match that does not begin at str[0].  *)
(***************************************************************************)
Ends == <>(CASE which = "Kmp" -> at = "done" /\ (goal = "match" => result = Strings!First(1))
             [] which = "Compaction" -> Finished
             [] which = "Majority" -> at = "done"
             [] which = "ListRemovals" -> at # "run"
             [] which = "ListRelinks" -> at \notin {"run", "merge"} \/ goal = "list_get"
             [] OTHER -> result # None)

(***************************************************************************)
(* "When matching has ended, return the start index of what was matched"   *)
(* (chapter_4_1/kmp.c:71): the first match, wherever it begins.            *)
(***************************************************************************)
Finds == which = "Kmp" => Strings!Finds
=============================================================================
