--------------------------------- MODULE Kmp ---------------------------------
(***************************************************************************)
(* test/chapter_4_1/kmp.c: get_next, get_nextval and kmp.  One step is one *)
(* turn of a loop.  A call of kmp (goal "match") runs get_next and then    *)
(* the matching loop; get_nextval is called for itself (goal "nextval").   *)
(*                                                                         *)
(* kmp begins its loop with j = -1, the value that means "move on in the   *)
(* text", so its first turn moves on past str[0].                          *)
(*                                                                         *)
(* A string is a function on 0 .. n - 1.  plen = 0 is left out: next[0]    *)
(* would then lie outside malloc(0).                                       *)
(*                                                                         *)
(* Operators named Faulty... are plausible bugs of the definition that     *)
(* follows; no specification uses them.                                    *)
(***************************************************************************)
EXTENDS Integers, FiniteSetsExt

CONSTANTS Texts,    \* the strings to search
          Patterns, \* the strings to search for
          None      \* an element of the table not written yet, no result yet

VARIABLES str, p, \* the arguments
          goal,   \* "match" or "nextval"
          at,     \* the loop the code is in, or "done"
          i, j,   \* its variables
          table,  \* next or nextval
          result  \* what kmp returned

vars == <<str, p, goal, at, i, j, table, result>>

Size(s) == Cardinality(DOMAIN s)
plen == Size(p)
slen == Size(str)

\* get_nextval takes no text
Init == /\ p \in Patterns
        /\ \/ goal = "match" /\ str \in Texts
           \/ goal = "nextval" /\ str = None
        /\ at = "table"
        /\ i = 0 /\ j = -1
        /\ table = [m \in 0 .. plen - 1 |-> IF m = 0 THEN -1 ELSE None]
        /\ result = None

\* fills one entry too many
FaultyFilling == at = "table" /\ i < plen
Filling == at = "table" /\ i < plen - 1

\* pattern[i] and pattern[j] extend the border, or there is none to extend
Extends == j # -1 => p[i] = p[j]

\* get_next: next[++i] = ++j
NextTurn == /\ goal = "match" /\ Filling /\ Extends
            /\ table' = [table EXCEPT ![i + 1] = j + 1]
            /\ i' = i + 1 /\ j' = j + 1
            /\ UNCHANGED <<str, p, goal, at, result>>

\* get_nextval: the entry of j when the characters at i and j are the same
NextvalTurn ==
  /\ goal = "nextval" /\ Filling /\ Extends
  /\ table' = [table EXCEPT ![i + 1] = IF p[i + 1] # p[j + 1] THEN j + 1 ELSE table[j + 1]]
  /\ i' = i + 1 /\ j' = j + 1
  /\ UNCHANGED <<str, p, goal, at, result>>

\* tries no shorter border
FaultyFallBack == /\ Filling /\ ~Extends
                  /\ j' = -1
                  /\ UNCHANGED <<str, p, goal, at, i, table, result>>

\* both: j = next[j]
FallBack == /\ Filling /\ ~Extends
            /\ j' = table[j]
            /\ UNCHANGED <<str, p, goal, at, i, table, result>>

TableDone == /\ at = "table" /\ ~Filling
             /\ at' = IF goal = "match" THEN "match" ELSE "done"
             /\ i' = 0 /\ j' = -1
             /\ UNCHANGED <<str, p, goal, table, result>>

Matching == at = "match" /\ i < slen /\ j < plen

Advance == /\ Matching
           /\ j # -1 => str[i] = p[j]
           /\ i' = i + 1 /\ j' = j + 1
           /\ UNCHANGED <<str, p, goal, at, table, result>>

\* stays where it is in the pattern
FaultyShift == /\ Matching
               /\ j # -1 /\ str[i] # p[j]
               /\ j' = IF table[j] = -1 THEN 0 ELSE table[j]
               /\ UNCHANGED <<str, p, goal, at, i, table, result>>

Shift == /\ Matching
         /\ j # -1 /\ str[i] # p[j]
         /\ j' = table[j]
         /\ UNCHANGED <<str, p, goal, at, i, table, result>>

Return == /\ at = "match" /\ ~Matching
          /\ result' = IF j = plen THEN i - plen ELSE -1
          /\ at' = "done"
          /\ UNCHANGED <<str, p, goal, i, j, table>>

Next == NextTurn \/ NextvalTurn \/ FallBack \/ TableDone \/ Advance \/ Shift \/ Return

Spec == Init /\ [][Next]_vars /\ WF_vars(Next)
-----------------------------------------------------------------------------
\* every index that is used lies within its array
TypeOK ==
  /\ str \in Texts \cup {None} /\ p \in Patterns
  /\ goal \in {"match", "nextval"}
  /\ at \in {"table", "match", "done"}
  /\ j \in -1 .. plen
  /\ Filling => i \in 0 .. plen - 2 /\ j < i
  /\ at = "match" => i \in 0 .. slen
  /\ \A m \in 0 .. plen - 1 : table[m] \in (-1 .. m - 1) \cup {None}
  /\ result = None \/ result \in -1 .. slen

\* the first k characters of the pattern are also the k before place m
IsBorder(k, m) == \A x \in 0 .. k - 1 : p[x] = p[m - k + x]

LongestBorder(m) == Max({k \in 0 .. m - 1 : IsBorder(k, m)} \cup {-1})

\* the longest of them after which another character than pattern[m] comes
Optimised(m) == Max({k \in 0 .. m - 1 : IsBorder(k, m) /\ p[k] # p[m]} \cup {-1})

(***************************************************************************)
(* get_next gives for each place of the pattern the length of the longest  *)
(* proper border of what comes before it, and -1 for place 0.  get_nextval *)
(* gives the longest border that does not lead to the same character again,*)
(* although it sees the shorter borders only through entries it has        *)
(* optimised before.  Both write every entry once, in order.               *)
(***************************************************************************)
BorderTables ==
  \A m \in 0 .. plen - 1 :
    table[m] = IF at = "table" /\ m > i THEN None
               ELSE IF goal = "match" THEN LongestBorder(m) ELSE Optimised(m)

OccursAt(x) == x + plen <= slen /\ \A y \in 0 .. plen - 1 : str[x + y] = p[y]

First(from) == LET places == {x \in from .. slen : OccursAt(x)}
               IN  IF places = {} THEN -1 ELSE Min(places)

(***************************************************************************)
(* Both calls return, and kmp with the first occurrence of the pattern     *)
(* that does not begin at str[0].                                          *)
(***************************************************************************)
FindsFromOne == <>(at = "done" /\ (goal = "match" => result = First(1)))

(***************************************************************************)
(* "When matching has ended, return the start index of what was matched"   *)
(* (line 71): the first occurrence, wherever it begins.                    *)
(***************************************************************************)
Finds == result # None => result = First(0)
=============================================================================
