---------------------------- MODULE BracketsJudge ----------------------------
(***************************************************************************)
(* brackets_judge of test/chapter_3_3/q1.c: are the brackets of a string   *)
(* matched?  One step handles one character, with its call on the linked   *)
(* stack (LinkedStack); a closing bracket takes a second step, which looks *)
(* at the node popped.  A character is an opening or a closing bracket of  *)
(* a kind, or Other.                                                       *)
(*                                                                         *)
(* Operators named Faulty... are plausible bugs of the definition that     *)
(* follows; no specification uses them.                                    *)
(***************************************************************************)
EXTENDS Integers, Sequences, FiniteSets

CONSTANTS Kind,  \* the kinds of brackets
          Other, \* any other character
          Texts, \* the strings to judge
          Node,  \* the linked nodes malloc can return
          None   \* NULL

Opening(b) == [side |-> "open", kind |-> b]
Closing(b) == [side |-> "close", kind |-> b]
Char == [side : {"open", "close"}, kind : Kind] \cup {Other}

VARIABLES text, \* s
          i,    \* the loop variable, from 1 here
          at,   \* where the code is, or "done"
          node, \* the node popped last
          result, \* what the call returned
          top, next, data, used, live, out, piled \* the stack

judge == <<text, i, at, node, result>>
stack == <<top, next, data, used, live, out, piled>>
vars == <<judge, stack>>

Stack == INSTANCE LinkedStack WITH Value <- Kind

Init == /\ text \in Texts
        /\ Stack!Init
        /\ i = 1 /\ at = "loop" /\ node = None /\ result = None

More == at = "loop" /\ i <= Len(text)

ReadOpening(b) == /\ More /\ text[i] = Opening(b)
                  /\ Stack!Push(b)
                  /\ i' = i + 1
                  /\ UNCHANGED <<text, at, node, result>>

ReadOther == /\ More /\ text[i] = Other
             /\ i' = i + 1
             /\ UNCHANGED <<text, at, node, result, stack>>

ReadClosing == /\ More /\ \E b \in Kind : text[i] = Closing(b)
               /\ IF Stack!Empty THEN Stack!PopEmpty ELSE Stack!Pop
               /\ node' = top
               /\ at' = "match"
               /\ UNCHANGED <<text, i, result>>

Matches == node # None /\ data[node] = text[i].kind

Match == /\ at = "match" /\ Matches
         /\ Stack!Free(node)
         /\ i' = i + 1
         /\ at' = "loop"
         /\ UNCHANGED <<text, node, result>>

\* returns without linked_stack_destory
FaultyMismatch == /\ at = "match" /\ ~Matches
                  /\ result' = FALSE
                  /\ at' = "done"
                  /\ UNCHANGED <<text, i, node, stack>>

Mismatch == /\ at = "match" /\ ~Matches
            /\ Stack!Destory
            /\ result' = FALSE
            /\ at' = "done"
            /\ UNCHANGED <<text, i, node>>

\* returns true when the text ends, whatever is still open
FaultyEndOfText == /\ at = "loop" /\ i > Len(text)
                   /\ result' = TRUE
                   /\ Stack!Destory
                   /\ at' = "done"
                   /\ UNCHANGED <<text, i, node>>

EndOfText == /\ at = "loop" /\ i > Len(text)
             /\ result' = Stack!Empty
             /\ Stack!Destory
             /\ at' = "done"
             /\ UNCHANGED <<text, i, node>>

Next == \/ \E b \in Kind : ReadOpening(b)
        \/ ReadOther \/ ReadClosing \/ Match \/ Mismatch \/ EndOfText

Spec == Init /\ [][Next]_vars
-----------------------------------------------------------------------------
TypeOK ==
  /\ text \in Texts
  /\ i \in 1 .. Len(text) + 1
  /\ at \in {"loop", "match", "done"}
  /\ node \in Node \cup {None}
  /\ result \in BOOLEAN \cup {None}
  /\ Stack!TypeOK

\* are the brackets in the n characters of s from place j matched?
Matched(s) ==
  LET Span[n \in 0 .. Len(s), j \in 1 .. Len(s) + 1] ==
        IF n = 0 THEN TRUE
        ELSE IF s[j] = Other THEN Span[n - 1, j + 1]
        ELSE /\ s[j].side = "open"
             /\ \E m \in 0 .. n - 2 :
                  /\ s[j + m + 1] = Closing(s[j].kind)
                  /\ Span[m, j + 1]
                  /\ Span[n - m - 2, j + m + 2]
  IN  Span[Len(s), 1]

(***************************************************************************)
(* The answer is that of the grammar of matched brackets, in which a       *)
(* matched text is empty, another character before a matched text, or an   *)
(* opening bracket, a matched text, its closing bracket and a matched text.*)
(***************************************************************************)
Judges == at = "done" => result = Matched(text)

(***************************************************************************)
(* A call that says yes has freed every node, and so has one that says no  *)
(* because a bracket is missing; one that meets two brackets that do not   *)
(* match leaks the node of the opening one.                                *)
(***************************************************************************)
LeaksMismatched ==
  at = "done" => used = IF i <= Len(text) /\ node # None THEN {node} ELSE {}
=============================================================================
