----------------------------- MODULE DLinkedList -----------------------------
(***************************************************************************)
(* structure/src/linearlist/dlinked_list.c: linked_list.c with a prev in   *)
(* every node, which insert uses to find its place from the tail and       *)
(* delete to move tail.  The functions that leave prev alone are those of  *)
(* LinkedList.                                                             *)
(*                                                                         *)
(* insert in the middle writes neither the prev of the new node (it stays  *)
(* Unwritten: what malloc has left there) nor that of the node after it,   *)
(* and delete in the middle forgets length--.  A call that follows a prev  *)
(* to what is not a node in use ends in pc = "wild": the program may go on *)
(* in any way.  Once a call has acted on another node than its index names *)
(* (`stale') the list is not followed any further.                         *)
(*                                                                         *)
(* Operators named Faulty... are plausible bugs of the definition that     *)
(* follows; no specification uses them.                                    *)
(***************************************************************************)
EXTENDS Integers, Sequences, FiniteSets, SequencesExt

CONSTANTS Node, Value, None, MaxLength, \* as in LinkedList
          Unwritten \* the prev of a node that nobody has written

VARIABLES head, tail, length, next, data, used, pc, out, items, kept, \* as in LinkedList
          prev,
          stale, \* history: a call has acted on another node than its index names
          middle \* history: the nodes that insert has put in the middle

vars == <<head, tail, length, next, prev, data, used, pc, out, items, kept, stale, middle>>

Single == INSTANCE LinkedList

Init == /\ Single!Init
        /\ prev = [n \in Node |-> None]
        /\ middle = {}

InitAgain == /\ Single!InitAgain
             /\ middle' = {}
             /\ UNCHANGED prev

InsertHead(v) ==
  /\ Single!InsertHead(v)
  /\ prev' = IF head = None THEN [prev EXCEPT ![head'] = None]
             ELSE [prev EXCEPT ![head'] = None, ![head] = head']
  /\ UNCHANGED middle

InsertTail(v) ==
  /\ Single!InsertTail(v)
  /\ prev' = [prev EXCEPT ![tail'] = tail]
  /\ UNCHANGED middle

\* the node k steps before tail, and the one at which insert's loop ends
Back[k \in Nat] == IF k = 0 THEN tail ELSE Single!Follow(Back[k - 1], prev)
Before(idx) == IF idx < length \div 2 THEN Single!Walk[idx - 1] ELSE Back[length - idx]

InsertMiddle(v, idx) ==
  /\ Single!Believed(idx) /\ idx \notin {0, length}
  /\ Before(idx) \in used
  /\ \E n \in Node, cur \in {Before(idx)} :
       /\ Single!Add(n, v, idx, [next EXCEPT ![n] = next[cur], ![cur] = n])
       /\ prev' = [prev EXCEPT ![n] = Unwritten]
       /\ items' = InsertAt(items, IF idx < Len(items) THEN idx + 1 ELSE Len(items) + 1, n)
       /\ stale' = (stale \/ idx >= Len(items) \/ cur # items[idx])
       /\ middle' = middle \cup {n}
  /\ UNCHANGED <<head, tail>>

InsertLost(idx) ==
  /\ Single!Believed(idx) /\ idx \notin {0, length}
  /\ Before(idx) \notin used
  /\ Single!Crash(IF Before(idx) = None THEN "assert" ELSE Single!Fault(Before(idx)), "insert", idx)
  /\ UNCHANGED <<prev, middle>>

\* the node that delete has to write to
Touched(idx) ==
  IF idx = 0 THEN IF head = tail THEN head ELSE Single!Follow(head, next)
  ELSE IF idx = length - 1 THEN Single!Follow(tail, prev)
  ELSE Single!Follow(Single!Walk[idx], next)

Deleting(idx) == pc = "open" /\ idx \in 0 .. length - 1 /\ Touched(idx) \in used

\* the new first node's prev stays
FaultyDeleteHead ==
  /\ Deleting(0)
  /\ IF head = tail THEN head' = None /\ tail' = None
     ELSE head' = next[head] /\ UNCHANGED tail
  /\ length' = length - 1
  /\ Single!Unlink(head, 0)
  /\ middle' = middle \ {head}
  /\ UNCHANGED <<next, prev, kept, stale>>

DeleteHead ==
  /\ Deleting(0)
  /\ \/ /\ head = tail
        /\ head' = None /\ tail' = None
        /\ UNCHANGED prev
     \/ /\ head # tail
        /\ head' = next[head]
        /\ prev' = [prev EXCEPT ![next[head]] = None]
        /\ UNCHANGED tail
  /\ length' = length - 1
  /\ Single!Unlink(head, 0)
  /\ middle' = middle \ {head}
  /\ UNCHANGED <<next, kept, stale>>

DeleteTail ==
  /\ length > 1 /\ Deleting(length - 1)
  /\ tail' = prev[tail]
  /\ next' = [next EXCEPT ![prev[tail]] = None]
  /\ length' = length - 1
  /\ Single!Unlink(tail, length - 1)
  /\ middle' = middle \ {tail}
  /\ stale' = (stale \/ length # Len(items) \/ prev[tail] # items[length - 1])
  /\ UNCHANGED <<head, prev, kept>>

\* length stays
DeleteMiddle(idx) ==
  /\ idx \notin {0, length - 1} /\ Deleting(idx)
  /\ \E cur \in {Single!Walk[idx - 1]}, gone \in {Single!Walk[idx]} :
       /\ next' = [next EXCEPT ![cur] = next[gone]]
       /\ prev' = [prev EXCEPT ![next[gone]] = cur]
       /\ Single!Unlink(gone, idx)
       /\ middle' = middle \ {gone}
  /\ kept' = kept + 1
  /\ UNCHANGED <<head, tail, length, stale>>

DeleteLost(idx) ==
  /\ pc = "open" /\ idx \in 0 .. length - 1
  /\ Touched(idx) \notin used
  /\ Single!Crash(Single!Fault(Touched(idx)), "delete", idx)
  /\ UNCHANGED <<prev, middle>>

\* what changes no node
InsertRefused(idx) == Single!InsertRefused(idx) /\ UNCHANGED <<prev, middle>>
DeleteRefused(idx) == Single!DeleteRefused(idx) /\ UNCHANGED <<prev, middle>>
At(idx) == Single!At(idx) /\ UNCHANGED <<prev, middle>>
IndexOf(v) == Single!IndexOf(v) /\ UNCHANGED <<prev, middle>>
Destory == Single!Destory /\ UNCHANGED <<prev, middle>>

Call == \/ \E v \in Value : InsertHead(v) \/ InsertTail(v) \/ IndexOf(v)
        \/ \E v \in Value, idx \in Single!Indices : InsertMiddle(v, idx)
        \/ \E idx \in Single!Indices : \/ InsertLost(idx) \/ InsertRefused(idx)
                                       \/ DeleteMiddle(idx) \/ DeleteLost(idx)
                                       \/ DeleteRefused(idx) \/ At(idx)
        \/ DeleteHead \/ DeleteTail \/ Destory \/ InitAgain

Next == ~stale /\ Call

Spec == Init /\ [][Next]_vars
-----------------------------------------------------------------------------
TypeOK ==
  /\ head \in Node \cup {None} /\ tail \in Node \cup {None}
  /\ length \in 0 .. MaxLength
  /\ next \in [Node -> Node \cup {None}]
  /\ prev \in [Node -> Node \cup {None, Unwritten}]
  /\ data \in [Node -> Value \cup {None}]
  /\ used \subseteq Node /\ middle \subseteq Node
  /\ pc \in {"open", "closed", "segv", "wild", "assert"}
  /\ items \in Seq(Node) /\ kept \in Nat /\ stale \in BOOLEAN

(***************************************************************************)
(* Until a call has acted on another node than its index names, the list   *)
(* from head is what the calls asked for, tail is its last node, the nodes *)
(* in use are its nodes; and only a node that insert has put in the middle *)
(* and the one after it can have another prev than their predecessor.      *)
(***************************************************************************)
BackLink(j) == prev[items[j]] = IF j = 1 THEN None ELSE items[j - 1]

FollowsItems ==
  /\ Single!FollowsItems
  /\ ~stale => \A j \in 1 .. Len(items) :
                 BackLink(j) \/ (j > 1 /\ {items[j - 1], items[j]} \cap middle # {})

(***************************************************************************)
(* A call crashes, until one has acted on the wrong node, only if it is    *)
(* at(0), or if a delete has forgotten length--, or if there is a node     *)
(* that insert has put in the middle; a call that follows a prev to what   *)
(* is not a node in use needs the last.                                    *)
(***************************************************************************)
CrashNeedsDrift ==
  ~stale =>
    /\ pc \in {"segv", "assert"} => (out.op = "at" /\ out.idx = 0) \/ kept > 0 \/ middle # {}
    /\ pc = "wild" => middle # {}
=============================================================================
