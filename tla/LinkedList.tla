----------------------------- MODULE LinkedList ------------------------------
(***************************************************************************)
(* structure/src/linearlist/linked_list.c: a singly linked list with a     *)
(* head, a tail and a length.  The insert functions return a node whose    *)
(* data the caller writes at once.                                         *)
(*                                                                         *)
(* delete of any element but the first forgets length--, and the other     *)
(* functions believe length: insert and delete may then walk off the list. *)
(* A NULL pointer that is followed ends in pc = "segv" and the assertion   *)
(* of insert in pc = "assert".                                             *)
(*                                                                         *)
(* malloc returns any node not in use, or NULL.  Node bounds the number of *)
(* nodes and MaxLength length.                                             *)
(*                                                                         *)
(* Operators named Faulty... are plausible bugs of the definition that     *)
(* follows; no specification uses them.                                    *)
(***************************************************************************)
EXTENDS Integers, Sequences, FiniteSets, SequencesExt

CONSTANTS Node,  \* the nodes malloc can return
          Value, \* what the callers put in a node
          None,  \* NULL, and no element
          MaxLength

VARIABLES head, tail, length, \* the fields of linked_list_t
          next, data, \* the fields of every node
          used,  \* the nodes malloc has returned and nobody has freed
          pc,    \* "open", "closed" (after destory), "segv" or "assert"
          out,   \* the last call, its index and its result
          items, \* history: what the indices of the calls should have made of the list
          kept,  \* history: how often delete has not decremented length
          stale  \* history: insert has put a node after tail without moving it

fields == <<head, tail, length>>
nodes == <<next, data, used>>
history == <<items, kept, stale>>
vars == <<fields, nodes, pc, out, history>>

Result(op, idx, res) == [op |-> op, idx |-> idx, res |-> res]

Indices == -1 .. MaxLength

\* what comes of following the pointer p, and of reading field f there; a
\* pointer to a node not in use ("wild") does not occur in this list
Fault(p) == IF p \in {None, "segv"} THEN "segv" ELSE "wild"
Follow(p, f) == IF p \in used THEN f[p] ELSE Fault(p)

\* the node k steps after head
Walk[k \in Nat] == IF k = 0 THEN head ELSE Follow(Walk[k - 1], next)

\* the nodes from head on, as destory, index_of and foreach meet them
Chain == [k \in 1 .. Cardinality({j \in 0 .. Cardinality(Node) : Walk[j] \in used}) |-> Walk[k - 1]]

Init == /\ head = None /\ tail = None /\ length = 0
        /\ next = [n \in Node |-> None] /\ data = [n \in Node |-> None]
        /\ used = {}
        /\ pc = "open"
        /\ out = Result("init", 0, None)
        /\ items = <<>> /\ kept = 0 /\ stale = FALSE

InitAgain == /\ pc = "closed"
             /\ head' = None /\ tail' = None /\ length' = 0
             /\ pc' = "open"
             /\ out' = Result("init", 0, None)
             /\ items' = <<>> /\ kept' = 0
             /\ UNCHANGED <<nodes, stale>>

\* a call that returns without effect
Answer(op, idx, res) == /\ out' = Result(op, idx, res)
                        /\ UNCHANGED <<fields, nodes, pc, history>>

Crash(how, op, idx) == /\ pc' = how
                       /\ out' = Result(op, idx, None)
                       /\ UNCHANGED <<fields, nodes, history>>

\* malloc returns n; the caller writes v; links are the new next fields
Add(n, v, idx, links) ==
  /\ n \in Node \ used
  /\ used' = used \cup {n}
  /\ next' = links
  /\ data' = [data EXCEPT ![n] = v]
  /\ length' = length + 1
  /\ out' = Result("insert", idx, v)
  /\ UNCHANGED <<pc, kept>>

Believed(idx) == pc = "open" /\ idx \in 0 .. length /\ length < MaxLength

InsertHead(v) ==
  /\ Believed(0)
  /\ \E n \in Node :
       /\ Add(n, v, 0, [next EXCEPT ![n] = head])
       /\ head' = n
       /\ tail' = IF head = None THEN n ELSE tail
       /\ items' = <<n>> \o items
  /\ UNCHANGED stale

InsertTail(v) ==
  /\ Believed(length) /\ length # 0
  /\ \E n \in Node :
       /\ Add(n, v, length, IF tail = None THEN [next EXCEPT ![n] = None]
                            ELSE [next EXCEPT ![n] = None, ![tail] = n])
       /\ tail' = n
       /\ head' = IF tail = None THEN n ELSE head
       /\ items' = Append(items, n)
  /\ UNCHANGED stale

\* the loop of insert has found the node at idx - 1, which may be the last
InsertMiddle(v, idx) ==
  /\ Believed(idx) /\ idx \notin {0, length}
  /\ Walk[idx - 1] \in used
  /\ \E n \in Node, cur \in {Walk[idx - 1]} :
       /\ Add(n, v, idx, [next EXCEPT ![n] = next[cur], ![cur] = n])
       /\ items' = InsertAt(items, IF idx < Len(items) THEN idx + 1 ELSE Len(items) + 1, n)
  /\ stale' = (stale \/ idx >= Len(items))
  /\ UNCHANGED <<head, tail>>

\* the loop has left the list by one step, or by more
InsertLost(idx) ==
  /\ Believed(idx) /\ idx \notin {0, length}
  /\ Walk[idx - 1] \notin used
  /\ Crash(IF Walk[idx - 1] = None THEN "assert" ELSE Fault(Walk[idx - 1]), "insert", idx)

\* an index out of range, or malloc returns NULL
InsertRefused(idx) == pc = "open" /\ Answer("insert", idx, None)

\* frees n, which has been unlinked
Unlink(n, idx) ==
  /\ used' = used \ {n}
  /\ out' = Result("delete", idx, data[n])
  /\ items' = IF idx < Len(items) THEN RemoveAt(items, idx + 1) ELSE items
  /\ UNCHANGED <<data, pc>>

\* the only element goes and tail stays
FaultyDeleteOnly ==
  /\ pc = "open" /\ 0 < length /\ head # None
  /\ head' = next[head]
  /\ length' = length - 1
  /\ Unlink(head, 0)
  /\ UNCHANGED <<tail, next, kept, stale>>

\* length-- is not reached
FaultyDeleteHead ==
  /\ pc = "open" /\ 0 < length /\ head # None
  /\ IF head = tail THEN head' = None /\ tail' = None
     ELSE head' = next[head] /\ UNCHANGED tail
  /\ Unlink(head, 0)
  /\ UNCHANGED <<next, kept, length, stale>>

DeleteHead ==
  /\ pc = "open" /\ 0 < length /\ head # None
  /\ IF head = tail THEN head' = None /\ tail' = None
     ELSE head' = next[head] /\ UNCHANGED tail
  /\ length' = length - 1
  /\ Unlink(head, 0)
  /\ UNCHANGED <<next, kept, stale>>

\* leaves tail on the node that is freed
FaultyDeleteNext(idx) ==
  /\ pc = "open" /\ idx \in 1 .. length - 1
  /\ Walk[idx] \in used
  /\ \E cur \in {Walk[idx - 1]}, gone \in {Walk[idx]} :
       /\ next' = [next EXCEPT ![cur] = next[gone]]
       /\ Unlink(gone, idx)
  /\ kept' = kept + 1
  /\ UNCHANGED <<head, tail, length, stale>>

\* length stays
DeleteNext(idx) ==
  /\ pc = "open" /\ idx \in 1 .. length - 1
  /\ Walk[idx] \in used
  /\ \E cur \in {Walk[idx - 1]}, gone \in {Walk[idx]} :
       /\ tail' = IF gone = tail THEN cur ELSE tail
       /\ next' = [next EXCEPT ![cur] = next[gone]]
       /\ Unlink(gone, idx)
  /\ kept' = kept + 1
  /\ UNCHANGED <<head, length, stale>>

DeleteLost(idx) ==
  /\ pc = "open" /\ idx \in 0 .. length - 1
  /\ Walk[idx] \notin used
  /\ Crash(Fault(Walk[idx]), "delete", idx)

DeleteRefused(idx) ==
  /\ pc = "open" /\ idx \notin 0 .. length - 1
  /\ Answer("delete", idx, None)

\* at runs its loop idx - 1 times; from idx = 0 it runs off the list
FaultyAt(idx) ==
  /\ pc = "open"
  /\ IF idx \notin 0 .. length - 1 THEN Answer("at", idx, None)
     ELSE IF idx = 0 \/ Walk[idx] = "segv" THEN Crash("segv", "at", idx)
     ELSE Answer("at", idx, Walk[idx])

At(idx) ==
  /\ pc = "open"
  /\ IF idx \notin 0 .. length - 1 THEN Answer("at", idx, None)
     ELSE IF idx = 0 \/ Walk[idx - 1] = "segv" THEN Crash("segv", "at", idx)
     ELSE Answer("at", idx, Walk[idx - 1])

\* index_of with its own memequals compares the pointer it is given with the
\* address of a node's data; the value v that it points to is not looked at
IndexOf(v) == pc = "open" /\ Answer("index_of", v, -1)

\* head, tail and length stay as they are
Destory == /\ pc = "open"
           /\ used' = used \ ToSet(Chain)
           /\ pc' = "closed"
           /\ out' = Result("destory", 0, None)
           /\ UNCHANGED <<fields, next, data, history>>

Next == \/ \E v \in Value : InsertHead(v) \/ InsertTail(v) \/ IndexOf(v)
        \/ \E v \in Value, idx \in Indices : InsertMiddle(v, idx)
        \/ \E idx \in Indices : \/ InsertLost(idx) \/ InsertRefused(idx)
                                \/ DeleteNext(idx) \/ DeleteLost(idx) \/ DeleteRefused(idx)
                                \/ At(idx)
        \/ DeleteHead \/ Destory \/ InitAgain

Spec == Init /\ [][Next]_vars
-----------------------------------------------------------------------------
TypeOK ==
  /\ head = None <=> tail = None
  /\ head \in Node \cup {None} /\ tail \in Node \cup {None}
  /\ length \in 0 .. MaxLength
  /\ next \in [Node -> Node \cup {None}]
  /\ data \in [Node -> Value \cup {None}]
  /\ used \subseteq Node
  /\ pc \in {"open", "closed", "segv", "assert"}
  /\ items \in Seq(Node) /\ kept \in Nat /\ stale \in BOOLEAN

(***************************************************************************)
(* Until an insert that believed length has put a node after tail, the     *)
(* list from head is what the calls asked for with their indices, tail is  *)
(* its last node, and the list's nodes are those in use: none is left      *)
(* after destory.                                                          *)
(***************************************************************************)
FollowsItems ==
  ~stale =>
    IF pc = "closed" THEN used = {}
    ELSE /\ Chain = items
         /\ tail = IF items = <<>> THEN None ELSE Last(items)
         /\ used = ToSet(items)

(***************************************************************************)
(* length exceeds the number of elements by the number of deletes at an    *)
(* index other than 0, also when what is deleted is the last element.      *)
(***************************************************************************)
LengthDrifts == ~stale => length = Len(items) + kept

(***************************************************************************)
(* No call crashes before a delete has forgotten length--, but at(0), and  *)
(* then only one whose index length admits and the list does not have.     *)
(***************************************************************************)
CrashNeedsDrift ==
  pc \in {"segv", "assert"} =>
    \/ out.op = "at" /\ out.idx = 0
    \/ kept > 0 /\ out.idx >= Len(items)
    \/ stale

(***************************************************************************)
(* at(i) gives the element at i - 1, for every i it answers.               *)
(***************************************************************************)
AtIsOneBefore ==
  out.op = "at" /\ out.res # None /\ ~stale => out.res = items[out.idx]
=============================================================================
