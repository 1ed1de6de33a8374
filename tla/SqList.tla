------------------------------- MODULE SqList --------------------------------
(***************************************************************************)
(* structure/src/linearlist/sq_list.c: an array of Capacity cells and the  *)
(* number of elements.  push returns the address of a cell, which the      *)
(* caller writes at once.                                                  *)
(*                                                                         *)
(* delete admits idx = length: its memmove is then asked for -1 elements   *)
(* as a size_t, and the program dies (pc = "segv").  index_of stops before *)
(* it has compared the last element; in an empty list it starts after its  *)
(* end and reads on through the block, and, if no cell equals, beyond it.  *)
(***************************************************************************)
EXTENDS Integers, Sequences, SequencesExt

CONSTANTS Capacity, \* the argument of sq_list_init
          Value,    \* the elements
          None      \* no element, also in a cell that nobody has written

VARIABLES length, data, \* the fields of sq_list_t, and the cells
          pc,    \* "open", "closed" (after destory), "segv" or "wild"
          out,   \* the last call, its argument and its result
          items  \* history: what the calls should have made of the list

vars == <<length, data, pc, out, items>>

Result(op, arg, res) == [op |-> op, arg |-> arg, res |-> res]

Cells == 0 .. Capacity - 1

Init == /\ length = 0
        /\ data = [c \in Cells |-> None]
        /\ pc = "open"
        /\ out = Result("init", 0, None)
        /\ items = <<>>

\* malloc's block may hold anything: here, what it held before
InitAgain == /\ pc = "closed"
             /\ length' = 0
             /\ pc' = "open"
             /\ out' = Result("init", 0, None)
             /\ items' = <<>>
             /\ UNCHANGED data

Destory == /\ pc = "open"
           /\ pc' = "closed"
           /\ out' = Result("destory", 0, None)
           /\ UNCHANGED <<length, data, items>>

Answer(op, arg, res) == /\ out' = Result(op, arg, res)
                        /\ UNCHANGED <<length, data, pc, items>>

Crash(how, op, arg) == /\ pc' = how
                       /\ out' = Result(op, arg, None)
                       /\ UNCHANGED <<length, data, items>>

Push(v) == /\ pc = "open" /\ length < Capacity
           /\ data' = [data EXCEPT ![length] = v]
           /\ length' = length + 1
           /\ out' = Result("push", v, length)
           /\ items' = Append(items, v)
           /\ UNCHANGED pc

PushFull(v) == pc = "open" /\ length >= Capacity /\ Answer("push", v, None)

Insert(v, idx) ==
  /\ pc = "open" /\ length < Capacity /\ idx \in 0 .. length
  /\ data' = [c \in Cells |-> IF c = idx THEN v
                              ELSE IF c \in idx + 1 .. length THEN data[c - 1] ELSE data[c]]
  /\ length' = length + 1
  /\ out' = Result("insert", idx, v)
  /\ items' = InsertAt(items, idx + 1, v)
  /\ UNCHANGED pc

InsertRefused(idx) ==
  /\ pc = "open" /\ (length >= Capacity \/ idx \notin 0 .. length)
  /\ Answer("insert", idx, None)

Delete(idx) ==
  /\ pc = "open" /\ idx \in 0 .. length - 1
  /\ data' = [c \in Cells |-> IF c \in idx .. length - 2 THEN data[c + 1] ELSE data[c]]
  /\ length' = length - 1
  /\ out' = Result("delete", idx, data[idx])
  /\ items' = RemoveAt(items, idx + 1)
  /\ UNCHANGED pc

DeleteEnd == pc = "open" /\ Crash("segv", "delete", length)

DeleteRefused(idx) ==
  /\ pc = "open" /\ idx \notin 0 .. length
  /\ Answer("delete", idx, None)

\* the cells that index_of compares, in this order, if none equals
Compared == IF length = 0 THEN Cells ELSE 0 .. length - 2

IndexOf(v) ==
  /\ pc = "open"
  /\ LET found == {c \in Compared : data[c] = v}
     IN  IF found # {} THEN Answer("index_of", v, CHOOSE c \in found : \A d \in found : c <= d)
         ELSE IF length = 0 THEN Crash("wild", "index_of", v)
         ELSE Answer("index_of", v, -1)

Next == \/ \E v \in Value : Push(v) \/ PushFull(v) \/ IndexOf(v)
        \/ \E v \in Value, idx \in Cells : Insert(v, idx)
        \/ \E idx \in -1 .. Capacity + 1 : InsertRefused(idx) \/ Delete(idx) \/ DeleteRefused(idx)
        \/ DeleteEnd \/ Destory \/ InitAgain

Spec == Init /\ [][Next]_vars
-----------------------------------------------------------------------------
TypeOK == /\ length \in 0 .. Capacity
          /\ data \in [Cells -> Value \cup {None}]
          /\ pc \in {"open", "closed", "segv", "wild"}
          /\ items \in Seq(Value)

(***************************************************************************)
(* The first length cells are the elements that the calls asked for.       *)
(***************************************************************************)
FollowsItems == items = [j \in 1 .. length |-> data[j - 1]]

(***************************************************************************)
(* index_of gives the first of several equal elements, does not find the   *)
(* last element of the list, and finds nothing but old cells in an empty   *)
(* one.                                                                    *)
(***************************************************************************)
MissesLast ==
  out.op = "index_of" /\ pc = "open" /\ items # <<>> =>
    LET elems == SubSeq(items, 1, Len(items) - 1)
    IN  \/ out.res = -1 /\ ~Contains(elems, out.arg)
        \/ out.res \in 0 .. Len(elems) - 1 /\ elems[out.res + 1] = out.arg
           /\ ~Contains(SubSeq(elems, 1, out.res), out.arg)

(***************************************************************************)
(* A call crashes only if it is a delete at the end of the list or a       *)
(* search in an empty list.                                                *)
(***************************************************************************)
CrashAtEnd ==
  pc \in {"segv", "wild"} =>
    \/ out.op = "delete" /\ out.arg = Len(items)
    \/ out.op = "index_of" /\ items = <<>>
=============================================================================
