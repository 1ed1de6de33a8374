------------------------------- MODULE SqStack -------------------------------
(***************************************************************************)
(* structure/src/stack/sq_stack.c: an array of Capacity cells and the      *)
(* index of the top one.  push and pop return the address of a cell, which *)
(* the caller writes or reads at once.  The address pop returned is the    *)
(* one the next push hands out.                                            *)
(***************************************************************************)
EXTENDS Integers, Sequences

CONSTANTS Capacity, \* the argument of sq_stack_init
          SizeMod,  \* 2^w, the range of a size_t
          Value,    \* the elements
          None      \* NULL

VARIABLES top,  \* index of the top element, -1 when there is none
          data, \* the cells, None before anything is stored there
          live, \* between sq_stack_init and sq_stack_destory
          out   \* the last call and its result

vars == <<top, data, live, out>>

Call(op, res) == [op |-> op, res |-> res]

Cells == 0 .. Capacity - 1

\* sq_stack_empty, and sq_stack_overflow with its int converted to size_t
Empty == top = -1
Overflow == top % SizeMod = (Capacity - 1) % SizeMod

\* the test in sq_stack_push
Room == top + 1 < Capacity

Contents == [i \in 1 .. top + 1 |-> data[i - 1]]

Init == /\ top = -1
        /\ data = [c \in Cells |-> None]
        /\ live = TRUE
        /\ out = Call("init", None)

InitAgain ==
  /\ ~live
  /\ top' = -1
  /\ data' = [c \in Cells |-> None]
  /\ live' = TRUE
  /\ out' = Call("init", None)

\* malloc failed: sq_stack_init returns false
InitFails ==
  /\ ~live
  /\ top' = -1
  /\ data' = [c \in Cells |-> None]
  /\ out' = Call("no memory", None)
  /\ UNCHANGED live

\* sq_stack_destory frees the block and leaves top and data as they are
Destory ==
  /\ live
  /\ live' = FALSE
  /\ out' = Call("destory", None)
  /\ UNCHANGED <<top, data>>

Push(v) ==
  /\ live
  /\ Room
  /\ top' = top + 1
  /\ data' = [data EXCEPT ![top + 1] = v]
  /\ out' = Call("push", v)
  /\ UNCHANGED live

PushFull ==
  /\ live
  /\ ~Room
  /\ out' = Call("push", None)
  /\ UNCHANGED <<top, data, live>>

\* post-decrement: the old top's cell
Pop ==
  /\ live
  /\ ~Empty
  /\ top' = top - 1
  /\ out' = Call("pop", data[top])
  /\ UNCHANGED <<data, live>>

PopEmpty ==
  /\ live
  /\ Empty
  /\ out' = Call("pop", None)
  /\ UNCHANGED <<top, data, live>>

Next ==
  \/ \E v \in Value : Push(v)
  \/ PushFull
  \/ Pop
  \/ PopEmpty
  \/ Destory
  \/ InitAgain
  \/ InitFails

Spec == Init /\ [][Next]_vars

-----------------------------------------------------------------------------
TypeOK ==
  /\ top \in -1 .. Capacity - 1
  /\ data \in [Cells -> Value \cup {None}]
  /\ live \in BOOLEAN
  /\ out \in [op : {"init", "no memory", "destory", "push", "pop"}, res : Value \cup {None}]

Lifo == INSTANCE BoundedLifo WITH s <- IF live THEN Contents ELSE <<>>

(***************************************************************************)
(* A step of a bounded stack, the answers included.                        *)
(***************************************************************************)
LifoStep == [Lifo!Next]_(Lifo!vars)
=============================================================================
