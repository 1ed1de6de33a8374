----------------------------- MODULE LinkedStack -----------------------------
(***************************************************************************)
(* structure/src/stack/linked_stack.c: a stack of linked nodes.  push      *)
(* returns a node of malloc's, whose data the caller writes at once; pop   *)
(* unlinks the top node and lends it to the caller, who reads its data and *)
(* may free it.  destory frees the nodes and leaves top as it was.         *)
(*                                                                         *)
(* malloc returns any node not in use.  Node bounds the number of nodes.   *)
(*                                                                         *)
(* Operators named Faulty... are plausible bugs of the definition that     *)
(* follows; no specification uses them.                                    *)
(***************************************************************************)
EXTENDS Integers, Sequences, FiniteSets

CONSTANTS Node,  \* the nodes malloc can return
          Value, \* what the callers put in a node
          None   \* NULL, and no element

VARIABLES top,        \* the field of linked_stack_t
          next, data, \* the fields of every node
          used,       \* the nodes malloc has returned and nobody has freed
          live,       \* between init and destory
          out,        \* the last call and its result
          piled       \* history: the nodes on the stack, the top last

vars == <<top, next, data, used, live, out, piled>>

Result(op, res) == [op |-> op, res |-> res]

Empty == top = None

Lent == used \ {piled[j] : j \in 1 .. Len(piled)}

Init == /\ top = None
        /\ next = [n \in Node |-> None]
        /\ data = [n \in Node |-> None]
        /\ used = {}
        /\ live = TRUE
        /\ out = Result("init", None)
        /\ piled = <<>>

InitAgain == /\ ~live
             /\ top' = None
             /\ live' = TRUE
             /\ out' = Result("init", None)
             /\ piled' = <<>>
             /\ UNCHANGED <<next, data, used>>

\* the caller of push writes v in the node it returns
Push(v) ==
  /\ live
  /\ \E n \in Node \ used :
       /\ used' = used \cup {n}
       /\ next' = [next EXCEPT ![n] = top]
       /\ data' = [data EXCEPT ![n] = v]
       /\ top' = n
       /\ piled' = Append(piled, n)
  /\ out' = Result("push", v)
  /\ UNCHANGED live

Pop == /\ live
       /\ ~Empty
       /\ top' = next[top]
       /\ out' = Result("pop", data[top])
       /\ piled' = SubSeq(piled, 1, Len(piled) - 1)
       /\ UNCHANGED <<next, data, used, live>>

\* follows NULL
FaultyPopEmpty == /\ live
                  /\ Empty
                  /\ top' = "segv"
                  /\ UNCHANGED <<next, data, used, live, out, piled>>

PopEmpty == /\ live
            /\ Empty
            /\ out' = Result("pop", None)
            /\ UNCHANGED <<top, next, data, used, live, piled>>

\* the caller frees a node that pop has lent it
Free(n) == /\ n \in Lent
           /\ used' = used \ {n}
           /\ UNCHANGED <<top, next, data, live, out, piled>>

\* the nodes that destory's loop meets from n: those in every set that holds
\* n and is closed under next
Chain(n) ==
  LET Closed(S) == n \in S /\ \A x \in S \ {None} : next[x] \in S
  IN  {x \in Node : \A S \in SUBSET (Node \cup {None}) : Closed(S) => x \in S}

\* frees the node the loop has reached only after it has left it: misses the last
FaultyDestory ==
  /\ live
  /\ used' = used \ {x \in Chain(top) : next[x] # None}
  /\ live' = FALSE
  /\ out' = Result("destory", None)
  /\ piled' = <<>>
  /\ UNCHANGED <<top, next, data>>

Destory ==
  /\ live
  /\ used' = used \ Chain(top)
  /\ live' = FALSE
  /\ out' = Result("destory", None)
  /\ piled' = <<>>
  /\ UNCHANGED <<top, next, data>>

Next == \/ \E v \in Value : Push(v)
        \/ Pop
        \/ PopEmpty
        \/ \E n \in Node : Free(n)
        \/ Destory
        \/ InitAgain

Spec == Init /\ [][Next]_vars
-----------------------------------------------------------------------------
TypeOK ==
  /\ top \in Node \cup {None}
  /\ next \in [Node -> Node \cup {None}]
  /\ data \in [Node -> Value \cup {None}]
  /\ used \subseteq Node
  /\ live \in BOOLEAN
  /\ out.res \in Value \cup {None}
  /\ piled \in Seq(Node)

Piled == 1 .. Len(piled)

Contents == [j \in Piled |-> data[piled[j]]]

Lifo == INSTANCE BoundedLifo WITH Capacity <- Cardinality(Node), s <- Contents

(***************************************************************************)
(* A step of a LIFO stack, whatever nodes malloc reuses and whichever the  *)
(* callers free.                                                           *)
(***************************************************************************)
LifoStep == [Lifo!Next]_(Lifo!vars)

(***************************************************************************)
(* A step in which destory, if called, frees every node on the stack and   *)
(* none of those lent to callers.                                          *)
(***************************************************************************)
DestoryStep == live /\ ~live' => used' = Lent
=============================================================================
