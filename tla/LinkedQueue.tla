----------------------------- MODULE LinkedQueue -----------------------------
(***************************************************************************)
(* structure/src/queue/linked_queue.c: a queue of linked nodes.  enq       *)
(* returns a node of malloc's, whose data the caller writes at once; deq   *)
(* unlinks the oldest node and lends it to the caller, who reads its data  *)
(* and may free it.                                                        *)
(*                                                                         *)
(* enq never writes the new node's next, so deq of the last node reads     *)
(* whatever malloc left there.  Leftover is the set of values it may find: *)
(* None is memory that happens to be zero, a node is a stale pointer.      *)
(* When it is not None, front leads out of the queue (`strayed') and what  *)
(* the queue does from then on is undefined: the model stops there.        *)
(*                                                                         *)
(* malloc returns any node not in use.  Node bounds the number of nodes    *)
(* and MaxDrift how far length, a counter that loses one for every         *)
(* element put into an empty queue, is followed.                           *)
(*                                                                         *)
(* Operators named Faulty... are plausible bugs of the definition that     *)
(* follows; no specification uses them.                                    *)
(***************************************************************************)
EXTENDS Integers, Sequences, FiniteSets

CONSTANTS Node,     \* the nodes malloc can return
          Value,    \* what the callers put in a node
          None,     \* NULL, and no element
          Leftover, \* what the next of a node malloc returns may hold
          MaxDrift

VARIABLES front, rear, length, \* the fields of linked_queue_t
          next, data, \* the fields of every node
          used,       \* the nodes malloc has returned and nobody has freed
          pc,         \* "open", "draining" (in destory) or "closed"
          out,        \* the last call and its result
          held,       \* history: the queued nodes, oldest first
          starts,     \* history: how often enq found the queue empty
          strayed     \* history: deq has followed an unwritten next

vars == <<front, rear, length, next, data, used, pc, out, held, starts, strayed>>

Result(op, res) == [op |-> op, res |-> res]

Empty == front = None

\* the nodes that deq has lent to the callers
Lent == used \ {held[j] : j \in 1 .. Len(held)}

Start(op) ==
  /\ front' = None /\ rear' = None
  /\ length' = 0
  /\ pc' = "open"
  /\ out' = Result(op, None)
  /\ held' = <<>> /\ starts' = 0

Init == /\ front = None /\ rear = None /\ length = 0
        /\ next = [n \in Node |-> None]
        /\ data = [n \in Node |-> None]
        /\ used = {}
        /\ pc = "open"
        /\ out = Result("init", None)
        /\ held = <<>> /\ starts = 0 /\ strayed = FALSE

\* init of a queue that has been through destory
InitAgain == /\ pc = "closed"
             /\ Start("init")
             /\ UNCHANGED <<next, data, used, strayed>>

\* malloc returns n with old in its next; the caller of enq writes v
Put(n, v) ==
  /\ n \in Node \ used
  /\ used' = used \cup {n}
  /\ data' = [data EXCEPT ![n] = v]
  /\ rear' = n
  /\ out' = Result("enq", v)
  /\ held' = Append(held, n)
  /\ UNCHANGED <<pc, strayed>>

\* the branch rear == NULL: it returns before length++
EnqFirst(v) ==
  /\ pc = "open" /\ ~strayed
  /\ rear = None /\ starts < MaxDrift
  /\ \E n \in Node, old \in Leftover :
       /\ Put(n, v)
       /\ front' = n
       /\ next' = [next EXCEPT ![n] = old]
  /\ starts' = starts + 1
  /\ UNCHANGED length

\* links the new node to front instead of rear
FaultyEnqNext(v) ==
  /\ pc = "open" /\ ~strayed
  /\ rear # None
  /\ \E n \in Node, old \in Leftover :
       /\ Put(n, v)
       /\ next' = [next EXCEPT ![n] = old, ![front] = n]
  /\ length' = length + 1
  /\ UNCHANGED <<front, starts>>

EnqNext(v) ==
  /\ pc = "open" /\ ~strayed
  /\ rear # None
  /\ \E n \in Node, old \in Leftover :
       /\ Put(n, v)
       /\ next' = [next EXCEPT ![n] = old, ![rear] = n]
  /\ length' = length + 1
  /\ UNCHANGED <<front, starts>>

Enq(v) == EnqFirst(v) \/ EnqNext(v)

\* what deq does when the queue is not empty
Unlink ==
  /\ front # None
  /\ length' = length - 1
  /\ front' = next[front]
  /\ rear' = IF next[front] = None THEN None ELSE rear
  /\ held' = Tail(held)
  /\ strayed' = (Len(held) = 1 /\ next[front] # None)
  /\ UNCHANGED <<next, data, starts>>

Deq == /\ pc = "open" /\ ~strayed
       /\ Unlink
       /\ out' = Result("deq", data[front])
       /\ UNCHANGED <<used, pc>>

\* follows NULL
FaultyDeqEmpty == /\ pc = "open" /\ ~strayed
                  /\ front = None
                  /\ pc' = "segv"
                  /\ UNCHANGED <<front, rear, length, next, data, used, out, held, starts, strayed>>

DeqEmpty == /\ pc = "open" /\ ~strayed
            /\ front = None
            /\ out' = Result("deq", None)
            /\ UNCHANGED <<front, rear, length, next, data, used, pc, held, starts, strayed>>

\* the caller frees a node that deq has lent it
Free(n) == /\ pc # "draining" /\ ~strayed
           /\ n \in Lent
           /\ used' = used \ {n}
           /\ UNCHANGED <<front, rear, length, next, data, pc, out, held, starts, strayed>>

Destory == /\ pc = "open" /\ ~strayed
           /\ pc' = "draining"
           /\ out' = Result("destory", None)
           /\ UNCHANGED <<front, rear, length, next, data, used, held, starts, strayed>>

\* drops the free of destory's loop
FaultyDrain == /\ pc = "draining" /\ ~strayed
               /\ Unlink
               /\ UNCHANGED <<used, pc, out>>

\* one turn of destory's loop: deq, then free
Drain == /\ pc = "draining" /\ ~strayed
         /\ Unlink
         /\ used' = used \ {front}
         /\ UNCHANGED <<pc, out>>

Drained == /\ pc = "draining" /\ ~strayed
           /\ front = None
           /\ pc' = "closed"
           /\ UNCHANGED <<front, rear, length, next, data, used, out, held, starts, strayed>>

Next == \/ \E v \in Value : Enq(v)
        \/ Deq
        \/ DeqEmpty
        \/ \E n \in Node : Free(n)
        \/ Destory
        \/ Drain
        \/ Drained
        \/ InitAgain

Spec == Init /\ [][Next]_vars
-----------------------------------------------------------------------------
TypeOK ==
  /\ front \in Node \cup {None} /\ rear \in Node \cup {None}
  /\ length \in Int
  /\ next \in [Node -> Node \cup {None}]
  /\ data \in [Node -> Value \cup {None}]
  /\ used \subseteq Node
  /\ pc \in {"open", "draining", "closed"}
  /\ out.res \in Value \cup {None}
  /\ held \in Seq(Node)
  /\ starts \in 0 .. MaxDrift
  /\ strayed \in BOOLEAN

Queued == 1 .. Len(held)

(***************************************************************************)
(* Until deq has followed an unwritten next, the list from front is the    *)
(* queued nodes in their order, each once and all allocated, and rear is   *)
(* the last of them.                                                       *)
(***************************************************************************)
Linked ==
  ~strayed =>
    /\ held = <<>> => front = None /\ rear = None
    /\ held # <<>> => front = held[1] /\ rear = held[Len(held)]
    /\ \A j \in Queued : held[j] \in used
    /\ \A j \in Queued \ {Len(held)} : next[held[j]] = held[j + 1]
    /\ \A j, k \in Queued : held[j] = held[k] => j = k

(***************************************************************************)
(* linked_queue_length is not the number of elements but falls short of it *)
(* by the number of times enq has found the queue empty since init, also   *)
(* while and after destory empties the queue.                              *)
(***************************************************************************)
LengthDrifts == length = Len(held) - starts

(***************************************************************************)
(* Each turn of destory frees one of the queued nodes and none that is     *)
(* lent, and the loop is left only when no queued node is left.  Once a deq*)
(* of destory has followed an unwritten next the model has stopped.        *)
(***************************************************************************)
DestoryStep ==
  pc = "draining" =>
    /\ Lent' = Lent
    /\ pc' = "draining" => \E n \in used \ Lent : used' = used \ {n}
    /\ pc' = "closed" => used' = Lent

Capacity == Cardinality(Node)

Contents == IF pc = "open" THEN [j \in Queued |-> data[held[j]]] ELSE <<>>

Fifo == INSTANCE BoundedFifo
          WITH Least <- Capacity, Most <- Capacity, q <- Contents, live <- pc = "open"

(***************************************************************************)
(* A step of a FIFO queue, until deq has followed an unwritten next (which *)
(* takes a dequeue of the only element): the elements come out as they     *)
(* were put in, in that order, whatever malloc leaves in the nodes,        *)
(* whichever it reuses and whichever the callers free; destory and init    *)
(* give an empty queue again.                                              *)
(***************************************************************************)
FifoStep == strayed' \/ [Fifo!Next]_(Fifo!vars)
=============================================================================
