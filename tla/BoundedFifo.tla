----------------------------- MODULE BoundedFifo -----------------------------
(***************************************************************************)
(* What the repository's bounded queues promise their callers: elements    *)
(* come out in the order they went in, at most Most of them are held, and  *)
(* a call that cannot be served returns nothing and changes nothing.  A    *)
(* queue may refuse an element once it holds Least of them; for most of    *)
(* them Least = Most.  `out' is the last call and its result, so that a    *)
(* queue that implements this module returns the right answers, not only   *)
(* keeps the right contents.                                               *)
(***************************************************************************)
EXTENDS Naturals, Sequences

CONSTANTS Least, \* no enqueue is refused below this many elements
          Most,  \* and none is accepted above
          Value, \* the elements
          None   \* "no element", what a refused call returns

VARIABLES q,    \* the elements, oldest first
          live, \* between init and destory
          out   \* the last call and its result

vars == <<q, live, out>>

Call(op, res) == [op |-> op, res |-> res]

Init == q = <<>> /\ live = TRUE /\ out = Call("init", None)

Enq(v) == /\ live
          /\ Len(q) < Most
          /\ q' = Append(q, v)
          /\ out' = Call("enq", v)
          /\ UNCHANGED live

EnqFull == /\ live
           /\ Len(q) >= Least
           /\ out' = Call("enq", None)
           /\ UNCHANGED <<q, live>>

Deq == /\ live
       /\ q # <<>>
       /\ q' = Tail(q)
       /\ out' = Call("deq", Head(q))
       /\ UNCHANGED live

DeqEmpty == /\ live
            /\ q = <<>>
            /\ out' = Call("deq", None)
            /\ UNCHANGED <<q, live>>

Destory == /\ live
           /\ live' = FALSE
           /\ q' = <<>>
           /\ out' = Call("destory", None)

InitAgain == /\ ~live
             /\ live' = TRUE
             /\ q' = <<>>
             /\ out' = Call("init", None)

Next == \/ \E v \in Value : Enq(v)
        \/ EnqFull
        \/ Deq
        \/ DeqEmpty
        \/ Destory
        \/ InitAgain

Spec == Init /\ [][Next]_vars
=============================================================================
