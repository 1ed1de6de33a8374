----------------------------- MODULE BoundedLifo -----------------------------
(***************************************************************************)
(* What the repository's stacks promise their callers: the element pushed  *)
(* last comes out first, at most Capacity elements are held, and a call    *)
(* that cannot be served returns nothing and changes nothing.              *)
(***************************************************************************)
EXTENDS Naturals, Sequences

CONSTANTS Capacity, \* most elements held at once
          Value,    \* the elements
          None      \* "no element", what a refused call returns

VARIABLES s,    \* the elements, the one pushed last at the end
          live, \* between init and destory
          out   \* the last call and its result

vars == <<s, live, out>>

Call(op, res) == [op |-> op, res |-> res]

Init == s = <<>> /\ live = TRUE /\ out = Call("init", None)

Push(v) == /\ live
           /\ Len(s) < Capacity
           /\ s' = Append(s, v)
           /\ out' = Call("push", v)
           /\ UNCHANGED live

PushFull == /\ live
            /\ Len(s) = Capacity
            /\ out' = Call("push", None)
            /\ UNCHANGED <<s, live>>

Pop == /\ live
       /\ s # <<>>
       /\ s' = SubSeq(s, 1, Len(s) - 1)
       /\ out' = Call("pop", s[Len(s)])
       /\ UNCHANGED live

PopEmpty == /\ live
            /\ s = <<>>
            /\ out' = Call("pop", None)
            /\ UNCHANGED <<s, live>>

Destory == /\ live
           /\ live' = FALSE
           /\ s' = <<>>
           /\ out' = Call("destory", None)

InitAgain == /\ ~live
             /\ live' = TRUE
             /\ s' = <<>>
             /\ out' = Call("init", None)

\* an init that finds no memory says so and leaves the stack closed
InitFails == /\ ~live
             /\ out' = Call("no memory", None)
             /\ UNCHANGED <<s, live>>

Next == \/ \E v \in Value : Push(v)
        \/ PushFull
        \/ Pop
        \/ PopEmpty
        \/ Destory
        \/ InitAgain
        \/ InitFails

Spec == Init /\ [][Next]_vars
=============================================================================
