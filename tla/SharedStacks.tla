---------------------------- MODULE SharedStacks -----------------------------
(***************************************************************************)
(* test/chapter_3_1/q5.c: two stacks that grow towards each other in one   *)
(* array.  Stack 1 is empty when top[0] = -1 and stack 2 when top[1] =     *)
(* MAX_SIZE, but both tops are 0 at the start, as in any static variable:  *)
(* each stack begins with cells it was never given, cell 0 belongs to      *)
(* both, and every push is refused until enough of them have been popped.  *)
(*                                                                         *)
(* Operators named Faulty... are plausible bugs of the definition that     *)
(* follows; no specification uses them.                                    *)
(***************************************************************************)
EXTENDS Integers, Sequences

CONSTANTS MaxSize, \* MAX_SIZE
          Value,   \* the elements
          Zero,    \* what the cells hold at the start
          None     \* no element

VARIABLES mem, top1, top2, \* s.mem, s.top[0] and s.top[1]
          out, \* the last call and its result
          one, \* history: the elements of stack 1, the one pushed last at the end
          two  \* history: the same of stack 2

vars == <<mem, top1, top2, out, one, two>>

Result(op, res) == [op |-> op, res |-> res]

Cells == 0 .. MaxSize - 1

FaultyFull == top1 >= top2
Full == top1 + 1 >= top2

\* the stacks begin with what the tops say they hold
Init == /\ mem = [c \in Cells |-> Zero]
        /\ top1 = 0 /\ top2 = 0
        /\ out = Result("init", None)
        /\ one = <<Zero>> /\ two = [c \in 1 .. MaxSize |-> Zero]

Refused(op) == /\ Full
               /\ out' = Result(op, None)
               /\ UNCHANGED <<mem, top1, top2, one, two>>

Push1(v) == /\ ~Full
            /\ mem' = [mem EXCEPT ![top1 + 1] = v]
            /\ top1' = top1 + 1
            /\ out' = Result("push1", v)
            /\ one' = Append(one, v)
            /\ UNCHANGED <<top2, two>>

\* post-decrement instead of pre-decrement
FaultyPush2(v) == /\ ~Full
                  /\ mem' = [mem EXCEPT ![top2 % MaxSize] = v]
                  /\ top2' = top2 - 1
                  /\ out' = Result("push2", v)
                  /\ two' = Append(two, v)
                  /\ UNCHANGED <<top1, one>>

Push2(v) == /\ ~Full
            /\ mem' = [mem EXCEPT ![top2 - 1] = v]
            /\ top2' = top2 - 1
            /\ out' = Result("push2", v)
            /\ two' = Append(two, v)
            /\ UNCHANGED <<top1, one>>

Pop1 == /\ top1 # -1
        /\ top1' = top1 - 1
        /\ out' = Result("pop1", mem[top1])
        /\ one' = SubSeq(one, 1, Len(one) - 1)
        /\ UNCHANGED <<mem, top2, two>>

Pop1Empty == /\ top1 = -1
             /\ out' = Result("pop1", None)
             /\ UNCHANGED <<mem, top1, top2, one, two>>

Pop2 == /\ top2 # MaxSize
        /\ top2' = top2 + 1
        /\ out' = Result("pop2", mem[top2])
        /\ two' = SubSeq(two, 1, Len(two) - 1)
        /\ UNCHANGED <<mem, top1, one>>

Pop2Empty == /\ top2 = MaxSize
             /\ out' = Result("pop2", None)
             /\ UNCHANGED <<mem, top1, top2, one, two>>

Next == \/ \E v \in Value : Push1(v) \/ Push2(v)
        \/ Refused("push1") \/ Refused("push2")
        \/ Pop1 \/ Pop1Empty \/ Pop2 \/ Pop2Empty

Spec == Init /\ [][Next]_vars
-----------------------------------------------------------------------------
TypeOK ==
  /\ mem \in [Cells -> Value \cup {Zero}]
  /\ top1 \in -1 .. MaxSize - 1
  /\ top2 \in 0 .. MaxSize
  /\ out.res \in Value \cup {Zero, None}
  /\ one \in Seq(Value \cup {Zero}) /\ two \in Seq(Value \cup {Zero})

(***************************************************************************)
(* What either stack holds is never overwritten by the other, not even     *)
(* while both own cell 0: reading down from top[0] and up from top[1]      *)
(* gives what was pushed on each and not popped since.                     *)
(***************************************************************************)
BothIntact ==
  /\ one = [j \in 1 .. top1 + 1 |-> mem[j - 1]]
  /\ two = [j \in 1 .. MaxSize - top2 |-> mem[MaxSize - j]]

\* a push is refused exactly when all cells are taken
RefusedWhenTaken ==
  /\ Len(one') > Len(one) \/ Len(two') > Len(two) => Len(one) + Len(two) < MaxSize
  /\ out'.op \in {"push1", "push2"} /\ out'.res = None => Len(one) + Len(two) >= MaxSize

\* stacks that share no cell never do again
StayApart == top1 < top2 => top1' < top2'

(***************************************************************************)
(* A push is refused exactly when the two stacks together hold MAX_SIZE    *)
(* elements or more, those they begin with included, so that all cells can *)
(* be used by either stack; and once they have been popped apart they      *)
(* never share a cell again, and never hold more than MAX_SIZE elements.   *)
(***************************************************************************)
SharesAllCells == [][RefusedWhenTaken /\ StayApart]_vars
=============================================================================
