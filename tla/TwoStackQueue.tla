---------------------------- MODULE TwoStackQueue ----------------------------
(***************************************************************************)
(* test/chapter_3_2/q3.c: a queue made of two sequential stacks s1 and s2  *)
(* (SqStack).  enqueue pushes on s1, dequeue pops from s2; when s2 is      *)
(* empty, s1 is moved onto it element by element, each turn of the loop (a *)
(* pop from s1 and a push on s2) a step here.  A refused push would be a   *)
(* store through NULL: the code tests no result.                           *)
(*                                                                         *)
(* Operators named Faulty... are plausible bugs of the definition that     *)
(* follows; no specification uses them.                                    *)
(***************************************************************************)
EXTENDS Integers, Sequences

CONSTANTS MaxSize, \* MAX_SIZE, the capacity of both stacks
          SizeMod, \* 2^w, the range of a size_t
          Value,   \* the elements
          None     \* NULL

VARIABLES top1, data1, out1, \* s1
          top2, data2, out2, \* s2
          live, \* both stacks are initialised: main never destroys them
          pc,  \* "idle", or the call whose loop moves s1 to s2, or "segv"
          arg, \* the argument of the enqueue under way
          out  \* the last finished call and its result

stacks == <<top1, data1, out1, top2, data2, out2, live>>
vars == <<stacks, pc, arg, out>>

S1 == INSTANCE SqStack WITH Capacity <- MaxSize,
                            top <- top1, data <- data1, out <- out1
S2 == INSTANCE SqStack WITH Capacity <- MaxSize,
                            top <- top2, data <- data2, out <- out2

Result(op, res) == [op |-> op, res |-> res]

Init == /\ S1!Init /\ S2!Init
        /\ pc = "idle" /\ arg = None
        /\ out = Result("init", None)

\* the last statement of enqueue
PushArg(v) ==
  /\ UNCHANGED <<top2, data2, out2>>
  /\ arg' = None
  /\ \/ S1!Push(v) /\ pc' = "idle" /\ out' = Result("enq", v)
     \/ S1!PushFull /\ pc' = "segv" /\ UNCHANGED out

Refuse ==
  /\ pc = "idle"
  /\ S1!Overflow /\ ~S2!Empty
  /\ out' = Result("enq", None)
  /\ UNCHANGED <<stacks, pc, arg>>

Enqueue(v) ==
  /\ pc = "idle"
  /\ ~S1!Overflow
  /\ PushArg(v)

EnqueueMoves(v) ==
  /\ pc = "idle"
  /\ S1!Overflow /\ S2!Empty
  /\ pc' = "enqueue"
  /\ arg' = v
  /\ UNCHANGED <<stacks, out>>

DequeueEmpty ==
  /\ pc = "idle"
  /\ S2!Empty /\ S1!Empty
  /\ out' = Result("deq", None)
  /\ UNCHANGED <<stacks, pc, arg>>

\* moves while elements of earlier moves are still on s2
FaultyDequeueMoves ==
  /\ pc = "idle"
  /\ ~S1!Empty
  /\ pc' = "dequeue"
  /\ UNCHANGED <<stacks, arg, out>>

DequeueMoves ==
  /\ pc = "idle"
  /\ S2!Empty /\ ~S1!Empty
  /\ pc' = "dequeue"
  /\ UNCHANGED <<stacks, arg, out>>

PopS2 ==
  /\ S2!Pop
  /\ out' = Result("deq", out2'.res)
  /\ pc' = "idle"
  /\ UNCHANGED <<top1, data1, out1, arg>>

Dequeue ==
  /\ pc = "idle"
  /\ ~S2!Empty
  /\ PopS2

\* reads the top of s1 instead of popping it
FaultyMove ==
  /\ pc \in {"enqueue", "dequeue"}
  /\ ~S1!Empty
  /\ \/ S2!Push(data1[top1]) /\ UNCHANGED pc
     \/ S2!PushFull /\ pc' = "segv"
  /\ UNCHANGED <<top1, data1, out1, arg, out>>

\* one turn of the loop that moves s1 to s2
Move ==
  /\ pc \in {"enqueue", "dequeue"}
  /\ S1!Pop
  /\ \/ S2!Push(out1'.res) /\ UNCHANGED pc
     \/ S2!PushFull /\ pc' = "segv"
  /\ UNCHANGED <<arg, out>>

\* the end of the loop
MovedEnqueue ==
  /\ pc = "enqueue" /\ S1!Empty
  /\ PushArg(arg)

MovedDequeue ==
  /\ pc = "dequeue" /\ S1!Empty
  /\ PopS2

Next ==
  \/ \E v \in Value : Enqueue(v) \/ EnqueueMoves(v)
  \/ Refuse
  \/ DequeueEmpty \/ DequeueMoves \/ Dequeue
  \/ Move \/ MovedEnqueue \/ MovedDequeue

\* A call under way runs on: the program is sequential.
Finish == Move \/ MovedEnqueue \/ MovedDequeue
Spec == Init /\ [][Next]_vars /\ WF_vars(Finish)

-----------------------------------------------------------------------------
TypeOK ==
  /\ S1!TypeOK /\ S2!TypeOK
  /\ pc \in {"idle", "enqueue", "dequeue", "segv"}
  /\ arg \in Value \cup {None} /\ (arg # None <=> pc = "enqueue")
  /\ out \in [op : {"init", "enq", "deq"}, res : Value \cup {None}]

(***************************************************************************)
(* The queue: s2 from its top, then s1 from its bottom; while s1 is being  *)
(* moved, what is still on s1 comes before what is already on s2.          *)
(***************************************************************************)
FromTop(c) == [j \in 1 .. Len(c) |-> c[Len(c) + 1 - j]]

Queue == IF pc = "idle" THEN FromTop(S2!Contents) \o S1!Contents
                        ELSE S1!Contents \o FromTop(S2!Contents)

(***************************************************************************)
(* The two stacks are one FIFO queue, through every interleaving of calls  *)
(* and moves: no enqueue is refused below MAX_SIZE + 1 elements, and never *)
(* are there more than 2 * MAX_SIZE.                                       *)
(***************************************************************************)
Fifo == INSTANCE BoundedFifo WITH Least <- MaxSize + 1, Most <- 2 * MaxSize,
                                  q <- Queue

FifoStep == [Fifo!Next]_(Fifo!vars)

(***************************************************************************)
(* No push of the two functions is refused, neither the one of the new     *)
(* element nor any of a move: they store through its result unchecked.     *)
(***************************************************************************)
PushNeverRefused == pc # "segv"

(***************************************************************************)
(* A call that starts to move the elements comes to its end.               *)
(***************************************************************************)
CallsReturn == [](pc \in {"enqueue", "dequeue"} => <>(pc = "idle"))
=============================================================================
