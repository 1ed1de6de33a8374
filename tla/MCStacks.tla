------------------------------ MODULE MCStacks -------------------------------
(***************************************************************************)
(* The stacks of the repository and the bracket judge that uses one, side  *)
(* by side, each with small constants: `which' names the one that runs.    *)
(* The names of variables are those of the modules, which share them; what *)
(* a program does not use is None while it runs.  The module extends       *)
(* SharedStacks, whose properties it checks as they are: while another     *)
(* program runs, the two stacks in one array stay as they begin.           *)
(***************************************************************************)
EXTENDS SharedStacks, FiniteSets

CONSTANTS Node,                    \* of the linked stack
          Capacity, SizeMod,       \* of the sequential stack
          Kind, Other, MaxText, TextNode \* of the judge

\* what the proofs use: arrays have a size, NULL is no node and no element
ASSUME Sizes == MaxSize \in Nat \ {0} /\ Capacity \in Nat /\ MaxText \in Nat
ASSUME FiniteMemory == IsFiniteSet(Node) /\ IsFiniteSet(TextNode)
ASSUME NullIsApart == None \notin Value \cup Node \cup TextNode

VARIABLES which,
          top, data, live,                        \* used by several
          next, used, piled,                      \* linked stacks
          text, i, at, node, result               \* the judge

linkedOnly == <<next, used, piled>>
sharedOnly == <<mem, top1, top2, one, two>>
judgeOnly == <<text, i, at, node, result>>
suiteVars == <<which, top, data, out, live, linkedOnly, sharedOnly, judgeOnly>>

Texts == UNION {[1 .. n -> [side : {"open", "close"}, kind : Kind] \cup {Other}] : n \in 0 .. MaxText}

Sequential == INSTANCE SqStack
Linked == INSTANCE LinkedStack
Judge == INSTANCE BracketsJudge WITH Node <- TextNode

Off(x) == x = None

LinkedOff == Off(next) /\ Off(used) /\ Off(piled)
SharedOff == /\ mem = [c \in Cells |-> Zero] /\ top1 = 0 /\ top2 = 0
             /\ one = <<Zero>> /\ two = [c \in 1 .. MaxSize |-> Zero]
JudgeOff == Off(text) /\ Off(i) /\ Off(at) /\ Off(node) /\ Off(result)

SuiteInit ==
  \/ which = "sequential" /\ Sequential!Init /\ LinkedOff /\ SharedOff /\ JudgeOff
  \/ which = "linked" /\ Linked!Init /\ SharedOff /\ JudgeOff
  \/ /\ which = "shared" /\ Init
     /\ Off(top) /\ Off(data) /\ Off(live) /\ LinkedOff /\ JudgeOff
  \/ which = "judge" /\ Judge!Init /\ SharedOff

SequentialNext == /\ which = "sequential" /\ Sequential!Next
                  /\ UNCHANGED <<which, linkedOnly, sharedOnly, judgeOnly>>
LinkedNext == /\ which = "linked" /\ Linked!Next
              /\ UNCHANGED <<which, sharedOnly, judgeOnly>>
SharedNext == /\ which = "shared" /\ Next
              /\ UNCHANGED <<which, top, data, live, linkedOnly, judgeOnly>>
JudgeNext == /\ which = "judge" /\ Judge!Next
             /\ UNCHANGED <<which, sharedOnly>>

SuiteNext == SequentialNext \/ LinkedNext \/ SharedNext \/ JudgeNext

SuiteSpec == SuiteInit /\ [][SuiteNext]_suiteVars
-----------------------------------------------------------------------------
SuiteTypeOK == CASE which = "sequential" -> Sequential!TypeOK
                 [] which = "linked" -> Linked!TypeOK
                 [] which = "shared" -> TypeOK
                 [] which = "judge" -> Judge!TypeOK

(***************************************************************************)
(* The stacks of sq_stack.c and linked_stack.c take steps of a LIFO stack  *)
(* only, and linked_stack_destory frees the stack's nodes and no others.   *)
(***************************************************************************)
AnswersAreLifo ==
  [][CASE which = "sequential" -> Sequential!LifoStep
       [] which = "linked" -> Linked!LifoStep /\ Linked!DestoryStep
       [] OTHER -> TRUE]_suiteVars

(***************************************************************************)
(* brackets_judge (chapter_3_3/q1.c) answers as the grammar of matched     *)
(* brackets does.                                                          *)
(***************************************************************************)
Judges == which = "judge" => Judge!Judges

(***************************************************************************)
(* It frees every node, but for the one of the opening bracket that a      *)
(* mismatch has found.                                                     *)
(***************************************************************************)
LeaksMismatched == which = "judge" => Judge!LeaksMismatched
=============================================================================
