------------------------------- MODULE MCTrees -------------------------------
(***************************************************************************)
(* The programs that walk a tree, side by side: three in level order over  *)
(* a linked queue in zeroed memory, the recursive traversals, and the      *)
(* threadings with the walks along the threads; and the exercises that ask *)
(* something of a tree in one call.  `which' names the one that runs.  The *)
(* names of variables are those of the modules, which share them; what a   *)
(* program does not use is None while it runs.                             *)
(***************************************************************************)
EXTENDS Integers, Sequences, FiniteSets

CONSTANTS Node, None, MaxDrift,
          Last, MostPiled,    \* the trees of the walks in level order
          LastDeep, MostDeep  \* the trees of the others

ASSUME FiniteMemory == IsFiniteSet(Node)
ASSUME Bounds == Last \in Nat /\ MostPiled \in Nat /\ MaxDrift \in Nat \ {0}
ASSUME NullIsApart == None \notin Node /\ None \notin Nat /\ None \notin BOOLEAN

VARIABLES which,
          tree, at, node, order, p,
          front, rear, length, next, data, used, pc, out, held, starts, strayed, \* LinkedQueue
          printed, qout, top, live, piled,       \* ReverseLevelOrder
          fail, result,                          \* EntireTree; TreeExercises
          goal, frames,                          \* RecursiveWalk
          pre, l, r, ltag, rtag, parent,         \* ThreadedTree
          call                                   \* TreeExercises

queueOnly == <<p, front, rear, length, next, data, used, pc, out, held, starts, strayed>>
reverseOnly == <<printed, qout, top, live, piled>>
entireOnly == <<fail, result, call>>
recursionOnly == <<goal, frames>>
threadedOnly == <<pre, l, r, ltag, rtag, parent>>
deepOnly == <<recursionOnly, threadedOnly>>
walk == <<tree, at, node, order>>
vars == <<which, walk, queueOnly, reverseOnly, entireOnly, deepOnly>>

INSTANCE BinTree

Trees == TreesUpTo(Last)
Leftover == {None}

Level == INSTANCE LevelOrder
Reverse == INSTANCE ReverseLevelOrder
             WITH Trees <- {t \in Trees : Cardinality(t) \in 1 .. MostPiled}
Entire == INSTANCE EntireTree WITH Trees <- Trees \ {{}}

DeepTrees == {t \in TreesUpTo(LastDeep) : Cardinality(t) <= MostDeep}
Recursive == INSTANCE RecursiveWalk WITH Trees <- DeepTrees
Threads == INSTANCE ThreadedTree WITH Trees <- DeepTrees
Exercise == INSTANCE TreeExercises WITH Trees <- DeepTrees, Few <- Trees

Off(x) == x = None

QueueOff ==
  /\ Off(p) /\ Off(front) /\ Off(rear) /\ Off(length) /\ Off(next) /\ Off(data)
  /\ Off(used) /\ Off(pc) /\ Off(out) /\ Off(held) /\ Off(starts) /\ Off(strayed)
ReverseOff == Off(printed) /\ Off(qout) /\ Off(top) /\ Off(live) /\ Off(piled)
EntireOff == Off(fail) /\ Off(result) /\ Off(call)

ThreadedOff ==
  Off(pre) /\ Off(l) /\ Off(r) /\ Off(ltag) /\ Off(rtag) /\ Off(parent)
DeepOff == Off(goal) /\ Off(frames) /\ ThreadedOff
LevelsOff == QueueOff /\ ReverseOff /\ EntireOff

Init ==
  \/ which = "level" /\ Level!Init /\ ReverseOff /\ EntireOff /\ DeepOff
  \/ which = "reverse" /\ Reverse!Init /\ Off(order) /\ EntireOff /\ DeepOff
  \/ which = "entire" /\ Entire!Init /\ Off(order) /\ Off(call) /\ ReverseOff /\ DeepOff
  \/ which = "recursive" /\ Recursive!Init /\ Off(at) /\ Off(node) /\ LevelsOff /\ ThreadedOff
  \/ which = "threaded" /\ Threads!Init /\ LevelsOff
  \/ which = "exercise" /\ Exercise!Init /\ Off(fail) /\ Off(tree) /\ Off(at) /\ Off(node)
     /\ Off(order) /\ QueueOff /\ ReverseOff /\ DeepOff

LevelNext == /\ which = "level" /\ Level!Next
             /\ UNCHANGED <<which, reverseOnly, entireOnly, deepOnly>>
ReverseNext == /\ which = "reverse" /\ Reverse!Next
               /\ UNCHANGED <<which, order, entireOnly, deepOnly>>
EntireNext == /\ which = "entire" /\ Entire!Next
              /\ UNCHANGED <<which, order, call, reverseOnly, deepOnly>>
RecursiveNext == /\ which = "recursive" /\ Recursive!Next
                 /\ UNCHANGED <<which, at, node, queueOnly, reverseOnly, entireOnly, threadedOnly>>
ThreadsNext == /\ which = "threaded" /\ Threads!Next
               /\ UNCHANGED <<which, queueOnly, reverseOnly, entireOnly>>
ExerciseNext == /\ which = "exercise" /\ Exercise!Next
                /\ UNCHANGED <<which, walk, queueOnly, reverseOnly, fail, deepOnly>>

Next == LevelNext \/ ReverseNext \/ EntireNext \/ RecursiveNext \/ ThreadsNext
        \/ ExerciseNext

\* each program is one sequential call, which runs on
Spec == Init /\ [][Next]_vars /\ WF_vars(Next)
-----------------------------------------------------------------------------
TypeOK == CASE which = "level" -> Level!TypeOK
            [] which = "reverse" -> Reverse!TypeOK
            [] which = "entire" -> Entire!TypeOK
            [] which = "recursive" -> Recursive!TypeOK
            [] which = "threaded" -> Threads!TypeOK
            [] OTHER -> which = "exercise"

(***************************************************************************)
(* bitree_floor_traverse (bitree.c) calls func level by level and from     *)
(* left to right, and between two turns its queue holds the nodes not      *)
(* visited whose parents are, each once; reverse_floor_traverse            *)
(* (chapter_5_3/q4.c) prints that order from its end, and every linked     *)
(* node is in one place at a time, though its queue and its stack reuse    *)
(* each other's.  Neither leaves a linked node behind, nor does            *)
(* is_entire_bitree (q7.c).                                                *)
(***************************************************************************)
LevelWalks ==
  /\ which = "level" => Level!ByLevels /\ Level!HoldsFrontier /\ Level!NothingLeaked
  /\ which = "reverse" => Reverse!FromTheEnd /\ Reverse!OneHolder
  /\ which = "entire" => Entire!NothingLeaked

(***************************************************************************)
(* The recursive traversals (bitree.c) call func in pre-, in- and          *)
(* post-order.  A tree that threaded_tree.c has threaded has every child   *)
(* where it was, and a thread for each missing one, to the node before it  *)
(* or after it in the order.  A walk along the threads visits all nodes in *)
(* such an order too; but the one in post-order goes astray at the first   *)
(* node, not the root, that has a right child and no sibling.              *)
(***************************************************************************)
InOrder == /\ which = "recursive" => Recursive!InOrder
           /\ which = "threaded" => Threads!Threaded /\ Threads!WalksInOrder

(***************************************************************************)
(* is_entire_bitree (chapter_5_3/q7.c) accepts every complete tree, and    *)
(* other trees only if all their nodes up to one make a complete tree and  *)
(* all other nodes are below that one.                                     *)
(***************************************************************************)
AllButOneSubtree == which = "entire" => Entire!CompleteAccepted /\ Entire!AllButOneSubtree

(***************************************************************************)
(* "Judge by the definition of a complete binary tree"                     *)
(* (chapter_5_3/q7.c:9): is_entire_bitree says yes to the complete trees   *)
(* and to no others.                                                       *)
(***************************************************************************)
JudgesCompleteness == which = "entire" => Entire!Judges

(***************************************************************************)
(* The exercises of chapter_5_3 and chapter_5_2 answer what they are asked,*)
(* with three exceptions: get_height (q5.c) counts left turns in the place *)
(* of levels, in_order_post_prev (q18.c) is wrong of a node with two       *)
(* children, and ancestor (q13.c) names no node if one of the two is above *)
(* the other.                                                              *)
(***************************************************************************)
TreeAnswers == which = "exercise" => Exercise!TreeAnswers

(***************************************************************************)
(* Each call returns, and has then visited or printed every node;          *)
(* bitree_floor_traverse of a NULL root crashes instead.  The walks in     *)
(* pre- and in-order along the threads of a tree return too; the one in    *)
(* post-order may crash or run for ever, and the ones in in- and           *)
(* post-order crash on a NULL root.                                        *)
(***************************************************************************)
Returns == <>(CASE which = "level" /\ tree = {} -> at = "segv"
                [] which = "level" /\ tree # {} -> at = "done" /\ Level!Visited = tree
                [] which = "reverse" -> at = "done" /\ Reverse!Printed = tree
                [] which = "entire" -> at = "done"
                [] which = "exercise" -> result # None
                [] which = "recursive" -> frames = <<>> /\ Len(order) = Cardinality(tree)
                [] which = "threaded" /\ tree = {} -> at = (IF goal = "pre" THEN "done" ELSE "segv")
                [] which = "threaded" /\ tree # {} /\ (goal # "post" \/ Threads!Astray = {}) ->
                     at = "done" /\ Len(order) = Cardinality(tree)
                [] which = "threaded" /\ tree # {} /\ goal = "post" /\ Threads!Astray # {} ->
                     at \in {"done", "segv", "hang"})
=============================================================================
