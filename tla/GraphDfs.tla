------------------------------ MODULE GraphDfs -------------------------------
(***************************************************************************)
(* al_graph_traverse_dfs and the recursive dfs of                          *)
(* structure/src/graph/al_graph.c.  The C stack is the sequence `frames':  *)
(* one [v, k] for each call of dfs that has not returned, k the position   *)
(* of the arc the call looks at.  One step is one turn of a loop, a call   *)
(* or a return.                                                            *)
(*                                                                         *)
(* Operators named Faulty... are plausible bugs of the definition that     *)
(* follows; no specification uses them.                                    *)
(***************************************************************************)
EXTENDS GraphArcs

VARIABLES done,    \* al_graph_traverse_dfs has returned
          frames   \* the active calls of dfs, innermost last

vars == <<arcs, done, i, frames, visited, order>>

Top == frames[Len(frames)]
Below == SubSeq(frames, 1, Len(frames) - 1)

Init == /\ arcs \in Graphs
        /\ done = FALSE
        /\ i = 0
        /\ frames = <<>>
        /\ visited = [x \in Vertices |-> FALSE]
        /\ order = <<>>

\* a call of dfs up to its loop, on top of the calls fs
Call(x, fs) ==
  /\ order' = Append(order, x)
  /\ visited' = [visited EXCEPT ![x] = TRUE]
  /\ frames' = Append(fs, [v |-> x, k |-> 1])

Root ==
  /\ ~done /\ frames = <<>> /\ i < N /\ ~visited[i]
  /\ Call(i, <<>>)
  /\ UNCHANGED <<arcs, done, i>>

SkipRoot ==
  /\ ~done /\ frames = <<>> /\ i < N /\ visited[i]
  /\ i' = i + 1
  /\ UNCHANGED <<arcs, done, frames, visited, order>>

Finish ==
  /\ ~done /\ frames = <<>> /\ i = N
  /\ done' = TRUE
  /\ UNCHANGED <<arcs, i, frames, visited, order>>

\* forgets the caller
FaultyDescend ==
  /\ frames # <<>> /\ Top.k <= Len(arcs[Top.v])
  /\ ~visited[arcs[Top.v][Top.k]]
  /\ Call(arcs[Top.v][Top.k], Below)
  /\ UNCHANGED <<arcs, done, i>>

\* the arc at hand leads to a vertex not visited yet: the recursive call
Descend ==
  /\ frames # <<>> /\ Top.k <= Len(arcs[Top.v])
  /\ ~visited[arcs[Top.v][Top.k]]
  /\ Call(arcs[Top.v][Top.k], frames)
  /\ UNCHANGED <<arcs, done, i>>

\* a = a->next, also on the way back from a recursive call
NextArc ==
  /\ frames # <<>> /\ Top.k <= Len(arcs[Top.v])
  /\ visited[arcs[Top.v][Top.k]]
  /\ frames' = [frames EXCEPT ![Len(frames)].k = @ + 1]
  /\ UNCHANGED <<arcs, done, i, visited, order>>

\* the return of a call; after the outermost one the loop over roots goes on
Return ==
  /\ frames # <<>> /\ Top.k > Len(arcs[Top.v])
  /\ frames' = Below
  /\ i' = IF Len(frames) = 1 THEN i + 1 ELSE i
  /\ UNCHANGED <<arcs, done, visited, order>>

Next == Root \/ SkipRoot \/ Finish \/ Descend \/ NextArc \/ Return

\* The traversal is one sequential call: it takes a step whenever it has one.
Spec == Init /\ [][Next]_vars /\ WF_vars(Next)

-----------------------------------------------------------------------------
Frame == [v : Vertices, k : Nat \ {0}]

TypeOK ==
  /\ arcs \in [Vertices -> Seq(Vertices)]
  /\ done \in BOOLEAN
  /\ i \in 0 .. N
  /\ frames \in Seq(Frame)
  /\ visited \in [Vertices -> BOOLEAN]
  /\ order \in Seq(Vertices)

Active == {frames[j].v : j \in DOMAIN frames}

(***************************************************************************)
(* The recursion follows a simple path of the graph: each active call was  *)
(* made for the arc its caller looks at, and no vertex has two active      *)
(* calls, so that the C stack never holds more than N calls of dfs.        *)
(***************************************************************************)
CallsFollowPath ==
  /\ \A j \in 1 .. Len(frames) - 1 :
       /\ frames[j].k \in DOMAIN arcs[frames[j].v]
       /\ frames[j + 1].v = arcs[frames[j].v][frames[j].k]
  /\ \A j1, j2 \in DOMAIN frames : frames[j1].v = frames[j2].v => j1 = j2

(***************************************************************************)
(* Depth first: the vertex accepted next is the first one not yet accepted *)
(* in the arc list of the latest accepted vertex that has such an arc, and *)
(* when none has, the lowest-numbered one left.                            *)
(***************************************************************************)
FirstNew(list, seen, x) ==
  \E p \in DOMAIN list : /\ list[p] = x /\ x \notin seen
                         /\ \A p0 \in 1 .. p - 1 : list[p0] \in seen

LatestFirst ==
  \A j \in 1 .. Len(order) :
    LET seen == {order[j0] : j0 \in 1 .. j - 1}
        open == {j0 \in 1 .. j - 1 : ~(Successors(order[j0]) \subseteq seen)}
    IN  IF open = {}
        THEN \A x \in Vertices \ seen : order[j] <= x
        ELSE \E j0 \in open : /\ \A j1 \in open : j1 <= j0
                              /\ FirstNew(arcs[order[j0]], seen, order[j])

(***************************************************************************)
(* A vertex whose call has returned leads only to accepted vertices, and   *)
(* at the end every vertex has been accepted.                              *)
(***************************************************************************)
Closed ==
  /\ \A x \in Accepted \ Active : Successors(x) \subseteq Accepted
  /\ done => Accepted = Vertices

(***************************************************************************)
(* The traversal ends, whatever cycles the graph has.                      *)
(***************************************************************************)
Terminates == <>done
=============================================================================
