------------------------------ MODULE GraphBfs -------------------------------
(***************************************************************************)
(* al_graph_traverse_bfs and bfs of structure/src/graph/al_graph.c, over   *)
(* the adjacency lists of a graph of N vertices and over the sequential    *)
(* queue of sq_queue.c (SqQueue), initialised for N elements in a block of *)
(* exactly N cells.  One step is one turn of one of the three loops, with  *)
(* the calls that turn makes: accept, visited[], enq and deq.              *)
(*                                                                         *)
(* Operators named Faulty... are plausible bugs of the definition that     *)
(* follows; no specification uses them.                                    *)
(***************************************************************************)
EXTENDS GraphArcs

CONSTANTS SizeMod,  \* 2^w, the range of a size_t
          None      \* NULL

VARIABLES pc,      \* the loop the code is in, "done" or "segv"
          v, k,    \* the vertex being expanded, the position of arc in its list
          front, rear, data, live, out, held, overrun  \* the queue

traversal == <<arcs, pc, i, v, k, visited, order>>
queue == <<front, rear, data, live, out, held, overrun>>
vars == <<traversal, queue>>

Queue == INSTANCE SqQueue WITH Capacity <- N, Block <- N, Value <- Vertices

Init == /\ arcs \in Graphs
        /\ pc = "outer"
        /\ i = 0
        /\ v = None /\ k = 0
        /\ visited = [x \in Vertices |-> FALSE]
        /\ order = <<>>
        /\ Queue!Init

(***************************************************************************)
(* accept, visited[x] = true and the enqueue of x.  The code stores through*)
(* the address sq_queue_enq returns without looking at it: a refused       *)
(* enqueue is a store through NULL.                                        *)
(***************************************************************************)
\* forgets visited[x] = true
FaultyVisit(x, next) ==
  /\ order' = Append(order, x)
  /\ UNCHANGED visited
  /\ \/ Queue!Enq(x) /\ pc' = next
     \/ Queue!EnqFull /\ pc' = "segv"

Visit(x, next) ==
  /\ order' = Append(order, x)
  /\ visited' = [visited EXCEPT ![x] = TRUE]
  /\ \/ Queue!Enq(x) /\ pc' = next
     \/ Queue!EnqFull /\ pc' = "segv"

\* the for loop over all vertices: bfs starts at the ones not yet visited
Root ==
  /\ pc = "outer" /\ i < N /\ ~visited[i]
  /\ Visit(i, "queue")
  /\ UNCHANGED <<arcs, i, v, k>>

SkipRoot ==
  /\ pc = "outer" /\ i < N /\ visited[i]
  /\ i' = i + 1
  /\ UNCHANGED <<arcs, pc, v, k, visited, order, queue>>

Finish ==
  /\ pc = "outer" /\ i = N
  /\ pc' = "done"
  /\ Queue!Destory
  /\ UNCHANGED <<arcs, i, v, k, visited, order>>

\* bfs: while the queue is not empty
Expand ==
  /\ pc = "queue"
  /\ Queue!Deq
  /\ v' = data[front]
  /\ k' = 1
  /\ pc' = "arcs"
  /\ UNCHANGED <<arcs, i, visited, order>>

\* advances i twice
FaultyDrained ==
  /\ pc = "queue"
  /\ Queue!Empty
  /\ pc' = "outer"
  /\ i' = i + 2
  /\ UNCHANGED <<arcs, v, k, visited, order, queue>>

Drained ==
  /\ pc = "queue"
  /\ Queue!Empty
  /\ pc' = "outer"
  /\ i' = i + 1
  /\ UNCHANGED <<arcs, v, k, visited, order, queue>>

\* bfs: the arcs of v
\* descends into the vertex just found
FaultyArcNew ==
  /\ pc = "arcs" /\ k <= Len(arcs[v])
  /\ ~visited[arcs[v][k]]
  /\ Visit(arcs[v][k], "arcs")
  /\ v' = arcs[v][k] /\ k' = 1
  /\ UNCHANGED <<arcs, i>>

ArcNew ==
  /\ pc = "arcs" /\ k <= Len(arcs[v])
  /\ ~visited[arcs[v][k]]
  /\ Visit(arcs[v][k], "arcs")
  /\ k' = k + 1
  /\ UNCHANGED <<arcs, i, v>>

\* never advances to arc->next
FaultyArcOld ==
  /\ pc = "arcs" /\ k <= Len(arcs[v])
  /\ visited[arcs[v][k]]
  /\ UNCHANGED vars

ArcOld ==
  /\ pc = "arcs" /\ k <= Len(arcs[v])
  /\ visited[arcs[v][k]]
  /\ k' = k + 1
  /\ UNCHANGED <<arcs, pc, i, v, visited, order, queue>>

ArcsEnd ==
  /\ pc = "arcs" /\ k > Len(arcs[v])
  /\ pc' = "queue"
  /\ UNCHANGED <<arcs, i, v, k, visited, order, queue>>

Next == \/ Root \/ SkipRoot \/ Finish
        \/ Expand \/ Drained
        \/ ArcNew \/ ArcOld \/ ArcsEnd

\* The traversal is one sequential call: it takes a step whenever it has one.
Spec == Init /\ [][Next]_vars /\ WF_vars(Next)

-----------------------------------------------------------------------------
TypeOK ==
  /\ arcs \in [Vertices -> Seq(Vertices)]
  /\ pc \in {"outer", "queue", "arcs", "done", "segv"}
  /\ i \in 0 .. N
  /\ v \in Vertices \cup {None}
  /\ k \in Nat
  /\ visited \in [Vertices -> BOOLEAN]
  /\ order \in Seq(Vertices)
  /\ Queue!TypeOK

\* vertices within d arcs of the vertices of S
Ball(S, d) ==
  LET b[n \in Nat] == IF n = 0 THEN S
                      ELSE LET inner == b[n - 1]
                           IN  inner \cup UNION {Successors(x) : x \in inner}
  IN  b[d]

Reachable(S) == Ball(S, N)

(***************************************************************************)
(* The ring never refuses an enqueue of bfs (whose result is dereferenced  *)
(* unchecked) and never reaches the cell missing from its block: a queue   *)
(* that serves one traversal is large enough, although the same queue is   *)
(* used for every component.                                               *)
(***************************************************************************)
QueueLargeEnough == pc # "segv" /\ ~overrun

(***************************************************************************)
(* Breadth first: the vertices accepted since root i are all reachable     *)
(* from i, and none comes before one that is nearer to i.                  *)
(***************************************************************************)
NearerFirst ==
  pc \in {"queue", "arcs"} =>
    \A j1, j2 \in DOMAIN order :
      (j1 <= j2 /\ \E j0 \in 1 .. j1 : order[j0] = i) =>
        /\ order[j2] \in Reachable({i})
        /\ \A d \in 0 .. N : order[j2] \in Ball({i}, d) => order[j1] \in Ball({i}, d)

(***************************************************************************)
(* When bfs has drained its queue, every arc of an accepted vertex leads   *)
(* to an accepted vertex; at the end, every vertex has been accepted.      *)
(***************************************************************************)
Closed ==
  /\ pc = "outer" => \A x \in Accepted : Successors(x) \subseteq Accepted
  /\ pc = "done" => Accepted = Vertices

(***************************************************************************)
(* The traversal ends, whatever cycles the graph has.                      *)
(***************************************************************************)
Terminates == <>(pc = "done")
=============================================================================
