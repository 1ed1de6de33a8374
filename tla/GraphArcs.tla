----------------------------- MODULE GraphArcs ------------------------------
(***************************************************************************)
(* The graphs that the searches of structure/src/graph/al_graph.c work on. *)
(* A graph of N vertices is its arc lists, each arc leading to a vertex of *)
(* the graph; self-loops and repeated arcs are what al_graph_add_arc       *)
(* allows.  The parts of the state and the promise that both searches      *)
(* share are here too.                                                     *)
(***************************************************************************)
EXTENDS Integers, Sequences

CONSTANTS N,        \* g->nvert
          Graphs    \* the graphs to traverse

Vertices == 0 .. N - 1

ASSUME NAssumption == N \in Nat
ASSUME GraphsAssumption == Graphs \subseteq [Vertices -> Seq(Vertices)]

VARIABLES arcs,    \* the vertices each vertex's arc list leads to, in list order
          i,       \* the loop variable of the traversal
          visited, \* the array visited[]
          order    \* history: the vertices passed to accept

Accepted == {order[j] : j \in DOMAIN order}

\* the vertices the arcs of x lead to
Successors(x) == {arcs[x][j] : j \in DOMAIN arcs[x]}

(***************************************************************************)
(* accept is called on no vertex twice, and visited[] says exactly on      *)
(* which it has been called, with self-loops, repeated arcs and cycles.    *)
(***************************************************************************)
EachOnce ==
  /\ \A j1, j2 \in DOMAIN order : order[j1] = order[j2] => j1 = j2
  /\ \A x \in Vertices : visited[x] <=> x \in Accepted
=============================================================================
