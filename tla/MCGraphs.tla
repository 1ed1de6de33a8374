------------------------------ MODULE MCGraphs -------------------------------
(***************************************************************************)
(* The two searches of al_graph.c, each on the same graphs of 4 vertices,  *)
(* the fewest on which breadth first and depth first differ.  `which' names *)
(* the search that runs.  The module extends GraphBfs: its properties are  *)
(* those of the breadth-first search, and EachOnce that of both; what the  *)
(* search that does not run would use keeps a value it never acts on.      *)
(*                                                                         *)
(* Every vertex has at most two arcs; vertices 0 and 1 list them in any    *)
(* order and may repeat one or lead to themselves.                         *)
(***************************************************************************)
EXTENDS GraphBfs

\* what the proofs use: NULL is none of the places where bfs can be
ASSUME NullIsApart == None \notin {"outer", "queue", "arcs", "done", "segv"}

VARIABLES which, done, frames

bfsOnly == <<pc, v, k, queue>>
dfsOnly == <<done, frames>>
suiteVars == <<which, vars, dfsOnly>>

Dfs == INSTANCE GraphDfs

Plain(x) == {<<>>} \cup {<<y>> : y \in Vertices \ {x}}
              \cup {s \in [1 .. 2 -> Vertices \ {x}] : s[1] < s[2]}

Any(x) == Plain(x) \cup {s \in [1 .. 2 -> Vertices \ {x}] : s[1] > s[2]}
            \cup {<<x>>, <<(x + 1) % N, (x + 1) % N>>}

SmallGraphs == {[x \in Vertices |-> <<a, b, c, d>>[x + 1]] :
                  a \in Any(0), b \in Any(1), c \in Plain(2), d \in Plain(3)}

SuiteInit == \/ /\ which = "bfs" /\ Init
                /\ done = None /\ frames = None
             \/ /\ which = "dfs" /\ Dfs!Init
                /\ pc = None /\ v = None /\ k = None
                /\ front = None /\ rear = None /\ data = None /\ live = None
                /\ out = None /\ held = None /\ overrun = FALSE

BfsNext == which = "bfs" /\ Next /\ UNCHANGED <<which, dfsOnly>>
DfsNext == which = "dfs" /\ Dfs!Next /\ UNCHANGED <<which, bfsOnly>>
SuiteNext == BfsNext \/ DfsNext

\* A search is one sequential call: it takes a step whenever it has one.
SuiteSpec == SuiteInit /\ [][SuiteNext]_suiteVars /\ WF_suiteVars(SuiteNext)
-----------------------------------------------------------------------------
SuiteTypeOK == IF which = "bfs" THEN TypeOK ELSE Dfs!TypeOK

(***************************************************************************)
(* Breadth first accepts nearer vertices first; depth first goes on from   *)
(* the latest accepted vertex that has an arc to a new one.                *)
(***************************************************************************)
SearchOrder == IF which = "bfs" THEN NearerFirst ELSE Dfs!LatestFirst

(***************************************************************************)
(* The active calls of dfs follow a simple path of arcs, so that the C     *)
(* stack holds at most N of them; a vertex whose call has returned leads   *)
(* to accepted vertices only, and at the end all are accepted.             *)
(***************************************************************************)
DepthFirst == which = "dfs" => Dfs!CallsFollowPath /\ Dfs!Closed

(***************************************************************************)
(* Both searches end, whatever cycles the graph has.                       *)
(***************************************************************************)
SearchesEnd == <>(IF which = "bfs" THEN pc = "done" ELSE done)
=============================================================================
