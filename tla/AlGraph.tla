------------------------------ MODULE AlGraph --------------------------------
(***************************************************************************)
(* The operations of structure/src/graph/al_graph.c that build and change  *)
(* a graph: an array of vertices, each with a list of arc nodes on the     *)
(* heap, that name the vertex they lead to by its index.  insert_vertex    *)
(* returns a cell whose data, and only that, the caller writes at once.    *)
(*                                                                         *)
(* delete_vertex moves the later vertices down and leaves the indices in   *)
(* the arcs as they were; the last cell keeps its copy of a first, which   *)
(* the next insert_vertex takes over.  From then on two vertices may own   *)
(* the same arcs, and a freed arc may be met again (pc = "wild").  A NULL  *)
(* that is followed ends in pc = "segv", an endless loop in pc = "hang".   *)
(*                                                                         *)
(* remove_arc answers true and removes nothing; `removed' remembers which  *)
(* arcs it has said to have removed.                                       *)
(*                                                                         *)
(* Callers insert a vertex only once, as the test does.  malloc finds a    *)
(* node: Arc bounds the number of arcs.  A call that is refused, for a     *)
(* vertex that is missing or a full array, changes nothing and has no      *)
(* action.                                                                 *)
(***************************************************************************)
EXTENDS Integers, Sequences, FiniteSets, SequencesExt

CONSTANTS Arc,         \* the arc nodes malloc can return
          Vertex,      \* the data of the vertices
          MaxVertices, \* AL_GRAPH_MAX_VERTICES
          None         \* NULL, and no data

VARIABLES nvert, data, first, \* the graph: g->nvert and the fields of the cells
          vert, next, used,   \* the fields of the arc nodes, and those allocated
          pc,     \* "open", "segv", "wild" or "hang"
          items,   \* history: the graph that insert_vertex, delete_vertex and add_arc
                   \* have asked for, while not stale
          stale,   \* history: a delete_vertex or an insert_vertex has not done as asked
          reused,  \* history: insert_vertex has returned a cell with arcs
          removed  \* history: the arcs <<x, y>> of items, the only ones from x to y,
                   \* for which remove_arc has answered true and add_arc was not called since

cells == <<nvert, data, first>>
arcs == <<vert, next, used>>
history == <<items, stale, reused, removed>>
vars == <<cells, arcs, pc, history>>

Cells == 0 .. MaxVertices - 1

Init == /\ nvert = 0
        /\ data = [c \in Cells |-> None] /\ first = [c \in Cells |-> None]
        /\ vert = [a \in Arc |-> None] /\ next = [a \in Arc |-> None]
        /\ used = {}
        /\ pc = "open"
        /\ items = <<>> /\ stale = FALSE /\ reused = FALSE /\ removed = {}

\* the pointers met from p on; the last is NULL or a dangling one
Walk(links, alive, p) ==
  LET w[k \in 0 .. Cardinality(Arc)] ==
        IF k = 0 THEN p ELSE IF w[k - 1] \in alive THEN links[w[k - 1]] ELSE w[k - 1]
  IN  w
Chain(links, alive, p) ==
  LET w == Walk(links, alive, p)
  IN  [k \in 1 .. Cardinality({j \in DOMAIN w : w[j] \in alive}) |-> w[k - 1]]
Broken(links, alive, p) == Walk(links, alive, p)[Cardinality(Arc)] # None

\* al_graph_index_of_vertex and al_graph_get_vertex: the first that equals
Found(x) == {c \in 0 .. nvert - 1 : data[c] = x}
IndexOf(x) == CHOOSE c \in Found(x) : \A d \in Found(x) : c <= d
Missing(x) == Found(x) = {}

\* the graph asked for, until the graph there is has parted from it
Follow(asked, gone) == /\ items' = IF stale' THEN <<>> ELSE asked
                       /\ removed' = IF stale' THEN {} ELSE gone

InsertVertex(x) ==
  /\ pc = "open" /\ nvert < MaxVertices /\ Missing(x)
  /\ data' = [data EXCEPT ![nvert] = x]
  /\ nvert' = nvert + 1
  /\ reused' = (reused \/ first[nvert] # None)
  /\ stale' = (stale \/ first[nvert] # None)
  /\ Follow(Append(items, [vertex |-> x, arcs |-> <<>>]), removed)
  /\ UNCHANGED <<first, arcs, pc>>

(***************************************************************************)
(* The turn of delete_vertex's second loop for the vertex at i: g is what  *)
(* the turns before have made of the lists, v the index whose arcs go.     *)
(* pre stays at the first arc, so that the arcs between it and the one     *)
(* found are cut out with that one; a vertex without arcs is not provided  *)
(* for.                                                                    *)
(***************************************************************************)
Unhook(g, i, v) ==
  LET a == g.first[i]
      chain == Chain(g.next, g.used, a)
      hits == {k \in 2 .. Len(chain) : vert[chain[k]] = v}
      hit == chain[CHOOSE k \in hits : \A j \in hits : k <= j]
  IN  CASE g.pc # "open" -> g
        [] g.pc = "open" /\ a = None -> [g EXCEPT !.pc = "segv"]
        [] g.pc = "open" /\ a # None /\ a \notin g.used -> [g EXCEPT !.pc = "wild"]
        [] g.pc = "open" /\ a \in g.used /\ vert[a] = v ->
             [g EXCEPT !.first[i] = g.next[a], !.used = @ \ {a}]
        [] g.pc = "open" /\ a \in g.used /\ vert[a] # v /\ hits # {} ->
             [g EXCEPT !.next[a] = g.next[hit], !.used = @ \ {hit}]
        [] OTHER -> IF Broken(g.next, g.used, a) THEN [g EXCEPT !.pc = "wild"] ELSE g

Moved(f, v) == [c \in Cells |-> IF c \in v .. nvert - 2 THEN f[c + 1] ELSE f[c]]

\* what both loops have made of the lists when they are done
Cut(v) ==
  LET start == [first |-> Moved(first, v), next |-> next, used |-> used, pc |-> "open"]
      swept[i \in -1 .. nvert - 2] == IF i = -1 THEN start ELSE Unhook(swept[i - 1], i, v)
  IN  swept[nvert - 2]

\* the arcs to x are not just the first or the second of the list
Spared(list, x) == \E k \in 2 .. Len(list) : list[k] = x /\ (k > 2 \/ list[1] = x)

\* a list without x, which is there once at most if it is not spared
Without(list, x) ==
  IF Contains(list, x) THEN RemoveAt(list, CHOOSE k \in 1 .. Len(list) : list[k] = x) ELSE list

DeleteVertex(x) ==
  /\ pc = "open" /\ ~Missing(x)
  /\ LET v == IndexOf(x)
         after == Cut(v)
         others == Front(items)
     IN  /\ data' = Moved(data, v)
         /\ first' = after.first /\ used' = after.used
         \* what a freed node holds is never used
         /\ next' = [a \in Arc |-> IF a \in after.used THEN after.next[a] ELSE None]
         /\ vert' = [a \in Arc |-> IF a \in after.used THEN vert[a] ELSE None]
         /\ pc' = after.pc
         /\ stale' = \/ stale
                     \/ Last(items).vertex # x
                     \/ \E j \in 1 .. Len(others) : Spared(others[j].arcs, x)
         /\ Follow([j \in 1 .. Len(others) |-> [others[j] EXCEPT !.arcs = Without(@, x)]],
                   {a \in removed : x \notin {a[1], a[2]}})
  /\ nvert' = nvert - 1
  /\ UNCHANGED reused

AddArc(x, y) ==
  /\ pc = "open" /\ ~Missing(x) /\ ~Missing(y)
  /\ ~Broken(next, used, first[IndexOf(x)])
  /\ \E a \in Arc \ used :
       LET c == IndexOf(x)
           chain == Chain(next, used, first[c])
       IN  /\ used' = used \cup {a}
           /\ vert' = [vert EXCEPT ![a] = IndexOf(y)]
           /\ first' = IF chain = <<>> THEN [first EXCEPT ![c] = a] ELSE first
           /\ next' = IF chain = <<>> THEN [next EXCEPT ![a] = None]
                      ELSE [next EXCEPT ![a] = None, ![Last(chain)] = a]
  /\ UNCHANGED <<nvert, data, pc, stale, reused>>
  /\ Follow([j \in 1 .. Len(items) |->
               IF items[j].vertex = x THEN [items[j] EXCEPT !.arcs = Append(@, y)] ELSE items[j]],
            removed \ {<<x, y>>})

\* how a call that changes nothing ends: with an answer, or in one of Ends
Ends == {"segv", "wild", "hang"}
Answers(answer) == /\ pc = "open"
                   /\ pc' = IF answer \in Ends THEN answer ELSE pc
                   /\ UNCHANGED <<cells, arcs, items, stale, reused>>
Returns(answer) == Answers(answer) /\ UNCHANGED removed

AddToBroken(x, y) ==
  /\ ~Missing(x) /\ ~Missing(y)
  /\ Broken(next, used, first[IndexOf(x)])
  /\ Returns("wild")

\* there is one arc from x to y, and no other
OneArc(x, y) ==
  \E j \in 1 .. Len(items) :
    /\ items[j].vertex = x
    /\ \E k \in 1 .. Len(items[j].arcs) :
         \A l \in 1 .. Len(items[j].arcs) : items[j].arcs[l] = y <=> l = k

\* compares the index in an arc with the address of a vertex, which never
\* are equal: no arc is removed, whatever y, and the answer is true
RemoveArcAnswer(x) ==
  LET p == first[IndexOf(x)]
  IN  IF p = None THEN "segv" ELSE IF Broken(next, used, p) THEN "wild" ELSE "true"
RemoveArc(x, y) ==
  /\ ~Missing(x)
  /\ Answers(RemoveArcAnswer(x))
  /\ removed' = IF OneArc(x, y) THEN removed \cup {<<x, y>>} ELSE removed

\* the loop never leaves the first arc
GetArcAnswer(x, y) ==
  LET a == first[IndexOf(x)]
  IN  IF a = None THEN None
      ELSE IF a \notin used THEN "wild"
      ELSE IF data[vert[a]] = y THEN a
      ELSE "hang"
GetArc(x, y) == ~Missing(x) /\ Returns(GetArcAnswer(x, y))

AdjacentAnswer(x, y) ==
  LET p == first[IndexOf(x)]
      chain == Chain(next, used, p)
  IN  IF \E k \in 1 .. Len(chain) : data[vert[chain[k]]] = y THEN "true"
      ELSE IF Broken(next, used, p) THEN "wild"
      ELSE "false"
Adjacent(x, y) == ~Missing(x) /\ Returns(AdjacentAnswer(x, y))

Next == \/ \E x \in Vertex : InsertVertex(x) \/ DeleteVertex(x)
        \/ \E x, y \in Vertex : \/ AddArc(x, y) \/ AddToBroken(x, y) \/ RemoveArc(x, y)
                                \/ GetArc(x, y) \/ Adjacent(x, y)

Spec == Init /\ [][Next]_vars
-----------------------------------------------------------------------------
TypeOK == /\ nvert \in 0 .. MaxVertices
          /\ data \in [Cells -> Vertex \cup {None}]
          /\ first \in [Cells -> Arc \cup {None}]
          /\ vert \in [Arc -> Cells \cup {None}]
          /\ next \in [Arc -> Arc \cup {None}]
          /\ used \subseteq Arc
          /\ pc \in {"open", "segv", "wild", "hang"}
          /\ stale \in BOOLEAN /\ reused \in BOOLEAN
          /\ removed \subseteq Vertex \X Vertex

\* the vertices that the arcs of the vertex at c lead to, in list order
Neighbours(c) == LET chain == Chain(next, used, first[c])
                 IN  [k \in 1 .. Len(chain) |-> data[vert[chain[k]]]]

(***************************************************************************)
(* The graph is the one its insert_vertex, delete_vertex and add_arc calls *)
(* have asked for, arcs in the order of add_arc, as long as delete_vertex  *)
(* takes the last vertex, whose arcs are at most the first or second of a  *)
(* list, and insert_vertex meets no old arcs.  What remove_arc is asked for*)
(* it never does: each arc that it has said to have removed is still there.*)
(***************************************************************************)
FollowsItems ==
  ~stale /\ pc \in {"open", "hang"} =>
    /\ items = [j \in 1 .. nvert |-> [vertex |-> data[j - 1], arcs |-> Neighbours(j - 1)]]
    /\ \A a \in removed : AdjacentAnswer(a[1], a[2]) = "true"

(***************************************************************************)
(* "true: it existed and has been deleted" (al_graph.h:102): an arc that   *)
(* remove_arc has said to have removed is not there, unless add_arc has    *)
(* added it again.                                                         *)
(***************************************************************************)
ArcsRemoved ==
  pc = "open" => \A a \in removed : AdjacentAnswer(a[1], a[2]) = "false"

(***************************************************************************)
(* A freed arc is met again only after insert_vertex has returned a cell   *)
(* with the arcs of a vertex deleted before; and in a graph that is as it  *)
(* was asked for a call crashes only at a vertex without arcs.             *)
(***************************************************************************)
CrashNeedsReuse ==
  /\ pc = "wild" => reused
  /\ pc = "segv" /\ ~stale => \E j \in 1 .. Len(items) : items[j].arcs = <<>>

(***************************************************************************)
(* In a graph that is as it was asked for, adjacent answers rightly, and   *)
(* get_arc finds the first arc of x and for any later one never returns.   *)
(***************************************************************************)
Lookups ==
  pc = "open" =>
    \A j \in 1 .. Len(items), y \in Vertex :
      LET list == items[j].arcs
          x == items[j].vertex
      IN  /\ AdjacentAnswer(x, y) = IF Contains(list, y) THEN "true" ELSE "false"
          /\ GetArcAnswer(x, y) \in IF list = <<>> THEN {None}
                                   ELSE IF Head(list) = y THEN Arc ELSE {"hang"}
=============================================================================
