------------------------------- MODULE MCLists -------------------------------
(***************************************************************************)
(* The lists of the library and the graph, which is an array of lists,     *)
(* side by side, each with small constants: `which' names the one that     *)
(* runs.  The names of variables are those of the modules, which share     *)
(* them; what one does not use is None while it runs.  The nodes are       *)
(* interchangeable, and so are the vertices.                               *)
(***************************************************************************)
EXTENDS Integers, Sequences, FiniteSets, TLC

CONSTANTS Node, Value, None, MaxLength, \* of the linked lists
          Unwritten,                    \* of the doubly linked list
          Capacity, Element,            \* of the sequential list
          Arc, Vertex, MaxVertices      \* of the graph

ASSUME Sizes == {MaxLength, Capacity, MaxVertices} \subseteq Nat
ASSUME FiniteMemory == IsFiniteSet(Node) /\ IsFiniteSet(Arc)
ASSUME NullIsApart == /\ None \notin Node \cup Value \cup Element \cup Arc \cup Vertex
                      /\ {"segv", "wild", "hang"} \cap (Node \cup Arc \cup {None}) = {}

VARIABLES which,
          data, pc, items,              \* used by all
          next, used, stale,            \* all but the sequential list
          length, out,                  \* the lists
          head, tail, kept,             \* linked lists
          prev, middle,                 \* the doubly linked list
          nvert, first, vert, reused, removed \* the graph

heap == <<next, used, stale>>
lists == <<length, out>>
linkedOnly == <<head, tail, kept>>
doubleOnly == <<prev, middle>>
graphOnly == <<nvert, first, vert, reused, removed>>
vars == <<which, data, pc, items, heap, lists, linkedOnly, doubleOnly, graphOnly>>

Single == INSTANCE LinkedList
Double == INSTANCE DLinkedList
Array == INSTANCE SqList WITH Value <- Element
Graph == INSTANCE AlGraph

Symmetric == Permutations(Node) \cup Permutations(Vertex)

Off(x) == x = None

HeapOff == Off(next) /\ Off(used) /\ Off(stale)
LinkedOff == Off(head) /\ Off(tail) /\ Off(kept)
DoubleOff == Off(prev) /\ Off(middle)
GraphOff == Off(nvert) /\ Off(first) /\ Off(vert) /\ Off(reused) /\ Off(removed)

Init == \/ which = "single" /\ Single!Init /\ DoubleOff /\ GraphOff
        \/ which = "double" /\ Double!Init /\ GraphOff
        \/ which = "array" /\ Array!Init /\ HeapOff /\ LinkedOff /\ DoubleOff /\ GraphOff
        \/ which = "graph" /\ Graph!Init /\ Off(length) /\ Off(out) /\ LinkedOff /\ DoubleOff

SingleNext == which = "single" /\ Single!Next /\ UNCHANGED <<which, doubleOnly, graphOnly>>
DoubleNext == which = "double" /\ Double!Next /\ UNCHANGED <<which, graphOnly>>
ArrayNext == /\ which = "array" /\ Array!Next
             /\ UNCHANGED <<which, heap, linkedOnly, doubleOnly, graphOnly>>
GraphNext == which = "graph" /\ Graph!Next /\ UNCHANGED <<which, lists, linkedOnly, doubleOnly>>

Next == SingleNext \/ DoubleNext \/ ArrayNext \/ GraphNext

Spec == Init /\ [][Next]_vars
-----------------------------------------------------------------------------
TypeOK == CASE which = "single" -> Single!TypeOK
            [] which = "double" -> Double!TypeOK
            [] which = "array" -> Array!TypeOK
            [] which = "graph" -> Graph!TypeOK

(***************************************************************************)
(* Each list is what its calls have asked for by index: the array always,  *)
(* linked_list.c until an insert has put a node after tail, dlinked_list.c *)
(* until a call has acted on another node than its index names; and its    *)
(* prev links are wrong only at or after a node inserted in the middle.    *)
(* The graph is what its insert_vertex, delete_vertex and add_arc calls    *)
(* have asked for, until a delete_vertex that has to renumber arcs, or     *)
(* drops too many or too few, or an insert_vertex into a cell with old     *)
(* arcs; but al_graph_remove_arc answers true and removes nothing, so that *)
(* every arc it was asked to remove is still there.                        *)
(***************************************************************************)
FollowsItems == CASE which = "single" -> Single!FollowsItems
                  [] which = "double" -> Double!FollowsItems
                  [] which = "array" -> Array!FollowsItems
                  [] which = "graph" -> Graph!FollowsItems

(***************************************************************************)
(* The length of the linked lists exceeds the number of elements by the    *)
(* number of deletes that forgot length--.                                 *)
(***************************************************************************)
LengthDrifts == which \in {"single", "double"} => Single!LengthDrifts

(***************************************************************************)
(* No call crashes without a reason: at(0), a drifted length, a node that  *)
(* dlinked_list_insert has put in the middle, for the array a delete at    *)
(* its end or a search in the empty list, for the graph a vertex without   *)
(* arcs or one that owns the arcs of another.                              *)
(***************************************************************************)
CrashNeedsDrift == CASE which = "single" -> Single!CrashNeedsDrift
                     [] which = "double" -> Double!CrashNeedsDrift
                     [] which = "array" -> Array!CrashAtEnd
                     [] which = "graph" -> Graph!CrashNeedsReuse

(***************************************************************************)
(* The lookups are off by one: linked_list_at and dlinked_list_at give the *)
(* element before, sq_list_index_of does not look at the last, and         *)
(* al_graph_get_arc not after the first; al_graph_adjacent is right.       *)
(***************************************************************************)
LookupsMissOne == CASE which = "array" -> Array!MissesLast
                    [] which = "graph" -> Graph!Lookups
                    [] OTHER -> Single!AtIsOneBefore

(***************************************************************************)
(* The assertion of dlinked_list_insert, assert(cur) (line 88): its walk   *)
(* from the tail ends at a node.                                           *)
(***************************************************************************)
AssertHolds == which = "double" => pc # "assert"

(***************************************************************************)
(* "true: it existed and has been deleted" (al_graph.h:102), of            *)
(* al_graph_remove_arc: the arc is then not in the graph.                  *)
(***************************************************************************)
ArcsRemoved == which = "graph" => Graph!ArcsRemoved
=============================================================================
