---------------------------- MODULE GraphsProofs -----------------------------
(***************************************************************************)
(* Theorems of MCGraphs for every graph of every size: both searches       *)
(* accept every vertex, and none twice; the queue of the breadth-first     *)
(* search, a ring of N + 1 cells of which only N are in its block, is      *)
(* always large enough; and the recursion of the depth-first one follows a *)
(* simple path, so that at most N calls are active.                        *)
(***************************************************************************)
EXTENDS MCGraphs, Counting, SequenceTheorems

LEMMA VerticesCount == IsFiniteSet(Vertices) /\ Cardinality(Vertices) = N
<1>1. N - 1 \in Int /\ N \in Nat
  BY NAssumption
<1>2. Cardinality(0 .. N - 1) = IF 0 > N - 1 THEN 0 ELSE N - 1 - 0 + 1
  BY <1>1, FS_Interval
<1> QED
  BY <1>1, <1>2, FS_Interval DEF Vertices

(***************************************************************************)
(* A sequence of vertices without repetition has at most N elements.       *)
(***************************************************************************)
LEMMA MostVertices ==
  ASSUME NEW s \in Seq(Vertices), Distinct(s)
  PROVE  Len(s) <= N
BY DistinctIsShort, VerticesCount

LEMMA OneMoreVertex ==
  ASSUME NEW s \in Seq(Vertices), Distinct(s), NEW x \in Vertices,
         \A j \in 1 .. Len(s) : s[j] # x
  PROVE  /\ Append(s, x) \in Seq(Vertices)
         /\ Distinct(Append(s, x))
         /\ Len(s) < N
BY OneMoreIsShort, VerticesCount

-----------------------------------------------------------------------------
(***************************************************************************)
(* Breadth first (al_graph_traverse_bfs).                                  *)
(***************************************************************************)
(***************************************************************************)
(* The inductive invariant.  The queue has never wrapped: its cells 0 to   *)
(* rear - 1 hold the accepted vertices in order, because every accepted    *)
(* vertex was enqueued once and Distinct(order) bounds their number by N.  *)
(***************************************************************************)
RingHoldsOrder ==
  /\ front \in 0 .. N /\ rear \in 0 .. N /\ front <= rear
  /\ rear = Len(order)
  /\ data \in [0 .. N -> Vertices \cup {None}]
  /\ \A j \in 1 .. rear : data[j - 1] = order[j]

BfsShape ==
  /\ arcs \in [Vertices -> Seq(Vertices)]
  /\ pc \in {"outer", "queue", "arcs", "done"}
  /\ i \in 0 .. N
  /\ pc = "queue" => i < N
  /\ pc = "arcs" => i < N /\ v \in Vertices
  /\ v \in Vertices \cup {None}
  /\ k \in Nat /\ (pc = "arcs" => k # 0)
  /\ visited \in [Vertices -> BOOLEAN]
  /\ order \in Seq(Vertices)

BfsInv ==
  /\ BfsShape
  /\ RingHoldsOrder
  /\ Distinct(order)
  /\ \A x \in Vertices : visited[x] <=> \E j \in DOMAIN order : order[j] = x
  /\ ~overrun

(***************************************************************************)
(* Visit of a vertex not yet visited: the enqueue succeeds, inside the     *)
(* block.                                                                  *)
(***************************************************************************)
LEMMA StepBelowEnd ==
  ASSUME NEW c \in 0 .. N, c < N
  PROVE  Queue!Step(c) = c + 1
BY NAssumption DEF Queue!Step, Queue!capacity

LEMMA VisitKeeps ==
  ASSUME BfsInv, NEW x \in Vertices, ~visited[x], NEW next, Visit(x, next)
  PROVE  /\ pc' = next
         /\ front' = front
         /\ RingHoldsOrder'
         /\ Distinct(order)' /\ order' \in Seq(Vertices)
         /\ visited' \in [Vertices -> BOOLEAN]
         /\ (\A y \in Vertices : visited[y] <=> \E j \in DOMAIN order : order[j] = y)'
         /\ ~overrun'
<1>1. order \in Seq(Vertices) /\ \A j \in 1 .. Len(order) : order[j] # x
  BY DEF BfsInv, BfsShape
<1>2. order' = Append(order, x) /\ visited' = [visited EXCEPT ![x] = TRUE]
  BY DEF Visit
<1>3. /\ order' \in Seq(Vertices)
      /\ Distinct(order')
      /\ rear < N
  BY <1>1, <1>2, OneMoreVertex DEF BfsInv, BfsShape, RingHoldsOrder
<1>4. Queue!Step(rear) = rear + 1 /\ rear \in 0 .. N
  BY <1>3, StepBelowEnd DEF BfsInv, RingHoldsOrder
<1>5. ~Queue!Full
  BY <1>4, NAssumption DEF Queue!Full, BfsInv, RingHoldsOrder
<1>6. Queue!Enq(x) /\ pc' = next
  BY <1>5 DEF Visit, Queue!EnqFull
<1>7. /\ front' = front /\ rear' = rear + 1
      /\ data' = [data EXCEPT ![rear] = x]
      /\ ~overrun'
  <2>1. rear < N /\ ~(rear >= N)
    BY <1>3, <1>4, NAssumption
  <2>2. data' \in Queue!Store(rear, x)
    BY <1>6 DEF Queue!Enq
  <2>3. data' = [data EXCEPT ![rear] = x]
    BY <2>1, <2>2 DEF Queue!Store
  <2>4. overrun' = (overrun \/ rear >= N)
    BY <1>6 DEF Queue!Enq
  <2>5. front' = front /\ rear' = Queue!Step(rear)
    BY <1>6 DEF Queue!Enq
  <2> QED
    BY <1>4, <2>1, <2>3, <2>4, <2>5 DEF BfsInv
<1>8. RingHoldsOrder'
  <2>1. /\ Len(order') = rear + 1 /\ order'[rear + 1] = x
        /\ \A j \in 1 .. rear : order'[j] = order[j]
    BY <1>2 DEF BfsInv, BfsShape, RingHoldsOrder
  <2>2. data' \in [0 .. N -> Vertices \cup {None}] /\ data'[rear] = x
        /\ \A j \in 1 .. rear : data'[j - 1] = data[j - 1]
    BY <1>4, <1>7, NAssumption DEF BfsInv, RingHoldsOrder
  <2>3. /\ front' \in 0 .. N /\ rear' \in 0 .. N /\ front' <= rear'
        /\ rear' = Len(order')
    BY <1>3, <1>4, <1>7, <2>1, NAssumption DEF BfsInv, RingHoldsOrder
  <2>4. \A j \in 1 .. rear' : data'[j - 1] = order'[j]
    <3>1. TAKE j \in 1 .. rear'
    <3>2. CASE j = rear + 1
      BY <1>4, <3>2, <2>1, <2>2
    <3>3. CASE j # rear + 1
      BY <1>4, <1>7, <3>3, <2>1, <2>2 DEF BfsInv, RingHoldsOrder
    <3> QED
      BY <3>2, <3>3
  <2> QED
    BY <2>2, <2>3, <2>4 DEF RingHoldsOrder
<1>9. /\ visited' \in [Vertices -> BOOLEAN]
      /\ (\A y \in Vertices : visited[y] <=> \E j \in DOMAIN order : order[j] = y)'
  <2>1. visited' \in [Vertices -> BOOLEAN]
    BY <1>2 DEF BfsInv, BfsShape
  <2>2. ASSUME NEW y \in Vertices
        PROVE  (\E j \in DOMAIN order' : order'[j] = y)
                 <=> y = x \/ \E j \in DOMAIN order : order[j] = y
    <3>1. /\ Len(order') = Len(order) + 1 /\ order'[Len(order) + 1] = x
          /\ DOMAIN order' = 1 .. Len(order) + 1 /\ DOMAIN order = 1 .. Len(order)
          /\ \A j \in 1 .. Len(order) : order'[j] = order[j]
          /\ Len(order) \in Nat
      BY <1>2 DEF BfsInv, BfsShape
    <3> QED
      BY <3>1
  <2>3. ASSUME NEW y \in Vertices
        PROVE  visited'[y] <=> y = x \/ visited[y]
    BY <1>2 DEF BfsInv, BfsShape
  <2> QED
    BY <2>1, <2>2, <2>3 DEF BfsInv
<1> QED
  BY <1>3, <1>6, <1>7, <1>8, <1>9 DEF Distinct

-----------------------------------------------------------------------------
LEMMA BfsInvInit == Init => BfsInv
<1> SUFFICES ASSUME Init PROVE BfsInv
  OBVIOUS
<1>1. BfsShape
  BY NAssumption, GraphsAssumption DEF Init, BfsShape, Vertices
<1>2. RingHoldsOrder
  BY NAssumption DEF Init, RingHoldsOrder, Queue!Init, Queue!Cells
<1>3. Distinct(order)
  BY DEF Init, Distinct
<1> QED
  BY <1>1, <1>2, <1>3 DEF Init, BfsInv, Queue!Init

LEMMA BfsInvStep == BfsInv /\ [Next]_vars => BfsInv'
<1> SUFFICES ASSUME BfsInv, [Next]_vars PROVE BfsInv'
  OBVIOUS
<1>a. BfsShape /\ RingHoldsOrder
  BY DEF BfsInv
<1>1. CASE Root
  <2>1. i \in Vertices /\ ~visited[i] /\ Visit(i, "queue")
    BY <1>1, <1>a, NAssumption DEF Root, BfsShape, Vertices
  <2>2. BfsShape'
    BY <1>1, <1>a, <2>1, VisitKeeps DEF Root, BfsShape
  <2> QED
    BY <2>1, <2>2, VisitKeeps DEF BfsInv
<1>2. CASE ArcNew
  <2>1. /\ v \in Vertices /\ k \in 1 .. Len(arcs[v])
        /\ arcs[v] \in Seq(Vertices)
    BY <1>2, <1>a DEF ArcNew, BfsShape
  <2>2. /\ arcs[v][k] \in Vertices /\ ~visited[arcs[v][k]]
        /\ Visit(arcs[v][k], "arcs")
    BY <1>2, <2>1 DEF ArcNew
  <2>3. BfsShape'
    BY <1>2, <1>a, <2>1, <2>2, VisitKeeps DEF ArcNew, BfsShape
  <2> QED
    BY <2>2, <2>3, VisitKeeps DEF BfsInv
<1>3. CASE Expand
  <2>1. /\ front' = Queue!Step(front) /\ rear' = rear /\ data' = data
        /\ overrun' = overrun /\ front # rear
    BY <1>3 DEF Expand, Queue!Deq, Queue!Empty
  <2>2. front < N /\ front < rear /\ front' = front + 1
    BY <1>a, <2>1, StepBelowEnd, NAssumption DEF RingHoldsOrder
  <2>3. data[front] = order[front + 1] /\ front + 1 \in 1 .. Len(order)
    BY <1>a, <2>2, NAssumption DEF RingHoldsOrder
  <2>4. v' \in Vertices
    BY <1>3, <1>a, <2>3 DEF Expand, BfsShape
  <2>5. BfsShape'
    BY <1>3, <1>a, <2>4 DEF Expand, BfsShape
  <2>6. RingHoldsOrder'
    BY <1>3, <1>a, <2>1, <2>2, NAssumption DEF Expand, RingHoldsOrder
  <2> QED
    BY <1>3, <2>1, <2>5, <2>6 DEF Expand, BfsInv, Distinct
<1> USE DEF BfsInv, BfsShape, RingHoldsOrder, Distinct, queue
<1>4. CASE SkipRoot
  BY <1>4, NAssumption DEF SkipRoot
<1>5. CASE Drained
  BY <1>5, NAssumption DEF Drained
<1>6. CASE ArcOld
  BY <1>6 DEF ArcOld
<1>7. CASE ArcsEnd
  BY <1>7 DEF ArcsEnd
<1>8. CASE Finish
  BY <1>8 DEF Finish, Queue!Destory
<1>9. CASE UNCHANGED vars
  BY <1>9 DEF vars, traversal
<1> QED
  BY <1>1, <1>2, <1>3, <1>4, <1>5, <1>6, <1>7, <1>8, <1>9 DEF Next

-----------------------------------------------------------------------------
(***************************************************************************)
(* For completeness: the vertices dequeued so far are the first `front' of *)
(* order, and all their arcs have been followed, except that the last one  *)
(* is still being expanded while pc = "arcs".                              *)
(***************************************************************************)
Expanded(j) == Successors(order[j]) \subseteq Accepted

BfsProgress ==
  /\ \A x \in 0 .. i - 1 : visited[x]
  /\ pc \in {"queue", "arcs"} => visited[i]
  /\ pc = "done" => i = N
  /\ pc \in {"outer", "done"} => front = rear
  /\ \A j \in 1 .. front : Expanded(j) \/ (pc = "arcs" /\ j = front)
  /\ pc = "arcs" => /\ front >= 1 /\ order[front] = v
                    /\ \A p \in 1 .. k - 1 : p \in DOMAIN arcs[v] => arcs[v][p] \in Accepted

LEMMA BfsProgressInit == Init => BfsProgress
<1> SUFFICES ASSUME Init PROVE BfsProgress
  OBVIOUS
<1> QED
  BY DEF Init, Queue!Init, BfsProgress

\* accepting a vertex keeps what was accepted and expanded
LEMMA AcceptMore ==
  ASSUME BfsInv, NEW x, order' = Append(order, x), arcs' = arcs
  PROVE  /\ Accepted' = Accepted \cup {x}
         /\ \A j \in 1 .. front : /\ order'[j] = order[j]
                                  /\ Expanded(j) => Expanded(j)'
<1>1. /\ DOMAIN order = 1 .. Len(order) /\ Len(order) \in Nat
      /\ DOMAIN order' = 1 .. Len(order) + 1
      /\ order'[Len(order) + 1] = x
      /\ \A j \in 1 .. Len(order) : order'[j] = order[j]
      /\ front <= Len(order) /\ front \in Nat
  BY NAssumption DEF BfsInv, BfsShape, RingHoldsOrder
<1>2. Accepted' = Accepted \cup {x}
  BY <1>1 DEF Accepted
<1> QED
  BY <1>1, <1>2 DEF Expanded, Successors

LEMMA BfsProgressStep == BfsInv /\ BfsProgress /\ [Next]_vars => BfsProgress'
<1> SUFFICES ASSUME BfsInv, BfsProgress, [Next]_vars PROVE BfsProgress'
  OBVIOUS
<1>a. BfsShape /\ RingHoldsOrder /\ BfsShape' /\ RingHoldsOrder'
  BY BfsInvStep DEF BfsInv
<1>1. CASE Root
  <2>1. i \in Vertices /\ ~visited[i] /\ Visit(i, "queue")
    BY <1>1, <1>a, NAssumption DEF Root, BfsShape, Vertices
  <2>2. /\ pc' = "queue" /\ front' = front /\ i' = i
        /\ visited' = [visited EXCEPT ![i] = TRUE]
    BY <1>1, <2>1, VisitKeeps DEF Root, Visit
  <2>3. \A j \in 1 .. front : Expanded(j)'
    BY <1>1, <2>1, AcceptMore DEF Root, Visit, BfsProgress
  <2>4. \A x \in 0 .. i - 1 : x \in Vertices
    BY <1>a, NAssumption DEF BfsShape, Vertices
  <2> QED
    BY <1>a, <2>1, <2>2, <2>3, <2>4 DEF BfsProgress, BfsShape
<1>2. CASE ArcNew
  <2>1. /\ v \in Vertices /\ k \in 1 .. Len(arcs[v])
        /\ arcs[v] \in Seq(Vertices)
    BY <1>2, <1>a DEF ArcNew, BfsShape
  <2> DEFINE x == arcs[v][k]
  <2>2. x \in Vertices /\ ~visited[x] /\ Visit(x, "arcs")
    BY <1>2, <2>1 DEF ArcNew
  <2>3. /\ pc' = "arcs" /\ front' = front /\ i' = i /\ v' = v /\ k' = k + 1
        /\ visited' = [visited EXCEPT ![x] = TRUE] /\ arcs' = arcs
        /\ order' = Append(order, x) /\ pc = "arcs"
    BY <1>2, <2>2, VisitKeeps DEF ArcNew, Visit
  <2>4. /\ Accepted' = Accepted \cup {x}
        /\ \A j \in 1 .. front : order'[j] = order[j] /\ (Expanded(j) => Expanded(j)')
    BY <2>3, AcceptMore
  <2>5. \A y \in 0 .. i : y \in Vertices
    BY <1>a, <2>3, NAssumption DEF BfsShape, Vertices
  <2>6. \A p \in 1 .. k' - 1 : p \in DOMAIN arcs[v] => arcs[v][p] \in Accepted'
    BY <2>1, <2>3, <2>4 DEF BfsProgress
  <2>7. front \in 1 .. front
    BY <1>a, <2>3, NAssumption DEF BfsProgress, RingHoldsOrder
  <2>8. \A j \in 1 .. front' : Expanded(j)' \/ (pc' = "arcs" /\ j = front')
    BY <2>3, <2>4 DEF BfsProgress
  <2>9. /\ \A y \in 0 .. i' - 1 : visited'[y]
        /\ visited'[i']
    BY <1>a, <2>3, <2>5 DEF BfsProgress, BfsShape
  <2> QED
    BY <2>3, <2>4, <2>6, <2>7, <2>8, <2>9 DEF BfsProgress
<1>3. CASE Expand
  <2>1. /\ front' = Queue!Step(front) /\ rear' = rear /\ data' = data
        /\ front # rear /\ v' = data[front] /\ k' = 1
        /\ pc = "queue" /\ pc' = "arcs"
        /\ UNCHANGED <<arcs, i, visited, order>>
    BY <1>3 DEF Expand, Queue!Deq, Queue!Empty
  <2>2. front < N /\ front < rear /\ front' = front + 1 /\ front \in Nat
    BY <1>a, <2>1, StepBelowEnd, NAssumption DEF RingHoldsOrder
  <2>3. data[front] = order[front + 1]
    BY <1>a, <2>2, NAssumption DEF RingHoldsOrder
  <2>4. \A j \in 1 .. front : Expanded(j)'
    BY <2>1 DEF BfsProgress, Expanded, Successors, Accepted
  <2> QED
    BY <2>1, <2>2, <2>3, <2>4 DEF BfsProgress
<1>4. CASE ArcOld
  <2>1. /\ v \in Vertices /\ k \in 1 .. Len(arcs[v]) /\ arcs[v] \in Seq(Vertices)
        /\ visited[arcs[v][k]]
    BY <1>4, <1>a DEF ArcOld, BfsShape
  <2>2. arcs[v][k] \in Accepted
    BY <2>1 DEF BfsInv, Accepted
  <2>3. /\ k' = k + 1 /\ Accepted' = Accepted /\ pc = "arcs"
        /\ UNCHANGED <<arcs, pc, i, v, visited, order, front, rear>>
    BY <1>4 DEF ArcOld, queue, Accepted
  <2>4. \A j \in 1 .. front : Expanded(j)' <=> Expanded(j)
    BY <2>3 DEF Expanded, Successors
  <2>5. \A p \in 1 .. k' - 1 : p \in DOMAIN arcs[v] => arcs[v][p] \in Accepted'
    BY <2>1, <2>2, <2>3 DEF BfsProgress
  <2> QED
    BY <2>3, <2>4, <2>5 DEF BfsProgress
<1>5. CASE ArcsEnd
  <2>1. /\ v \in Vertices /\ arcs[v] \in Seq(Vertices) /\ k > Len(arcs[v]) /\ k \in Nat
        /\ pc = "arcs" /\ pc' = "queue" /\ Accepted' = Accepted
        /\ UNCHANGED <<arcs, i, v, k, visited, order, front, rear>>
    BY <1>5, <1>a DEF ArcsEnd, BfsShape, queue, Accepted
  <2>2. \A p \in DOMAIN arcs[v] : p \in 1 .. k - 1
    BY <2>1
  <2>3. Expanded(front)
    BY <2>1, <2>2 DEF BfsProgress, Expanded, Successors
  <2>4. \A j \in 1 .. front : Expanded(j)'
    BY <2>1, <2>3 DEF BfsProgress, Expanded, Successors
  <2> QED
    BY <2>1, <2>4 DEF BfsProgress
<1>6. CASE SkipRoot
  <2>1. /\ i' = i + 1 /\ i \in 0 .. N /\ visited[i] /\ pc = "outer"
        /\ UNCHANGED <<arcs, pc, v, k, visited, order, front, rear>>
    BY <1>6, <1>a DEF SkipRoot, BfsShape, queue
  <2>2. \A j \in 1 .. front : Expanded(j)' <=> Expanded(j)
    BY <2>1 DEF Expanded, Successors, Accepted
  <2>3. \A x \in 0 .. i' - 1 : visited'[x]
    BY <2>1, NAssumption DEF BfsProgress
  <2> QED
    BY <2>1, <2>2, <2>3 DEF BfsProgress
<1>7. CASE Drained
  <2>1. /\ i' = i + 1 /\ i \in 0 .. N /\ pc = "queue" /\ pc' = "outer" /\ front = rear
        /\ UNCHANGED <<arcs, v, k, visited, order, front, rear>>
    BY <1>7, <1>a DEF Drained, BfsShape, queue, Queue!Empty
  <2>2. \A j \in 1 .. front : Expanded(j)' <=> Expanded(j)
    BY <2>1 DEF Expanded, Successors, Accepted
  <2>3. \A x \in 0 .. i' - 1 : visited'[x]
    BY <2>1, NAssumption DEF BfsProgress
  <2> QED
    BY <2>1, <2>2, <2>3 DEF BfsProgress
<1>8. CASE Finish
  BY <1>8 DEF Finish, Queue!Destory, BfsProgress, Expanded, Successors, Accepted
<1>9. CASE UNCHANGED vars
  BY <1>9 DEF vars, traversal, queue, BfsProgress, Expanded, Successors, Accepted
<1> QED
  BY <1>1, <1>2, <1>3, <1>4, <1>5, <1>6, <1>7, <1>8, <1>9 DEF Next

LEMMA BfsKeeps == BfsInv => (EachOnce /\ QueueLargeEnough)
<1> SUFFICES ASSUME BfsInv PROVE EachOnce /\ QueueLargeEnough
  OBVIOUS
<1>1. DOMAIN order = 1 .. Len(order)
  BY DEF BfsInv, BfsShape
<1>2. EachOnce
  BY <1>1 DEF BfsInv, EachOnce, Accepted, Distinct
<1> QED
  BY <1>2 DEF BfsInv, BfsShape, QueueLargeEnough

\* the rest of the queue
QueueTyped ==
  /\ live \in BOOLEAN /\ overrun \in BOOLEAN
  /\ out \in [op : {"init", "destory", "enq", "deq"}, res : Vertices \cup {None}]
  /\ held \in [cell : 0 .. N \cup {None}, val : Vertices \cup {None}]

LEMMA QueueTypedInit == Init => QueueTyped
<1> SUFFICES ASSUME Init PROVE QueueTyped
  OBVIOUS
<1>1. live \in BOOLEAN
  BY DEF Init, Queue!Init
<1>2. overrun \in BOOLEAN
  BY DEF Init, Queue!Init
<1>3. out = [op |-> "init", res |-> None] /\ held = [cell |-> None, val |-> None]
  BY DEF Init, Queue!Init, Queue!Call, Queue!NoHeld
<1> QED
  BY <1>1, <1>2, <1>3 DEF QueueTyped

LEMMA VisitTypes ==
  ASSUME QueueTyped, NEW x \in Vertices, NEW next, Visit(x, next)
  PROVE  QueueTyped'
<1>1. out' = [op |-> "enq", res |-> x] \/ out' = [op |-> "enq", res |-> None]
  BY DEF Visit, Queue!Enq, Queue!EnqFull, Queue!Call
<1>2. live' = live
  BY DEF Visit, Queue!Enq, Queue!EnqFull
<1>3. overrun' \in BOOLEAN
  BY DEF Visit, Queue!Enq, Queue!EnqFull, QueueTyped
<1>4. held' = held
  BY DEF Visit, Queue!Enq, Queue!EnqFull
<1>5. live' \in BOOLEAN
  BY <1>2 DEF QueueTyped
<1> QED
  BY <1>1, <1>3, <1>4, <1>5 DEF QueueTyped

LEMMA QueueTypedStep == BfsInv /\ QueueTyped /\ [Next]_vars => QueueTyped'
<1> SUFFICES ASSUME BfsInv, QueueTyped, [Next]_vars PROVE QueueTyped'
  OBVIOUS
<1>1. CASE Root
  <2>1. i \in Vertices
    BY <1>1, NAssumption DEF Root, BfsInv, BfsShape, Vertices
  <2> QED
    BY <1>1, <2>1, VisitTypes DEF Root
<1>2. CASE ArcNew
  <2>1. v \in Vertices /\ k \in 1 .. Len(arcs[v]) /\ arcs[v] \in Seq(Vertices)
    BY <1>2 DEF ArcNew, BfsInv, BfsShape
  <2>2. arcs[v][k] \in Vertices
    BY <2>1
  <2> QED
    BY <1>2, <2>2, VisitTypes DEF ArcNew
<1>3. CASE Expand
  <2>1. /\ out' = [op |-> "deq", res |-> data[front]] /\ held' = [cell |-> front, val |-> data[front]]
    BY <1>3 DEF Expand, Queue!Deq, Queue!Call
  <2>2. UNCHANGED <<live, overrun>>
    BY <1>3 DEF Expand, Queue!Deq
  <2>3. front \in 0 .. N /\ data[front] \in Vertices \cup {None}
    BY DEF BfsInv, RingHoldsOrder
  <2> QED
    BY <2>1, <2>2, <2>3 DEF QueueTyped
<1>4. CASE Finish
  <2>1. out' = [op |-> "destory", res |-> None] /\ held' = [cell |-> None, val |-> None]
    BY <1>4 DEF Finish, Queue!Destory, Queue!Call, Queue!NoHeld
  <2>2. live' \in BOOLEAN
    BY <1>4 DEF Finish, Queue!Destory
  <2>3. overrun' = overrun
    BY <1>4 DEF Finish, Queue!Destory
  <2> QED
    BY <2>1, <2>2, <2>3 DEF QueueTyped
<1>5. CASE UNCHANGED queue
  BY <1>5 DEF queue, QueueTyped
<1> QED
  BY <1>1, <1>2, <1>3, <1>4, <1>5 DEF Next, SkipRoot, Drained, ArcOld, ArcsEnd, vars

LEMMA BfsTypes == BfsInv /\ QueueTyped => TypeOK
<1> SUFFICES ASSUME BfsInv, QueueTyped PROVE TypeOK
  OBVIOUS
<1>1. Queue!TypeOK
  BY DEF BfsInv, RingHoldsOrder, QueueTyped, Queue!TypeOK, Queue!Cells
<1> QED
  BY <1>1 DEF BfsInv, BfsShape, TypeOK

LEMMA BfsCloses ==
  ASSUME BfsInv, BfsProgress
  PROVE  Closed
<1>1. ASSUME pc = "outer", NEW x \in Accepted PROVE Successors(x) \subseteq Accepted
  <2>1. PICK j \in 1 .. front : order[j] = x
    BY <1>1 DEF BfsInv, BfsShape, RingHoldsOrder, BfsProgress, Accepted
  <2> QED
    BY <1>1, <2>1 DEF BfsProgress, Expanded
<1>2. ASSUME pc = "done" PROVE Accepted = Vertices
  <2>1. \A x \in Vertices : visited[x]
    BY <1>2, NAssumption DEF BfsProgress, BfsInv, BfsShape, Vertices
  <2> QED
    BY <2>1 DEF BfsInv, BfsShape, Accepted
<1> QED
  BY <1>1, <1>2 DEF Closed

-----------------------------------------------------------------------------
(***************************************************************************)
(* For the order of breadth first.  b[d] is the set of the vertices within *)
(* d arcs of i, the root of the component being searched.                  *)
(***************************************************************************)
Grows(b) ==
  /\ b \in [Nat -> SUBSET Vertices]
  /\ b[0] = {i}
  /\ \A n \in Nat : \A y \in Vertices :
       y \in b[n + 1] <=> y \in b[n] \/ \E x \in b[n] : y \in Successors(x)

LEMMA Larger ==
  ASSUME NEW b, Grows(b), NEW n \in Nat, NEW m \in Nat, n <= m
  PROVE  b[n] \subseteq b[m]
<1> DEFINE Holds == {d \in Nat : b[n] \subseteq b[n + d]}
<1>1. 0 \in Holds
  OBVIOUS
<1>2. ASSUME NEW d \in Nat, d \in Holds PROVE d + 1 \in Holds
  <2>1. n + d \in Nat /\ n + (d + 1) = (n + d) + 1
    OBVIOUS
  <2>2. b[n + d] \subseteq b[(n + d) + 1]
    BY <2>1 DEF Grows
  <2> QED
    BY <1>2, <2>1, <2>2
<1>3. Nat \subseteq Holds
  <2> HIDE DEF Holds
  <2> QED
    BY <1>1, <1>2, Induct
<1>4. m - n \in Nat /\ n + (m - n) = m
  OBVIOUS
<1> QED
  BY <1>3, <1>4

LEMMA BallGrows ==
  ASSUME arcs \in [Vertices -> Seq(Vertices)], i \in Vertices
  PROVE  \E b : Grows(b) /\ \A d \in Nat : Ball({i}, d) = b[d]
<1> DEFINE More(X) == X \cup UNION {Successors(x) : x \in X}
           F == [X \in SUBSET Vertices |-> More(X)]
           Rule(b) == b = [n \in Nat |-> IF n = 0 THEN {i} ELSE More(b[n - 1])]
           h == CHOOSE b : Rule(b)
<1>1. \A x \in Vertices : Successors(x) \subseteq Vertices
  BY DEF Successors
<1>2. F \in [SUBSET Vertices -> SUBSET Vertices] /\ {i} \in SUBSET Vertices
  BY <1>1
<1>3. PICK g \in [Nat -> SUBSET Vertices] :
        g[0] = {i} /\ \A n \in Nat : g[n + 1] = F[g[n]]
  <2>1. PICK T, G, s : T = SUBSET Vertices /\ G = F /\ s = {i}
    OBVIOUS
  <2>2. G \in [T -> T] /\ s \in T
    BY <1>2, <2>1
  <2>3. PICK g : Iteration(g, T, G, s)
    BY <2>2, Iterates
  <2> HIDE DEF F
  <2> QED
    BY <2>1, <2>3 DEF Iteration
<1>4. \A n \in Nat : g[n + 1] = More(g[n])
  BY <1>3
<1>5. Rule(g)
  <2>1. ASSUME NEW n \in Nat
        PROVE  g[n] = IF n = 0 THEN {i} ELSE More(g[n - 1])
    <3> HIDE DEF More
    <3>1. CASE n = 0
      BY <1>3, <3>1
    <3>2. CASE n # 0
      <4>1. n - 1 \in Nat /\ (n - 1) + 1 = n
        BY <3>2
      <4> QED
        BY <1>4, <3>2, <4>1
    <3> QED
      BY <3>1, <3>2
  <2> HIDE DEF More
  <2> QED
    BY <1>3, <2>1
<1>6. Rule(h)
  <2> HIDE DEF Rule
  <2> QED
    BY <1>5
<1>7. h[0] = {i} /\ \A n \in Nat : h[n + 1] = More(h[n])
  <2> HIDE DEF More, h
  <2>1. h[0] = {i}
    BY <1>6
  <2>2. ASSUME NEW n \in Nat PROVE h[n + 1] = More(h[n])
    <3>1. n + 1 \in Nat /\ n + 1 # 0 /\ (n + 1) - 1 = n
      OBVIOUS
    <3> QED
      BY <1>6, <3>1
  <2> QED
    BY <2>1, <2>2
<1>8. h \in [Nat -> SUBSET Vertices]
  <2> DEFINE Inside == {n \in Nat : h[n] \subseteq Vertices}
  <2>1. 0 \in Inside
    <3> HIDE DEF h
    <3> QED
      BY <1>7
  <2>2. ASSUME NEW n \in Nat, n \in Inside PROVE n + 1 \in Inside
    <3> HIDE DEF h
    <3>1. h[n + 1] = More(h[n]) /\ h[n] \subseteq Vertices
      BY <1>7, <2>2
    <3> QED
      BY <1>1, <3>1
  <2>3. Nat \subseteq Inside
    <3> HIDE DEF Inside
    <3> QED
      BY <2>1, <2>2, Induct
  <2> HIDE DEF h, More
  <2> QED
    BY <1>6, <2>3
<1>9. Grows(h)
  <2> HIDE DEF h
  <2> QED
    BY <1>7, <1>8 DEF Grows
<1>10. \A d \in Nat : Ball({i}, d) = h[d]
  BY DEF Ball
<1> HIDE DEF h
<1> QED
  BY <1>9, <1>10

(***************************************************************************)
(* Of the vertices accepted from place r on, the j-th is j - r arcs from i *)
(* at most, and every one is as near as any that comes after it.           *)
(***************************************************************************)
Reaches(b, r) == \A j \in r .. Len(order) : order[j] \in b[j - r]

Ordered(b, r) ==
  \A j1, j2 \in r .. Len(order) : \A d \in Nat :
    j1 <= j2 /\ order[j2] \in b[d] => order[j1] \in b[d]

(***************************************************************************)
(* i was accepted at place r, everything before it had been expanded by    *)
(* then, and everything after it was found from a vertex that came off the *)
(* queue since.                                                            *)
(***************************************************************************)
RootAt(r) ==
  /\ order[r] = i
  /\ r - 1 <= front /\ (pc = "arcs" => r <= front)
  /\ \A j \in 1 .. r - 1 : \A y \in Successors(order[j]) :
       \E q \in 1 .. r - 1 : order[q] = y

Parents(r) ==
  \A j \in r + 1 .. Len(order) :
    \E p \in r .. Len(order) : p <= front /\ order[j] \in Successors(order[p])

Component(r) ==
  /\ RootAt(r)
  /\ Parents(r)
  /\ \A b : Grows(b) => Reaches(b, r) /\ Ordered(b, r)

BfsOrder == pc \in {"queue", "arcs"} => \E r \in 1 .. Len(order) : Component(r)

LEMMA BfsOrderInit == Init => BfsOrder
BY DEF Init, BfsOrder

(***************************************************************************)
(* While the arcs of v are followed, a vertex not accepted yet is no       *)
(* nearer than any accepted one.                                           *)
(***************************************************************************)
LEMMA Farther ==
  ASSUME BfsInv, BfsProgress, pc = "arcs",
         NEW r \in 1 .. Len(order), Component(r), NEW b, Grows(b)
  PROVE  \A d \in Nat : \A y \in b[d] \ Accepted :
           \A j \in r .. Len(order) : order[j] \in b[d]
<1> DEFINE Holds == {d \in Nat : \A y \in b[d] \ Accepted :
                                   \A j \in r .. Len(order) : order[j] \in b[d]}
<1>1. /\ order \in Seq(Vertices) /\ Len(order) \in Nat /\ front \in Nat
      /\ front <= Len(order) /\ DOMAIN order = 1 .. Len(order)
  BY NAssumption DEF BfsInv, BfsShape, RingHoldsOrder
<1>2. order[r] = i /\ order[r] \in b[0] /\ r <= front
  BY DEF Component, RootAt, Grows
<1>3. 0 \in Holds
  BY <1>1, <1>2 DEF Grows, Accepted
<1>4. ASSUME NEW d \in Nat, d \in Holds PROVE d + 1 \in Holds
  <2>1. SUFFICES ASSUME NEW y \in b[d + 1] \ Accepted, NEW j \in r .. Len(order)
                 PROVE  order[j] \in b[d + 1]
    OBVIOUS
  <2>2. b[d] \subseteq b[d + 1]
    BY Larger
  <2>3. CASE y \in b[d]
    BY <1>4, <2>2, <2>3
  <2>4. CASE y \notin b[d]
    <3>1. d + 1 \in Nat /\ b[d + 1] \in SUBSET Vertices
      BY DEF Grows
    <3>2. PICK z \in b[d] : y \in Successors(z)
      BY <2>4, <3>1 DEF Grows
    <3>3. CASE z \notin Accepted
      BY <1>4, <2>2, <3>2, <3>3
    <3>4. CASE z \in Accepted
      <4>1. PICK q \in 1 .. Len(order) : order[q] = z
        BY <1>1, <3>4 DEF Accepted
      <4>2. q >= front
        <5>1. SUFFICES ASSUME q < front PROVE FALSE
          BY <1>1
        <5>2. Expanded(q)
          BY <1>1, <5>1 DEF BfsProgress
        <5> QED
          BY <3>2, <4>1, <5>2 DEF Expanded
      <4>3. CASE j = r
        BY <1>2, <3>1, <4>3, Larger
      <4>4. CASE j # r
        <5>1. j \in r + 1 .. Len(order)
          BY <4>4
        <5>2. PICK p \in r .. Len(order) : p <= front /\ order[j] \in Successors(order[p])
          BY <5>1 DEF Component, Parents
        <5>3. p <= q /\ q \in r .. Len(order)
          BY <1>1, <1>2, <4>2, <5>2
        <5>4. order[p] \in b[d]
          BY <3>2, <4>1, <5>2, <5>3 DEF Component, Ordered
        <5>5. order[j] \in Vertices
          BY <1>1, <5>1
        <5> QED
          BY <5>2, <5>4, <5>5 DEF Grows
      <4> QED
        BY <4>3, <4>4
    <3> QED
      BY <3>3, <3>4
  <2> QED
    BY <2>3, <2>4
<1>5. Nat \subseteq Holds
  <2> HIDE DEF Holds
  <2> QED
    BY <1>3, <1>4, Induct
<1> QED
  BY <1>5

\* what a step needs to know of b
LEMMA GrowsStays ==
  ASSUME NEW b, UNCHANGED <<arcs, i>>
  PROVE  Grows(b)' <=> Grows(b)
BY DEF Grows, Successors

\* the queue gives up a vertex, or nothing that matters changes
LEMMA ComponentStays ==
  ASSUME BfsInv, NEW r \in 1 .. Len(order), Component(r),
         UNCHANGED <<arcs, i, order>>, front' \in Nat, front <= front',
         pc' = "arcs" => r <= front'
  PROVE  Component(r)'
<1>1. RootAt(r)'
  <2>1. front \in Nat /\ r \in Nat /\ r - 1 <= front'
    BY NAssumption DEF Component, RootAt, BfsInv, BfsShape, RingHoldsOrder
  <2>2. ASSUME NEW j \in 1 .. r - 1, NEW y, y \in Successors(order[j])'
        PROVE  \E q \in 1 .. r - 1 : order'[q] = y
    <3>1. y \in Successors(order[j])
      BY <2>2 DEF Successors
    <3> QED
      BY <3>1 DEF Component, RootAt
  <2>3. order'[r] = i'
    BY DEF Component, RootAt
  <2> QED
    BY <2>1, <2>2, <2>3 DEF RootAt
<1>2. Parents(r)'
  <2>1. front \in Nat
    BY NAssumption DEF BfsInv, RingHoldsOrder
  <2>2. ASSUME NEW j \in r + 1 .. Len(order)
        PROVE  \E p \in r .. Len(order) : p <= front' /\ order[j] \in Successors(order[p])
    <3>1. PICK p \in r .. Len(order) : p <= front /\ order[j] \in Successors(order[p])
      BY DEF Component, Parents
    <3>2. p <= front'
      BY <2>1, <3>1
    <3> QED
      BY <3>1, <3>2
  <2>3. order' = order
    OBVIOUS
  <2>4. ASSUME NEW j \in r + 1 .. Len(order)
        PROVE  \E p \in r .. Len(order) : p <= front' /\ order'[j] \in Successors(order[p])'
    <3>1. PICK p \in r .. Len(order) : p <= front' /\ order[j] \in Successors(order[p])
      BY <2>2
    <3>2. Successors(order[p])' = Successors(order[p])
      BY DEF Successors
    <3> QED
      BY <2>3, <3>1, <3>2
  <2> QED
    BY <2>3, <2>4 DEF Parents
<1>3. ASSUME NEW b, Grows(b)' PROVE Reaches(b, r)' /\ Ordered(b, r)'
  <2>1. Grows(b)
    BY <1>3, GrowsStays
  <2>2. Reaches(b, r) /\ Ordered(b, r)
    BY <2>1 DEF Component
  <2> QED
    BY <2>2 DEF Reaches, Ordered
<1> QED
  BY <1>1, <1>2, <1>3 DEF Component

LEMMA NewComponent ==
  ASSUME BfsInv, BfsProgress, Root
  PROVE  BfsOrder'
<1> PICK n \in Nat : n = Len(order)
  BY DEF BfsInv, BfsShape
<1>1. /\ pc = "outer" /\ i' = i /\ arcs' = arcs /\ i \in Vertices /\ ~visited[i]
      /\ Visit(i, "queue")
  BY NAssumption DEF Root, BfsInv, BfsShape, Vertices
<1>2. front' = front /\ pc' = "queue" /\ order' = Append(order, i)
  BY <1>1, VisitKeeps DEF Visit
<1>3. front = n /\ front \in Nat /\ order \in Seq(Vertices)
  BY <1>1, NAssumption DEF BfsInv, BfsShape, BfsProgress, RingHoldsOrder
<1>4. /\ Len(order') = n + 1 /\ order'[n + 1] = i
      /\ \A j \in 1 .. n : order'[j] = order[j]
  BY <1>2, <1>3
<1>5. ASSUME NEW j \in 1 .. n, NEW y \in Successors(order[j])
      PROVE  \E q \in 1 .. n : order[q] = y
  <2>1. Expanded(j)
    BY <1>1, <1>3 DEF BfsProgress
  <2>2. y \in Accepted /\ DOMAIN order = 1 .. n
    BY <1>3, <2>1 DEF Expanded
  <2> QED
    BY <2>2 DEF Accepted
<1>6. \A x : Successors(x)' = Successors(x)
  BY <1>1 DEF Successors
<1> DEFINE r == n + 1
<1>7. \A j \in 1 .. r - 1 : j \in 1 .. n
  OBVIOUS
<1>8. ASSUME NEW j \in 1 .. r - 1, NEW y, y \in Successors(order[j])'
      PROVE  \E q \in 1 .. r - 1 : order'[q] = y
  <2>1. j \in 1 .. n /\ order'[j] = order[j]
    BY <1>4, <1>7
  <2>2. y \in Successors(order[j])
    BY <1>1, <1>8, <2>1 DEF Successors
  <2>3. PICK q \in 1 .. n : order[q] = y
    BY <1>5, <2>1, <2>2
  <2> QED
    BY <1>4, <2>3
<1>9. RootAt(r)'
  <2>1. r - 1 <= front' /\ order'[r] = i'
    BY <1>1, <1>2, <1>3, <1>4
  <2> QED
    BY <1>2, <1>8, <2>1 DEF RootAt
<1>10. Parents(r)'
  BY <1>4 DEF Parents
<1>11. ASSUME NEW b, Grows(b)' PROVE Reaches(b, r)' /\ Ordered(b, r)'
  <2>1. b[0] = {i}
    BY <1>1, <1>11 DEF Grows
  <2>2. \A j \in r .. Len(order') : j = r /\ j - r = 0
    BY <1>4
  <2>3. Reaches(b, r)'
    BY <1>4, <2>1, <2>2 DEF Reaches
  <2>4. Ordered(b, r)'
    BY <2>2 DEF Ordered
  <2> QED
    BY <2>3, <2>4
<1>12. Component(r)'
  BY <1>9, <1>10, <1>11 DEF Component
<1>13. r \in 1 .. Len(order')
  BY <1>4
<1> HIDE DEF r
<1> QED
  BY <1>12, <1>13 DEF BfsOrder

LEMMA ComponentGrows ==
  ASSUME BfsInv, BfsProgress, ArcNew, NEW r \in 1 .. Len(order), Component(r)
  PROVE  Component(r)'
<1> PICK n \in Nat : n = Len(order)
  BY DEF BfsInv, BfsShape
<1>1. /\ pc = "arcs" /\ v \in Vertices /\ k \in 1 .. Len(arcs[v])
      /\ arcs[v] \in Seq(Vertices)
  BY DEF ArcNew, BfsInv, BfsShape
<1> PICK x \in Vertices : x = arcs[v][k]
  BY <1>1
<1>2. /\ ~visited[x] /\ Visit(x, "arcs") /\ x \in Successors(v)
      /\ UNCHANGED <<arcs, i>>
  BY <1>1 DEF ArcNew, Successors
<1>3. front' = front /\ pc' = "arcs" /\ order' = Append(order, x)
  BY <1>2, VisitKeeps DEF Visit
<1>4. /\ order \in Seq(Vertices) /\ front \in Nat /\ front <= n /\ r <= front
      /\ order[front] = v /\ r \in 1 .. n
  BY <1>1, NAssumption DEF BfsInv, BfsShape, BfsProgress, RingHoldsOrder, Component, RootAt
<1>5. /\ Len(order') = n + 1 /\ order'[n + 1] = x
      /\ \A j \in 1 .. n : order'[j] = order[j]
  BY <1>3, <1>4
<1>6. x \notin Accepted
  BY <1>2 DEF BfsInv, Accepted
<1>7. RootAt(r)'
  <2>1. ASSUME NEW j \in 1 .. r - 1, NEW y, y \in Successors(order[j])'
        PROVE  \E q \in 1 .. r - 1 : order'[q] = y
    <3>1. \A q \in 1 .. r - 1 : q \in 1 .. n
      BY <1>4
    <3>2. y \in Successors(order[j])
      BY <1>2, <1>5, <2>1, <3>1 DEF Successors
    <3>3. PICK q \in 1 .. r - 1 : order[q] = y
      BY <3>2 DEF Component, RootAt
    <3> QED
      BY <1>5, <3>1, <3>3
  <2>2. order'[r] = i' /\ r - 1 <= front' /\ r <= front'
    BY <1>2, <1>3, <1>4, <1>5 DEF Component, RootAt
  <2> QED
    BY <2>1, <2>2 DEF RootAt
<1>8. Parents(r)'
  <2>1. ASSUME NEW j \in r + 1 .. n + 1
        PROVE  \E p \in r .. n + 1 : p <= front' /\ order'[j] \in Successors(order[p])'
    <3>1. CASE j = n + 1
      <4> PICK p \in r .. n : p = front
        BY <1>4
      <4>1. p \in 1 .. n /\ p \in r .. n + 1 /\ p <= front'
        BY <1>3, <1>4
      <4>2. order'[p] = v /\ order'[j] = x
        BY <1>4, <1>5, <3>1, <4>1
      <4>3. order'[j] \in Successors(order[p])'
        BY <1>2, <4>2 DEF Successors
      <4> QED
        BY <4>1, <4>3
    <3>2. CASE j # n + 1
      <4>1. j \in r + 1 .. n /\ j \in 1 .. n
        BY <1>4, <3>2
      <4>2. PICK p \in r .. n : p <= front /\ order[j] \in Successors(order[p])
        BY <4>1 DEF Component, Parents
      <4>3. p \in r .. n + 1 /\ p \in 1 .. n /\ p <= front'
        BY <1>3, <1>4, <4>2
      <4>4. order'[p] = order[p] /\ order'[j] = order[j]
        BY <1>5, <4>1, <4>3
      <4>5. order'[j] \in Successors(order[p])'
        BY <1>2, <4>2, <4>4 DEF Successors
      <4> QED
        BY <4>3, <4>5
    <3> QED
      BY <3>1, <3>2
  <2> QED
    BY <1>5, <2>1 DEF Parents
<1>9. ASSUME NEW b, Grows(b)' PROVE Reaches(b, r)' /\ Ordered(b, r)'
  <2>1. Grows(b)
    BY <1>2, <1>9, GrowsStays
  <2>2. Reaches(b, r) /\ Ordered(b, r)
    BY <2>1 DEF Component
  <2>3. ASSUME NEW j \in r .. n + 1 PROVE order'[j] \in b[j - r]
    <3>1. CASE j = n + 1
      <4>1. /\ front - r \in Nat /\ (front - r) + 1 \in Nat /\ j - r \in Nat
            /\ (front - r) + 1 <= j - r /\ front \in r .. n
        BY <1>4, <3>1
      <4>2. order[front] \in b[front - r]
        BY <2>2, <4>1 DEF Reaches
      <4>3. x \in b[(front - r) + 1]
        BY <1>2, <1>4, <2>1, <4>1, <4>2 DEF Grows
      <4>4. x \in b[j - r]
        BY <2>1, <4>1, <4>3, Larger
      <4> QED
        BY <1>5, <3>1, <4>4
    <3>2. CASE j # n + 1
      <4>1. j \in r .. n /\ j \in 1 .. n
        BY <1>4, <3>2
      <4> QED
        BY <1>5, <2>2, <4>1 DEF Reaches
    <3> QED
      BY <3>1, <3>2
  <2>4. ASSUME NEW j1 \in r .. n + 1, NEW j2 \in r .. n + 1, NEW d \in Nat,
               j1 <= j2, order'[j2] \in b[d]
        PROVE  order'[j1] \in b[d]
    <3>1. CASE j2 = n + 1 /\ j1 # n + 1
      <4>1. j1 \in r .. n /\ j1 \in 1 .. n
        BY <1>4, <3>1
      <4>2. x \in b[d] \ Accepted
        BY <1>5, <1>6, <2>4, <3>1
      <4>3. order[j1] \in b[d]
        BY <1>1, <2>1, <4>1, <4>2, Farther
      <4> QED
        BY <1>5, <4>1, <4>3
    <3>2. CASE j2 # n + 1
      <4>1. /\ j1 \in r .. n /\ j1 \in 1 .. n
            /\ j2 \in r .. n /\ j2 \in 1 .. n
        BY <1>4, <2>4, <3>2
      <4> QED
        BY <1>5, <2>2, <2>4, <4>1 DEF Ordered
    <3>3. CASE j1 = n + 1
      <4>1. j2 = j1
        BY <2>4, <3>3
      <4> QED
        BY <2>4, <4>1
    <3> QED
      BY <3>1, <3>2, <3>3
  <2>5. Reaches(b, r)'
    BY <1>5, <2>3 DEF Reaches
  <2>6. Ordered(b, r)'
    BY <1>5, <2>4 DEF Ordered
  <2> QED
    BY <2>5, <2>6
<1> QED
  BY <1>7, <1>8, <1>9 DEF Component

LEMMA BfsOrderStep == BfsInv /\ BfsProgress /\ BfsOrder /\ [Next]_vars => BfsOrder'
<1> SUFFICES ASSUME BfsInv, BfsProgress, BfsOrder, [Next]_vars PROVE BfsOrder'
  OBVIOUS
<1>1. CASE Root
  BY <1>1, NewComponent
<1>2. CASE ArcNew
  <2>1. PICK r \in 1 .. Len(order) : Component(r)
    BY <1>2 DEF ArcNew, BfsOrder
  <2>2. Component(r)'
    BY <1>2, <2>1, ComponentGrows
  <2>3. r \in 1 .. Len(order')
    BY <1>2 DEF ArcNew, Visit, BfsInv, BfsShape
  <2> QED
    BY <2>2, <2>3 DEF BfsOrder
<1>3. CASE Expand
  <2>1. PICK r \in 1 .. Len(order) : Component(r)
    BY <1>3 DEF Expand, BfsOrder
  <2>2. front \in 0 .. N /\ front <= rear /\ rear \in 0 .. N /\ front # rear
    BY <1>3 DEF Expand, Queue!Deq, Queue!Empty, BfsInv, RingHoldsOrder
  <2>3. front < N /\ front' = Queue!Step(front)
    BY <1>3, <2>2, NAssumption DEF Expand, Queue!Deq
  <2>4. front' = front + 1 /\ front \in Nat
    BY <2>2, <2>3, StepBelowEnd
  <2>5. UNCHANGED <<arcs, i, order>>
    BY <1>3 DEF Expand
  <2>6. r <= front' /\ front' \in Nat /\ front <= front'
    BY <2>1, <2>4 DEF Component, RootAt
  <2>7. Component(r)'
    BY <2>1, <2>5, <2>6, ComponentStays
  <2> QED
    BY <2>5, <2>7 DEF BfsOrder
<1>4. CASE ArcOld \/ ArcsEnd \/ UNCHANGED vars
  <2>1. UNCHANGED <<arcs, i, order, front>> /\ (pc' = pc \/ (pc = "arcs" /\ pc' = "queue"))
    BY <1>4 DEF ArcOld, ArcsEnd, vars, traversal, queue
  <2>2. SUFFICES ASSUME pc' \in {"queue", "arcs"} PROVE BfsOrder'
    BY DEF BfsOrder
  <2>3. pc \in {"queue", "arcs"}
    BY <2>1, <2>2
  <2>4. PICK r \in 1 .. Len(order) : Component(r)
    BY <2>3 DEF BfsOrder
  <2>5. front' \in Nat /\ front <= front' /\ (pc' = "arcs" => r <= front')
    BY <2>1, <2>4, NAssumption DEF BfsInv, RingHoldsOrder, Component, RootAt
  <2>6. Component(r)'
    BY <2>1, <2>4, <2>5, ComponentStays
  <2> QED
    BY <2>1, <2>6 DEF BfsOrder
<1>5. CASE SkipRoot \/ Finish \/ Drained
  BY <1>5 DEF SkipRoot, Finish, Drained, BfsOrder
<1> QED
  BY <1>1, <1>2, <1>3, <1>4, <1>5 DEF Next

LEMMA BfsOrders == BfsInv /\ BfsOrder => NearerFirst
<1> SUFFICES ASSUME BfsInv, BfsOrder, pc \in {"queue", "arcs"},
                    NEW j1 \in DOMAIN order, NEW j2 \in DOMAIN order, j1 <= j2,
                    NEW j0 \in 1 .. j1, order[j0] = i
             PROVE  /\ order[j2] \in Reachable({i})
                    /\ \A d \in 0 .. N : order[j2] \in Ball({i}, d) => order[j1] \in Ball({i}, d)
  BY DEF NearerFirst
<1>1. /\ order \in Seq(Vertices) /\ DOMAIN order = 1 .. Len(order) /\ Len(order) \in Nat
      /\ Len(order) <= N /\ N \in Nat
  BY NAssumption, MostVertices DEF BfsInv, BfsShape
<1>2. PICK r \in 1 .. Len(order) : Component(r)
  BY DEF BfsOrder
<1>3. r = j0
  BY <1>1, <1>2 DEF Component, RootAt, BfsInv, Distinct
<1>4. i \in Vertices /\ arcs \in [Vertices -> Seq(Vertices)]
  BY <1>1 DEF BfsInv, BfsShape
<1>5. PICK b : Grows(b) /\ \A d \in Nat : Ball({i}, d) = b[d]
  BY <1>4, BallGrows
<1>6. Reaches(b, r) /\ Ordered(b, r)
  BY <1>2, <1>5 DEF Component
<1>7. /\ j1 \in r .. Len(order) /\ j2 \in r .. Len(order)
      /\ j2 - r \in Nat /\ j2 - r <= N
  BY <1>1, <1>3
<1>8. order[j2] \in Reachable({i})
  <2>1. order[j2] \in b[j2 - r]
    BY <1>6, <1>7 DEF Reaches
  <2>2. order[j2] \in b[N]
    BY <1>1, <1>5, <1>7, <2>1, Larger
  <2> QED
    BY <1>1, <1>5, <2>2 DEF Reachable
<1>9. ASSUME NEW d \in 0 .. N, order[j2] \in Ball({i}, d) PROVE order[j1] \in Ball({i}, d)
  <2>1. d \in Nat /\ order[j2] \in b[d]
    BY <1>5, <1>9
  <2>2. order[j1] \in b[d]
    BY <1>6, <1>7, <2>1 DEF Ordered
  <2> QED
    BY <1>5, <2>1, <2>2
<1> QED
  BY <1>8, <1>9

-----------------------------------------------------------------------------
(***************************************************************************)
(* Depth first (al_graph_traverse_dfs).                                    *)
(***************************************************************************)
(***************************************************************************)
(* The inductive invariant.  Marked: what visited[] and the history say.   *)
(* Path: the active calls.  CallsFollowPath is not inductive without the   *)
(* facts that active vertices are visited, so that Dfs!Descend cannot call dfs *)
(* on one of them.                                                         *)
(***************************************************************************)
Frame == [v : Vertices, k : Nat \ {0}]

DfsShape ==
  /\ arcs \in [Vertices -> Seq(Vertices)]
  /\ done \in BOOLEAN
  /\ i \in 0 .. N
  /\ frames \in Seq(Frame)
  /\ visited \in [Vertices -> BOOLEAN]
  /\ order \in Seq(Vertices)
  /\ Len(frames) # 0 => i < N /\ frames[1].v = i
  /\ done => i = N

Marked ==
  /\ Distinct(order)
  /\ \A x \in Vertices : visited[x] <=> \E j \in DOMAIN order : order[j] = x

Path ==
  /\ \A j \in 1 .. Len(frames) - 1 :
       /\ frames[j].k \in DOMAIN arcs[frames[j].v]
       /\ frames[j + 1].v = arcs[frames[j].v][frames[j].k]
  /\ \A j1, j2 \in DOMAIN frames : frames[j1].v = frames[j2].v => j1 = j2
  /\ \A j \in DOMAIN frames : visited[frames[j].v]

DfsInv == DfsShape /\ Marked /\ Path

-----------------------------------------------------------------------------
\* what a call does to the calls below it
LEMMA Push ==
  ASSUME NEW fs \in Seq(Frame), NEW x \in Vertices, Dfs!Call(x, fs)
  PROVE  /\ frames' \in Seq(Frame)
         /\ Len(frames') = Len(fs) + 1
         /\ frames'[Len(fs) + 1].v = x
         /\ \A j \in 1 .. Len(fs) : frames'[j] = fs[j]
<1>1. [v |-> x, k |-> 1] \in Frame
  BY DEF Frame
<1>2. frames' = Append(fs, [v |-> x, k |-> 1])
  BY DEF Dfs!Call
<1> QED
  BY <1>1, <1>2, AppendProperties

LEMMA FrameTypes ==
  ASSUME frames \in Seq(Frame)
  PROVE  /\ DOMAIN frames = 1 .. Len(frames) /\ Len(frames) \in Nat
         /\ \A j \in 1 .. Len(frames) : /\ frames[j] \in Frame
                                        /\ frames[j].v \in Vertices
                                        /\ frames[j].k \in Nat \ {0}
<1>1. /\ DOMAIN frames = 1 .. Len(frames) /\ Len(frames) \in Nat
      /\ \A j \in 1 .. Len(frames) : frames[j] \in Frame
  OBVIOUS
<1>2. \A f \in Frame : f.v \in Vertices /\ f.k \in Nat \ {0}
  BY DEF Frame
<1> QED
  BY <1>1, <1>2

LEMMA TopIs ==
  ASSUME frames \in Seq(Frame), frames # <<>>
  PROVE  /\ Len(frames) \in Nat /\ Len(frames) \in 1 .. Len(frames)
         /\ Dfs!Top \in Frame /\ Dfs!Top.v \in Vertices /\ Dfs!Top.k \in Nat \ {0}
         /\ Dfs!Top = frames[Len(frames)]
         /\ Dfs!Below \in Seq(Frame)
         /\ Len(Dfs!Below) = Len(frames) - 1
         /\ \A j \in 1 .. Len(frames) - 1 : Dfs!Below[j] = frames[j]
<1>0. Len(frames) \in Nat \ {0}
  BY EmptySeq
<1>1. Len(frames) \in Nat /\ Len(frames) \in 1 .. Len(frames)
  BY <1>0
<1>2. Dfs!Top \in Frame /\ Dfs!Top = frames[Len(frames)]
  BY <1>1 DEF Dfs!Top
<1>3. Dfs!Top.v \in Vertices /\ Dfs!Top.k \in Nat \ {0}
  BY <1>2 DEF Frame
<1>4. \A j \in 1 .. Len(frames) - 1 : frames[j] \in Frame
  BY <1>1
<1>5. /\ Dfs!Below \in Seq(Frame)
      /\ Len(Dfs!Below) = IF 1 <= Len(frames) - 1 THEN Len(frames) - 1 - 1 + 1 ELSE 0
      /\ \A j \in 1 .. Len(frames) - 1 - 1 + 1 : Dfs!Below[j] = frames[1 + j - 1]
  BY <1>1, <1>4, SubSeqProperties DEF Dfs!Below
<1>6. \A j \in 1 .. Len(frames) - 1 : j \in 1 .. Len(frames) - 1 - 1 + 1 /\ 1 + j - 1 = j
  BY <1>1
<1>7. Len(Dfs!Below) = Len(frames) - 1
  <2>1. CASE Len(frames) = 1
    BY <1>5, <2>1
  <2>2. CASE Len(frames) # 1
    <3>1. 1 <= Len(frames) - 1
      <4>1. \A l \in Nat \ {0} : l # 1 => 1 <= l - 1
        OBVIOUS
      <4> QED
        BY <4>1, <1>0, <2>2
    <3>2. Len(Dfs!Below) = Len(frames) - 1 - 1 + 1
      BY <1>5, <3>1
    <3> QED
      BY <1>1, <3>2
  <2> QED
    BY <2>1, <2>2
<1> QED
  BY <1>1, <1>2, <1>3, <1>5, <1>6, <1>7

\* accepting a vertex keeps Marked
LEMMA CallMarks ==
  ASSUME DfsShape, Marked, NEW x \in Vertices, ~visited[x], NEW fs, Dfs!Call(x, fs)
  PROVE  /\ Marked'
         /\ order' \in Seq(Vertices)
         /\ visited' \in [Vertices -> BOOLEAN]
         /\ \A y \in Vertices : visited'[y] <=> y = x \/ visited[y]
<1>1. order' = Append(order, x) /\ visited' = [visited EXCEPT ![x] = TRUE]
  BY DEF Dfs!Call
<1>2. order \in Seq(Vertices) /\ \A j \in 1 .. Len(order) : order[j] # x
  BY DEF Marked, DfsShape
<1>3. order' \in Seq(Vertices) /\ Distinct(order')
  BY <1>1, <1>2, OneMoreVertex DEF DfsShape, Marked
<1>4. /\ visited' \in [Vertices -> BOOLEAN]
      /\ \A y \in Vertices : visited'[y] <=> y = x \/ visited[y]
  BY <1>1 DEF DfsShape
<1>5. ASSUME NEW y \in Vertices
      PROVE  (\E j \in DOMAIN order' : order'[j] = y)
               <=> y = x \/ \E j \in DOMAIN order : order[j] = y
  <2>1. /\ Len(order') = Len(order) + 1 /\ order'[Len(order) + 1] = x
        /\ DOMAIN order' = 1 .. Len(order) + 1 /\ DOMAIN order = 1 .. Len(order)
        /\ \A j \in 1 .. Len(order) : order'[j] = order[j]
        /\ Len(order) \in Nat
    BY <1>1 DEF DfsShape
  <2> QED
    BY <2>1
<1> QED
  BY <1>3, <1>4, <1>5 DEF Marked, Distinct

-----------------------------------------------------------------------------
LEMMA DfsInvInit == Dfs!Init => DfsInv
<1> SUFFICES ASSUME Dfs!Init PROVE DfsInv
  OBVIOUS
<1>1. DfsShape
  <2>1. frames \in Seq(Frame) /\ Len(frames) = 0 /\ order \in Seq(Vertices)
    BY EmptySeq DEF Dfs!Init, Dfs!Vertices, Vertices
  <2>2. visited \in [Vertices -> BOOLEAN]
    BY DEF Dfs!Init, Dfs!Vertices, Vertices
  <2>3. arcs \in [Vertices -> Seq(Vertices)]
    BY GraphsAssumption DEF Dfs!Init, Dfs!Vertices, Vertices
  <2>4. done \in BOOLEAN /\ (done => i = N)
    BY DEF Dfs!Init, Dfs!Vertices, Vertices
  <2>5. i \in 0 .. N
    BY NAssumption DEF Dfs!Init, Dfs!Vertices, Vertices
  <2> QED
    BY <2>1, <2>2, <2>3, <2>4, <2>5 DEF DfsShape
<1>2. Marked /\ Path
  BY DEF Dfs!Init, Dfs!Vertices, Vertices, Marked, Path, Distinct
<1> QED
  BY <1>1, <1>2 DEF DfsInv

LEMMA DfsInvStep == DfsInv /\ [Dfs!Next]_(Dfs!vars) => DfsInv'
<1> SUFFICES ASSUME DfsInv, [Dfs!Next]_(Dfs!vars) PROVE DfsInv'
  OBVIOUS
<1>a. DfsShape /\ Marked /\ Path
  BY DEF DfsInv
<1>1. CASE Dfs!Root
  <2>1. i \in Vertices /\ ~visited[i] /\ Dfs!Call(i, <<>>) /\ i < N
    BY <1>1, <1>a, NAssumption DEF Dfs!Root, DfsShape, Vertices
  <2>2. UNCHANGED <<arcs, done, i>> /\ ~done
    BY <1>1 DEF Dfs!Root
  <2>3. <<>> \in Seq(Frame) /\ Len(<<>>) = 0
    BY EmptySeq
  <2>a. /\ frames' \in Seq(Frame) /\ Len(frames') = Len(<<>>) + 1
        /\ frames'[Len(<<>>) + 1].v = i
    BY <2>1, <2>3, Push
  <2>4. /\ frames' \in Seq(Frame) /\ Len(frames') = 1 /\ frames'[1].v = i
    BY <2>3, <2>a
  <2>5. Marked' /\ DfsShape'
    BY <1>a, <2>1, <2>2, <2>4, CallMarks DEF DfsShape
  <2>6. Path'
    BY <1>a, <2>1, <2>4, CallMarks DEF Path
  <2> QED
    BY <2>5, <2>6 DEF DfsInv
<1>2. CASE Dfs!Descend
  <2> DEFINE x == arcs[Dfs!Top.v][Dfs!Top.k]
             n == Len(frames)
  <2>1. /\ frames # <<>> /\ Dfs!Top.k <= Len(arcs[Dfs!Top.v]) /\ ~visited[x]
        /\ Dfs!Call(x, frames) /\ UNCHANGED <<arcs, done, i>>
    BY <1>2 DEF Dfs!Descend
  <2>2. /\ n \in 1 .. n /\ Dfs!Top.v \in Vertices /\ Dfs!Top.k \in Nat \ {0} /\ n \in Nat
    BY <1>a, <2>1, TopIs DEF DfsShape
  <2>3. x \in Vertices /\ Dfs!Top.k \in DOMAIN arcs[Dfs!Top.v]
    BY <1>a, <2>1, <2>2 DEF DfsShape
  <2>4. /\ frames' \in Seq(Frame) /\ Len(frames') = n + 1 /\ frames'[n + 1].v = x
        /\ \A j \in 1 .. n : frames'[j] = frames[j]
    BY <1>a, <2>1, <2>3, Push DEF DfsShape
  <2>5. Marked' /\ DfsShape'
    BY <1>a, <2>1, <2>2, <2>3, <2>4, CallMarks DEF DfsShape
  <2>6. \A j \in 1 .. n : frames[j].v \in Vertices
    BY <1>a, FrameTypes DEF DfsShape
  <2>7. \A j \in 1 .. n + 1 : visited'[frames'[j].v]
    BY <1>a, <2>1, <2>2, <2>3, <2>4, <2>6, CallMarks DEF Path
  <2>8. \A j \in 1 .. n : /\ frames'[j].k \in DOMAIN arcs[frames'[j].v]
                          /\ frames'[j + 1].v = arcs[frames'[j].v][frames'[j].k]
    <3>1. TAKE j \in 1 .. n
    <3>2. CASE j = n
      BY <2>2, <2>3, <2>4, <3>2 DEF Dfs!Top
    <3>3. CASE j # n
      <4>1. j \in 1 .. n - 1 /\ j + 1 \in 1 .. n
        BY <2>2, <3>3
      <4> QED
        BY <1>a, <2>4, <4>1 DEF Path
    <3> QED
      BY <3>2, <3>3
  <2>9. \A j1, j2 \in 1 .. n + 1 : frames'[j1].v = frames'[j2].v => j1 = j2
    <3>1. \A j \in 1 .. n : frames'[j].v = frames[j].v /\ frames[j].v # x
      BY <1>a, <2>1, <2>4, FrameTypes DEF Path, DfsShape
    <3>2. \A j1, j2 \in 1 .. n : frames[j1].v = frames[j2].v => j1 = j2
      BY <1>a, FrameTypes DEF Path, DfsShape
    <3>3. \A j \in 1 .. n + 1 : j = n + 1 \/ j \in 1 .. n
      BY <2>2
    <3> QED
      BY <2>4, <3>1, <3>2, <3>3
  <2>10. DOMAIN frames' = 1 .. n + 1 /\ Len(frames') - 1 = n /\ arcs' = arcs
    BY <2>1, <2>2, <2>4
  <2>11. Path'
    BY <2>7, <2>8, <2>9, <2>10 DEF Path
  <2> QED
    BY <2>5, <2>11 DEF DfsInv
<1>3. CASE Dfs!NextArc
  <2> DEFINE n == Len(frames)
  <2>1. /\ frames # <<>> /\ Dfs!Top.k <= Len(arcs[Dfs!Top.v])
        /\ frames' = [frames EXCEPT ![n].k = @ + 1]
        /\ UNCHANGED <<arcs, done, i, visited, order>>
    BY <1>3 DEF Dfs!NextArc
  <2>2. n \in Nat /\ n \in 1 .. n /\ Dfs!Top.v \in Vertices /\ Dfs!Top.k \in Nat \ {0} /\ Dfs!Top = frames[n]
    BY <1>a, <2>1, TopIs DEF DfsShape, Dfs!Top
  <2>3. [Dfs!Top EXCEPT !.k = Dfs!Top.k + 1] \in Frame
    <3>1. Dfs!Top \in Frame
      BY <1>a, <2>1, TopIs DEF DfsShape
    <3> QED
      BY <2>2, <3>1 DEF Frame
  <2>4. /\ frames' \in Seq(Frame) /\ Len(frames') = n /\ DOMAIN frames' = DOMAIN frames
    BY <1>a, <2>1, <2>2, <2>3 DEF DfsShape
  <2>5. \A j \in 1 .. n - 1 : frames'[j] = frames[j]
    BY <1>a, <2>1, <2>2 DEF DfsShape
  <2>6. \A j \in 1 .. n : frames'[j].v = frames[j].v
    BY <1>a, <2>1, <2>2 DEF DfsShape, Frame
  <2>7. DfsShape'
    <3>1. frames'[1].v = frames[1].v /\ Len(frames) # 0
      BY <2>2, <2>6
    <3> QED
      BY <1>a, <2>1, <2>4, <3>1 DEF DfsShape
  <2>8. Marked'
    BY <1>a, <2>1 DEF Marked, Distinct
  <2>9. Path'
    <3>1. \A j \in 1 .. n - 1 : /\ frames'[j].k \in DOMAIN arcs'[frames'[j].v]
                                /\ frames'[j + 1].v = arcs'[frames'[j].v][frames'[j].k]
      <4>1. TAKE j \in 1 .. n - 1
      <4>2. j + 1 \in 1 .. n /\ j \in 1 .. n
        BY <2>2
      <4> QED
        BY <1>a, <2>1, <2>5, <2>6, <4>2 DEF Path
    <3> QED
      BY <1>a, <2>1, <2>4, <2>6, <3>1 DEF Path, DfsShape
  <2> QED
    BY <2>7, <2>8, <2>9 DEF DfsInv
<1>4. CASE Dfs!Return
  <2> DEFINE n == Len(frames)
  <2>1. /\ frames # <<>> /\ frames' = Dfs!Below
        /\ i' = IF n = 1 THEN i + 1 ELSE i
        /\ UNCHANGED <<arcs, done, visited, order>>
    BY <1>4 DEF Dfs!Return
  <2>2. /\ n \in Nat /\ n \in 1 .. n /\ frames' \in Seq(Frame) /\ Len(frames') = n - 1
        /\ \A j \in 1 .. n - 1 : frames'[j] = frames[j]
    BY <1>a, <2>1, TopIs DEF DfsShape
  <2>3. i < N /\ i \in 0 .. N /\ ~done
    BY <1>a, <2>1, NAssumption DEF DfsShape
  <2>4. Len(frames') # 0 => n # 1 /\ frames'[1].v = i
    <3>1. Len(frames') # 0 => n # 1 /\ 1 \in 1 .. n - 1 /\ n # 0
      BY <2>2
    <3> QED
      BY <1>a, <2>1, <2>2, <3>1 DEF DfsShape
  <2>5. DfsShape'
    BY <1>a, <2>1, <2>2, <2>3, <2>4, NAssumption DEF DfsShape
  <2>6. Marked'
    BY <1>a, <2>1 DEF Marked, Distinct
  <2>7. \A j \in 1 .. n - 1 : j \in DOMAIN frames
    BY <1>a, FrameTypes DEF DfsShape
  <2>8. Path'
    <3>1. DOMAIN frames' = 1 .. n - 1 /\ Len(frames') - 1 = n - 2
      BY <2>2
    <3>2. \A j \in 1 .. n - 2 : j \in 1 .. n - 1 /\ j + 1 \in 1 .. n - 1
      BY <2>2
    <3>3. \A j \in 1 .. n - 2 : /\ frames'[j].k \in DOMAIN arcs'[frames'[j].v]
                                /\ frames'[j + 1].v = arcs'[frames'[j].v][frames'[j].k]
      BY <1>a, <2>1, <2>2, <3>2 DEF Path
    <3>4. \A j \in 1 .. n - 1 : visited'[frames'[j].v]
      BY <1>a, <2>1, <2>2, <2>7 DEF Path
    <3>5. \A j1, j2 \in 1 .. n - 1 : frames'[j1].v = frames'[j2].v => j1 = j2
      BY <1>a, <2>2, <2>7 DEF Path
    <3> QED
      BY <3>1, <3>3, <3>4, <3>5 DEF Path
  <2> QED
    BY <2>5, <2>6, <2>8 DEF DfsInv
<1> USE DEF DfsInv, DfsShape, Marked, Path, Distinct
<1>5. CASE Dfs!SkipRoot
  BY <1>5, NAssumption DEF Dfs!SkipRoot
<1>6. CASE Dfs!Finish
  BY <1>6 DEF Dfs!Finish
<1>7. CASE UNCHANGED Dfs!vars
  BY <1>7 DEF Dfs!vars
<1> QED
  BY <1>1, <1>2, <1>3, <1>4, <1>5, <1>6, <1>7 DEF Dfs!Next

-----------------------------------------------------------------------------
(***************************************************************************)
(* For completeness: roots below i are visited, every visited vertex has   *)
(* an active call or only visited successors, and an active call has       *)
(* followed the arcs before the one it looks at.                           *)
(***************************************************************************)
HasCall(x) == \E j \in 1 .. Len(frames) : frames[j].v = x
Followed(x) == \A p \in DOMAIN arcs[x] : visited[arcs[x][p]]

DfsProgress ==
  /\ \A x \in 0 .. i - 1 : visited[x]
  /\ \A x \in Vertices : visited[x] => HasCall(x) \/ Followed(x)
  /\ \A j \in 1 .. Len(frames) : \A p \in 1 .. frames[j].k - 1 :
       p \in DOMAIN arcs[frames[j].v] => visited[arcs[frames[j].v][p]]

LEMMA DfsProgressInit == Dfs!Init => DfsProgress
<1> SUFFICES ASSUME Dfs!Init PROVE DfsProgress
  OBVIOUS
<1>1. Len(frames) = 0
  BY EmptySeq DEF Dfs!Init, Dfs!Vertices, Vertices
<1>2. i = 0 /\ \A x \in Vertices : ~visited[x]
  BY DEF Dfs!Init, Dfs!Vertices, Vertices
<1> QED
  BY <1>1, <1>2 DEF DfsProgress

\* a call on top of the calls fs, which are the active ones
LEMMA CallProgress ==
  ASSUME DfsInv, DfsInv', DfsProgress, NEW x \in Vertices, ~visited[x],
         Dfs!Call(x, frames), UNCHANGED <<arcs, i>>
  PROVE  DfsProgress'
<1>a. DfsShape /\ Marked /\ Path
  BY DEF DfsInv
<1>1. /\ Len(frames) \in Nat /\ Len(frames') = Len(frames) + 1
      /\ frames'[Len(frames) + 1].v = x
      /\ \A j \in 1 .. Len(frames) : frames'[j] = frames[j]
  BY <1>a, Push, FrameTypes DEF DfsShape
<1>2. frames'[Len(frames) + 1].k = 1
  BY <1>a, AppendProperties DEF Dfs!Call, DfsShape
<1>3. \A y \in Vertices : visited'[y] <=> y = x \/ visited[y]
  BY <1>a, CallMarks
<1>4. \A y \in 0 .. i - 1 : y \in Vertices
  BY <1>a, NAssumption DEF DfsShape, Vertices
<1>5. \A y \in Vertices : Followed(y) => Followed(y)'
  BY <1>a, <1>3 DEF Followed, DfsShape
<1>6. \A y \in Vertices : HasCall(y) \/ y = x => HasCall(y)'
  BY <1>1 DEF HasCall
<1>7. ASSUME NEW j \in 1 .. Len(frames'), NEW p \in 1 .. frames'[j].k - 1,
             p \in DOMAIN arcs'[frames'[j].v]
      PROVE  visited'[arcs'[frames'[j].v][p]]
  <2>1. j \in 1 .. Len(frames)
    BY <1>1, <1>2, <1>7
  <2>2. frames[j].v \in Vertices /\ frames'[j] = frames[j]
    BY <1>a, <1>1, <2>1, FrameTypes DEF DfsShape
  <2>3. arcs[frames[j].v][p] \in Vertices /\ visited[arcs[frames[j].v][p]]
    BY <1>a, <1>7, <2>1, <2>2 DEF DfsProgress, DfsShape
  <2> QED
    BY <1>3, <2>2, <2>3
<1>8. \A y \in 0 .. i' - 1 : visited'[y]
  BY <1>3, <1>4 DEF DfsProgress
<1>9. \A y \in Vertices : visited'[y] => HasCall(y)' \/ Followed(y)'
  BY <1>3, <1>5, <1>6 DEF DfsProgress
<1> QED
  BY <1>7, <1>8, <1>9 DEF DfsProgress

LEMMA DfsProgressStep == DfsInv /\ DfsProgress /\ [Dfs!Next]_(Dfs!vars) => DfsProgress'
<1> SUFFICES ASSUME DfsInv, DfsProgress, [Dfs!Next]_(Dfs!vars) PROVE DfsProgress'
  OBVIOUS
<1>a. DfsShape /\ Marked /\ Path /\ DfsInv'
  BY DfsInvStep DEF DfsInv
<1> DEFINE n == Len(frames)
<1>1. CASE Dfs!Root
  BY <1>1, <1>a, NAssumption, CallProgress DEF Dfs!Root, DfsShape, Vertices
<1>2. CASE Dfs!Descend
  <2>1. Dfs!Top.v \in Vertices /\ Dfs!Top.k \in Nat \ {0} /\ Dfs!Top.k <= Len(arcs[Dfs!Top.v])
    BY <1>2, <1>a, TopIs DEF Dfs!Descend, DfsShape
  <2>2. arcs[Dfs!Top.v][Dfs!Top.k] \in Vertices
    BY <1>a, <2>1 DEF DfsShape
  <2> QED
    BY <1>2, <1>a, <2>2, CallProgress DEF Dfs!Descend
<1>3. CASE Dfs!NextArc
  <2>1. /\ frames # <<>> /\ Dfs!Top.k <= Len(arcs[Dfs!Top.v]) /\ visited[arcs[Dfs!Top.v][Dfs!Top.k]]
        /\ frames' = [frames EXCEPT ![n].k = @ + 1]
        /\ UNCHANGED <<arcs, i, visited>>
    BY <1>3 DEF Dfs!NextArc
  <2>2. n \in Nat /\ n \in 1 .. n /\ Dfs!Top.k \in Nat \ {0} /\ Dfs!Top = frames[n]
    BY <1>a, <2>1, TopIs DEF DfsShape
  <2>3. DOMAIN frames = 1 .. n /\ \A j \in 1 .. n : frames[j] \in Frame
    BY <1>a, FrameTypes DEF DfsShape
  <2>4. /\ Len(frames') = n
        /\ \A j \in 1 .. n - 1 : frames'[j] = frames[j]
        /\ frames'[n] = [frames[n] EXCEPT !.k = @ + 1]
    BY <1>a, <2>1, <2>2, <2>3 DEF DfsShape
  <2>5. frames'[n].v = Dfs!Top.v /\ frames'[n].k = Dfs!Top.k + 1
    BY <2>2, <2>3, <2>4 DEF Frame
  <2>6. \A x : HasCall(x)' <=> HasCall(x)
    <3>1. \A j \in 1 .. n : j = n \/ j \in 1 .. n - 1
      BY <2>2
    <3>2. \A j \in 1 .. n : frames'[j].v = frames[j].v
      BY <2>2, <2>4, <2>5, <3>1
    <3> QED
      BY <2>4, <3>2 DEF HasCall
  <2>7. ASSUME NEW j \in 1 .. n, NEW p \in 1 .. frames'[j].k - 1,
               p \in DOMAIN arcs[frames'[j].v]
        PROVE  visited[arcs[frames'[j].v][p]]
    <3>1. CASE j # n
      BY <2>2, <2>4, <2>7, <3>1 DEF DfsProgress
    <3>2. CASE j = n
      <4>1. p = Dfs!Top.k \/ p \in 1 .. Dfs!Top.k - 1
        BY <2>2, <2>5, <2>7, <3>2
      <4> QED
        BY <2>1, <2>2, <2>5, <2>7, <3>2, <4>1 DEF DfsProgress
    <3> QED
      BY <3>1, <3>2
  <2> QED
    BY <2>1, <2>4, <2>6, <2>7 DEF DfsProgress, Followed
<1>4. CASE Dfs!Return
  <2>1. /\ frames # <<>> /\ Dfs!Top.k > Len(arcs[Dfs!Top.v]) /\ frames' = Dfs!Below
        /\ i' = IF n = 1 THEN i + 1 ELSE i
        /\ UNCHANGED <<arcs, visited>>
    BY <1>4 DEF Dfs!Return
  <2>2. /\ n \in Nat /\ n \in 1 .. n /\ Dfs!Top = frames[n] /\ Len(frames') = n - 1
        /\ Dfs!Top.v \in Vertices /\ Dfs!Top.k \in Nat \ {0}
        /\ \A j \in 1 .. n - 1 : frames'[j] = frames[j]
    BY <1>a, <2>1, TopIs DEF DfsShape
  <2>3. Followed(Dfs!Top.v)
    <3>1. \A p \in DOMAIN arcs[Dfs!Top.v] : p \in 1 .. Dfs!Top.k - 1
      BY <1>a, <2>1, <2>2 DEF DfsShape
    <3> QED
      BY <2>2, <3>1 DEF DfsProgress, Followed
  <2>4. \A x \in Vertices : visited'[x] => HasCall(x)' \/ Followed(x)'
    <3>1. ASSUME NEW x \in Vertices, HasCall(x), x # Dfs!Top.v
          PROVE  HasCall(x)'
      <4>1. PICK j \in 1 .. n : frames[j].v = x
        BY <3>1 DEF HasCall
      <4>2. j \in 1 .. n - 1
        BY <2>2, <3>1, <4>1
      <4> QED
        BY <2>2, <4>1, <4>2 DEF HasCall
    <3>2. \A x \in Vertices : Followed(x) => Followed(x)'
      BY <2>1 DEF Followed
    <3> QED
      BY <2>1, <2>3, <3>1, <3>2 DEF DfsProgress
  <2>5. \A x \in 0 .. i' - 1 : visited'[x]
    <3>1. CASE n = 1
      <4>1. frames[1].v = i /\ 1 \in DOMAIN frames /\ i \in 0 .. N
        BY <1>a, <3>1, FrameTypes DEF DfsShape
      <4>2. visited[i]
        BY <1>a, <4>1 DEF Path
      <4>3. \A x \in 0 .. i' - 1 : x = i \/ x \in 0 .. i - 1
        BY <2>1, <3>1, <4>1, NAssumption
      <4> QED
        BY <2>1, <4>2, <4>3 DEF DfsProgress
    <3>2. CASE n # 1
      BY <2>1, <3>2 DEF DfsProgress
    <3> QED
      BY <3>1, <3>2
  <2>6. \A j \in 1 .. n - 1 : j \in 1 .. n
    BY <2>2
  <2> QED
    BY <2>1, <2>2, <2>4, <2>5, <2>6 DEF DfsProgress
<1>5. CASE Dfs!SkipRoot
  <2>1. /\ i' = i + 1 /\ i \in 0 .. N /\ visited[i]
        /\ UNCHANGED <<arcs, frames, visited>>
    BY <1>5, <1>a DEF Dfs!SkipRoot, DfsShape
  <2>2. \A x \in 0 .. i' - 1 : x = i \/ x \in 0 .. i - 1
    BY <2>1, NAssumption
  <2> QED
    BY <2>1, <2>2 DEF DfsProgress, HasCall, Followed
<1>6. CASE Dfs!Finish
  BY <1>6 DEF Dfs!Finish, DfsProgress, HasCall, Followed
<1>7. CASE UNCHANGED Dfs!vars
  BY <1>7 DEF Dfs!vars, DfsProgress, HasCall, Followed
<1> QED
  BY <1>1, <1>2, <1>3, <1>4, <1>5, <1>6, <1>7 DEF Dfs!Next

LEMMA DfsTypes == DfsInv => Dfs!TypeOK
<1> SUFFICES ASSUME DfsInv PROVE Dfs!TypeOK
  OBVIOUS
<1>1. Dfs!Frame = Frame /\ Dfs!Vertices = Vertices
  BY DEF Dfs!Frame, Frame, Dfs!Vertices, Vertices
<1> QED
  BY <1>1 DEF DfsInv, DfsShape, Dfs!TypeOK

LEMMA DfsKeeps == DfsInv => (EachOnce /\ Dfs!CallsFollowPath)
<1> SUFFICES ASSUME DfsInv PROVE EachOnce /\ Dfs!CallsFollowPath
  OBVIOUS
<1>1. DOMAIN order = 1 .. Len(order)
  BY DEF DfsInv, DfsShape
<1>2. EachOnce
  BY <1>1 DEF DfsInv, Marked, EachOnce, Accepted, Distinct
<1> QED
  BY <1>2 DEF DfsInv, Path, Dfs!CallsFollowPath

LEMMA DfsDepth == DfsInv => Len(frames) <= N
<1> SUFFICES ASSUME DfsInv PROVE Len(frames) <= N
  OBVIOUS
<1> DEFINE path == [j \in 1 .. Len(frames) |-> frames[j].v]
<1>1. Len(frames) \in Nat /\ path \in Seq(Vertices) /\ Len(path) = Len(frames)
  BY FrameTypes DEF DfsInv, DfsShape
<1>2. Distinct(path)
  <2>1. DOMAIN frames = 1 .. Len(frames) /\ \A j \in 1 .. Len(frames) : path[j] = frames[j].v
    BY FrameTypes DEF DfsInv, DfsShape
  <2> HIDE DEF path
  <2> QED
    BY <1>1, <2>1 DEF DfsInv, Path, Distinct
<1> QED
  BY <1>1, <1>2, MostVertices

LEMMA DfsCloses ==
  ASSUME DfsInv, DfsProgress
  PROVE  Dfs!Closed
<1>0. Dfs!Accepted = Accepted /\ Dfs!Vertices = Vertices /\ \A x : Dfs!Successors(x) = Successors(x)
  BY DEF Dfs!Accepted, Accepted, Dfs!Vertices, Vertices, Dfs!Successors, Successors
<1>1. \A x \in Vertices : visited[x] <=> x \in Accepted
  BY DEF DfsInv, Marked, DfsShape, Accepted
<1>2. Accepted \subseteq Vertices
  BY DEF DfsInv, DfsShape, Accepted
<1>3. \A x : x \in Dfs!Active <=> HasCall(x)
  BY FrameTypes DEF DfsInv, DfsShape, Dfs!Active, HasCall
<1>4. \A x \in Accepted \ Dfs!Active : Successors(x) \subseteq Accepted
  <2>1. \A x \in Vertices : Followed(x) => \A p \in DOMAIN arcs[x] : arcs[x][p] \in Accepted
    BY <1>1 DEF DfsInv, DfsShape, Followed
  <2> QED
    BY <1>1, <1>2, <1>3, <2>1 DEF DfsProgress, Successors
<1>5. done => Accepted = Vertices
  <2>1. done => \A x \in Vertices : x \in 0 .. i - 1
    BY DEF DfsInv, DfsShape, Vertices
  <2> QED
    BY <1>1, <1>2, <2>1 DEF DfsProgress
<1> QED
  BY <1>0, <1>4, <1>5 DEF Dfs!Closed

-----------------------------------------------------------------------------
(***************************************************************************)
(* Depth first: the active calls were made in the order their vertices     *)
(* were accepted, so that the top of the C stack is the latest accepted    *)
(* vertex that may still lead to a new one.                                *)
(***************************************************************************)
InOrder ==
  \A a, b \in 1 .. Len(frames), p, q \in 1 .. Len(order) :
    a < b /\ order[p] = frames[a].v /\ order[q] = frames[b].v => p < q

\* LatestFirst for the vertex at j
Seen(j) == {order[j0] : j0 \in 1 .. j - 1}
Open(j) == {j0 \in 1 .. j - 1 : ~(Successors(order[j0]) \subseteq Seen(j))}
LatestAt(j) ==
  IF Open(j) = {}
  THEN \A x \in Vertices \ Seen(j) : order[j] <= x
  ELSE \E j0 \in Open(j) : /\ \A j1 \in Open(j) : j1 <= j0
                           /\ Dfs!FirstNew(arcs[order[j0]], Seen(j), order[j])

DfsOrder == InOrder /\ \A j \in 1 .. Len(order) : LatestAt(j)

LEMMA AppendedOrder ==
  ASSUME order \in Seq(Vertices), NEW x \in Vertices, order' = Append(order, x)
  PROVE  /\ Len(order) \in Nat /\ Len(order') = Len(order) + 1 /\ order'[Len(order) + 1] = x
         /\ \A j \in 1 .. Len(order) : order'[j] = order[j]
BY AppendProperties

LEMMA LatestStays ==
  ASSUME order \in Seq(Vertices), NEW x \in Vertices, order' = Append(order, x), arcs' = arcs,
         NEW j \in 1 .. Len(order), LatestAt(j)
  PROVE  LatestAt(j)'
<1>1. order'[j] = order[j] /\ \A j0 \in 1 .. j - 1 : order'[j0] = order[j0]
  BY AppendedOrder
<1>2. Seen(j)' = Seen(j)
  BY <1>1 DEF Seen
<1>3. \A j0 \in 1 .. j - 1 : Successors(order[j0])' = Successors(order[j0])
  BY <1>1 DEF Successors
<1>4. Open(j)' = Open(j)
  BY <1>2, <1>3 DEF Open
<1>5. ASSUME NEW j0 \in 1 .. j - 1
      PROVE  Dfs!FirstNew(arcs[order[j0]], Seen(j), order[j])'
               <=> Dfs!FirstNew(arcs[order[j0]], Seen(j), order[j])
  BY <1>1, <1>2 DEF Dfs!FirstNew
<1>6. Open(j) \subseteq 1 .. j - 1
  BY DEF Open
<1>7. CASE Open(j) = {}
  BY <1>1, <1>2, <1>4, <1>7 DEF LatestAt
<1>8. CASE Open(j) # {}
  BY <1>4, <1>5, <1>6, <1>8 DEF LatestAt
<1> QED
  BY <1>7, <1>8

LEMMA OrderStays ==
  ASSUME DfsOrder, UNCHANGED <<arcs, order>>, InOrder'
  PROVE  DfsOrder'
<1>1. \A j \in 1 .. Len(order) : LatestAt(j)' <=> LatestAt(j)
  BY DEF LatestAt, Open, Seen, Successors
<1> QED
  BY <1>1 DEF DfsOrder

LEMMA DfsOrderInit == Dfs!Init => DfsOrder
<1> SUFFICES ASSUME Dfs!Init PROVE DfsOrder
  OBVIOUS
<1>1. Len(frames) = 0 /\ Len(order) = 0
  BY DEF Dfs!Init
<1> QED
  BY <1>1 DEF DfsOrder, InOrder

\* a call of dfs for x, the latest vertex that is open or, if none is, the lowest one
LEMMA CallOrders ==
  ASSUME DfsInv, DfsOrder, NEW x \in Vertices, ~visited[x], Dfs!Call(x, frames), arcs' = arcs,
         NEW n \in Nat, n = Len(order), LatestAt(n + 1)'
  PROVE  DfsOrder'
<1>1. order \in Seq(Vertices) /\ order' = Append(order, x) /\ frames \in Seq(Frame)
  BY DEF DfsInv, DfsShape, Dfs!Call
<1>2. /\ Len(order) \in Nat /\ Len(order') = Len(order) + 1 /\ order'[Len(order) + 1] = x
      /\ \A j \in 1 .. Len(order) : order'[j] = order[j] /\ order[j] # x
  BY <1>1, AppendedOrder DEF DfsInv, Marked
<1>3. /\ Len(frames) \in Nat /\ Len(frames') = Len(frames) + 1
      /\ frames'[Len(frames) + 1].v = x
      /\ \A j \in 1 .. Len(frames) : frames'[j] = frames[j]
  BY <1>1, Push, FrameTypes
<1>4. \A j \in 1 .. Len(frames) : frames[j].v # x
  BY <1>1, FrameTypes DEF DfsInv, Path
<1>5. InOrder'
  <2> SUFFICES ASSUME NEW a \in 1 .. Len(frames'), NEW b \in 1 .. Len(frames'),
                      NEW p \in 1 .. Len(order'), NEW q \in 1 .. Len(order'),
                      a < b, order'[p] = frames'[a].v, order'[q] = frames'[b].v
               PROVE  p < q
    BY DEF InOrder
  <2>1. a \in 1 .. Len(frames)
    BY <1>3
  <2>2. p \in 1 .. Len(order) /\ order[p] = frames[a].v
    <3>1. p # Len(order) + 1
      BY <1>2, <1>3, <1>4, <2>1
    <3> QED
      BY <1>2, <1>3, <2>1, <3>1
  <2>3. CASE b = Len(frames) + 1
    <3>1. q = Len(order) + 1
      BY <1>2, <1>3, <2>3
    <3> QED
      BY <1>2, <2>2, <3>1
  <2>4. CASE b # Len(frames) + 1
    <3>1. b \in 1 .. Len(frames)
      <4>1. \A l \in Nat : \A c \in 1 .. l + 1 : c # l + 1 => c \in 1 .. l
        OBVIOUS
      <4>2. b \in 1 .. Len(frames) + 1
        BY <1>3
      <4> QED
        BY <1>3, <2>4, <4>1, <4>2
    <3>2. q \in 1 .. Len(order) /\ order[q] = frames[b].v
      <4>1. q # Len(order) + 1
        BY <1>2, <1>3, <1>4, <3>1
      <4> QED
        BY <1>2, <1>3, <3>1, <4>1
    <3> QED
      BY <2>1, <2>2, <3>1, <3>2 DEF DfsOrder, InOrder
  <2> QED
    BY <2>3, <2>4
<1>6. ASSUME NEW j \in 1 .. Len(order') PROVE LatestAt(j)'
  <2>1. CASE j = n + 1
    BY <2>1
  <2>2. CASE j # n + 1
    <3>1. j \in 1 .. Len(order)
      BY <1>2, <2>2
    <3> QED
      BY <1>1, <3>1, LatestStays DEF DfsOrder
  <2> QED
    BY <2>1, <2>2
<1> QED
  BY <1>5, <1>6 DEF DfsOrder

\* what has been seen and is open before the vertex accepted next
LEMMA SeenNext ==
  ASSUME order \in Seq(Vertices), NEW x \in Vertices, order' = Append(order, x), arcs' = arcs,
         NEW n \in Nat, n = Len(order)
  PROVE  /\ Seen(n + 1)' = Accepted
         /\ Open(n + 1)' = {j \in 1 .. n : ~(Successors(order[j]) \subseteq Accepted)}
<1>1. DOMAIN order = 1 .. n /\ (n + 1) - 1 = n /\ \A j \in 1 .. n : order'[j] = order[j]
  BY AppendedOrder
<1>2. Seen(n + 1)' = Accepted
  BY <1>1 DEF Accepted, Seen
<1>3. \A j \in 1 .. n : Successors(order[j])' = Successors(order[j])
  BY <1>1 DEF Successors
<1>4. Open(n + 1)' = {j \in 1 .. n : ~(Successors(order[j]) \subseteq Accepted)}
  BY <1>1, <1>2, <1>3 DEF Open
<1> QED
  BY <1>2, <1>4

LEMMA DfsOrderStep == DfsInv /\ DfsProgress /\ DfsOrder /\ [Dfs!Next]_(Dfs!vars) => DfsOrder'
<1> SUFFICES ASSUME DfsInv, DfsProgress, DfsOrder, [Dfs!Next]_(Dfs!vars) PROVE DfsOrder'
  OBVIOUS
<1>a. DfsShape /\ Marked /\ Path
  BY DEF DfsInv
<1>b. order \in Seq(Vertices) /\ Len(order) \in Nat /\ DOMAIN order = 1 .. Len(order)
  BY <1>a DEF DfsShape
<1>n. PICK n \in Nat : n = Len(order)
  BY <1>b
<1>c. \A y \in Vertices : visited[y] <=> y \in Accepted
  BY <1>a, <1>b DEF Marked, Accepted
<1>d. ASSUME NEW j \in 1 .. Len(order), ~(Successors(order[j]) \subseteq Accepted)
      PROVE  HasCall(order[j])
  <2>1. order[j] \in Vertices /\ order[j] \in Accepted
    BY <1>b, <1>n DEF Accepted
  <2>2. ~Followed(order[j])
    <3>1. arcs[order[j]] \in Seq(Vertices)
      BY <1>a, <2>1 DEF DfsShape
    <3>2. \A p \in DOMAIN arcs[order[j]] : arcs[order[j]][p] \in Vertices
      BY <3>1
    <3> QED
      BY <1>c, <1>d, <3>2 DEF Followed, Successors
  <2> QED
    BY <1>c, <2>1, <2>2 DEF DfsProgress
<1>1. CASE Dfs!Root
  <2>1. i \in Vertices /\ ~visited[i] /\ Dfs!Call(i, <<>>) /\ frames = <<>> /\ arcs' = arcs
    BY <1>1, <1>a, NAssumption DEF Dfs!Root, DfsShape, Vertices
  <2>2. Len(frames) = 0 /\ order' = Append(order, i)
    BY <2>1 DEF Dfs!Call
  <2>3. Open(n + 1)' = {}
    <3>1. \A y : ~HasCall(y)
      BY <2>2 DEF HasCall
    <3> QED
      BY <1>b, <1>n, <1>d, <2>1, <2>2, <3>1, SeenNext
  <2>4. order'[n + 1] = i
    BY <1>b, <1>n, <2>1, <2>2, AppendedOrder
  <2>5. \A y \in Vertices \ Seen(n + 1)' : i <= y
    <3>1. Seen(n + 1)' = Accepted
      BY <1>b, <1>n, <2>1, <2>2, SeenNext
    <3>2. \A y \in Vertices : ~(i <= y) => y \in 0 .. i - 1
      BY <2>1, NAssumption DEF Vertices
    <3> QED
      BY <1>c, <3>1, <3>2 DEF DfsProgress
  <2>6. LatestAt(n + 1)'
    BY <2>3, <2>4, <2>5 DEF LatestAt
  <2> QED
    BY <1>n, <2>1, <2>6, CallOrders
<1>2. CASE Dfs!Descend
  <2> DEFINE x == arcs[Dfs!Top.v][Dfs!Top.k]
             m == Len(frames)
  <2>1. /\ frames # <<>> /\ Dfs!Top.k <= Len(arcs[Dfs!Top.v]) /\ ~visited[x]
        /\ Dfs!Call(x, frames) /\ arcs' = arcs
    BY <1>2 DEF Dfs!Descend
  <2>2. /\ m \in 1 .. m /\ m \in Nat /\ Dfs!Top.v \in Vertices /\ Dfs!Top.k \in Nat \ {0}
        /\ Dfs!Top = frames[m]
    BY <1>a, <2>1, TopIs DEF DfsShape
  <2>3. /\ arcs[Dfs!Top.v] \in Seq(Vertices) /\ Dfs!Top.k \in DOMAIN arcs[Dfs!Top.v]
        /\ x \in Vertices /\ x \in Successors(Dfs!Top.v)
    BY <1>a, <2>1, <2>2 DEF DfsShape, Successors
  <2>4. PICK t \in 1 .. Len(order) : order[t] = Dfs!Top.v
    <3>1. visited[Dfs!Top.v]
      BY <1>a, <2>2, FrameTypes DEF Path, DfsShape
    <3> QED
      BY <1>a, <1>b, <2>2, <3>1 DEF Marked
  <2> DEFINE T == arcs[order[t]]
             K == Dfs!Top.k
  <2>a. order' = Append(order, x)
    BY <2>1 DEF Dfs!Call
  <2> HIDE DEF x
  <2>5. Seen(n + 1)' = Accepted
    BY <1>b, <1>n, <2>1, <2>3, <2>a, SeenNext
  <2>6. Open(n + 1)' = {j \in 1 .. n : ~(Successors(order[j]) \subseteq Accepted)}
    BY <1>b, <1>n, <2>1, <2>3, <2>a, SeenNext
  <2>7. t \in Open(n + 1)'
    <3>1. x \notin Accepted
      BY <1>c, <2>1, <2>3
    <3> QED
      BY <1>n, <2>3, <2>4, <2>6, <3>1
  <2>8. ASSUME NEW j \in Open(n + 1)' PROVE j <= t
    <3>1. j \in 1 .. n /\ HasCall(order[j])
      BY <1>d, <1>n, <2>6, <2>8
    <3>2. PICK a \in 1 .. m : frames[a].v = order[j]
      BY <3>1 DEF HasCall
    <3>3. CASE a = m
      <4>1. order[j] = order[t]
        BY <2>2, <2>4, <3>2, <3>3
      <4>2. j = t
        BY <1>a, <1>n, <2>4, <3>1, <4>1 DEF Marked, Distinct
      <4> QED
        BY <3>1, <4>2
    <3>4. CASE a # m
      <4>1. a < m
        BY <2>2, <3>2, <3>4
      <4>2. j < t
        BY <1>n, <2>2, <2>4, <3>1, <3>2, <4>1 DEF DfsOrder, InOrder
      <4> QED
        BY <3>1, <4>2
    <3> QED
      BY <3>3, <3>4
  <2>9. /\ K \in DOMAIN T /\ T[K] = x /\ x \notin Accepted
        /\ \A p0 \in 1 .. K - 1 : T[p0] \in Accepted
    <3>1. x \notin Accepted /\ T[K] = x
      BY <1>c, <2>1, <2>3, <2>4 DEF x
    <3>2. ASSUME NEW p0 \in 1 .. K - 1 PROVE T[p0] \in Accepted
      <4>1. p0 \in DOMAIN T /\ T[p0] \in Vertices
        BY <2>2, <2>3, <2>4
      <4>2. visited[T[p0]]
        BY <2>2, <2>4, <3>2, <4>1 DEF DfsProgress
      <4> QED
        BY <1>c, <4>1, <4>2
    <3> QED
      BY <2>3, <2>4, <3>1, <3>2
  <2>10. Dfs!FirstNew(T, Accepted, x)
    <3> HIDE DEF T, K
    <3> QED
      BY <2>9 DEF Dfs!FirstNew
  <2>11. order'[n + 1] = x /\ order'[t] = order[t] /\ Len(order') = n + 1
    BY <1>b, <1>n, <2>3, <2>4, <2>a, AppendedOrder
  <2>12. Dfs!FirstNew(arcs[order[t]], Seen(n + 1), order[n + 1])'
    <3>1. arcs'[order'[t]] = T /\ order'[n + 1] = x
      BY <2>1, <2>11
    <3> HIDE DEF T
    <3> QED
      BY <2>5, <2>10, <3>1 DEF Dfs!FirstNew
  <2>13. LatestAt(n + 1)'
    BY <2>7, <2>8, <2>11, <2>12 DEF LatestAt
  <2> QED
    BY <1>n, <2>1, <2>3, <2>13, CallOrders
<1>3. CASE Dfs!NextArc
  <2>1. /\ frames # <<>> /\ frames' = [frames EXCEPT ![Len(frames)].k = @ + 1]
        /\ UNCHANGED <<arcs, order>>
    BY <1>3 DEF Dfs!NextArc
  <2>2. Len(frames') = Len(frames) /\ \A j \in 1 .. Len(frames) : frames'[j].v = frames[j].v
    BY <1>a, <2>1, FrameTypes DEF DfsShape, Frame
  <2>3. InOrder'
    BY <2>1, <2>2 DEF DfsOrder, InOrder
  <2> QED
    BY <2>1, <2>3, OrderStays
<1>4. CASE Dfs!Return
  <2>1. frames # <<>> /\ frames' = Dfs!Below /\ UNCHANGED <<arcs, order>>
    BY <1>4 DEF Dfs!Return
  <2>2. /\ Len(frames) \in Nat /\ Len(frames') = Len(frames) - 1
        /\ \A j \in 1 .. Len(frames) - 1 : frames'[j] = frames[j]
    BY <1>a, <2>1, TopIs DEF DfsShape
  <2>3. \A j \in 1 .. Len(frames) - 1 : j \in 1 .. Len(frames)
    BY <2>2
  <2>4. \A j \in 1 .. Len(frames') : j \in 1 .. Len(frames) /\ frames'[j] = frames[j]
    BY <2>2, <2>3
  <2>5. InOrder'
    BY <2>1, <2>4 DEF DfsOrder, InOrder
  <2> QED
    BY <2>1, <2>5, OrderStays
<1>5. CASE UNCHANGED <<arcs, frames, order>>
  <2>1. InOrder'
    BY <1>5 DEF DfsOrder, InOrder
  <2> QED
    BY <1>5, <2>1, OrderStays
<1> QED
  BY <1>1, <1>2, <1>3, <1>4, <1>5 DEF Dfs!Next, Dfs!SkipRoot, Dfs!Finish, Dfs!vars

LEMMA DfsOrders == DfsOrder => Dfs!LatestFirst
BY DEF DfsOrder, LatestAt, Open, Seen, Dfs!LatestFirst, Dfs!Successors, Successors, Dfs!Vertices, Vertices

-----------------------------------------------------------------------------
(***************************************************************************)
(* The suite: the invariant of the search that runs.  The queue is no part *)
(* of the depth-first one.                                                 *)
(***************************************************************************)
SuiteInv ==
  /\ which \in {"bfs", "dfs"}
  /\ which = "bfs" => BfsInv /\ QueueTyped /\ BfsProgress /\ BfsOrder
  /\ which = "dfs" => DfsInv /\ DfsProgress /\ DfsOrder /\ pc = None /\ ~overrun

LEMMA SuiteStarts == SuiteInit => SuiteInv
BY BfsInvInit, QueueTypedInit, BfsProgressInit, BfsOrderInit, DfsInvInit, DfsProgressInit,
   DfsOrderInit DEF SuiteInit, SuiteInv

LEMMA SuiteStep == SuiteInv /\ [SuiteNext]_suiteVars => SuiteInv'
<1> SUFFICES ASSUME SuiteInv, [SuiteNext]_suiteVars PROVE SuiteInv'
  OBVIOUS
<1>1. CASE which = "bfs"
  <2>1. [Next]_vars /\ which' = which
    BY <1>1 DEF SuiteNext, BfsNext, DfsNext, suiteVars
  <2> QED
    BY <1>1, <2>1, BfsInvStep, QueueTypedStep, BfsProgressStep, BfsOrderStep DEF SuiteInv
<1>2. CASE which = "dfs"
  <2>1. [Dfs!Next]_(Dfs!vars) /\ which' = which /\ pc' = pc /\ overrun' = overrun
    BY <1>2 DEF SuiteNext, BfsNext, DfsNext, suiteVars, bfsOnly, dfsOnly, vars, traversal, queue, Dfs!vars
  <2> QED
    BY <1>2, <2>1, DfsInvStep, DfsProgressStep, DfsOrderStep DEF SuiteInv
<1> QED
  BY <1>1, <1>2 DEF SuiteInv

THEOREM SuiteInvariant == SuiteSpec => []SuiteInv
BY SuiteStarts, SuiteStep, PTL DEF SuiteSpec

(***************************************************************************)
(* The variables of both searches keep their types, for every graph.       *)
(***************************************************************************)
THEOREM TypeCorrect == SuiteSpec => []SuiteTypeOK
<1>1. SuiteInv => SuiteTypeOK
  BY BfsTypes, DfsTypes DEF SuiteInv, SuiteTypeOK
<1> QED
  BY SuiteInvariant, <1>1, PTL

(***************************************************************************)
(* For every graph, both searches accept no vertex twice, and visited[]    *)
(* records exactly the accepted ones.                                      *)
(***************************************************************************)
THEOREM AcceptsOnce == SuiteSpec => []EachOnce
<1>1. SuiteInv => EachOnce
  BY BfsKeeps, DfsKeeps DEF SuiteInv
<1> QED
  BY SuiteInvariant, <1>1, PTL

(***************************************************************************)
(* For every graph, no enqueue of the traversal is refused (its address is *)
(* stored through unchecked) and none goes to the cell that the queue's    *)
(* block lacks: initialising the queue for g->nvert elements is enough.    *)
(***************************************************************************)
THEOREM BfsQueueSuffices == SuiteSpec => []QueueLargeEnough
<1>1. SuiteInv => QueueLargeEnough
  BY BfsKeeps, NullIsApart DEF SuiteInv, QueueLargeEnough
<1> QED
  BY SuiteInvariant, <1>1, PTL

(***************************************************************************)
(* For every graph, when bfs returns nothing reachable is left out, and    *)
(* when the traversal returns every vertex has been accepted.              *)
(***************************************************************************)
THEOREM BfsComplete == SuiteSpec => []Closed
<1>1. SuiteInv => Closed
  BY BfsCloses, NullIsApart DEF SuiteInv, Closed
<1> QED
  BY SuiteInvariant, <1>1, PTL

(***************************************************************************)
(* For every graph, the active calls of dfs follow a simple path of arcs, a*)
(* vertex whose call has returned leads to accepted vertices only, and a   *)
(* finished search has accepted every vertex.                              *)
(***************************************************************************)
THEOREM DfsFollowsPath == SuiteSpec => []DepthFirst
<1>1. SuiteInv => DepthFirst
  BY DfsKeeps, DfsCloses DEF SuiteInv, DepthFirst
<1> QED
  BY SuiteInvariant, <1>1, PTL

(***************************************************************************)
(* For every graph, breadth first accepts the vertices of a component      *)
(* nearer ones first, all of them reachable from its root; and depth first *)
(* goes on from the latest accepted vertex that has an arc to a new one.   *)
(***************************************************************************)
THEOREM SearchesInOrder == SuiteSpec => []SearchOrder
<1>1. SuiteInv => SearchOrder
  BY BfsOrders, DfsOrders DEF SuiteInv, SearchOrder
<1> QED
  BY SuiteInvariant, <1>1, PTL

(***************************************************************************)
(* For every graph, the C stack never holds more than g->nvert calls of    *)
(* dfs, whatever the arcs are.                                             *)
(***************************************************************************)
AtMostNCalls == which = "dfs" => Len(frames) <= N

THEOREM CallsBounded == SuiteSpec => []AtMostNCalls
<1>1. SuiteInv => AtMostNCalls
  BY DfsDepth DEF SuiteInv, AtMostNCalls
<1> QED
  BY SuiteInvariant, <1>1, PTL
=============================================================================
