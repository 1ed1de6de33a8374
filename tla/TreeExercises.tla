----------------------------- MODULE TreeExercises -----------------------------
(***************************************************************************)
(* The programs of test/chapter_5_3 that answer a question about a binary  *)
(* tree, and get_common_parent_value of test/chapter_5_2/q5.c.  Each is one*)
(* call: `call' names it, and its step returns.  A recursion is a function *)
(* on the places of BinTree, a loop one on what its turns change; a        *)
(* program that prints returns what it printed.                            *)
(*                                                                         *)
(* Operators named Faulty... are plausible bugs of the definition that     *)
(* follows; no specification uses them.                                    *)
(***************************************************************************)
EXTENDS Integers, Sequences, SequencesExt

CONSTANTS Trees, \* the trees to ask about (BinTree)
          Few,   \* those of them that calls with two trees or arrays are made with
          None   \* NULL; no result yet

VARIABLES call, result

vars == <<call, result>>

INSTANCE BinTree

Returns(op, res) == call.op = op /\ result = None /\ result' = res /\ UNCHANGED call

L(t, x) == LeftChild(t, x)
R(t, x) == RightChild(t, x)
Greatest(S) == CHOOSE x \in S : \A y \in S : y <= x
Children(t, x) == {2 * x, 2 * x + 1} \cap t

(***************************************************************************)
(* post_order_print of q3.c: after a node has been printed it is `out',    *)
(* and only the right child is left to push.                               *)
(***************************************************************************)
\* forgets to go on with the right child
FaultyPostOrderPrint(t) ==
  LET go[st \in Seq(t), out \in t \cup {None}] ==
        LET x == Last(st)
        IN  IF st = <<>> THEN <<>>
            ELSE IF out = None /\ Children(t, x) # {}
                   THEN go[Append(st, IF L(t, x) # None THEN L(t, x) ELSE R(t, x)), None]
            ELSE <<x>> \o go[Front(st), x]
  IN  go[<<1>>, None]

PostOrderPrint(t) ==
  LET go[st \in Seq(t), out \in t \cup {None}] ==
        LET x == Last(st)
        IN  IF st = <<>> THEN <<>>
            ELSE IF out = None /\ Children(t, x) # {}
                   THEN go[Append(st, IF L(t, x) # None THEN L(t, x) ELSE R(t, x)), None]
            ELSE IF out # None /\ out = L(t, x) /\ R(t, x) # None
                   THEN go[Append(st, R(t, x)), None]
            ELSE <<x>> \o go[Front(st), x]
  IN  go[<<1>>, None]

\* get_height of q5.c, which is the length of its stack and one
GetHeight(t) ==
  LET go[x \in t \cup {None}, st \in Seq(t), max \in Nat] ==
        IF x # None THEN go[L(t, x), Append(st, x), Greatest({Len(st) + 2, max})]
        ELSE IF st # <<>> THEN go[R(t, Last(st)), Front(st), max]
        ELSE max
  IN  IF t = {} THEN 0 ELSE go[1, <<>>, 0]

\* tree_build of q6.c: node x stands for pre[ps .. pe] and in[is .. ie]
TreeBuild(pre, in) ==
  LET go[x \in Nat, ps \in Int, pe \in Int, is \in Int, ie \in Int] ==
        LET cur == CHOOSE k \in is .. ie : in[k] = pre[ps]
        IN  IF is > ie \/ ps > pe THEN {}
            ELSE {<<x, pre[ps]>>}
                   \cup go[2 * x, ps + 1, ps + cur - is, is, cur - 1]
                   \cup go[2 * x + 1, pe - (ie - cur) + 1, pe, cur + 1, ie]
  IN  go[1, 1, Len(pre), 1, Len(in)]

\* double_children_count of q8.c
DoubleChildrenCount(t) ==
  LET go[x \in Nat] == IF x \notin t THEN 0
                       ELSE (IF Cardinality(Children(t, x)) = 2 THEN 1 ELSE 0)
                              + go[2 * x] + go[2 * x + 1]
  IN  go[1]

\* lr_exchange of q9.c: <<new place, node>>
LrExchange(t) ==
  LET go[x \in Nat, y \in Nat] ==
        IF x \notin t THEN {}
        ELSE {<<y, x>>} \cup go[2 * x, 2 * y + 1] \cup go[2 * x + 1, 2 * y]
  IN  go[1, 1]

\* bitree_pre_at of q10.c; the inner calls count i down
PreAt(t, i) ==
  LET go[x \in Nat, k \in Int] ==
        LET left == go[2 * x, k - 1]
        IN  IF x \notin t THEN [ret |-> None, i |-> k]
            ELSE IF k = 0 THEN [ret |-> x, i |-> 0]
            ELSE IF left.ret # None THEN left
            ELSE go[2 * x + 1, left.i]
  IN  go[1, i].ret

\* bitree_pre_del and bitree_free of q11.c: the nodes freed, where those with i are S
PreDel(t, S) ==
  LET free[x \in Nat] == IF x \notin t THEN <<>> ELSE free[2 * x] \o free[2 * x + 1] \o <<x>>
      go[x \in Nat] == IF x \notin t THEN <<>>
                       ELSE IF x \in S THEN free[x]
                       ELSE go[2 * x] \o go[2 * x + 1]
  IN  go[1]

\* parent_print of q12.c
ParentPrint(t, i) ==
  LET go[x \in Nat] ==
        LET left == go[2 * x]
            right == go[2 * x + 1]
            none == [found |-> FALSE, printed |-> <<>>]
        IN  IF x \notin t THEN none
            ELSE IF x = i THEN [found |-> TRUE, printed |-> <<>>]
            ELSE IF left.found THEN [left EXCEPT !.printed = Append(@, x)]
            ELSE IF right.found THEN [right EXCEPT !.printed = Append(@, x)]
            ELSE none
  IN  go[1].printed

\* ancestor of q13.c; r is written only where both have been found below
Ancestor(t, p, q) ==
  LET go[x \in Nat] ==
        LET l == go[2 * x]
            r == go[2 * x + 1]
        IN  IF x \notin t THEN [ret |-> 0, r |-> None]
            ELSE IF x = p THEN [ret |-> 1, r |-> None]
            ELSE IF x = q THEN [ret |-> 2, r |-> None]
            ELSE IF l.ret # 0 /\ r.ret # 0 THEN [ret |-> 3, r |-> x]
            ELSE IF l.ret # 0 THEN l ELSE r
  IN  go[1]

\* tree_width of q14.c: cnt[x] nodes of level x have left the queue
TreeWidth(t) ==
  LET children(c) == SelectSeq(<<[n |-> 2 * c.n, level |-> c.level + 1],
                                 [n |-> 2 * c.n + 1, level |-> c.level + 1]>>,
                               LAMBDA d : d.n \in t)
      go[q \in Seq([n : t, level : 0 .. 50]), cnt \in Seq(Nat), max \in Nat] ==
        LET c == q[1]
            now == cnt[c.level + 1] + 1
        IN  IF q = <<>> THEN max
            ELSE go[Tail(q) \o children(c), [cnt EXCEPT ![c.level + 1] = now],
                    Greatest({now, max})]
  IN  IF t = {} THEN 0 ELSE go[<<[n |-> 1, level |-> 0]>>, [x \in 1 .. 50 |-> 0], 0]

\* pre2post of q15.c, for n nodes: <<index in post, index in pre>>
Pre2Post(n) ==
  LET go[ps \in Int, pe \in Int, qs \in Int, qe \in Int] ==
        LET half == (pe - ps) \div 2
        IN  IF pe < ps THEN {}
            ELSE {<<qe, ps>>}
                   \cup go[ps + 1, ps + half, qs, qs + half - 1]
                   \cup go[ps + half + 1, pe, qs + half, qe - 1]
  IN  go[0, n - 1, 0, n - 1]

\* leaf_link of q16.c: the list at head.r once the calls for x have returned
LeafLink(t) ==
  LET go[x \in Nat, list \in Seq(t)] == IF x \notin t THEN list
                                        ELSE IF Children(t, x) = {} THEN <<x>> \o list
                                        ELSE go[2 * x, go[2 * x + 1, list]]
  IN  go[1, <<>>]

\* similar_tree of q17.c
SimilarTree(t, u) ==
  LET go[x \in Nat] == IF x \notin t \/ x \notin u THEN x \notin t /\ x \notin u
                       ELSE (Children(t, x) = {} /\ Children(u, x) = {})
                              \/ (go[2 * x] /\ go[2 * x + 1])
  IN  go[1]

(***************************************************************************)
(* get_post_prev of q18.c, in a tree with in-order threads (ThreadedTree): *)
(* l of a node without a left child leads to the node before it.           *)
(***************************************************************************)
PostPrev(t, i) ==
  LET order == Traversal("in", t)
      at(x) == CHOOSE k \in DOMAIN order : order[k] = x
      thread(x) == IF at(x) = 1 THEN None ELSE order[at(x) - 1]
      back[x \in t] == IF L(t, x) # None THEN L(t, x)
                       ELSE IF thread(x) = None THEN None
                       ELSE back[thread(x)]
  IN  IF L(t, i) = None /\ R(t, i) # None THEN R(t, i) ELSE back[i]

\* wpl of q19.c; the weight of a leaf is its place
Wpl(t) ==
  LET go[x \in Nat, deep \in Nat] == IF x \notin t THEN 0
                                     ELSE IF Children(t, x) = {} THEN deep * x
                                     ELSE go[2 * x, deep + 1] + go[2 * x + 1, deep + 1]
  IN  go[1, 0]

Open == 0   \* "("
Close == -1 \* ")"

\* expression_print of q20.c
ExpressionPrint(t) ==
  LET go[x \in Nat] == LET inner == go[2 * x] \o <<x>> \o go[2 * x + 1]
                       IN  IF x \notin t THEN <<>>
                           ELSE IF x # 1 /\ Children(t, x) # {} THEN <<Open>> \o inner \o <<Close>>
                           ELSE inner
  IN  go[1]

\* test/chapter_5_2/q5.c, on the indexes of an array
CommonParent(i, j) ==
  LET go[x \in Nat, y \in Nat] == IF x = y THEN x
                                  ELSE IF x < y THEN go[x, (y - 1) \div 2]
                                  ELSE go[(x - 1) \div 2, y]
  IN  go[i, j]

OneTree == {"get_height", "tree_build", "double_children_count", "lr_exchange", "tree_width",
            "leaf_link", "wpl", "expression_print"}
Calls ==
  [op : OneTree, t : Trees]
    \cup [op : {"post_order_print"}, t : Trees \ {{}}]
    \cup [op : {"bitree_pre_at"}, t : Trees, i : -1 .. 5]
    \cup {[op |-> "bitree_pre_del", t |-> u, S |-> s] : u \in Few, s \in SUBSET (1 .. 4)}
    \cup [op : {"parent_print"}, t : Trees, i : 1 .. 8]
    \cup UNION {[op : {"ancestor"}, t : {u}, p : u, q : u] : u \in Few}
    \cup [op : {"pre2post"}, n : 0 .. 7]
    \cup [op : {"similar_tree"}, t : Few, u : Few]
    \cup UNION {[op : {"get_post_prev"}, t : {u}, i : u] : u \in Trees}
    \cup [op : {"get_common_parent_value"}, i : 0 .. 10, j : 0 .. 10]

Init == call \in Calls /\ result = None

Next ==
  \/ Returns("post_order_print", PostOrderPrint(call.t))
  \/ Returns("get_height", GetHeight(call.t))
  \/ Returns("tree_build", TreeBuild(Traversal("pre", call.t), Traversal("in", call.t)))
  \/ Returns("double_children_count", DoubleChildrenCount(call.t))
  \/ Returns("lr_exchange", LrExchange(call.t))
  \/ Returns("bitree_pre_at", [ret |-> PreAt(call.t, call.i)])
  \/ Returns("bitree_pre_del", PreDel(call.t, call.S))
  \/ Returns("parent_print", ParentPrint(call.t, call.i))
  \/ Returns("ancestor", Ancestor(call.t, call.p, call.q))
  \/ Returns("tree_width", TreeWidth(call.t))
  \/ Returns("pre2post", Pre2Post(call.n))
  \/ Returns("leaf_link", LeafLink(call.t))
  \/ Returns("similar_tree", SimilarTree(call.t, call.u))
  \/ Returns("get_post_prev", [ret |-> PostPrev(call.t, call.i)])
  \/ Returns("wpl", Wpl(call.t))
  \/ Returns("expression_print", ExpressionPrint(call.t))
  \/ Returns("get_common_parent_value", CommonParent(call.i, call.j))

Spec == Init /\ [][Next]_vars /\ WF_vars(Next)
-----------------------------------------------------------------------------
Answered(op) == call.op = op /\ result # None

Places(s) == {s[k] : k \in DOMAIN s}
Leaves(t) == {x \in t : Children(t, x) = {}}
Above(t, x) == {a \in t : a # x /\ Under(x, a)}
Level(x) == Cardinality({a \in 1 .. x : a # x /\ Under(x, a)})
InOrderOf(S, goal, s) ==
  /\ Len(s) = Cardinality(S) /\ Places(s) = S
  /\ \A x, y \in DOMAIN s : x < y => Before(goal, s[x], s[y])

\* what is printed, linked or freed, and in which order
InTheirOrder ==
  LET t == call.t
  IN  /\ Answered("post_order_print") => InOrderOf(t, "post", result)
      /\ Answered("leaf_link") => InOrderOf(Leaves(t), "in", result)
      /\ Answered("parent_print") =>
           LET above == IF call.i \in t THEN Above(t, call.i) ELSE {}
           IN  InOrderOf(above, "post", result)
      /\ Answered("bitree_pre_del") =>
           InOrderOf({x \in t : \E y \in call.S \cap t : Under(x, y)}, "post", result)

(***************************************************************************)
(* get_height gives two more than the most left turns on the way to a node,*)
(* whatever the number of levels: 2 for a single node, and for a chain to  *)
(* the right.                                                              *)
(***************************************************************************)
LeftTurns ==
  Answered("get_height") =>
    LET turns(x) == Cardinality({a \in call.t : Under(x, 2 * a)})
    IN  result = IF call.t = {} THEN 0 ELSE 2 + Greatest({turns(x) : x \in call.t})

\* the trees that are built and turned over, and the comparison of two
Shapes ==
  /\ Answered("tree_build") => result = {<<x, x>> : x \in call.t}
  /\ Answered("lr_exchange") =>
       /\ {e[2] : e \in result} = call.t /\ Cardinality(result) = Cardinality(call.t)
       /\ \A e, f \in result : Before("in", e[1], f[1]) <=> Before("in", f[2], e[2])
       /\ \A e, f \in result : Under(e[1], f[1]) <=> Under(e[2], f[2])
  /\ Answered("similar_tree") => (result <=> call.t = call.u)

OnLevel(t, k) == Cardinality({x \in t : Level(x) = k})

Sums ==
  /\ Answered("double_children_count") =>
       result + 1 = Cardinality(Leaves(call.t)) + IF call.t = {} THEN 1 ELSE 0
  /\ Answered("tree_width") =>
       /\ \A k \in 0 .. 4 : OnLevel(call.t, k) <= result
       /\ \E k \in 0 .. 4 : OnLevel(call.t, k) = result
  /\ Answered("wpl") => result = FoldSet(LAMBDA x, s : s + Level(x) * x, 0, Leaves(call.t))

(***************************************************************************)
(* The node that is found: the i-th in pre-order, the lowest node above    *)
(* two, but only if neither is above the other.                            *)
(***************************************************************************)
LowestAbove(p, q) == Greatest({a \in 1 .. p : Under(p, a) /\ Under(q, a)})

NodesFound ==
  /\ Answered("bitree_pre_at") =>
       result.ret = IF call.i \in 0 .. Cardinality(call.t) - 1
                      THEN Traversal("pre", call.t)[call.i + 1] ELSE None
  /\ Answered("ancestor") =>
       LET low == LowestAbove(call.p, call.q)
       IN  IF low = call.p THEN result = [ret |-> 1, r |-> None]
           ELSE IF low = call.q THEN result = [ret |-> 2, r |-> None]
           ELSE result = [ret |-> 3, r |-> low]
  /\ Answered("get_common_parent_value") => result + 1 = LowestAbove(call.i + 1, call.j + 1)

(***************************************************************************)
(* in_order_post_prev gives the node before x in post-order if and only if *)
(* x has not two children; of two it gives the left one.                   *)
(***************************************************************************)
PostPrevOfOneChild ==
  Answered("get_post_prev") =>
    LET order == Traversal("post", call.t)
        at == CHOOSE k \in DOMAIN order : order[k] = call.i
        before == IF at = 1 THEN None ELSE order[at - 1]
    IN  result.ret = before <=> Cardinality(Children(call.t, call.i)) < 2

\* post-order of the complete trees; of other sizes each element is moved once
Moved ==
  Answered("pre2post") =>
    LET n == call.n
        full == 1 .. n
        pre == Traversal("pre", full)
        post == Traversal("post", full)
    IN  /\ {e[1] : e \in result} = 0 .. n - 1 /\ {e[2] : e \in result} = 0 .. n - 1
        /\ Cardinality(result) = n
        /\ n \in {0, 1, 3, 7} => \A e \in result : post[e[1] + 1] = pre[e[2] + 1]

\* each node is inside the brackets of the inner nodes from it upwards, but the root's
Among(s, k, c) == Cardinality({j \in 1 .. k : s[j] = c})
Opened(s, k) == Among(s, k, Open) - Among(s, k, Close)

Bracketed ==
  Answered("expression_print") =>
    LET t == call.t
    IN  /\ InOrderOf(t, "in", SelectSeq(result, LAMBDA c : c \notin {Open, Close}))
        /\ \A k \in DOMAIN result : result[k] \in t =>
             Opened(result, k)
               = Cardinality({a \in t \ Leaves(t) : Under(result[k], a) /\ a # 1})

TreeAnswers == /\ InTheirOrder /\ LeftTurns /\ Shapes /\ Sums /\ NodesFound
               /\ PostPrevOfOneChild /\ Moved /\ Bracketed
=============================================================================
