# TLA+ models of data-structure-408

The repository is a collection of C data structures (`structure/`) and of
exercises that use them or stand alone (`test/`). This directory holds TLA+
modules translated from that code, TLC configurations that check them on small
instances, and theorems that TLAPS checks for every size: about all of the
queues, stacks and lists, the graph and both its traversals, the walks of a tree
in level order, the bracket judge, string matching and two of the array programs.
Paths below are relative to the repository's `src/` directory.

Everything in the repository is sequential: no threads, no persistence, no
messages. What is hard is the order of calls: indices that wrap, a node that is
freed, reused or lent out, a counter that is not kept up, a pointer nobody has
written, a loop that ends for one of two reasons. So the models are about long
sequences of legal calls, about what `malloc` leaves in memory, and about loops
that must end.

To check: `tlc -config X.cfg M` for the pairs in PROJECT.json's `runs`, `tlapm M.tla`
for the `*Proofs` modules and `Counting`.

## Inventory

### Library: `structure/src`, `structure/inc`

| component | state | operations | what makes it correct | hard part |
|---|---|---|---|---|
| `queue/sq_queue.c` | `front`, `rear`, `capacity`, one block | init, destory, enq, deq, length, empty, full | FIFO through every wrap-around; an address handed out stays valid while the caller uses it and lies in the block | the ring has one cell more than the block; deq returns a cell already given up |
| `queue/linked_queue.c` | `front`, `rear`, `length`, nodes | init, destory, enq, deq | FIFO; destory frees what is queued and only that; `length` = contents | `next` of a new node is never written; `length` misses the first of every run of elements |
| `stack/sq_stack.c` | `top`, cells | init, destory, push, pop, top | LIFO, also after destory and init | `top` is -1, compared with a `size_t` |
| `stack/linked_stack.c` | chain of nodes | init, destory, push, pop, top | LIFO; every node is freed once, by destory or by the caller of pop | shared duty to free |
| `linearlist/sq_list.c` | cells, `length` | init, destory, push, insert, delete, index_of, foreach | the array is what the indices asked for | boundaries: delete at `length`, last element in index_of |
| `linearlist/linked_list.c` | `head`, `tail`, `length`, nodes | init, destory, insert_head, insert_tail, insert, delete, at, index_of, foreach | the chain is what the indices asked for, `tail` its last node, `length` its size | `length` survives a delete and is believed afterwards |
| `linearlist/dlinked_list.c` | the same and `prev` | the same | the same, and `prev` the inverse of `next` | insert in the middle writes no `prev`, and later calls walk along it |
| `tree/bitree.c` | a tree, a linked queue during a walk | create, pre-, in-, post- and level-order traversals | every node visited once, in order, nothing leaked | level order: which nodes are in the queue, and who frees the linked nodes |
| `tree/threaded_tree.c` | a tree with tags | three threadings, walks along threads | the walk meets the nodes of the traversal | threads are written during a recursion whose `pre` is shared |
| `graph/al_graph.c`, building | array of vertices, lists of arc nodes | init, insert_vertex, delete_vertex, add_arc, remove_arc, get_arc, adjacent, foreach | the graph is the one asked for | deleting a vertex moves the others; remove_arc believes it has removed |
| `graph/al_graph.c`, traversing | `visited[]`, a queue or the C stack | traverse_bfs, traverse_dfs | every vertex accepted once, in the order of the search; the search ends | one queue and one `visited[]` for all components; the queue's results are dereferenced unchecked |

### Exercises: `test`

| component | state | what makes it correct | hard part |
|---|---|---|---|
| `chapter_3_2/q1.c` | ring and tag | FIFO using every cell | the tag is to be reset by the dequeue that empties the ring |
| `chapter_3_2/q3.c` | two `sq_stack`s | FIFO; no refused push | when one stack may be moved onto the other |
| `chapter_3_2/q4.c` | circle of nodes | FIFO; nodes are reused; the dequeued element stays readable | where the circle is full |
| `chapter_3_1/q5.c` | one array, two tops | neither stack overwrites the other; all cells can be used | both tops start at 0 |
| `chapter_3_3/q1.c` | text, `linked_stack` | answers as the grammar does; nothing leaked | two ways out of the loop |
| `chapter_5_3/q4.c` | tree, `linked_queue` and `linked_stack` on one heap | level order from its end | the node just freed is allocated again |
| `chapter_5_3/q7.c` | tree, `linked_queue` | "complete" is what the definition says; nothing leaked | an empty queue stands for two things |
| `chapter_4_1/kmp.c` | two strings, a table | the border table; the first occurrence | the start value of `j` |
| `chapter_2_2` | arrays, `sq_list`s | deletes keep the order of the rest; searches and merges answer by the definition | loops that write over what they have still to read; searches that end one element early |
| `chapter_2_3` | linked nodes, at most two lists | nodes come out in the order asked for; each is freed at most once and none is lost | the order of pointer writes; circles without an end |
| `chapter_3_1/q4.c`, `chapter_3_3/q2.c`, `q3.c` | a list, a stack or two | the answer by definition | a recursion that returns one of four codes; start values |
| `chapter_5_3`, the other programs, and `chapter_5_2/q5.c` | a tree, a stack or a queue | the answer by definition | what a variable stands for when it may be NULL for two reasons |
| `chapter_6_3`, `threaded_tree_test.c`, `test.c` | (drivers) | | |

How they interact: by calls only. `al_graph.c` uses `sq_queue`; `bitree.c`,
`q4.c` and `q7.c` use `linked_queue`; `q4.c` and `q1.c` (brackets) use
`linked_stack`; `q3.c` uses `sq_stack`. A structure hands out addresses (a cell,
a node) that the caller writes, reads or frees: that contract is where two
components can disagree, and the composing modules below contain both sides.

What can go wrong, line by line, is listed under `hazards` in PROJECT.json with
the properties that would notice it.

## Modules

| module | of | how state and actions correspond |
|---|---|---|
| `BoundedFifo`, `BoundedLifo` | (abstract) | what a queue and a stack promise: a sequence, the last call and its result |
| `SqQueue` | sq_queue.c | `front`, `rear`, `data` as in the code; `held` is the address deq returned last, `overrun` that an address outside the block went out. `Block` is how many cells malloc really gave |
| `TagQueue` | 3_2/q1.c | `front`, `rear`, `tag`; history `drained`: emptied after having been full |
| `CircLinkedQueue` | 3_2/q4.c | `front`, `rear`, `next` over a heap |
| `TwoStackQueue` | 3_2/q3.c | two instances of `SqStack`; each turn of the moving loop is a step |
| `LinkedQueue` | linked_queue.c | fields and heap; `Leftover` is what `next` of a fresh node may hold; `held`: the node lent to the caller of deq; `strayed`: front has followed an unwritten `next`, and the model stops |
| `SqStack`, `LinkedStack` | the two stacks | fields and cells or heap; `Free` is the caller's `free` of a popped node |
| `SharedStacks` | 3_1/q5.c | the array, the two tops, and two sequences as history |
| `BracketsJudge` | 3_3/q1.c | over `LinkedStack`; a character is an opening or closing bracket of a kind, or another |
| `BinTree` | bitree.h | trees as sets of places (root 1, children 2p and 2p+1), and the orders of their nodes told from the places alone |
| `RecursiveWalk` | bitree.c:14-33, threaded_tree.c | the three recursive traversals (`goal`); `frames` is the C stack of a function that visits a node and calls itself for its children |
| `ThreadedTree` | threaded_tree.c | `l`, `r`, `ltag`, `rtag`, `parent` (the field `p`) and the shared `pre`; the threading over the C stack of `RecursiveWalk`, then the walk, a step a node |
| `LevelOrder`, `ReverseLevelOrder`, `EntireTree` | bitree.c:35, 5_3/q4.c, 5_3/q7.c | the walk (`at`, `p`, `node`) over `LinkedQueue`, and `LinkedStack` on the same heap |
| `SqList`, `LinkedList`, `DLinkedList` | the three lists | fields and cells or heap; `items` is the list that the calls' indices asked for; `DLinkedList` reuses the operations of `LinkedList` that are the same code |
| `AlGraph` | al_graph.c, building | cells (`data`, `first`), a heap of arc nodes (`vert`, `next`); `items` is the graph that insert_vertex, delete_vertex and add_arc have asked for, `removed` the arcs that remove_arc has said to have deleted |
| `GraphBfs` | al_graph.c:193-231 | one step a turn of one of the three loops, over `SqQueue` with `Capacity = Block = N` |
| `GraphDfs` | al_graph.c:233-258 | the C stack as a sequence of frames |
| `Kmp` | 4_1/kmp.c | one step a turn of a loop of get_next, get_nextval or kmp |
| `Compaction` | 2_2/q3.c, q4_and_5.c:47, q6.c | `arr`, `length`, `i`, `ndel`; one step a turn; `given`: the list at the start; `drops`: what the pass deletes |
| `Majority` | 2_2/q12.c | `i`, `c`, `count`; one step a turn of either loop |
| `ArrayExercises` | the other programs of 2_2 | one call (`call`, `result`); a loop is a recursive function on what its turns change |
| `ListRemovals` | 2_3/q1, q2, q4, q7, q9, q12, q15, q19, q24 | `next` over nodes, `freed`, and the variables of the code (`cur`, `pre`, `min`, `minPre`); one step a turn |
| `ListRelinks` | 2_3/q5, q10, q11, q13, q18, q20, q25 | `next` over nodes and the cells that hold the beginning of a list; one step a turn, or for q20 a call |
| `ListQueries` | 2_3/q3, q6, q8, q14, q16, q17, q21, q22, q23; 3_1/q4, 3_3/q2, q3 | one call; a list is a sequence |
| `TreeExercises` | 5_3/q3, q5, q6, q8 to q20, 5_2/q5 | one call on the places of `BinTree` |
| `GraphArcs` | | the graphs both traversals are about, and what is reachable in one |
| `Counting` | | how many elements of an array are in a set (`ArrayExercises`, `Compaction` and `Majority` say what they promise with it), and the lemmas on counting, induction and iteration that the proofs share |
| `MC...` | | constants, and the suites |
| `...Proofs` | | theorems |

Conventions. A call that the code runs through without giving control away is
one action; where a loop's intermediate states matter (a walk over a queue, a
moving loop, a search) each turn is one. Guards are the early returns. NULL
that is followed is `pc = "segv"`, a freed or foreign address `"wild"`, a failed
assertion `"assert"`, an endless loop `"hang"`; these states have no successor.
Operators called `Faulty...` are plausible bugs of the definition that follows
them; PROJECT.json says which property notices each. What calls a caller makes
is left open unless the module's header says otherwise.

### Suites

`MCGraphs`, `MCQueues`, `MCStacks`, `MCTrees`, `MCLists` and `MCExercises` each run
several small programs in one TLC run. In C every one is an executable of its
own (the two graph traversals are separate calls), so a behaviour of a
suite is a behaviour of one of them: `which` is chosen in the initial state and
never changes, and the variables of the others keep a value that nothing acts
on, mostly `None`. A property of a suite says for every program what the comment
above it spells out. The programs do not interact, so a suite loses nothing.
The theorems are about the suites, so that each states the very definition a run
checks. `MCGraphs`, `MCStacks` and `MCExercises` extend one of their modules
(`GraphBfs`, `SharedStacks`, `Compaction`); their own definitions are called
`SuiteInit`, `SuiteNext` and so on.

## Runs

Seven runs pass; five end in a violation of what one of the code's own comments
(four, one of them the header's on remove_arc) or assertions (one) says. State
counts are distinct states.

**`sq_queue_rounded`** (2.8 thousand states). The ring for 4 elements with a block
that really has the fifth cell, as an allocator that rounds up gives. All wrap-arounds of both indices are reached. `FifoUntilOverrun`: every step is a step
of `BoundedFifo` under a refinement mapping that reads the contents off the
ring with the code's own length function, or an address outside the block has
gone out. `HeldIntact`: what the caller reads through deq's last address is
what it was, until the next deq. `SizeMod` is 16: a `size_t` wide enough for
`length`'s negative intermediate, and small enough that it does wrap.

**`graphs`** (276 thousand). Every graph of four vertices (the fewest on which
the two orders differ) with at most two arcs a vertex, in every list order, with
self-loops, repeated arcs and several components, once for each search. Both
accept each vertex once (`EachOnce`), leave out nothing reachable (`Closed` and
`DepthFirst`) and
end (`SearchesEnd`); `SearchOrder` is nearer vertices first (distances computed
from the arcs alone) for breadth, the latest accepted caller first for depth.
The unchecked results of enq are never NULL and never outside the block
(`QueueLargeEnough`), and the active calls of dfs follow a simple path of arcs
(`DepthFirst`), which bounds the C stack.

**`queues`** (59 thousand). The tagged ring, the circle, the queue of two stacks
and the linked queue against `BoundedFifo`, step by step. Two conditions are
part of the property because the code needs them: the ring is a queue until it
has been emptied after having been full (the tag is never reset: q1.c:36), and
the linked queue until deq reads a `next` nobody wrote (linked_queue.c:36);
`Leftover` ranges over NULL and every node. `LinkedInOrder` gives the exact
error of `length`. `DestoryFrees` says of destory's loop that each turn frees one
queued node and none a caller holds, and that the loop is left only when all are
freed; here too the model stops at an unwritten `next`, which destory's last deq
reads. `CallsReturn` is about the moving loop. Three elements fill every structure and let every index go
around.

**`stacks`** (29 thousand). Both stacks against `BoundedLifo` through destory and
init again; the two stacks of q5.c never overwrite each other although both
begin with cell 0, and use every cell; the bracket judge on every text of up to
4 characters over two kinds of brackets and another character agrees with the
grammar (`Judges` of `MCStacks`), and leaks just the node of the mismatched opening bracket.

**`trees`** (71 thousand). Every tree of up to three levels (7 places), in zeroed
memory, that is with `Leftover = {None}`: with any other content of fresh
memory the linked queue's own defect decides, which `queues` shows. `LevelWalks`
is the order of visits, the frontier in the queue, the two structures of q4.c
passing the same four nodes to and fro, and that no linked node is left behind;
`Returns` is termination. For q7.c, `AllButOneSubtree` says
how wrong the judge can be: whatever it accepts is complete but for what hangs
below one node, and it accepts every complete tree. The recursive traversals
and the threadings run on every tree of up to four levels and 5 nodes, which
has only children of both sides below others. The threads are right in all
three orders (`InOrder`, part `Threaded`). So are the walks, but for the one
in post-order: `InOrder` says that it leaves the order exactly at the first
node, other than the root, with a right child and no sibling. An only right
child equals its parent's `l`, which is a thread, so post_next_node takes it
for a left child and the walk begins that subtree again, for ever; after an
only left child it returns NULL, or follows the NULL `r` of the root. The tree
of `threaded_tree_test.c` has no such node.

`TreeAnswers` is about the programs of chapter 5_3, one call each on every tree of
up to three levels: what they print, link, free, build or count against a
definition on the places of the tree. Three are not what their names say:
`get_height` gives two more than the left turns to a node, since `h` counts the
stack; `in_order_post_prev` is right only where a node has not two children; and
`ancestor` leaves `r` unwritten when one node is above the other. The property
says so exactly.

**`exercises`** (236 thousand; about half a minute). Seven modules in one suite.
Strings: all texts of up to 6 and patterns of up to 5 characters over two
letters; the tables are compared with their definition by borders
(`BorderTables`), and the search returns the first occurrence that does not
start at `str[0]` (part of `Ends`). Arrays: all of up to 4 elements, 5 for the
majority search; `KeepsOrder` says at every turn where each kept element is and
that no cell is read that the pass has written, `Answers` that remove_all_same
leaves each value once, `FindsMajority` why the votes
left over decide. Lists: all of up to 4 nodes over three values, up to 7 where
only the nodes matter; at every turn every node is in reach or freed and never
both (`NoNodeLost`); what is in reach is told from the heads of the lists and the
variables the code will still read. `Answers` collects what the programs return, print or
leave, against definitions on sequences and sets, and spells out the exceptions
below.

The exceptions, all from the code. Of an array: `remove_min` (2_2/q1.c) keeps its
length and writes before the array when all elements are INT_MAX;
`remove_all_in_range4` (q4_and_5.c:3: "delete all elements between s and t,
ordered") is right only if fewer elements follow the range than it holds, because
its loop moves down as many as it deletes and not all that follow (main's own
call has fewer), and writes before the array if no element is above s; the search
of `insert_or_swap_with_next` does not look at its last element and inserts one
or two places off, and with at most one element uses an index it has never set;
`mid_search` never exceeds the median but can be below it, with five elements;
`find_min_positive` is asked for the least positive integer that does not occur
(q13.c:3), but never marks n, so it gives n where all of 1 to n occur, and -1 for
an empty array. Of a list: `list_get` (q20.c) answers NULL, as for a value it has
not found, when the node found is the last after the call; `node_reverse` and
2_3/q4.c's `remove_min` crash on an empty list; the main of 2_3/q6.c prints what
follows the node that was first before sorting; `intersection_of_ordered_list`
(q15.c) leaves the first list as it is beyond the end of the second;
`reciprocal_k2` follows NULL for a negative k; `remove_abs_same` leaves its
bitmap if an absolute value is not below n, which the call of its own main does;
`solve_list` (q25.c) loses the last one or two nodes. Of the others: `is_symmetry`
says no of a single node; `func(0)` is 2x.

**`lists`** (248 thousand; about 70 seconds on two cores). The three lists with 4
nodes or cells, and graphs of 3 vertices and 3 arcs, both interchangeable
(symmetry; there is no temporal property). `items` is what the indices, or the
vertices, of the calls ask for, except that remove_arc does not take its arc out
of `items`: it takes none out of the graph either. What it is asked for is kept
apart, in `removed`: the pairs of vertices with just one arc from the first to
the second for which it has answered true since the last add_arc of the pair.
`FollowsItems` says where the structure still is `items`, and that each arc of
`removed` is still there; the run `arc_removed` shows that this is not what the
header promises. `LengthDrifts` and `CrashNeedsDrift` say exactly how the code departs
from it: `length` exceeds the contents by the deletes at another index than 0;
a call of a list crashes only through such a drift, through at(0), or through a
`prev` that an insert in the middle has not written; the array only in a delete
at its end or a search while empty; the graph only at a vertex without arcs or,
for freed memory, once a cell has inherited the arcs of a deleted vertex.
`MaxLength = 5` lets `length` drift past all four nodes.

Violations:

* **`sq_queue_block`**: the comment sq_queue.c:7 gives up one cell of the ring; the
  block has no such cell (line 9 allocates `capacity`, line 10 onwards uses
  `capacity + 1`), so one enq too many over the queue's life stores outside it.
* **`entire_tree_judge`**: q7.c:9 promises a judgement by the definition of a
  complete tree (`JudgesCompleteness`); a root with only a right child is accepted.
* **`kmp_finds`**: kmp.c:71 promises the start of the match; "a" is not found in
  "a".
* **`arc_removed`**: al_graph.h:102 says that `true` means the arc existed and
  has been deleted; al_graph.c:142 and 152 compare the index in an arc node with
  the address of a vertex, so nothing is deleted. An arc is added, remove_arc
  answers true, and adjacent still finds it.
* **`dlinked_list_assert`**: the assertion dlinked_list.c:88 fails in the second
  insert at index 1 of a list of two.

### Bounds

Each bound is a CONSTANT: `Capacity`, `MaxSize`, `MaxVertices`, `N`, `Node`,
`Arc`, `MaxLength`, `MaxDrift` (how far `length` of a linked queue is followed),
`SizeMod` (2 to the width of `size_t`), `MaxText`, `Last`, `MostPiled` (nodes in
a tree that is piled on a stack), `LastDeep`, `MostDeep` (places and nodes of the
trees of the other traversals), `LongestText`, `LongestPattern`, `LongestArray`,
`LongestSearched`, `LongestList`, `Most` (greatest element), `MaxGets` (calls of
list_get). Structures of 3 or 4 elements have an empty,
a one-element, a full and an in-between state, an inner element with neighbours
on both sides and a wrap at every position, which is what the code's case
distinctions are made of. Four graph vertices, three levels of a tree and
patterns of 5 characters are the smallest sizes at which the orders differ, a
last level is incomplete in the middle and a border has a border.

### Fairness

The programs are sequential, so the only fairness is that a call that has begun
goes on: `WF_vars(Next)` where the whole behaviour is one call (traversals,
searches, walks, all exercises), `WF(Finish)` for the moving loop of `TwoStackQueue`, where
calls are the caller's choice. The other specifications state no fairness and
check no liveness.

## Theorems

A suite's constants get only the assumptions its module names: sizes are natural
numbers (positive where an array would have no cell), the memory that `malloc`
gives out is finite, `None` (NULL) is neither a node nor an element. TLC
evaluates them on every run. Each proof of a suite has an invariant for every
program in it; `SuiteInv` says that the program that runs is in its own, and
every property follows from it.

**`SqQueueProofs`**, for every `Capacity`, value set and `SizeMod` with the
assumptions of `SqQueue` (a `size_t` holds twice the ring, NULL is no element,
the block has `Capacity` or `Capacity + 1` cells). The inductive invariant is
`TypeOK /\ HeldBeforeFront`: the address deq returned last is the cell before
`front`, which is the one cell enq never hands out. `HeldIntact` alone is not
inductive: it does not say why enq cannot reach the held cell. `QueueIsFifo`
shows that every step is one of `BoundedFifo`. Its lemmas reduce the code's
`%` arithmetic, through the unsigned detour of `sq_queue_length`, to distances
on the ring (`SizeTExact`, `ContentsIs`), then enq appends and deq takes the
head.

**`QueuesProofs`**, the four queues of `MCQueues`, for every size and value set.

* The tagged ring: until it has been drained `rear` is `count` cells after
  `front`, and `tag` is right where the two are equal (`RingInv`). `Full` and
  `Empty` are then what they say, and every step is one of `BoundedFifo`.
* The queue of two stacks: while the loop moves one stack onto the other they
  have room together (`StacksInv`), so no push is refused; its contents are the
  second stack upwards and the first downwards, which a turn of the loop leaves
  as they are.
* The circle: some sequence of nodes, which begins with those queued and ends
  with `front`, is one circle of `next` (`IsCircle`). `OneCircle` alone names
  no order, so one cannot see from it what a new node does: it goes in before
  `front`, reusing a node changes nothing, a dequeue turns the circle by one.
* The linked queue: `LinkedInOrder` is inductive together with the types, and
  gives the contents for `AnswersAreFifo` and the frees of `DestoryFrees`. That
  destory's loop is left at all is not stated: it is not, as far as the model
  goes, where its last deq follows an unwritten `next`.

**`StacksProofs`**, the stacks and the judge of `MCStacks`, for every size and for
texts of every length up to any bound. The nodes of a linked stack are a pile
(`IsPile`): each node's `next` is the one below, the last one's is NULL, and all
are in use; what the stack answers and what destory frees is read off it. Each
of the two stacks in one array holds its cells (`SharedInv`): a push goes to a
cell between the tops, hence to none the other stack holds, and this is true
from the start, when both tops are 0. The judge has all its nodes in use on the
pile between two characters, and after a pop one more (`JudgeInv`), which is the
one a mismatch leaks.

**`GraphsProofs`**, both traversals, for every `N` and every graph.

* Breadth: the accepted vertices are distinct and are those marked, and the
  cells 0 to rear - 1 of the ring are the accepted vertices in order
  (`BfsInv`). So the ring never wraps, and because distinct vertices are at
  most `N` (a pigeonhole argument) neither the refusal nor the missing cell of
  `sq_queue_init` is met. `BfsProgress` adds that what has left the queue has
  all its successors accepted, except that the vertex being expanded has only
  those before `k`; so a finished component is closed under arcs.
* The order of breadth: each component has a root, every other vertex of it is
  a successor of one that has left the queue, and the accepted vertices come in
  the order of their distance from the root (`BfsOrder`). The distance is
  computed by iteration, with sets that grow by their successors; what is
  needed of them is proved for every sequence of sets that grows in that way
  (`Grows`). The two ends of the queue are at most one step apart, which is why
  what is appended is not nearer than what is there.
* Depth: the calls on the C stack follow a simple path of arcs, each made for the
  arc its caller is at (`DfsInv`), hence are never more than `N`; an accepted
  vertex without a call has all its successors accepted, and one with a call
  those before its present arc (`DfsProgress`). The order (`DfsOrder`) needs
  that the calls are in the order of acceptance, so that the top one is the
  latest accepted vertex with successors left.

**`ExercisesProofs`**, three programs of `MCExercises`.

* One-pass deletes, for every list and every set of deleted values: at each turn
  `i` is the number of kept elements among the `i + ndel` looked at, each of
  these is at its rank, and everything further on is untouched. So the pass
  never reads a cell it has written, never leaves the array, and ends with
  exactly the kept elements (`PassLeavesKept`).
* The majority search, for arrays of any length: `VotesBound` (twice the number
  of the candidate's occurrences is at most `i + count`, any other value's at
  most `i - count`) is kept by every turn of the first loop.
* Strings, for every text and pattern: the border in hand is the longest that the
  next entry can extend (`BorderInHand`), so the tables hold the longest borders
  and what get_nextval makes of them; in the search no match begins between
  `str[1]` and the place in hand (`MatchInHand`). `KmpFindsFromOne`: the answer
  is the first match that does not begin at `str[0]`.

**`ListsProofs`**, the three lists and the graph's own operations (`MCLists`), for
every number of nodes, arcs, values and cells.

* A list on a heap is a sequence of different nodes, with `next` leading from
  each to the one after it and NULL at the end (`IsList`). Lemmas say what
  appending, pushing in front, inserting after a node and cutting a node out do
  to that sequence, and that the code's walk is the sequence. The array needs
  none of this: its invariant is its own four properties.
* `linked_list.c`: some sequence is on the heap at all times, with `tail`
  somewhere in it (`Holds`); it is the list asked for, and `tail` is its end,
  until an insert has put a node after the tail. `FollowsItems` alone says
  nothing about a list that has parted from what was asked, but the calls go on
  and must still not crash.
* `dlinked_list.c`: the same until a call has acted on another node than its
  index names; `length` is `Len(items) + kept`; and a prev link that does not
  lead back is next to a node inserted in the middle (`BackLinks`).
* The graph: until an insert_vertex has reused a cell with arcs, each vertex
  owns a list of arcs in use and no two lists share a node (`OwnArcs`), also
  after a delete_vertex that has left wrong indices or dropped an arc too many.
  That is what a delete needs in order not to meet a freed node: a freed node
  was in one list only, and has been cut out of that one. While nothing has gone
  astray the lists are those asked for (`AsAsked`). delete_vertex is two loops;
  the second is proved turn by turn (`SweptUpTo`: the lists before `i` are
  without the arc, those after it as they were). Every pair in `removed` is an
  arc of `items` (`RemovedAsked`): add_arc takes its pair out, and a
  delete_vertex takes out the pairs of its vertex and spares the arcs of others;
  so while nothing has gone astray adjacent finds each of them.

**`TreesProofs`**, the three walks in level order of `MCTrees`, for trees with
places up to any `Last` and any number of linked nodes.

* The nodes waiting in the queue are those of the tree whose places are greater
  than the place of this turn's node, `Mark`, and at most `Edge`, each once and
  in rising order (`Covers`); `Edge` moves by one place with each enq, from
  twice the mark less one to twice the mark plus one. `HoldsFrontier` speaks of
  the time between two turns only and names no order, so it is not inductive.
* Why deq gives the next node of the tree: every node but the root has its
  parent in the tree, so the least node hidden between the mark and the next
  waiting one would have its parent hidden there too (`NoGap`).
* The linked queue is proved once for the three programs: the list from `front`
  is the queued nodes in order (`QueueOK`); every other node in use is lent
  (`Lent`). The stack of q4.c lives on the same heap: its nodes are lent ones
  (`ReverseInv`), which is why neither structure writes to a node of the other.
  What has been piled rises, so what is printed falls (`PrintedFrom`).
* is_entire_bitree: up to the edge the tree has no gap (`Solid`), without `fail`
  it has every place (`Full`), and `fail` stands for a node that lacks a child
  (`Lacks`). When the loop ends early with an empty queue, no node is left up
  to the edge, so all the rest is below the last node taken (`AllUnder`). The
  line of ancestors is a recursive function; that it has the value it is
  defined by is shown with a least closed set (`LineGrows`).

**`Counting`** has the lemmas on data: numbers of elements before a place of an
array, distinct elements are at most as many as there are (`DistinctIsShort`),
an induction over the naturals told with a set (`Induct`), and that a function
defined by iteration is what its definition says (`Iterates`).

Only model-checked: liveness and ENABLED (out of the prover's reach); `Judges`,
because the grammar of brackets is a recursion over texts, and the programs that
are one recursive call or one recursive function (`Answers`, `TreeAnswers`),
because what a recursive definition computes for every input cannot be proved
with the installed provers; for the same reason the recursive traversals and the
threadings (`InOrder`), whose orders are told by the lineages of two places
and a CHOOSE for every rank, and the searches along threads, which are recursive
functions. `MCTrees!TypeOK` covers these programs too; for the walks in level
order its parts are in the invariants of `TreesProofs`, except for the
histories and counters those need not know. The linked exercises (`NoNodeLost`,
`SuiteTypeOK`) and remove_all_same's many passes (`EachValueOnce`) are not out
of reach but not proved.

## Not modelled, and why

* Failure of `malloc`, except where `linked_list.c` looks for it: elsewhere the
  result is written through at once, and there is no later state to describe.
* `equals` callbacks other than the default. The lists' default compares
  addresses of two different objects and finds nothing, which is what `IndexOf`
  does; the graph is modelled with the comparison of data that its test passes.
* Functions that only read and print or call back for each element (`top`,
  `foreach`, the walks `main` uses to print): no state changes.
* `chapter_4_1/kmp.c` with an empty pattern, `q7.c` with a NULL root: no caller.
* `src/lib` (wolfSSL), `certs`, `inc/version.h`, `src/main.c`, empty headers:
  third-party, generated or without an operation. wolfSSL is all but about four
  thousand of the repository's lines of code, none of them called by the
  structures or the exercises; of the repository's own C files all but drivers,
  printing functions and type definitions are modelled.
* `chapter_6_3/test.c`, `threaded_tree_test.c` and `test.c`: drivers.
* Memory that the exercises never free (`get_height`'s stack nodes, the new list
  of q14.c): nothing later depends on it. Trees of more than 50 levels for
  `tree_width`, whose counters are an array of 50 (5_3/q14.c:27): beyond the
  bounds.
* After `bitree_pre_del` (5_3/q11.c) the parent still points to the freed subtree;
  the model gives the nodes freed, and no program follows that pointer.

## Plan

The order was: the ring, because the graph search is built on it and its
refinement is the sharpest statement; the graph searches; the other queues and
stacks; what is composed of them; the lists and the graph's own operations.
Modules that are to be proved about use functions for recursion and carry named
assumptions.

Then the exercises, which use the same structures or none, and the theorems on
what could be stated for every size without an induction over data.

What could follow: the linked exercises as theorems, with the list on the heap as
a sequence as in `ListsProofs`; remove_all_same's many passes; that in a C stack
of `RecursiveWalk` each call is made by the call for its parent.
