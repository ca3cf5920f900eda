# A verification of hnswlib-jna

hnswlib-jna wraps hnswlib, a C++ library for approximate nearest-neighbour search, for Java. This
directory holds TLA+ models of the parts of it whose correctness depends on the order in which
things happen, the TLC runs that check them on small instances, and TLAPS proofs about them for
every instance. Every definition is written from the code; the line numbers below are those of the
files under `src/`, and `PROJECT.json` maps each definition to its lines.

## The system

| Component | State | Operations | Who uses it |
| --- | --- | --- | --- |
| HNSW graph (`hnswlib/hnswalg.h`) | elements with a label, a vector, a level, one link list per layer and a delete mark; label table; entry point and top level; four kinds of mutex | `addPoint` (insert, or update of a known label), `markDelete`, `searchKnn`, `saveIndex`, `loadIndex`, `resizeIndex`, `checkIntegrity` | the binding |
| Visited list pool (`hnswlib/visited_list_pool.h`) | arrays of 16-bit cells with a 16-bit tag each; a deque under a mutex | get a list (reset), mark cells, give it back | every search of the graph |
| Native index (`bindings.cpp`) | pointer to the graph, flags `index_initialized` and `index_cleared`, counter of automatic ids | create, init, add, query, mark deleted, get data, save, load, clear | Java, through JNA |
| Java `Index` | pointer to the native index, flags `initialized`, `cleared`, `referenceReused`, set of ids | the same, with result codes turned into exceptions; finalizer; `synchronizedIndex` | the application |
| Java `ConcurrentIndex` | a fair read-write lock over an `Index` | the same; inserts, deletes, loads under the write lock, queries under the read lock | the application |
| JNA interface and loader | a singleton library handle | load the native library | `Index` |
| Distance functions (`hnswlib/space_l2.h`, `space_ip.h`) | the function a space has chosen for its dimension | squared L2 and inner product, 16 or 4 coordinates at a time or one by one | every search of the graph |
| Brute-force search (`hnswlib/bruteforce.h`) | a flat table | exhaustive search | nobody |

Calls go one way: application, `ConcurrentIndex` (lock), `Index` (flags), binding (flags, capacity
test, numbering), graph, pool. There are no callbacks or messages. Threads share the native index;
the documented way to build a large index is to call `Index.addItem` from many threads (no lock in
Java at all) and then to wrap it with `synchronizedIndex`.

What is hard here:

* insertions on several threads, each holding its own element's mutex while it waits for those of
  its neighbours; the entry point, guarded by a mutex that is kept by some calls and dropped at once
  by others, and read after it was dropped;
* updates (a label that is known already), which rewrite their neighbours' lists from what they read
  earlier and their own list without its mutex;
* deletion marks, which keep an element in the graph but out of search results, the entry point
  included;
* pooled visited arrays that are never cleared but re-tagged with a counter that wraps around;
* a search that ends early, by a bound that deleted elements do not move, and that no mutex of the
  graph protects: the read lock of `ConcurrentIndex` is all that keeps insertions away from it;
* a file that is written in place, piece by piece, by a process that may end, and from which levels,
  labels and the flag of deletions have to be found again;
* the life cycle: initialise, load, clear, finalizers, two views of one native index.

What makes each component correct:

* graph: links only between existing elements of the layer, no duplicates, no self-links, lists
  within their capacity; the entry point a finished element of the top layer; every new element
  linked; no call works on an element another one is working on; no two calls wait for each other;
  nothing is read before it was written;
* queries: nothing deleted is answered, nothing within reach and near enough is missed, and every
  query returns;
* save and load: a cut file is refused, and what is loaded is what was saved;
* distances: every coordinate counted once, none past the end read;
* pool: every search sees a private, initially empty visited set; no list lost, none in two hands,
  no more lists than concurrent searches;
* native index and Java classes: no use of a released graph; the flags of both sides agree; the
  operations that are documented as thread-safe are.

`PROJECT.json` lists the hazards line by line.

## The modules

| Module | Models | From |
| --- | --- | --- |
| `VisitedSets` | what a search needs: a visited set of its own | `hnswalg.h:162-242` |
| `VisitedListPool` | the pool and its tagged arrays; implements `VisitedSets` | `visited_list_pool.h` |
| `VisitedListPool_proofs` | theorems about it | |
| `MCVisitedListPool` | its instance for TLC | |
| `HierarchicalNSW` | `addPoint` with everything it calls, on any number of threads, the binding's `add_item`, and `markDelete` | `hnswalg.h`, `bindings.cpp:112-123` |
| `HierarchicalNSW_proofs` | theorems about it, for every workload | |
| `Insertions_proofs` | theorems about it, when no call updates what another inserts, and when calls take turns | |
| `MCHierarchicalNSW` | metric, vectors and workloads for TLC | |
| `SearchKnn` | `searchKnn` between the calls of `HierarchicalNSW`, and the flag of deletions | `hnswalg.h:247-333, 780-788, 1104-1157` |
| `SearchKnn_proofs` | theorems about it | |
| `MCSearchKnn` | its queries for TLC | |
| `Persistence` | `saveIndex` piece by piece, the end of the process, `loadIndex`; composed with `SearchKnn` | `hnswalg.h:601-751` |
| `Persistence_proofs` | theorems about it | |
| `MCPersistence` | its instance for TLC | |
| `Distances` | the choice of a distance function and the loops of each | `space_l2.h`, `space_ip.h` |
| `Distances_proofs` | theorems about it | |
| `NativeIndex` | the binding's functions, each alone with a native index, and what they ask of the graph's elements | `bindings.cpp:29-260`, `hnswalg.h` (save, load, delete) |
| `Index` | the life of Java objects, their finalizers and synchronized views, saved files | `Index.java` |
| `Index_proofs` | theorems about it | |
| `MCIndex` | its instance for TLC | |
| `AtomicIndex` | what the thread-safe class promises: each call at one instant | `ConcurrentIndex.java` (its comments), `NativeIndex` |
| `ConcurrentIndex` | the read-write lock and the calls under it, on any number of threads; implements `AtomicIndex` | `ConcurrentIndex.java` |
| `ConcurrentIndex_proofs` | theorems about it | |
| `MCConcurrentIndex` | its threads and calls for TLC | |

### VisitedListPool

`lists` holds every list ever allocated, `pool` the deque. A thread takes a list (`TakePooled`,
`TakeNew`: the two branches under `poolguard`), resets it outside the mutex (`ResetHeld`), meets
elements (`Visit`: the test and the write of one cell), and gives the list back (`Release`). The
cells of a new list hold anything, and its tag starts at the largest value, so that the first reset
wraps around and clears it, as `curV = -1` and `reset()` do. `MaxV` stands for 65535. The refinement
mapping reads the visited set of a search off its array: the cells equal to the tag.

### HierarchicalNSW

Each call of `add_item` is a thread. Its steps are the stretches of code between two acquisitions
of a mutex, split further wherever the code reads or writes shared state that the mutexes it holds
do not protect:

| Action | Code |
| --- | --- |
| `AddItem` | `Index::add_item`: capacity test without a lock, automatic number |
| `Reserve` | `addPoint` under `cur_element_count_guard_`: known label, no room, or the next id |
| `LockForInsert`, `LockElement` | the update lock of the stripe, the link lock of the element, the random level |
| `LockGlobal`, `ReadEntry` | the mutex `global`, kept only by a call that exceeds the top level; the entry point is read and the element's memory set up afterwards |
| `FirstElement`, `Finish` | the two places that write the entry point |
| `Descend` | one list read, in the greedy descent of `addPoint` or of `repairConnectionsForUpdate` |
| `Expand` | one turn of the loop of `searchBaseLayer` |
| `SelectNeighbors` | the end of the search, the re-adding of a deleted entry point, the heuristic |
| `TearOwnList`, `WriteOwnList`, `Connect` | `mutuallyConnectNewElement`: the own list, then one neighbour's list at a time |
| `LockForUpdate`, `ReadEntryUpdate` | the update branch of `addPoint`, the head of `updatePoint` |
| `OneHop`, `TwoHop`, `Relink` | the loop of `updatePoint` over the layers |
| `MarkDelete` | `markDelete` |

Abstractions, and why they are sound:

* A link list is a set of ids. No code looks at the order of a list, and `NoDuplicateLink` is stated
  where a duplicate would be created, so that nothing is hidden by the set; what a list with a duplicate
  does afterwards is not modelled.
* The priority queues are sets ordered by the distance to the query (`Closer`); a queue cut to its
  `n` best is `Nearest`. Distances are computed with the present vectors, where the code keeps those
  computed when the element was met: the two differ only while another call overwrites a vector.
  The queue of `searchBaseLayer` also keeps candidates that are too far; they would end the loop, and
  are dropped at once in the model.
* `updatePoint` computes the new list of a neighbour before it takes its lock, from vectors that are
  not locked; the model does both in one step. The write of a vector is one step.
* The level is drawn from `0 .. TopLevel`; the code draws from an exponential distribution without
  a bound that matters. `ef_construction_` is at least `M_`, as the constructor makes it.
* The update probability is 1.0, the value `addPoint` passes.
* Reading a list that does not exist, or the first of no neighbours, may do anything: the call goes
  to "crashed" and stays there with its locks. Two other outcomes are kept because the build produces
  them: memory fresh from `malloc` may hold zeros, so the bottom list of an element nobody has set up
  may also read as empty (`Readable`); and at layer 0 the first of no neighbours (409) is not used
  for anything, so the insertion may also finish, with an empty list (`SelectNeighbors`).
* The slots past the end of a list keep what they held when the list was longer: the count shrinks
  (493, 896) and nothing is cleared. `stale` remembers those ids, also across a save and a load. It is a
  superset: an id stays in it after its slot was overwritten, until the element's memory is set up anew.
* The own list of an update is rewritten in place, first the length, then slot by slot, without the link
  lock (`TearOwnList`). Until it is written out, other calls find any choice of old and new ids, as
  many as the old length allows (a reader may have taken that before it changed) or the new one; in
  a list that grows also stale ids, or 0 where nothing was ever written. What another call appends to
  the list meanwhile may survive or be overwritten (`Written`; `half` is what the update left there).
  One mixture stands for all readers of one rewriting.
* `MarkDelete` happens between calls: `ConcurrentIndex` holds its write lock; on a plain `Index` it
  would race with the hash table of labels, which is undefined from the first access on.
* The calls start in the order of `Workload`; with `MaxParallel = 1` they run one after the other, as
  under the write lock of `ConcurrentIndex`. Only the calls in `MayOverlap` may begin beside another
  with their label; with `MayOverlap = {}` no two are in flight together, which is what a careful
  application would ensure.
* Failed allocations are left out.

### SearchKnn

`SearchKnn` extends `HierarchicalNSW`: its steps are those of the graph, while no query runs, and
those of one query. `BeginQuery` reads the count and the entry point, `DescendQuery` one list of an
upper layer, `ExpandQuery` takes the closest candidate of `searchBaseLayerST` and meets its bottom
list, `AnswerQuery` cuts the results to `k` and refuses to return fewer, as the binding does, and
`ReturnQuery` gives the read lock back. `hasDeletions` is the flag that chooses the instance of the
template (`Hidden`): it is set by `markDelete` before the label is looked up (`MarkLabel`).

* A query begins only when no insertion is in flight, and none begins while it runs (`Quiet`, `Write`).
  This is the lock of `ConcurrentIndex`, whose comment says (11-12) that the native code does
  not support queries beside insertions. Without it (the mutant `Always`) a query reads the entry point -1
  of an index whose first insertion is under way.
* Queries write nothing another query can see (visited lists are private, which
  `VisitedListPool` shows), so one at a time stands for any number.
* A candidate that is too far would end the loop when its turn came; the model drops it when
  the list it is in has been read. A deleted element is a candidate as long as the code keeps it one:
  until there are `ef` results, or while it is closer than the farthest.
* Ties in the distances are broken by id; the points of the runs have none. The metrics counters and
  the order of the answers are left out, and so is the test for an id out of range in a list (1125),
  since links only lead to elements.
* `Ef` is `ef_` throughout. `loadIndex` sets it back to 10 (723): the model's application sets it again.

### Persistence

`Persistence` extends `SearchKnn`. `BeginSave` truncates the file, `WritePiece` appends one piece: the
header, the bottom memory of each element (label, vector, list with its stale slots, deletion mark), then for each element
the size of its upper lists and the lists. `Exit` is the end of the process at any moment, with part
of the next piece possibly written (`torn`); it also stands for a full disk, since `saveIndex` looks at
no stream state. `Load` walks the sizes to the end of the file as the code does (`Walked`; a seek may
go past the end, a read there fails) and either refuses the file or builds an index from it
(`Restore`): levels from the sizes, the label table from the labels, `has_deletions_` from the marks.

* `ConcurrentIndex` saves under its read lock: the index does not change during a save, so the
  variables of the graph still hold what is saved until `Load` replaces them.
* Every save is followed by the end of the process and a load by another one, which makes the same
  calls that were left. (The binding refuses calls on an index that was loaded without having been
  initialised: see `loaded_index`. This application initialises first.) A load in the same process and
  loads with another capacity are in `NativeIndex` and `Index`.
* Bytes within a piece are not told apart: a piece is there, not there, or torn. A file that was
  damaged otherwise is not modelled: the code has no checksum, so it would load whatever its lists say.

### Distances

The variables are those of one call of the function a space has chosen: where the pointers are, how
often each coordinate has been added, and how often the 1 of `1 - sum`. `Chosen` is the constructor of
the space, `By16`, `By4` and `By1` one turn of each loop, `End4Loop` the call of the plain function on what is
left. `simd` says whether the library was built for SSE or AVX; an AVX loop of 8 coordinates twice
is one turn of 16. Floating-point values, and so rounding, are left out: the sums of two functions
differ in the order of the additions.

### NativeIndex and Index

`NativeIndex` has no state of its own: a native index is a record, and each function of the binding
an operator from the record to an `Outcome`, the record it leaves and the result code it gives. The
two `TRY_CATCH` macros are `ClearedCheck` and `InitializedCheck`. `Index` and `ConcurrentIndex` use the
same operators, so a call means the same alone and under the lock.

`Index` has one action per public method of `Index.java`, from the Java method through the binding
and back, one for the constructors (`New`), `synchronizedIndex`, and one for the collector running the
finalizer of an object the application has dropped (`Drop`, `Finalize`). An object has the Java
flags and two references: `reference`, the object whose constructor made the native index it uses,
and `ids`, the same for the set of ids. A view shares both with its original. The native index that
the view's own constructor made is forgotten, as in the code, which leaks it.

* The graph is reduced to its elements: a label, a vector and a deletion mark. `HierarchicalNSW` has
  the links. A query answers any `k` visible labels, or that it found too few, since the search is
  approximate and the order and distances of the answers are not at stake here. `M`,
  `efConstruction`, `ef`, the space and the normalisation of vectors only change what is found.
* `appr_alg` is null, live, or *released*: the graph was deleted and the pointer still leads there,
  which is what a failed load leaves. The use of a graph that is not there is the result code
  "undefined", and the run of the model ends with it (`crashed`): the program may do anything.
* A file is what `saveIndex` wrote: a header and the elements. A save may also leave a damaged file,
  or leave the old one, and report success, since `saveIndex` looks at no stream state.
* `setIds` and the copy that `getIds` makes are left out: they do not touch the native index.

### ConcurrentIndex

One object and its threads. A call waits in the lock's queue (`Ask`, `Acquire`), passes or fails the
tests of the binding (`Refuse`, `Enter`), does its work (`Perform`) and unlocks (`Unlock`). The call is split
between the tests and the work because that is where a call without the lock would see it: the
capacity is tested before the point is added, a load deletes the old graph before it has a new one, a save writes the count before
the elements. `addItem` with `saveId` is inherited and adds the id after the lock is released
(`SaveId`). The lock is `ReentrantReadWriteLock(true)`: first come, first served, neighbouring readers
together, as its documentation says; it is external code. The model's calls do not nest, so
reentrance plays no part.

The refinement mapping has the abstract native index change when `Perform` does the work. Only a load has visible
effects before that (`Settled` gives an index whose graph is being replaced its old one back), and
nobody else is inside then. Calls through two views of one index exclude nothing of one another,
since each has a lock of its own; there is nothing to check there but the disagreement.

## The runs

The runs of the graph use points whose pairwise distances are all different: on a line (marks of a
Golomb ruler), where the heuristic keeps at most one neighbour on each side, and in
`inserts_and_deletes` in a plane, four around one, where it finds more diverse neighbours than a list
of an upper layer holds. `M = 2` (lists of 2, and of 4 at the bottom) and
`UpdateLocks = 2`, so that elements share an update lock as 65536 locks make them do in a large
index. TLC draws every level and every interleaving.

| Run | Instance | What it shows |
| --- | --- | --- |
| `visited_lists` | 3 threads, 2 elements, tag 0..2, 1 initial list | every property of the pool and the refinement of `VisitedSets`; the tag wraps around on every second search, and with 3 threads lists are taken, allocated, and found in the deque in every order |
| `parallel_inserts` | 4 insertions, all at once, 2 levels; queries for 2 points, `k = 2`, `ef = 4` | the graph is well formed at every step, no sanity check throws, no duplicate links, the entry point is on top, and only finished elements become neighbours; no call waits for itself, and none wait for each other in a circle; whenever no insertion is in flight, a query finds all that was inserted |
| `inserts_and_deletes` | 5 insertions in turn, 3 levels, deletions between them, queries with `k` 1 and 2 and `ef = 2`, saves and loads anywhere | every new element is linked, whichever elements are marked deleted (`LinksUnlessCutOff`; its exception needs a pruned bottom list, see below; that the graph stays well formed here is `GraphSurvives`); deleted elements are never answered, also after a load, and a narrow query still finds something; whole files load as they were saved, others do not |
| `updates_in_turn` | 10 calls in turn, 2 levels, an index that fills up; queries for 3 points, `k = 2`, `ef = 5` | updates, one at a time, keep the graph well formed and pass every check; an automatic number meets a label in use; the full index refuses; wide queries are exact on what they can reach; every query returns |
| `update_beside_insert` | 4 insertions and an update of one of them, which may overtake it; 2 in flight, 2 levels, fair threads | a call has its element to itself; every call returns, unless one is *caught*: waiting for a lock it holds, or in a list that is not there |
| `distances` | dimensions 0 to 70, 3 spaces, with and without SIMD | the chosen function adds every coordinate once and reads none past the end; 70 has several blocks of 16 with every remainder, which the proofs extend to all dimensions |
| `index_life` | 2 objects, 1 path, capacities 1 and 2, label 1, automatic number 0 | the flags of Java and binding, what the tests protect, the clearing of an index, which ids enter the sets (-1 included), finalizers and views, loading with every capacity |
| `shared_object` | 3 threads, 2 labels, room for 1 item, loads of a good and of a damaged file, save, clear | calls under the lock are atomic, and each caller gets its turn |

The bounds are the smallest at which each case happens: two levels make an element that is above the
entry point, one at its level and one below; three levels are needed for a search at an upper layer
that is neither the first nor the last; four parallel calls make two that race for `global` while a
third is below them and a fourth waits for a lock. In `update_beside_insert` the insertion with id 0
can stall while three more elements are linked in a row and the middle one is updated between the other
two, so that its own list grows beside a reader whose element is 0: a call is caught there in two
ways, by the slot that was not written yet and by the update that overtook the insertion. With three
elements the first does not happen. A search with `ef = 4` or 5 is as wide as the index
of its run, one with `ef = 2` is not, and 2 results of 5 elements leave deleted ones to be walked through. Two objects are the original and its view, or two
originals with one file between them; a third could only repeat what one of them does. Two
capacities make a file loaded into less room than it was saved from. Three threads make a writer and
a reader wait while another is inside. Calls not among those of `shared_object` (`hasId`, `knnQuery`,
`getLength`, `setEf`) have the same shape as `getData`, and were checked in their place.

What these bounds do not reach, and what stands in for it:

* No bottom list of `parallel_inserts` and `inserts_and_deletes` is pruned (it takes a sixth element),
  so whether an element can be lost, or cut off, is not asked there. `HNSW_insert_cut_off.cfg` (seven
  elements, half a million states) is `LinksUnlessCutOff` where bottom lists are pruned: some insertions do
  end with an empty list there, and `InsertionsLink`, the property without the exception, is violated.
  The theorems cover every size.
* `SanityChecksHold` is checked without deletions: with them it fails (`insert_among_deleted`). `GraphWellFormed` and
  `NoDuplicateLink` are checked for racing insertions and for updates in turn: with racing updates they
  fail (`HNSW_duplicate_link.cfg`).
* `update_beside_insert` has two calls in flight; with three, at one level, both properties hold as well.

Fairness: `FairSpec` of `HierarchicalNSW` has weak fairness for the calls together: while some call can
take a step, some call does. That is little (an operating system that runs any thread at all that can go on), and it is
enough, since a call takes a bounded number of steps unless its search runs in circles, which would then be a
counterexample. Nothing is assumed of the mutexes, which do not promise to be fair.
In `ConcurrentIndex`, `FairSpec` has weak fairness for every thread that is inside a call;
that the lock is first come, first served is in the model's steps and not in its fairness, as it
is the constructor's argument that makes it so. Nothing makes a thread call again.
In `SearchKnn`, `FairQSpec` has weak fairness for the steps of a query that has begun: its thread runs
and waits for nothing. Nothing makes a query begin.

### Disagreements with the code's own statements

Each of these runs finds a behaviour of the code that contradicts a comment in it.

| Run | What happens | What is contradicted |
| --- | --- | --- |
| `relock` | `addPoint` publishes a label (1005) before it takes the update lock (1009). A second call with that label can update the element first and link it into the graph; the insertion then finds its own element in its search and locks a mutex it holds | the purpose of the update lock, 110 and 1008 |
| `insert_among_deleted` | an insertion whose search at one layer meets only deleted elements reads the first of no neighbours | 777, 957 |
| `update_deleted_entry` | the entry point is marked deleted and then updated: it is filtered out of its own candidates and put back by the next statements, as a deleted entry point (958-965). It chooses itself as a neighbour, and the call throws with its own list rewritten | "To prevent self loops", 957 |
| `deletion_hides` | the search at the bottom stops at a candidate farther than the farthest result even with fewer than `ef` results. A deleted element is a candidate and no result, so what lies behind it may be answered no more, with `ef` larger than the index: of a chain of three, marking the middle one hides the last | 777, and `AbstractIndexTest.java:491-503`, where only the marked item disappears |

TLC finds five more with configurations that are not among the runs of `PROJECT.json`, each with the one
property it violates:

| Configuration | What happens | What is contradicted |
| --- | --- | --- |
| `HNSW_torn_list.cfg`, `NoRelock` | the own list of an updated element grows, its length is written before its slots, and without its lock: a search that reads it meanwhile takes the 0 of a slot nobody has written for an element. If 0 is the element the reader is inserting, it locks a mutex it holds; if 0 has no such layer, it reads past its lists | the purpose of the locks, 110 |
| `HNSW_duplicate_link.cfg`, `NoDuplicateLink` | an update rewrites a neighbour's list from candidates it gathered earlier; an insertion that is among them then appends its element a second time | `assert(s.size() == size)`, 1195 |
| `HNSW_lost_element.cfg`, `NobodyLost` | the last of six elements goes into the full list of the only neighbour it has, and is pruned from it at once: no list leads to it | `assert(inbound_connections_num[i] > 0)`, 1201 |
| `Index_loaded.cfg`, `LoadedAnswers` | `load_index` makes a graph and does not set `index_initialized`: an index that was loaded, not initialised, refuses every call | `Index.java:240` |
| `Index_saved_ids.cfg`, `IdsAreItems` | an item added with the id -1 and `saveId` gets a number of its own, and the set of ids gets -1 | `Index.java:149` |

Others that were met, by reading or as a step of a model:

* `checkIntegrity` asserts that no list holds id 0 (1187), which is an ordinary id.
* The binding refuses to update an element of a full index (`bindings.cpp:114`) although `addPoint`
  would do it (985-986).
* An id that was deleted and is added again keeps its deletion mark: it is among `getIds`
  (`Index.java:140, 149`), and hidden from `hasId`, `getData` and queries.
* The integer distance `L2SqrI` (`space_l2.h:206-234`) leaves out the last `dim % 4` coordinates; nothing
  makes an `L2SpaceI`. `Counted` in `Distances` says so.
* `testConcurrentInsertQuery` (`AbstractIndexTest.java:148-189`) queries beside insertions on a plain
  `Index` too, where nothing protects the query (see `SearchKnn`).
* Automatic ids start at 0, not 1 as `Index.java:110` says, and take the place of an item that was
  given the same id.
* A load that fails leaves the pointer to the graph it has deleted (`bindings.cpp:95-97`). Every later call,
  clear and the finalizer included, uses released memory; so do the getters after `clear`.
* Two views of one index have two locks, and both finalizers clear the native index.
* `addItem` with `saveId` on a `ConcurrentIndex` adds the id after a deletion that overtook it: the id
  stays without its item.

## What is proved

TLAPS checks every proof. The constants are arbitrary but for the named assumptions of the eight
modules with proofs: sizes are positive, distances are natural numbers, `EfConstruction >= M`, labels and capacities
are natural numbers (there may be infinitely many labels, objects and paths), a request is one
of the `Methods` of `ConcurrentIndex` with arguments of its kind (`RequestsAssumption`). Nothing is
assumed of the metric beyond that (no symmetry, no triangle inequality), of the workload (labels may
collide and race), or of the number of calls in flight. Where more is needed a theorem says so in its
`ASSUME`, with one of these:

| Hypothesis | Says | Why it is needed, and who satisfies it |
| --- | --- | --- |
| `InsertionsOnly` | every item has an id of its own, so no call is an update; any number of calls in flight | with updates beside insertions most properties of the graph do not hold (`relock`, the list of disagreements). The documented way to fill an index from many threads; `parallel_inserts`, `inserts_and_deletes` |
| `InTurn` | one call in flight, insertion or update, and nothing is deleted (`MaxParallel = 1`, `DeleteLabels = {}`) | an update of a deleted entry point chooses itself and throws (`update_deleted_entry`). The write lock of `ConcurrentIndex`; `updates_in_turn` |
| `DeleteLabels = {}` | nothing is deleted | an insertion that meets only deleted elements at an upper layer reads the first of no neighbours (`insert_among_deleted`) |
| `MaxParallel = 1` | calls take turns; anything may be deleted between them | the argument follows one search through lists that nobody else changes meanwhile. The write lock of `ConcurrentIndex`; `inserts_and_deletes` |
| `[]~Pruning` | in this behaviour, no call has come to connect its element to one whose bottom list is full | pruning can cut the last link to an element (`HNSW_lost_element.cfg`); then a search cannot find it. A hypothesis about the behaviour and not about the constants: up to the first time a full bottom list must be pruned, an index of any size loses nothing, and it is pruning, and no interleaving, that loses an element |

`VisitedListPool_proofs`: `TypeCorrect`, `ListsHaveOnePlace`, `CellsNeverAhead`, `PoolStaysBounded`,
`PoolImplementsVisitedSets`. The inductive invariant says that the deque and the hands of the threads
partition the lists, and that no cell of any list exceeds its tag (the tag of a fresh list is the
largest value, so what its memory holds cannot): the next tag is in no cell, and the set read off the
array starts empty; when the tag wraps around, the array is cleared. The number of lists is bounded because one is allocated only when the deque is empty.

`HierarchicalNSW_proofs`: `TypeCorrect`, `ElementsExclusive`, `EntryPointCorrect`, `EntryMonotone`.
The inductive invariant `IInv` is the type invariant and

| Conjunct | Says | Needed for |
| --- | --- | --- |
| `CallsOK` | what a call knows at each place: it has an element below the count, a search has a start, an insertion in the upper layers has seen a top level | types of every local variable |
| `LabelsOK` | the label table leads to existing elements | the same, for updates |
| `StripesHeld` | a call at work holds the update lock of its element's stripe | `AloneWithElement` |
| `OwnElements` | no two insertions have the same element | `LevelsDrawn` |
| `LevelsDrawn` | the level of the element an insertion works on is the one it drew | the level of a new entry point |
| `GlobalGuards` | an insertion above the top level it has read holds `global`, the others do not; while one holds it the top level stays what that one read; nobody has read more than the top level | the top level never drops |
| `FirstAlone` | between the two writes of the first insertion nothing is inserted and no other insertion has read the top level | the entry point 0 of the first write is never seen as an insertion's start |
| `EntryPointOnTop` | the property itself | |

The point of the argument is `GlobalGuards`: a call that releases `global` at once may read an entry
point newer than the top level it knows, but only a call that keeps the mutex writes either, so the
two are changed together as seen by every call that would write them. The steps that neither write
the entry point nor take a lock are dispatched by two lemmas, `Walk` (a call goes on) and `Thrown` (it
returns with an exception), and those before it reads the top level by `Approach`. Exceptions, crashed
calls and deletions are among the steps, so the theorems hold in the runs of the disagreements too.

`Insertions_proofs`, for parallel insertions: `GraphStaysWellFormed`, `NothingLinkedTwice`,
`NeighborsAreFinished`, `NoSelfDeadlock`, `NoDeadlock`, `NeverItsOwnNeighbor`, with deletions in between; and while
nothing is deleted `NoSanityCheckFails`, `EveryInsertionLinks`. All assume `InsertionsOnly`. The inductive invariant `JInv`,
beside `IInv`:

| Conjunct | Says | Needed for |
| --- | --- | --- |
| `Fresh` | no call is an update, and every label in the table belongs to a call that has reserved its element | no step of `updatePoint` is ever taken |
| `OwnLocks` | between two steps a link lock is held by the insertion of its element and by no other call | an element is *finished* exactly if its memory is set up and its lock free |
| `MemoryFilled` | an element's memory is set up from `ReadEntry` on, and stays so | no list of an element that has none is read |
| `NoLateException` | only a call that was given no element throws | a finished element was inserted to the end |
| `LinksOK` | links lead from elements to other elements of the layer, and lists keep their capacity | `GraphWellFormed` |
| `SearchOK` | what a call has gathered are elements of its layer other than its own; what it has expanded or selected is finished | `NeighborsFinished`, and the lists `Descend` and `Expand` read |
| `UnlinkedBelow` | no list leads to a new element at a layer its insertion has not been at, nor, while it links, from a neighbour that is still to come | `NoDuplicateLink`, `NoSelfNeighbor`, `NoRelock` |

The core is the last line of the table: others can meet a new element only at the layers its insertion has
linked, and to read its list there they wait for its lock, which the insertion keeps to the end. That is
why a search expands finished elements only, and why a step never finds its own element. Three
properties take a little more: `Choosy` (no call has selected its own element), `Given` (every id below the
count is the element of some call, so none of those a query can meet is without memory), and, without
deletions, `KInv` (`SomethingFound`: a search has always at least one result and the heuristic at least
one neighbour). The heuristic is a recursive function, but what the proofs need of it, that its result
is a diverse part of its candidates which is not empty if they are not, follows from one turn of
the recursion at a time: `DiverseExists` makes the function by taking the smallest set at which it
could fail, `DiverseMeaning` reads off what it computes.

`NoDeadlock` needs an order of the mutexes, and the code has none: an insertion holds a stripe and its
own link lock, and perhaps `global`, while it waits for the link lock of whatever element its search
met. The order is in the graph. `WInv` adds that a stripe is held by a call past the stripes and
`global` by one past `global`, and that an element met in a search at layer `l` belongs to a call that
is below `l` by now, or about to leave it, or done (`Passed`: it was linked at `l`, and calls only
fall, `Falls`). So the `Rank` of a call (waiting for a stripe, then for `global`, then `layer + 1`
while it descends or searches, 0 elsewhere) is larger than that of any call it waits for
(`AwaitsLower`), and of any calls that wait, one of the lowest rank waits for none of them.

For calls that take turns (`InTurn`), updates among them: `GraphWellFormedInTurn`, `ChecksHoldInTurn`,
`NothingLinkedTwiceInTurn`, `EveryInsertionLinksInTurn`. The inductive invariant is
`IInv`, `HalfOK` (nobody has written to the list an update has half written) and `TInv`:

| Conjunct | Says | Needed for |
| --- | --- | --- |
| `OneBusy` | one call runs | the others know nothing that could go stale |
| `AllWell` | nothing is deleted, nobody has crashed, only a call without an element has thrown | `SanityChecksHold` |
| `Allotted` | the elements set up are those given out, but for one whose insertion is not there yet; all but the one being linked are inserted | the entry point an update reads is an element of the top layer |
| `LinksInTurn` | every list is proper, but the one an update has torn and not yet written | `GraphWellFormed`, and every list that is read |
| `Home` | what a call knows of its element, its level and the entry point; an update still knows the present top level | no element is above the top level: the check at line 942 |
| `GatheredOK` | hops, candidates and neighbours lie in the layer; what is relinked is other than the element | the lists `Relink` and `Connect` write |
| `InsertOK` | `UnlinkedBelow` and `SomethingFound`, for an insertion | `NoDuplicateLink`, `InsertionsLink` |
| `Choosy` | no call has chosen its own element | `LinksInTurn`, the check at line 449 |

An update gathers a neighbourhood and replaces lists by choices from it, while its own element stays
linked: `RelinkTurns` shows that this keeps every list proper. The list it has torn is whole again before
anybody reads it, since nobody else runs (`OneBusy`) and it reads none itself in between.

`Index_proofs`: `TypeCorrect`, `FlagsCorrect`, `NeverOverfull`, `ClearedStays`, `ChecksSuffice`, `IdsEnter`,
`ViewsSurvive`, which are all the properties of the run `index_life`. `IdsEnter` includes the call
`addItem(item, -1, true)`: an id enters a set together with its item, and -1 only as the native index takes
a number of its own. For each function of the binding a lemma says
what it does to any native index that is in order (`NativeOK`: typed, finitely many elements, no more
than the capacity while there is a graph): it leaves one that is in order, `index_initialized` is
never taken back, a cleared index is left as it is (`Grown`), and, but for a failed load, an index
that passes the tests has a graph if it did before (`StaysProtected`). A lemma per method then carries
these facts to the whole state. The inductive invariant adds to the type invariant and `FlagsAgree`

| Conjunct | Says | Needed for |
| --- | --- | --- |
| `NativesOK` | `NativeOK` of every native index | `CapacityRespected` |
| `FilesOK` | a file that can be loaded counts its elements rightly, and has no more than the capacity it was saved with | the capacity of a loaded index |
| `ViewsMarked` | a plain `Index` uses the native index it made; an object whose native index another uses is marked `referenceReused` | the finalizer |

`SearchKnn_proofs`: `QueriesLeaveTheIndexAlone`, `QueryTypeCorrect`, `DeletedNeverAnswered`,
`WideSearchExact`, `SearchFindsSomething`, for every workload; and, below, `QueriesStayInTheGraph`,
`QueriesStayInTheGraphInTurn`, `ParallelInsertionsFound`, `AloneLinksUnlessCutOff`. A query changes no variable of the graph, so `QSpec` implements `Spec`
and what is proved of the graph holds beside queries. The inductive invariant `QIInv` is the types, the
properties of the answer, and

| Conjunct | Says | Needed for |
| --- | --- | --- |
| `Placed` | a descent is at an element, above the bottom | types |
| `FlagCovers` | the flag of deletions is set if anything is marked | `NothingDeletedAnswered` |
| `Searching` | the start was visited, and all that was visited is within reach of it; candidates and results were visited; no result is deleted; if there is no result, all that was visited is deleted; in a wide search with nothing deleted, all that was visited is a result | all three properties of the answer |
| the last part of `Searching`, under `Lossless` | as long as nothing has been found, or in a wide search with nothing deleted, the links of everything visited that is no candidate any more lead to what was visited | when no candidate is left, what was visited is closed under links and has the start in it, so it is all that is within reach |

An early end leaves nothing out because, with nothing deleted, every candidate is a result, so none
is farther than the farthest. With deletions this is where `deletion_hides` begins.

The other theorems of `SearchKnn_proofs` put the graph and the queries together. In an index filled by parallel insertions
(`InsertionsOnly`), or by calls in turn (`InTurn`), no query reads an entry point that is not there or a
list that does not exist (`Tame`): from `LinksOK` or `LinksInTurn`, and from every element being set up
when no call is in flight (`Given`, `Allotted`).

`ParallelInsertionsFound` is the one about paths: however insertions raced, a wide search finds all of
them, in an index of any size, as long as no full bottom list has been pruned (`InsertionsOnly`,
`DeleteLabels = {}`, `[]~Pruning`). The invariant `CInv` says

| Conjunct | Says |
| --- | --- |
| `Connected` | a set of elements that has one inserted element, and with each inserted one those its bottom list leads to, has all inserted elements |
| `Mutual` | a call that has written its own bottom list chose inserted elements, and is in the lists of those it is done with |

Nothing is said of paths, which would need induction over them. Until a list is pruned the bottom lists of
inserted elements only grow (`BottomGrows`), also under the hands of other calls, so a closed set stays
large; and when an insertion ends, its element leads to an inserted one that leads back to it
(`ConnectedStays`), whatever was inserted since it was chosen.

`AloneLinksUnlessCutOff` is about insertions that run alone (`MaxParallel = 1`), with any elements deleted
and any lists pruned before. Such an insertion gets a bottom neighbour, unless its bottom search was *cut
off*: it began among deleted elements whose links lead (`Reach`) neither to the entry point nor to anything
visible. The invariant `DInv` says that one call runs (`OneBusy`) and, of a search at the bottom that
has found nothing, that it has met only deleted elements, and every link of those it is done
with (`Met`, in `StaysLinked`). When nothing is left to expand, what it has met is closed under links and has the start in it,
so it contains `Reach`. If the entry point is among it, it is deleted, and a deleted entry point is added to what was found
(`CandidatesLeft`); if not, the search was cut off (`CutOff`). `HNSW_insert_cut_off.cfg` shows that the exception is
met. At an upper layer the argument fails, and so does the code: `insert_among_deleted`.

`Distances_proofs`: `EveryCoordinateOnce`, `LoadsInBounds`. The invariant says where the pointers are
in each loop (a multiple of the block, not past the end of the loop), that the coordinates before them, and no others, have been added once,
and how often 1 was counted; the arithmetic of blocks and remainders is in lemmas of its own.

`Persistence_proofs`: `CutFilesRefused`, `IndexSurvives`, `DeletionsSurvive`, `LoadedIndexAnswers`, for every
workload; and, under the hypotheses of their counterparts, `GraphSurvives`, `NoDeadlockAfterLoad`,
`ChecksHoldAfterLoad`, `InsertionsLinkAfterLoad`, `TurnsGoOnAfterLoad`, `LoadedQueriesStayInTheGraph`,
`LoadedInsertionsFound`, `LoadedLinksUnlessCutOff`. `loadIndex` finds levels and labels again from what is written, and writes
nothing outside the elements it counts; so what is loaded is what was saved only if the index has
nothing else in it. That is `FInv`, which holds for every workload, racing updates included:

| Conjunct | Says | Needed for |
| --- | --- | --- |
| `Owned` | every element below the count has a call that has set up its memory or is going to | in a quiet index every element is set up |
| `Blank`, `Undrawn` | outside the elements no vector and no level was written; an element gets its level once | what is not in the file is as in a new index |
| `OneLabelEach` | the label table and the elements correspond one to one | the table can be made from the labels of the elements |
| `LinksFiled` | no list, and no slot past its end, leads outside the elements, and none lies above the level of its element | the lists that are not written are empty |
| `Knows`, `InLayers` | every id a call has gathered is that of an element, and every layer it works at one its element has | `LinksFiled` |

Then `FileInv`: during a save and after it nobody is in the middle of anything, and the file is a prefix of
`Pieces`, a proper one if it is torn. The layout of the file is a recursive function of the elements, and so
are the two walks of `loadIndex`; what they compute is proved one element at a time, by `Induct`
(a set that has 0, and with every number up to `n` the next one, has all of them; the smallest number missing
would refute it): `Layout` says where the upper lists of an element are, `WalkedIs` that a walk through
a prefix goes from each to the next and breaks off where the prefix does (`WholeIs`: so only all of `Pieces` is whole), `UpperAtIs` that the second walk comes to
the same places. `RestoreIs` puts the loaded index together. A load thus
changes nothing but the next automatic number and the flag of deletions (`SameIndex`, `StepOrLoad`), so every
invariant that reads neither goes on through saves and loads: `JInv`, `WInv`, `KInv`, `TInv`, `CInv`, `DInv`, `Tame`.

`ConcurrentIndex_proofs`: `TypeCorrect`, `CallsAreAtomic`. The invariant: the lock has readers, or one writer
alone (`Exclusion`); and a call between its tests and its work knows that the index still passes
the tests it has passed, and, if it is a save, that the header it has written is still the index's
(`CallsOK`). It stays true because only a writer changes the index, and nobody else is between
tests and work then. Each step of `ConcurrentIndex` is then a step of `AtomicIndex`, with the load's
graphless moment mapped to the index as it was, or changes nothing that `AtomicIndex` has.

Every invariant and action property of the passing runs is thus stated by a theorem, under the
hypotheses above. `NoRelock`, `NoSelfNeighbor` and `InsertionsLink` are proved for insertions (`NoSelfDeadlock`,
`NeverItsOwnNeighbor`, `EveryInsertionLinks`) and are no properties of a passing run: `parallel_inserts` checks more
with `NoWaitCycle` (a call alone is a circle too) and `inserts_and_deletes` with `LinksUnlessCutOff`.
Only model-checked: what updates and insertions of *different* elements do to each other
(`update_beside_insert`), beyond `AloneWithElement`, which is proved for every workload. Out of the prover's
reach: `ReturnUnlessCaught`, `EveryCallReturns` and `QueriesReturn` (liveness under fairness). `NoDeadlock` is the
part of the first, for insertions, that is a matter of safety.

## What is not modelled

* Queries, deletions, saves and getters beside insertions on a plain `Index`: the native code is not
  written for it, and a race on the label table or on a list is undefined from the first access on.
  `SearchKnn` says what the lock must keep out.
* Calls through two views at once, which have two locks: nothing holds there but the disagreement.
* A save that fails but whose process goes on, within `Persistence` (it is in `Index`), and damage to a
  file other than its being cut.
* `resizeIndex`, `L2SpaceI` outside `Distances`, and the brute-force index, which nothing calls; the
  example and the legacy loader; `setIds`.
* The values of floating-point sums, memory layout, bytes of the file within a piece, JNA marshalling.

## Plan

Done: the pool, the graph, queries, save and load, the distance functions, the native index, the Java
classes; theorems about all of these. What could follow:

1. For updates beside insertions, that no two calls wait for each other: the safety part of `ReturnUnlessCaught`.
   An update holds no link lock between two steps, so only insertions could close a circle; the proof would have to
   bound where the zero of a half-written list (`TearOwnList`) can lead, and there a call may well wait for itself.
2. `InsertionsFound` after bottom lists were pruned, for metrics and sizes for which the heuristic provably keeps the
   graph connected, if there are any beyond a line.
