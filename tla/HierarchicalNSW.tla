--------------------------- MODULE HierarchicalNSW ---------------------------
(***************************************************************************)
(* HierarchicalNSW::addPoint of hnswlib/hnswalg.h: the insertion of new    *)
(* elements into the layered proximity graph and the update of existing    *)
(* ones, by calls that run at the same time, at the granularity of the     *)
(* locks the code takes.  Deletion marks are set between calls.            *)
(*                                                                         *)
(* An element has an internal id, a level, one link list per layer         *)
(* 0 .. level, and a vector.  The order of a link list is never            *)
(* observable, so a list is the set of the ids in it.  Each call is a      *)
(* thread of its own: pc[c] is where it is, loc[c] its local variables.    *)
(***************************************************************************)
EXTENDS Integers, Sequences, FiniteSets

CONSTANTS Workload,     \* the calls: a sequence of records [label, point]
          MaxParallel,  \* calls in flight at once: 1 under ConcurrentIndex
          MayOverlap,   \* calls that may begin beside another with their label
          DeleteLabels, \* labels that markDeleted may be called with
          Points,       \* feature vectors
          Garbage,      \* what the memory of a vector holds before its first write
          Dist(_, _),   \* fstdistfunc_
          MaxElements,  \* max_elements_
          UpdateLocks,  \* max_update_element_locks: 65536 in the code
          M,            \* M_ and maxM_; maxM0_ is 2 * M
          EfConstruction, \* ef_construction_
          TopLevel      \* bound on what getRandomLevel draws

NoId == -1                      \* Index.NO_ID: the native code numbers the item
Calls == 1 .. Len(Workload)
Ids == 0 .. MaxElements - 1
Levels == 0 .. TopLevel
Stripes == 0 .. UpdateLocks - 1
None == -1                      \* no entry point, or an empty index's level
Free == 0                       \* a mutex nobody holds

ASSUME WorkloadAssumption ==
    Workload \in Seq([label : Nat \cup {NoId}, point : Points])
ASSUME PointsAssumption == Garbage \in Points
ASSUME DistAssumption == \A p, q \in Points : Dist(p, q) \in Nat
ASSUME SizesAssumption ==
    /\ MaxParallel \in Nat \ {0}
    /\ MayOverlap \subseteq Calls
    /\ MaxElements \in Nat \ {0}
    /\ UpdateLocks \in Nat \ {0}
    /\ M \in Nat \ {0}
    /\ EfConstruction \in Nat /\ EfConstruction >= M
    /\ TopLevel \in Nat

VARIABLES curElementCount, \* cur_element_count
          labelLookup,     \* label_lookup_
          incrementalId,   \* incremental_id of the binding
          initialised,     \* elements whose memory has been set up
          elementLevels,   \* element_levels_
          vec,             \* the feature vector of every element
          deleted,         \* elements that carry DELETE_MARK
          links,           \* links[i][l]: the link list of element i at layer l
          stale,           \* stale[i][l]: ids that may lie in its slots past the end
          enterpoint,      \* enterpoint_node_
          maxlevel,        \* maxlevel_
          linkLocks,       \* link_list_locks_: the call that holds each
          updateLocks,     \* link_list_update_locks_: the call that holds each
          global,          \* the call that holds the mutex "global"
          pc, loc,         \* where each call is, and its local variables
          result           \* what each call returned

store == <<curElementCount, labelLookup, incrementalId>>
graph == <<initialised, elementLevels, vec, deleted, links, stale>>
entry == <<enterpoint, maxlevel>>
locks == <<linkLocks, updateLocks, global>>
calls == <<pc, loc, result>>
vars == <<store, graph, entry, locks, calls>>

MaxLinks(layer) == IF layer = 0 THEN 2 * M ELSE M

Label(c) == Workload[c].label
Point(c) == Workload[c].point

(* Local variables of a call.  Those of a search: the layer, the results   *)
(* found so far, the candidates to expand and the visited set; of an       *)
(* update: its own list, half written.                                     *)
Locals ==
    [label : Nat \cup {NoId}, elem : Ids \cup {None}, isUpdate : BOOLEAN,
     level : Levels, maxlevelcopy : Levels \cup {None}, ep : Ids \cup {None},
     obj : Ids \cup {None}, layer : Levels,
     top : SUBSET Ids, cand : SUBSET Ids, visited : SUBSET Ids,
     selected : SUBSET Ids, next : Ids \cup {None},
     hops : SUBSET Ids, sCand : SUBSET Ids, sNeigh : SUBSET Ids,
     half : SUBSET Ids]

NoLocals ==
    [label |-> NoId, elem |-> None, isUpdate |-> FALSE,
     level |-> 0, maxlevelcopy |-> None, ep |-> None, obj |-> None, layer |-> 0,
     top |-> {}, cand |-> {}, visited |-> {}, selected |-> {}, next |-> None,
     hops |-> {}, sCand |-> {}, sNeigh |-> {}, half |-> {}]

------------------------------------------------------------------------------
(* Distances and the neighbour-selection heuristic.                        *)

(* x comes before y in the order of the distances to p (ties by id). *)
Closer(p, x, y) ==
    \/ Dist(p, vec[x]) < Dist(p, vec[y])
    \/ Dist(p, vec[x]) = Dist(p, vec[y]) /\ x < y

IsClosest(p, x, S) == \A y \in S \ {x} : Closer(p, x, y)
IsFarthest(p, x, S) == \A y \in S \ {x} : Closer(p, y, x)

(* A priority queue cut to its n closest members. *)
Nearest(p, S, n) == {x \in S : Cardinality({y \in S : Closer(p, y, x)}) < n}

(* The members of S, taken closest first, that are at least as close to p  *)
(* as to every member kept before them.                                    *)
Diverse(p, S) ==
    LET kept[x \in S] ==
            \A y \in S : Closer(p, y, x) /\ kept[y]
                            => Dist(vec[y], vec[x]) >= Dist(p, vec[x])
    IN  {x \in S : kept[x]}

(* Mutant: one neighbour too many. *)
HeuristicOneMore(p, S, m) ==
    IF Cardinality(S) < m THEN S ELSE Nearest(p, Diverse(p, S), m + 1)

(* getNeighborsByHeuristic2 *)
Heuristic(p, S, m) ==
    IF Cardinality(S) < m THEN S ELSE Nearest(p, Diverse(p, S), m)

------------------------------------------------------------------------------
(* Moves of a call.                                                        *)

Goto(c, place, locals) ==
    /\ pc' = [pc EXCEPT ![c] = place]
    /\ loc' = [loc EXCEPT ![c] = locals]

(* Mutant: a lock that excludes nobody. *)
HoldNothing(mutexes, m, c) == mutexes

(* A mutex is taken; those a call holds are released when it returns or    *)
(* throws.                                                                 *)
Hold(mutexes, m, c) == [mutexes EXCEPT ![m] = c]

(* Mutant: the unlock is forgotten. *)
UnlockedNever(mutexes, c) == mutexes

Unlocked(mutexes, c) == [m \in DOMAIN mutexes |-> IF mutexes[m] = c THEN Free ELSE mutexes[m]]

Return(c, code) ==
    /\ pc' = [pc EXCEPT ![c] = "done"]
    /\ loc' = [loc EXCEPT ![c] = 
                  [NoLocals EXCEPT !.label = loc[c].label, !.elem = loc[c].elem,
                                   !.isUpdate = loc[c].isUpdate]]
    /\ result' = [result EXCEPT ![c] = code]
    /\ linkLocks' = Unlocked(linkLocks, c)
    /\ updateLocks' = Unlocked(updateLocks, c)
    /\ global' = IF global = c THEN Free ELSE global

(* "throw" in hnswalg.h: caught by the binding (RESULT_EXCEPTION_THROWN). *)
Throw(c) == Return(c, "exception")

(* The call reads memory nobody wrote, or past an element's last layer:    *)
(* anything may happen; in the model it goes no further.                   *)
Crash(c) ==
    /\ Goto(c, "crashed", loc[c])
    /\ UNCHANGED <<store, graph, entry, locks, result>>

HasList(i, layer) == i \in initialised /\ layer <= elementLevels[i]

(* A bottom list nobody has written lies in fresh memory, which may hold   *)
(* zeros: an empty list.                                                   *)
Readable(i, layer) == HasList(i, layer) \/ layer = 0

(* Mutant: the entry point of a search is not a result. *)
SearchFromOutside(locals, from, layer) ==
    [locals EXCEPT !.obj = from, !.layer = layer, !.top = {}, !.cand = {from},
                   !.visited = {from}, !.selected = {}]

(* searchBaseLayer begins at the element from. *)
SearchFrom(locals, from, layer) ==
    [locals EXCEPT !.obj = from, !.layer = layer,
                   !.top = {from} \ deleted, !.cand = {from}, !.visited = {from},
                   !.selected = {}]

------------------------------------------------------------------------------
Init ==
    /\ curElementCount = 0
    /\ labelLookup = << >>
    /\ incrementalId = 0
    /\ initialised = {}
    /\ elementLevels = [i \in Ids |-> 0]
    /\ vec = [i \in Ids |-> Garbage]
    /\ deleted = {}
    /\ links = [i \in Ids |-> [l \in Levels |-> {}]]
    /\ stale = [i \in Ids |-> [l \in Levels |-> {}]]
    /\ enterpoint = None
    /\ maxlevel = None
    /\ linkLocks = [i \in Ids |-> Free]
    /\ updateLocks = [s \in Stripes |-> Free]
    /\ global = Free
    /\ pc = [c \in Calls |-> "ready"]
    /\ loc = [c \in Calls |-> NoLocals]
    /\ result = [c \in Calls |-> "none"]

(* Mutant: off by one. *)
FullLate == curElementCount > MaxElements

(* No room for another element: checked by the binding and by addPoint. *)
Full == curElementCount >= MaxElements

InFlight == {c \in Calls : pc[c] \notin {"ready", "done"}}

(* Index::add_item of the binding.  The index may look full without any    *)
(* lock being held; an item without an id takes the next number.           *)
AddItem(c) ==
    /\ pc[c] = "ready"
    /\ \A b \in 1 .. c - 1 : pc[b] # "ready"
    /\ Cardinality(InFlight) < MaxParallel
    /\ c \in MayOverlap \/ \A b \in InFlight : Label(b) # Label(c)
    /\ IF Full
       THEN /\ Return(c, "full")
            /\ UNCHANGED incrementalId
       ELSE /\ IF Label(c) # NoId
               THEN /\ Goto(c, "reserve", [NoLocals EXCEPT !.label = Label(c)])
                    /\ UNCHANGED incrementalId
               ELSE /\ Goto(c, "reserve", [NoLocals EXCEPT !.label = incrementalId])
                    /\ incrementalId' = incrementalId + 1
            /\ UNCHANGED <<result, locks>>
    /\ UNCHANGED <<curElementCount, labelLookup, graph, entry>>

(* addPoint under cur_element_count_guard_: the label is looked up, and a  *)
(* new one gets the next internal id and is published.                     *)
Reserve(c) ==
    /\ pc[c] = "reserve"
    /\ LET label == loc[c].label
       IN  \/ /\ label \in DOMAIN labelLookup
              /\ Goto(c, "lockForUpdate",
                      [loc[c] EXCEPT !.elem = labelLookup[label], !.isUpdate = TRUE])
              /\ UNCHANGED <<curElementCount, labelLookup, locks, result>>
           \/ /\ label \notin DOMAIN labelLookup
              /\ Full
              /\ Throw(c)
              /\ UNCHANGED <<curElementCount, labelLookup>>
           \/ /\ label \notin DOMAIN labelLookup
              /\ ~Full
              /\ curElementCount' = curElementCount + 1
              /\ labelLookup' =
                    [l \in DOMAIN labelLookup \cup {label} |->
                        IF l = label THEN curElementCount ELSE labelLookup[l]]
              /\ Goto(c, "lockForInsert", [loc[c] EXCEPT !.elem = curElementCount])
              /\ UNCHANGED <<locks, result>>
    /\ UNCHANGED <<incrementalId, graph, entry>>

Stripe(elem) == elem % UpdateLocks

------------------------------------------------------------------------------
(* Insertion of a new element.                                             *)

LockForInsert(c) ==
    /\ pc[c] = "lockForInsert"
    /\ updateLocks[Stripe(loc[c].elem)] = Free
    /\ updateLocks' = Hold(updateLocks, Stripe(loc[c].elem), c)
    /\ Goto(c, "lockElement", loc[c])
    /\ UNCHANGED <<store, graph, entry, linkLocks, global, result>>

(* The element's own link list is locked until the call returns; its level *)
(* is drawn at random.                                                     *)
LockElement(c) ==
    /\ pc[c] = "lockElement"
    /\ linkLocks[loc[c].elem] = Free
    /\ linkLocks' = Hold(linkLocks, loc[c].elem, c)
    /\ \E level \in Levels :
          /\ elementLevels' = [elementLevels EXCEPT ![loc[c].elem] = level]
          /\ Goto(c, "lockGlobal", [loc[c] EXCEPT !.level = level])
    /\ UNCHANGED <<store, initialised, vec, deleted, links, stale, entry,
                   updateLocks, global, result>>

(* Mutant: the mutex is released at once by everybody. *)
KeepsGlobalNever(c) == FALSE

KeepsGlobal(c) == loc[c].level > maxlevel

(* "global" is kept by a call that will raise the top level, and released  *)
(* at once by the others.                                                  *)
LockGlobal(c) ==
    /\ pc[c] = "lockGlobal"
    /\ global = Free
    /\ global' = IF KeepsGlobal(c) THEN c ELSE Free
    /\ Goto(c, "readEntry", [loc[c] EXCEPT !.maxlevelcopy = maxlevel])
    /\ UNCHANGED <<store, graph, entry, linkLocks, updateLocks, result>>

(* The entry point is read after "global" may have been released; then the *)
(* memory of the element is cleared (its DELETE_MARK too) and filled.      *)
ReadEntry(c) ==
    /\ pc[c] = "readEntry"
    /\ LET elem == loc[c].elem
           level == loc[c].level
           top == loc[c].maxlevelcopy
           read == [loc[c] EXCEPT !.ep = enterpoint, !.obj = enterpoint]
       IN  /\ initialised' = initialised \cup {elem}
           /\ deleted' = deleted \ {elem}
           /\ vec' = [vec EXCEPT ![elem] = Point(c)]
           /\ links' = [links EXCEPT ![elem] = [l \in Levels |-> {}]]
           /\ stale' = [stale EXCEPT ![elem] = [l \in Levels |-> {}]]
           /\ \/ /\ enterpoint = None
                 /\ Goto(c, "firstElement", read)
              \/ /\ enterpoint # None
                 /\ level < top
                 /\ Goto(c, "descend", [read EXCEPT !.layer = top])
              \/ /\ enterpoint # None
                 /\ level >= top
                 /\ Goto(c, "search", SearchFrom(read, enterpoint, top))
    /\ UNCHANGED <<store, elementLevels, entry, locks, result>>

(* "Do nothing for the first element": id 0 becomes the entry point, even  *)
(* when the call inserts another one; Finish corrects it.                  *)
FirstElement(c) ==
    /\ pc[c] = "firstElement"
    /\ enterpoint' = 0
    /\ maxlevel' = loc[c].level
    /\ Goto(c, "finish", loc[c])
    /\ UNCHANGED <<store, graph, locks, result>>

(* Mutant: only the first element ever becomes the entry point. *)
RaisesFirst(c) == ~loc[c].isUpdate /\ loc[c].maxlevelcopy = None

(* Mutant: an element of the top layer becomes the entry point too. *)
RaisesOnTie(c) == ~loc[c].isUpdate /\ loc[c].level >= loc[c].maxlevelcopy

Raises(c) == ~loc[c].isUpdate /\ loc[c].level > loc[c].maxlevelcopy

(* The end of addPoint: a call that holds "global" makes its element the   *)
(* entry point.  An update ends here too.                                  *)
Finish(c) ==
    /\ pc[c] = "finish"
    /\ IF Raises(c)
       THEN enterpoint' = loc[c].elem /\ maxlevel' = loc[c].level
       ELSE UNCHANGED entry
    /\ Return(c, "ok")
    /\ UNCHANGED <<store, graph>>

------------------------------------------------------------------------------
(* Steps that insertion and update share.                                  *)

(* Mutant: the layer is not decremented. *)
BelowSame(layer) == layer

(* The layer a search goes to when it is done with one. *)
Below(layer) == layer - 1

(* Greedy descent through the layers above the element: one list is read   *)
(* under its lock; the call moves to the closest element, or one layer     *)
(* down when there is none closer.                                         *)
Descend(c) ==
    /\ pc[c] = "descend"
    /\ linkLocks[loc[c].obj] = Free
    /\ LET obj == loc[c].obj
           layer == loc[c].layer
           seen == {obj} \cup links[obj][layer]
       IN  \/ /\ ~HasList(obj, layer)
              /\ Crash(c)
           \/ /\ HasList(obj, layer)
              /\ \E best \in seen :
                    /\ IsClosest(Point(c), best, seen)
                    /\ \/ /\ best # obj
                          /\ Goto(c, "descend", [loc[c] EXCEPT !.obj = best])
                       \/ /\ best = obj
                          /\ Below(layer) > loc[c].level
                          /\ Goto(c, "descend", [loc[c] EXCEPT !.layer = Below(layer)])
                       \/ /\ best = obj
                          /\ Below(layer) = loc[c].level
                          /\ Goto(c, "search", SearchFrom(loc[c], obj, loc[c].level))
              /\ UNCHANGED <<store, graph, entry, locks, result>>

(* searchBaseLayer stops when nothing is left to expand, or the closest    *)
(* candidate is farther than every result found so far.                    *)
SearchOver(c) ==
    \A node \in loc[c].cand :
        /\ loc[c].top # {}
        /\ \A r \in loc[c].top : Closer(Point(c), r, node)

(* One turn of the loop of searchBaseLayer: the closest candidate's list   *)
(* is read under its lock.  Deleted elements are expanded, not returned.   *)
Expand(c) ==
    /\ pc[c] = "search"
    /\ ~SearchOver(c)
    /\ \E node \in loc[c].cand :
          LET layer == loc[c].layer
              new == links[node][layer] \ loc[c].visited
              top == Nearest(Point(c), loc[c].top \cup (new \ deleted), EfConstruction)
              near(x) == \/ Cardinality(top) < EfConstruction
                         \/ \E r \in top : ~Closer(Point(c), r, x)
          IN  /\ IsClosest(Point(c), node, loc[c].cand)
              /\ linkLocks[node] = Free
              /\ \/ /\ ~HasList(node, layer)
                    /\ Crash(c)
                 \/ /\ Readable(node, layer)
                    /\ Goto(c, "search",
                            [loc[c] EXCEPT
                                !.top = top,
                                !.cand = {x \in (@ \ {node}) \cup new : near(x)},
                                !.visited = @ \cup new])
                    /\ UNCHANGED <<store, graph, entry, locks, result>>

(* Mutant: an update does not leave itself out. *)
CandidatesWithSelf(c) ==
    IF loc[c].ep \in deleted
    THEN Nearest(Point(c), loc[c].top \cup {loc[c].ep}, EfConstruction)
    ELSE loc[c].top

(* Mutant: a deleted entry point does not join the results. *)
CandidatesAlive(c) ==
    IF loc[c].isUpdate THEN loc[c].top \ {loc[c].elem} ELSE loc[c].top

(* What a search hands to mutuallyConnectNewElement: an entry point that   *)
(* is marked deleted joins the results; an update leaves itself out first. *)
Candidates(c) ==
    LET found == IF loc[c].isUpdate THEN loc[c].top \ {loc[c].elem} ELSE loc[c].top
    IN  IF loc[c].ep \in deleted /\ (loc[c].isUpdate => found # {})
        THEN Nearest(Point(c), found \cup {loc[c].ep}, EfConstruction)
        ELSE found

(* The layer is done: search the one below, or finish. *)
NextLayer(c, from) ==
    IF loc[c].layer = 0
    THEN Goto(c, "finish", loc[c])
    ELSE Goto(c, "search", SearchFrom(loc[c], from, Below(loc[c].layer)))

(* mutuallyConnectNewElement up to the first write: the neighbours of the  *)
(* element at this layer, the farthest of which starts the next search.    *)
(* An insertion does not expect the search to come back empty: it reads    *)
(* the first of an empty vector, at layer 0 for nothing, and above to      *)
(* search the next layer from there.  An update skips the layer.           *)
SelectNeighbors(c) ==
    /\ pc[c] = "search"
    /\ SearchOver(c)
    /\ LET chosen == Heuristic(Point(c), Candidates(c), M)
       IN  \/ /\ \E next \in chosen :
                    /\ IsFarthest(Point(c), next, chosen)
                    /\ Goto(c, IF loc[c].isUpdate THEN "tearOwnList" ELSE "writeOwnList",
                            [loc[c] EXCEPT !.selected = chosen, !.next = next,
                                           !.top = {}, !.cand = {}, !.visited = {}])
              /\ UNCHANGED <<store, graph, entry, locks, result>>
           \/ /\ chosen = {} /\ loc[c].isUpdate
              /\ NextLayer(c, loc[c].obj)
              /\ UNCHANGED <<store, graph, entry, locks, result>>
           \/ /\ chosen = {} /\ ~loc[c].isUpdate /\ loc[c].layer = 0
              /\ Goto(c, "finish", loc[c])
              /\ UNCHANGED <<store, graph, entry, locks, result>>
           \/ /\ chosen = {} /\ ~loc[c].isUpdate
              /\ Crash(c)

(* What the slots past the end of a list may hold once the list is         *)
(* "list": they are not cleared when a list gets shorter.                  *)
StaleAfter(i, layer, list) ==
    [stale EXCEPT ![i][layer] =
        IF Cardinality(list) < Cardinality(links[i][layer])
        THEN @ \cup links[i][layer] ELSE @]

(* An update rewrites its own list without its link lock, first the length *)
(* and then slot by slot.  Until the last is written, another call finds   *)
(* old ids and new ones, as many as the old or the new length says; in a   *)
(* list that grows, also what lay past its end, or 0 where nothing did.    *)
TearOwnList(c) ==
    /\ pc[c] = "tearOwnList"
    /\ LET elem == loc[c].elem
           layer == loc[c].layer
           old == links[elem][layer]
           new == loc[c].selected
           grows == Cardinality(old) < Cardinality(new)
       IN  /\ \E torn \in SUBSET (old \cup new \cup stale[elem][layer] \cup {0}) :
                 /\ Cardinality(torn) <= Cardinality(IF grows THEN new ELSE old)
                 /\ torn = {} => old = {}
                 /\ grows \/ torn \subseteq old \cup new
                 /\ links' = [links EXCEPT ![elem][layer] = torn]
                 /\ Goto(c, "writeOwnList", [loc[c] EXCEPT !.half = torn])
           /\ stale' = StaleAfter(elem, layer, new)
    /\ UNCHANGED <<store, initialised, elementLevels, vec, deleted, entry, locks,
                   result>>

(* What the own list holds in the end: the choice; but when another call   *)
(* has written to the half-written list of an update, what it left there   *)
(* may survive, with the length it gave the list.                          *)
Written(c) ==
    LET layer == loc[c].layer
        found == links[loc[c].elem][layer]
    IN  IF loc[c].isUpdate /\ found # loc[c].half
        THEN {list \in SUBSET (loc[c].selected \cup found) :
                 list # {} /\ Cardinality(list) <= MaxLinks(layer)}
        ELSE {loc[c].selected}

(* The element's own list; the sanity checks of the code throw.            *)
WriteOwnList(c) ==
    /\ pc[c] = "writeOwnList"
    /\ LET elem == loc[c].elem
           layer == loc[c].layer
           chosen == loc[c].selected
           found == links[elem][layer]
           blank == loc[c].isUpdate \/ found = {}
           levelsOk == \A n \in chosen : layer <= elementLevels[n]
       IN  \/ /\ ~blank
              /\ Throw(c)
              /\ UNCHANGED <<links, stale>>
           \/ /\ blank /\ ~levelsOk
              /\ \E partial \in SUBSET (chosen \cup found \cup stale[elem][layer] \cup {0}) :
                    /\ Cardinality(partial) <= MaxLinks(layer)
                    /\ links' = [links EXCEPT ![elem][layer] = partial]
              /\ Throw(c)
              /\ UNCHANGED stale
           \/ /\ blank /\ levelsOk
              /\ \E list \in Written(c) :
                    /\ links' = [links EXCEPT ![elem][layer] = list]
                    /\ stale' = StaleAfter(elem, layer, list)
              /\ Goto(c, "connect", [loc[c] EXCEPT !.half = {}])
              /\ UNCHANGED <<result, locks>>
    /\ UNCHANGED <<store, initialised, elementLevels, vec, deleted, entry>>

(* Mutant: the neighbour is connected again. *)
RestAll(S, n) == S

(* The neighbours still to be connected after n. *)
Rest(S, n) == S \ {n}

(* Mutant: off by one. *)
HasRoomLate(list, layer) == Cardinality(list) <= MaxLinks(layer)

HasRoom(list, layer) == Cardinality(list) < MaxLinks(layer)

(* One neighbour's list, under its lock, gets the element: appended while  *)
(* there is room, else chosen among the old ones by the heuristic.  Only   *)
(* an update looks whether it is there already.  Farthest first.           *)
Connect(c) ==
    /\ pc[c] = "connect"
    /\ \E n \in loc[c].selected :
          LET elem == loc[c].elem
              layer == loc[c].layer
              list == links[n][layer]
              rest == Rest(loc[c].selected, n)
              joined == IF HasRoom(list, layer)
                        THEN list \cup {elem}
                        ELSE Heuristic(vec[n], list \cup {elem}, MaxLinks(layer))
          IN  /\ IsFarthest(Point(c), n, loc[c].selected)
              /\ linkLocks[n] = Free
              /\ \/ /\ \/ Cardinality(list) > MaxLinks(layer)
                       \/ n = elem
                       \/ layer > elementLevels[n]
                    /\ Throw(c)
                    /\ UNCHANGED <<links, stale>>
                 \/ /\ Cardinality(list) <= MaxLinks(layer)
                    /\ n # elem
                    /\ layer <= elementLevels[n]
                    /\ links' = IF loc[c].isUpdate /\ elem \in list
                                THEN links
                                ELSE [links EXCEPT ![n][layer] = joined]
                    /\ stale' = StaleAfter(n, layer, links'[n][layer])
                    /\ IF rest # {}
                       THEN Goto(c, "connect", [loc[c] EXCEPT !.selected = rest])
                       ELSE NextLayer(c, loc[c].next)
                    /\ UNCHANGED <<result, locks>>
    /\ UNCHANGED <<store, initialised, elementLevels, vec, deleted, entry>>

------------------------------------------------------------------------------
(* updatePoint: a call whose label is known gives the element a new vector *)
(* and repairs the graph around it.                                        *)

(* The stripe is locked, the vector overwritten, the top level read.       *)
LockForUpdate(c) ==
    /\ pc[c] = "lockForUpdate"
    /\ updateLocks[Stripe(loc[c].elem)] = Free
    /\ updateLocks' = Hold(updateLocks, Stripe(loc[c].elem), c)
    /\ vec' = [vec EXCEPT ![loc[c].elem] = Point(c)]
    /\ Goto(c, "readEntryUpdate", [loc[c] EXCEPT !.maxlevelcopy = maxlevel])
    /\ UNCHANGED <<store, initialised, elementLevels, deleted, links, stale, entry,
                   linkLocks, global, result>>

(* The entry point is read without a lock; nothing is left to do when the  *)
(* element is alone in the index.                                          *)
ReadEntryUpdate(c) ==
    /\ pc[c] = "readEntryUpdate"
    /\ LET read == [loc[c] EXCEPT !.ep = enterpoint, !.layer = 0,
                                  !.level = elementLevels[loc[c].elem]]
       IN  IF enterpoint = loc[c].elem /\ curElementCount = 1
           THEN Goto(c, "finish", read)
           ELSE Goto(c, "oneHop", read)
    /\ UNCHANGED <<store, graph, entry, locks, result>>

(* repairConnectionsForUpdate begins: it descends to the element's level,  *)
(* or searches at once; an element above the top level is an error.        *)
Repair(c) ==
    LET level == loc[c].level
        top == loc[c].maxlevelcopy
        cleared == [loc[c] EXCEPT !.obj = loc[c].ep, !.hops = {}, !.sCand = {},
                                  !.sNeigh = {}]
    IN  \/ /\ level > top
           /\ Throw(c)
        \/ /\ level < top
           /\ Goto(c, "descend", [cleared EXCEPT !.layer = top])
           /\ UNCHANGED <<result, locks>>
        \/ /\ level = top
           /\ Goto(c, "search", SearchFrom(cleared, loc[c].ep, level))
           /\ UNCHANGED <<result, locks>>

(* The loop over the layers of updatePoint goes on, or ends. *)
NextUpdateLayer(c) ==
    IF loc[c].layer < loc[c].level
    THEN /\ Goto(c, "oneHop", [loc[c] EXCEPT !.layer = @ + 1, !.hops = {},
                                             !.sCand = {}, !.sNeigh = {}])
         /\ UNCHANGED <<result, locks>>
    ELSE Repair(c)

(* getConnectionsWithLock(internalId): the neighbours, all to be relinked. *)
OneHop(c) ==
    /\ pc[c] = "oneHop"
    /\ linkLocks[loc[c].elem] = Free
    /\ LET elem == loc[c].elem
           near == links[elem][loc[c].layer]
       IN  \/ /\ ~HasList(elem, loc[c].layer)
              /\ Crash(c)
           \/ /\ Readable(elem, loc[c].layer)
              /\ IF near = {}
                 THEN NextUpdateLayer(c)
                 ELSE /\ Goto(c, "twoHop",
                              [loc[c] EXCEPT !.hops = near, !.sNeigh = near,
                                             !.sCand = {elem} \cup near])
                      /\ UNCHANGED <<result, locks>>
              /\ UNCHANGED <<store, graph, entry>>

(* getConnectionsWithLock(elOneHop): their neighbours are candidates too.  *)
TwoHop(c) ==
    /\ pc[c] = "twoHop"
    /\ \E hop \in loc[c].hops :
          /\ linkLocks[hop] = Free
          /\ \/ /\ ~HasList(hop, loc[c].layer)
                /\ Crash(c)
             \/ /\ Readable(hop, loc[c].layer)
                /\ Goto(c, IF loc[c].hops = {hop} THEN "relink" ELSE "twoHop",
                        [loc[c] EXCEPT !.hops = @ \ {hop},
                                       !.sCand = @ \cup links[hop][loc[c].layer]])
                /\ UNCHANGED <<store, graph, entry, locks, result>>

(* One neighbour's list is replaced, under its lock, by a choice among the *)
(* candidates gathered before: what happened to it since is lost.          *)
Relink(c) ==
    /\ pc[c] = "relink"
    /\ \E neigh \in loc[c].sNeigh :
          LET layer == loc[c].layer
              near == Nearest(vec[neigh], loc[c].sCand \ {neigh}, EfConstruction)
              left == loc[c].sNeigh \ {neigh}
          IN  /\ linkLocks[neigh] = Free
              /\ links' = [links EXCEPT ![neigh][layer] =
                              Heuristic(vec[neigh], near, MaxLinks(layer))]
              /\ stale' = StaleAfter(neigh, layer, links'[neigh][layer])
              /\ IF left # {}
                 THEN /\ Goto(c, "relink", [loc[c] EXCEPT !.sNeigh = left])
                      /\ UNCHANGED <<result, locks>>
                 ELSE NextUpdateLayer(c)
    /\ UNCHANGED <<store, initialised, elementLevels, vec, deleted, entry>>

------------------------------------------------------------------------------
(* markDelete of a known label, between calls (ConcurrentIndex holds its   *)
(* write lock): the element stays in the graph.                            *)
MarkDelete(label) ==
    /\ InFlight = {}
    /\ label \in DOMAIN labelLookup
    /\ labelLookup[label] \notin deleted
    /\ deleted' = deleted \cup {labelLookup[label]}
    /\ UNCHANGED <<store, initialised, elementLevels, vec, links, stale, entry, locks,
                   calls>>

Step(c) ==
    \/ AddItem(c) \/ Reserve(c)
    \/ LockForInsert(c) \/ LockElement(c) \/ LockGlobal(c) \/ ReadEntry(c)
    \/ FirstElement(c) \/ Finish(c)
    \/ Descend(c) \/ Expand(c) \/ SelectNeighbors(c)
    \/ TearOwnList(c) \/ WriteOwnList(c) \/ Connect(c)
    \/ LockForUpdate(c) \/ ReadEntryUpdate(c) \/ OneHop(c) \/ TwoHop(c) \/ Relink(c)

(* Every call has returned, or one has met undefined behaviour. *)
Stopped ==
    /\ (\A c \in Calls : pc[c] = "done") \/ (\E c \in Calls : pc[c] = "crashed")
    /\ UNCHANGED vars

Next ==
    \/ \E c \in Calls : Step(c)
    \/ \E label \in DeleteLabels : MarkDelete(label)
    \/ Stopped

Spec == Init /\ [][Next]_vars

(* While some thread can go on, some thread does.  A call takes a bounded  *)
(* number of locks, so none needs a fair mutex.                            *)
FairSpec == Spec /\ WF_vars(\E c \in Calls : Step(c))

------------------------------------------------------------------------------
Places == {"ready", "reserve", "lockForInsert", "lockElement", "lockGlobal",
           "readEntry", "firstElement", "descend", "search", "tearOwnList",
           "writeOwnList", "connect", "lockForUpdate", "readEntryUpdate",
           "oneHop", "twoHop", "relink", "finish", "done", "crashed"}

(* Type invariant. *)
TypeOK ==
    /\ curElementCount \in 0 .. MaxElements
    /\ DOMAIN labelLookup \subseteq Nat
    /\ labelLookup \in [DOMAIN labelLookup -> Ids]
    /\ incrementalId \in Nat
    /\ initialised \subseteq Ids
    /\ elementLevels \in [Ids -> Levels]
    /\ vec \in [Ids -> Points]
    /\ deleted \subseteq Ids
    /\ links \in [Ids -> [Levels -> SUBSET Ids]]
    /\ stale \in [Ids -> [Levels -> SUBSET Ids]]
    /\ enterpoint \in Ids \cup {None}
    /\ maxlevel \in Levels \cup {None}
    /\ linkLocks \in [Ids -> Calls \cup {Free}]
    /\ updateLocks \in [Stripes -> Calls \cup {Free}]
    /\ global \in Calls \cup {Free}
    /\ pc \in [Calls -> Places]
    /\ loc \in [Calls -> Locals]
    /\ result \in [Calls -> {"none", "ok", "full", "exception"}]

(* An element whose insertion has begun and not ended. *)
Inserting(c) ==
    pc[c] \in {"lockForInsert", "lockElement", "lockGlobal", "readEntry",
               "firstElement", "descend", "search", "writeOwnList", "connect",
               "finish"}
    /\ ~loc[c].isUpdate
Unfinished == {loc[c].elem : c \in {d \in Calls : Inserting(d)}}

(* No call reads a list that does not exist or was never initialised, or   *)
(* the first of no neighbours (hnswalg.h:409, 975, 1050).                  *)
NoUndefinedRead == \A c \in Calls : pc[c] # "crashed"

(* None of the code's sanity checks throws: a call that was given an       *)
(* element returns normally (hnswalg.h:419-427, 445-451, 942, 1060, 1075). *)
SanityChecksHold ==
    /\ NoUndefinedRead
    /\ \A c \in Calls : result[c] = "exception" => loc[c].elem = None

(* Every link of every layer leads from an element of that layer to        *)
(* another element of that layer, and no list exceeds its capacity, other  *)
(* than in the list an update is rewriting (hnswalg.h:1177-1197).          *)
Rewriting(i, l) ==
    \E c \in Calls : /\ pc[c] = "writeOwnList" /\ loc[c].isUpdate
                     /\ loc[c].elem = i /\ loc[c].layer = l

GraphWellFormed ==
    \A i \in initialised, l \in Levels : ~Rewriting(i, l) =>
        /\ links[i][l] # {} => l <= elementLevels[i]
        /\ Cardinality(links[i][l]) <= MaxLinks(l)
        /\ \A j \in links[i][l] : j # i /\ HasList(j, l)

(* An insertion appends itself to a neighbour's list without looking: it   *)
(* must not be there yet, or the list holds it twice (hnswalg.h:454-467).  *)
NoDuplicateLink ==
    \A c \in Calls : pc[c] = "connect" /\ ~loc[c].isUpdate =>
        \A n \in loc[c].selected :
            IsFarthest(Point(c), n, loc[c].selected) /\ linkLocks[n] = Free
                => loc[c].elem \notin links[n][loc[c].layer]

(* Elements whose insertion returned normally. *)
Inserted == {loc[c].elem : c \in {d \in Calls : result[d] = "ok" /\ ~loc[d].isUpdate}}

(* Between its two writes of the entry point, the first insertion has made *)
(* id 0 the entry point, whatever its own element is.                      *)
EntryProvisional ==
    \E c \in Calls : /\ pc[c] = "finish" /\ ~loc[c].isUpdate
                     /\ loc[c].maxlevelcopy = None

(* The entry point is a completely inserted element of the top layer, and  *)
(* no inserted element is above it (hnswalg.h:1018-1023, 1088-1099).       *)
EntryPointOnTop ==
    ~EntryProvisional =>
        /\ enterpoint = None <=> maxlevel = None
        /\ enterpoint # None =>
              enterpoint \in Inserted /\ elementLevels[enterpoint] = maxlevel
        /\ \A i \in Inserted : elementLevels[i] <= maxlevel

(* An insertion only links its element to elements whose insertion is      *)
(* over: waiting for the link lock of every element a search expands is    *)
(* what keeps two insertions from waiting for each other.                  *)
NeighborsFinished ==
    \A c \in Calls : pc[c] \in {"writeOwnList", "connect"} =>
        loc[c].selected \cap Unfinished = {}

(* No call comes to wait for a link lock that it holds itself: an insertion *)
(* keeps the lock of its own list to the end, so no list it reads and none *)
(* of its choices may lead to its own element (hnswalg.h:192, 436, 1010).  *)
NoRelock ==
    \A c \in Calls :
        LET wanted == CASE pc[c] = "descend" -> {loc[c].obj}
                        [] pc[c] = "search" -> loc[c].cand
                        [] pc[c] = "connect" -> loc[c].selected
                        [] OTHER -> {}
        IN  \A n \in wanted : linkLocks[n] # c

(* The link locks a call at its present place is still to take, now or     *)
(* later: those of all candidates, not only of the next one.               *)
Wanted(c) ==
    CASE pc[c] \in {"lockElement", "oneHop"} -> {loc[c].elem}
      [] pc[c] = "descend" -> {loc[c].obj}
      [] pc[c] = "search" -> loc[c].cand
      [] pc[c] = "connect" -> loc[c].selected
      [] pc[c] = "twoHop" -> loc[c].hops
      [] pc[c] = "relink" -> loc[c].sNeigh
      [] OTHER -> {}

(* Call c may have to wait for a mutex that call d holds. *)
Awaits(c, d) ==
    \/ /\ pc[c] \in {"lockForInsert", "lockForUpdate"}
       /\ updateLocks[Stripe(loc[c].elem)] = d
    \/ pc[c] = "lockGlobal" /\ global = d
    \/ \E n \in Wanted(c) : linkLocks[n] = d

(* No calls wait for each other in a circle, whatever the others do: of    *)
(* any calls one waits for none of them.  The code takes its mutexes in no *)
(* fixed order of elements (hnswalg.h:175, 192, 436, 1008-1020, 1050).     *)
NoWaitCycle ==
    \A S \in SUBSET Calls : S # {} => \E c \in S : \A d \in S : ~Awaits(c, d)

(* The top level never drops, and the entry point changes only when the    *)
(* top level rises, or when the first insertion corrects it.               *)
EntryOnlyRises ==
    [][/\ maxlevel' >= maxlevel
       /\ enterpoint' # enterpoint => maxlevel' > maxlevel \/ EntryProvisional]_vars

(* A call past the update lock is alone with its element: no other call    *)
(* inserts or updates it (hnswalg.h:992, 1008-1009).                       *)
Working(c) == pc[c] \notin {"ready", "reserve", "lockForInsert", "lockForUpdate", "done"}

AloneWithElement ==
    \A b, c \in Calls :
        Working(b) /\ Working(c) /\ loc[b].elem = loc[c].elem => b = c

(* An insertion that is not the first never ends with an empty bottom      *)
(* list: its element can be left again in every search that meets it.      *)
(* True while nothing is deleted (hnswalg.h:1072-1085); see the next.      *)
InsertionsLink ==
    \A c \in Calls :
        /\ pc[c] = "finish" /\ ~loc[c].isUpdate /\ loc[c].maxlevelcopy # None
        => links[loc[c].elem][0] # {}

(* The elements that bottom links lead to from an element: those in every  *)
(* set that has it and is closed under the links.                          *)
Closed(S) == \A x \in S : links[x][0] \subseteq S
Reach(from) == {x \in Ids : \A S \in SUBSET Ids : from \in S /\ Closed(S) => x \in S}

(* Whatever was deleted and pruned before: an insertion alone in the index *)
(* ends with an empty bottom list only where its bottom search began among *)
(* deleted elements whose links lead neither to the entry point nor to     *)
(* anything visible (hnswalg.h:205-222, 1072-1085).                        *)
LinksUnlessCutOff ==
    \A c \in Calls :
        LET m == loc[c]
        IN  /\ pc[c] = "finish" /\ ~m.isUpdate /\ m.maxlevelcopy # None
            /\ links[m.elem][0] = {}
            => Reach(m.obj) \subseteq deleted /\ m.ep \notin Reach(m.obj)

(* What a comment promises of the filter (hnswalg.h:956-957): an update    *)
(* never chooses its own element as a neighbour.                           *)
NoSelfNeighbor ==
    \A c \in Calls : loc[c].elem \notin loc[c].selected

(* What checkIntegrity asserts (hnswalg.h:1198-1201): in an index of two   *)
(* elements or more, some list leads to every one of them.                 *)
NobodyLost ==
    InFlight = {} /\ curElementCount > 1 =>
        \A i \in 0 .. curElementCount - 1 :
            \E j \in Ids, l \in Levels : i \in links[j][l]

(* The link lock a call takes next. *)
NextLock(c) ==
    CASE pc[c] = "descend" -> {loc[c].obj}
      [] pc[c] = "search" /\ ~SearchOver(c) ->
            {n \in loc[c].cand : IsClosest(Point(c), n, loc[c].cand)}
      [] pc[c] = "connect" ->
            {n \in loc[c].selected : IsFarthest(Point(c), n, loc[c].selected)}
      [] OTHER -> {}

(* What becomes of a call that an update beside it has led astray, to its  *)
(* own element or to a list that is not there (hnswalg.h:192, 421-430).    *)
Caught(c) == pc[c] = "crashed" \/ \E n \in NextLock(c) : linkLocks[n] = c

(* Every call returns, also with updates beside insertions, unless some    *)
(* call is caught: it keeps its locks, and others may wait for them.  So   *)
(* no two calls wait for each other, no search runs in circles, and nobody *)
(* returns with a lock (hnswalg.h:992, 1009-1021, 1050).                   *)
ReturnUnlessCaught ==
    <>((\A c \in Calls : pc[c] = "done") \/ (\E c \in Calls : Caught(c)))
==============================================================================
