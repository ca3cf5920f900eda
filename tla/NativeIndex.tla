---------------------------- MODULE NativeIndex ----------------------------
(***************************************************************************)
(* The native index behind one JNA pointer: class Index of bindings.cpp,   *)
(* with what its functions ask of HierarchicalNSW (hnswlib/hnswalg.h).     *)
(*                                                                         *)
(* A native index is a record; a function of the binding is an operator    *)
(* from the record, and the arguments, to the outcome: the record it       *)
(* leaves and the answer it gives.  Here every call is alone with the      *)
(* index.  The graph is reduced to its elements: a function from labels to *)
(* vectors and deletion marks (module HierarchicalNSW has the links).      *)
(***************************************************************************)
EXTENDS Integers, FiniteSets

CONSTANTS Labels,   \* ids the application may give to items
          Vectors   \* the items

ASSUME LabelsAssumption == Labels \subseteq Nat

(* The id that asks for an automatic number, as the binding compares it. *)
NoId == -1

NoItems == [label \in {} |-> [vector |-> 0, deleted |-> FALSE]]

(* Index::Index.  appr_alg is "null", "live", or "released": not null, and *)
(* pointing to a graph that was deleted.                                   *)
NewIndex == [appr_alg |-> "null", items |-> NoItems, max_elements |-> 0,
             index_initialized |-> FALSE, index_cleared |-> FALSE, incremental_id |-> 0]

(* An answer: a result code, and what the call writes to its arguments. *)
Outcome(n, code) == [native |-> n, code |-> code, value |-> {}]
Result(n, value) == [native |-> n, code |-> "successful", value |-> value]

(* The use of a graph that is not there. *)
Undefined(n) == Outcome(n, "undefined")
OnGraph(n, outcome) == IF n.appr_alg = "live" THEN outcome ELSE Undefined(n)

(* Mutant: the macro without the test of index_cleared. *)
NoCheck(n) == "goOn"

(* The tests of the two TRY_CATCH macros. *)
ClearedCheck(n) == IF n.index_cleared THEN "onceCleared" ELSE "goOn"
InitializedCheck(n) ==
    IF n.index_initialized THEN ClearedCheck(n) ELSE "notInitialized"

Unless(check, n, outcome) == IF check = "goOn" THEN outcome ELSE Outcome(n, check)

count(n) == Cardinality(DOMAIN n.items)
Visible(n) == {label \in DOMAIN n.items : ~n.items[label].deleted}

init_new_index(n, maxElements) ==
    Unless(ClearedCheck(n), n,
        IF n.appr_alg # "null" THEN Outcome(n, "alreadyInitialized")
        ELSE Result([n EXCEPT !.appr_alg = "live", !.items = NoItems, !.max_elements = maxElements,
                              !.index_initialized = TRUE], {}))

(* ef_ changes what a search finds, and nothing else: it is left out. *)
set_ef(n) == Unless(InitializedCheck(n), n, OnGraph(n, Result(n, {})))

(* The getters and compute_similarity dereference appr_alg untested. *)
parameter(n) == OnGraph(n, Result(n, {}))

getIndexLength(n) ==
    IF n.appr_alg = "null" THEN Result(n, {0}) ELSE OnGraph(n, Result(n, {count(n)}))

------------------------------------------------------------------------------
(* HierarchicalNSW::saveIndex: the header of a file, and the elements.     *)
(* Deletion marks are part of the bottom lists; the automatic number is    *)
(* not saved.                                                              *)
Header(n) == [max_elements |-> n.max_elements, count |-> count(n)]
FileOf(header, items) == [state |-> "complete", header |-> header, items |-> items]
Saved(n) == FileOf(Header(n), n.items)

(* The files that loadIndex refuses: there is none, or it is cut off. *)
BadFile(state) ==
    [state |-> state, header |-> [max_elements |-> 0, count |-> 0], items |-> NoItems]

(* A file that could not be opened or not be written to the end goes       *)
(* unnoticed by saveIndex.                                                 *)
save_index(n) == Unless(InitializedCheck(n), n, OnGraph(n, Result(n, {Saved(n)})))

(* Mutant: the capacity asked for, whatever the file holds. *)
CapacityAsked(saved, max) == max

(* The capacity of a loaded index: the one asked for, unless the elements  *)
(* of the file exceed it.                                                  *)
Capacity(saved, max) ==
    IF max < saved.header.count THEN saved.header.max_elements ELSE max

(* "delete appr_alg" of load_index and of clear_index. *)
Deallocated(n) ==
    IF n.appr_alg = "live" THEN [n EXCEPT !.appr_alg = "released"] ELSE n

(* The constructor that calls loadIndex throws, or the new graph takes the *)
(* pointer.  index_initialized stays as it is.                             *)
Loaded(n, saved, max) ==
    IF saved.state # "complete" THEN Outcome(n, "exceptionThrown")
    ELSE Result([n EXCEPT !.appr_alg = "live", !.items = saved.items,
                          !.max_elements = Capacity(saved, max)], {})

load_index(n, saved, max) ==
    Unless(ClearedCheck(n), n,
        IF n.appr_alg = "released" THEN Undefined(n) \* deleted a second time
        ELSE Loaded(Deallocated(n), saved, max))

------------------------------------------------------------------------------
(* HierarchicalNSW::addPoint.  A known label keeps its deletion mark. *)
addPoint(n, label, vector) ==
    IF label \in DOMAIN n.items
    THEN Result([n EXCEPT !.items[label].vector = vector], {})
    ELSE IF count(n) >= n.max_elements THEN Outcome(n, "exceptionThrown")
    ELSE Result([n EXCEPT !.items =
                   [l \in DOMAIN @ \cup {label} |->
                      IF l = label THEN [vector |-> vector, deleted |-> FALSE] ELSE @[l]]],
                {})

IsFull(n) == count(n) >= n.max_elements

(* Mutant: -1 taken as an id like any other. *)
AddedAsGiven(n, id, vector) == addPoint(n, id, vector)

(* add_item after its tests: an id, and the point. *)
Added(n, id, vector) ==
    IF id = NoId
    THEN addPoint([n EXCEPT !.incremental_id = @ + 1], n.incremental_id, vector)
    ELSE addPoint(n, id, vector)

AddItemCheck(n) ==
    IF InitializedCheck(n) = "goOn" /\ n.appr_alg = "live" /\ IsFull(n)
    THEN "cannotBeInserted" ELSE InitializedCheck(n)

add_item(n, id, vector) ==
    Unless(AddItemCheck(n), n, OnGraph(n, Added(n, id, vector)))

(* The search of hasId and getDataById in label_lookup_. *)
LookedUp(n, id, value) ==
    OnGraph(n, IF id \in Visible(n) THEN Result(n, value) ELSE Outcome(n, "idNotInIndex"))

hasId(n, id) == Unless(InitializedCheck(n), n, LookedUp(n, id, {}))

DataOf(n, id) == LookedUp(n, id, {n.items[id].vector})

getDataById(n, id) == Unless(InitializedCheck(n), n, DataOf(n, id))

(* The search is approximate: any k elements that are not deleted, or too  *)
(* few of them when the search does not reach k.                           *)
searchKnn(n, k) ==
    {OnGraph(n, Outcome(n, "queryCannotReturn"))}
    \cup {OnGraph(n, Result(n, ids)) :
            ids \in {s \in SUBSET Visible(n) : Cardinality(s) = k}}

knn_query(n, k) ==
    {Unless(InitializedCheck(n), n, outcome) : outcome \in searchKnn(n, k)}

markDelete(n, label) ==
    OnGraph(n, IF label \in DOMAIN n.items
               THEN Result([n EXCEPT !.items[label].deleted = TRUE], {})
               ELSE Outcome(n, "exceptionThrown"))

mark_deleted(n, label) == Unless(InitializedCheck(n), n, markDelete(n, label))

(* The graph is deleted, a second time if it was released before. *)
Released(n) ==
    IF n.appr_alg = "released" THEN Undefined(n)
    ELSE Result([Deallocated(n) EXCEPT !.index_cleared = TRUE], {})

clear_index(n) == Unless(ClearedCheck(n), n, Released(n))
==============================================================================
