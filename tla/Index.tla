------------------------------- MODULE Index -------------------------------
(***************************************************************************)
(* The life of Java Index objects (Index.java) and of the native indexes   *)
(* they point to.  Every public method is one action: the whole call, from *)
(* the Java method through the binding and back.  The methods of           *)
(* ConcurrentIndex do the same under a lock (module ConcurrentIndex), so   *)
(* this module has them one at a time.                                     *)
(***************************************************************************)
EXTENDS NativeIndex

CONSTANTS Objects,    \* Java objects; the constructor of each makes a native index
          Paths,      \* paths to save to and load from
          Capacities, \* values of maxNumberOfElements
          MaxNumber   \* bound of this model: automatic numbers below it

ASSUME CapacitiesAssumption == Capacities \subseteq Nat
ASSUME MaxNumberAssumption == MaxNumber \in Nat

VARIABLES native,  \* native[o]: the native index that the constructor of o made
          object,  \* object[o]: the fields of o
          idSet,   \* idSet[o]: the set of ids that the constructor of o made
          file,    \* file[p]: what is at path p
          crashed  \* a call has used a graph that is not there

vars == <<native, object, idSet, file, crashed>>

Classes == {"Index", "ConcurrentIndex"}
Lives == {"none", "reachable", "unreachable", "finalized"}

NewObject(o, class, life) ==
    [class |-> class, life |-> life, reference |-> o, ids |-> o,
     initialized |-> FALSE, cleared |-> FALSE, referenceReused |-> FALSE]

Init ==
    /\ native = [o \in Objects |-> NewIndex]
    /\ object = [o \in Objects |-> NewObject(o, "Index", "none")]
    /\ idSet = [o \in Objects |-> {}]
    /\ file = [p \in Paths |-> BadFile("absent")]
    /\ crashed = FALSE

(* The native index an object works on. *)
Native(o) == native[object[o].reference]

(* A method that can be called, and the outcome of its native call. Nothing *)
(* is said of a program once it has used memory that it does not own.       *)
Callable(o) == ~crashed /\ object[o].life = "reachable"

Answers(o, outcome) ==
    /\ native' = [native EXCEPT ![object[o].reference] = outcome.native]
    /\ crashed' = (outcome.code = "undefined")

Calls(o, outcome) == Callable(o) /\ Answers(o, outcome)

JavaUnchanged == UNCHANGED <<object, idSet, file>>

------------------------------------------------------------------------------
New(o, class) ==
    /\ ~crashed /\ object[o].life = "none"
    /\ object' = [object EXCEPT ![o] = NewObject(o, class, "reachable")]
    /\ UNCHANGED <<native, idSet, file, crashed>>

(* Mutant: the original is not marked. *)
MarkedNever(original) == original

Marked(original) == [original EXCEPT !.referenceReused = TRUE]

(* synchronizedIndex.  The native index that the constructor of the new    *)
(* object made is forgotten.                                               *)
SynchronizedIndex(o, s) ==
    /\ Callable(o) /\ object[s].life = "none"
    /\ object' = [object EXCEPT
                    ![o] = Marked(@),
                    ![s] = [NewObject(s, "ConcurrentIndex", "reachable") EXCEPT
                              !.reference = object[o].reference, !.ids = object[o].ids,
                              !.cleared = object[o].cleared,
                              !.initialized = object[o].initialized]]
    /\ UNCHANGED <<native, idSet, file, crashed>>

(* Mutant: the flag is set before the result code is looked at. *)
InitializedEarly(o, code) == TRUE

InitializedAfter(o, code) == object[o].initialized \/ code = "successful"

Initialize(o, max) ==
    LET outcome == IF object[o].initialized THEN Outcome(Native(o), "alreadyInitialized")
                   ELSE init_new_index(Native(o), max)
    IN  /\ Calls(o, outcome)
        /\ object' = [object EXCEPT ![o].initialized = InitializedAfter(o, outcome.code)]
        /\ UNCHANGED <<idSet, file>>

SetEf(o) == Calls(o, set_ef(Native(o))) /\ JavaUnchanged

(* addItem and addNormalizedItem, with an id or without. *)
AddItem(o, id, vector) ==
    /\ id = NoId => Native(o).incremental_id < MaxNumber
    /\ Calls(o, add_item(Native(o), id, vector))
    /\ JavaUnchanged

(* Mutant: the id is remembered whatever the binding answers. *)
RememberedAlways(ids, id, code) == ids \cup {id}

Remembered(ids, id, code) == IF code = "successful" THEN ids \cup {id} ELSE ids

(* addItem and addNormalizedItem with saveId = true; the id may be NoId,   *)
(* which is then remembered itself, and not the number the item is given.  *)
AddItemSaveId(o, id, vector) ==
    LET outcome == add_item(Native(o), id, vector)
    IN  /\ id = NoId => Native(o).incremental_id < MaxNumber
        /\ Calls(o, outcome)
        /\ idSet' = [idSet EXCEPT ![object[o].ids] = Remembered(@, id, outcome.code)]
        /\ UNCHANGED <<object, file>>

MarkDeleted(o, id) ==
    LET outcome == mark_deleted(Native(o), id)
    IN  /\ Calls(o, outcome)
        /\ idSet' = [idSet EXCEPT ![object[o].ids] =
                       IF outcome.code = "successful" THEN @ \ {id} ELSE @]
        /\ UNCHANGED <<object, file>>

GetLength(o) == Calls(o, getIndexLength(Native(o))) /\ JavaUnchanged

KnnQuery(o, k) ==
    /\ \E outcome \in knn_query(Native(o), k) : Calls(o, outcome)
    /\ JavaUnchanged

HasId(o, id) == Calls(o, hasId(Native(o), id)) /\ JavaUnchanged

GetData(o, id) == Calls(o, getDataById(Native(o), id)) /\ JavaUnchanged

(* getM, getEf, getEfConstruction and computeSimilarity test the Java flag. *)
GetParameter(o) ==
    /\ Calls(o, IF object[o].initialized THEN parameter(Native(o))
                ELSE Outcome(Native(o), "notInitialized"))
    /\ JavaUnchanged

------------------------------------------------------------------------------
(* save reports success even when the file could not be opened (and stays) *)
(* or the disk is full (and the file is cut off).                          *)
Save(o, p) ==
    LET outcome == save_index(Native(o))
    IN  /\ Calls(o, outcome)
        /\ IF outcome.code = "successful"
           THEN \E contents \in {Saved(Native(o)), BadFile("damaged"), file[p]} :
                    file' = [file EXCEPT ![p] = contents]
           ELSE UNCHANGED file
        /\ UNCHANGED <<object, idSet>>

Load(o, p, max) ==
    /\ Calls(o, load_index(Native(o), file[p], max))
    /\ JavaUnchanged

Cleared(o, life) ==
    LET outcome == clear_index(Native(o))
    IN  /\ Answers(o, outcome)
        /\ object' = [object EXCEPT ![o].life = life,
                                    ![o].cleared = @ \/ outcome.code = "successful"]
        /\ UNCHANGED <<idSet, file>>

Clear(o) == Callable(o) /\ Cleared(o, object[o].life)

(* The application drops its last reference to an object... *)
Drop(o) ==
    /\ Callable(o)
    /\ object' = [object EXCEPT ![o].life = "unreachable"]
    /\ UNCHANGED <<native, idSet, file, crashed>>

(* ... and some time later the collector runs its finalizer. *)
Finalize(o) ==
    /\ ~crashed /\ object[o].life = "unreachable"
    /\ IF object[o].cleared \/ object[o].referenceReused
       THEN /\ object' = [object EXCEPT ![o].life = "finalized"]
            /\ UNCHANGED <<native, idSet, file, crashed>>
       ELSE Cleared(o, "finalized")

Next ==
    \E o \in Objects :
        \/ \E class \in Classes : New(o, class)
        \/ \E s \in Objects : SynchronizedIndex(o, s)
        \/ \E max \in Capacities : Initialize(o, max)
        \/ SetEf(o)
        \/ \E vector \in Vectors, id \in Labels \cup {NoId} :
             AddItem(o, id, vector) \/ AddItemSaveId(o, id, vector)
        \/ \E id \in Labels : MarkDeleted(o, id) \/ HasId(o, id) \/ GetData(o, id)
        \/ GetLength(o) \/ KnnQuery(o, 1) \/ GetParameter(o)
        \/ \E p \in Paths : Save(o, p) \/ \E max \in Capacities : Load(o, p, max)
        \/ Clear(o) \/ Drop(o) \/ Finalize(o)

Spec == Init /\ [][Next]_vars

------------------------------------------------------------------------------
Pointers == {"null", "live", "released"}
AllLabels == Labels \cup 0 .. (MaxNumber - 1)
Item == [vector : Vectors, deleted : BOOLEAN]
ItemSets == UNION {[labels -> Item] : labels \in SUBSET AllLabels}
Sizes == Capacities \cup {0}
NativeIndexes ==
    [appr_alg : Pointers, items : ItemSets, max_elements : Sizes, index_initialized : BOOLEAN,
     index_cleared : BOOLEAN, incremental_id : 0 .. MaxNumber]
JavaObjects ==
    [class : Classes, life : Lives, reference : Objects, ids : Objects,
     initialized : BOOLEAN, cleared : BOOLEAN, referenceReused : BOOLEAN]
Files ==
    [state : {"absent", "damaged", "complete"},
     header : [max_elements : Sizes, count : Nat], items : ItemSets]

(* The native indexes, the Java objects, the sets of ids and the files     *)
(* keep their types.                                                       *)
TypeOK ==
    /\ native \in [Objects -> NativeIndexes]
    /\ object \in [Objects -> JavaObjects]
    /\ idSet \in [Objects -> SUBSET (Labels \cup {NoId})]
    /\ file \in [Paths -> Files]
    /\ crashed \in BOOLEAN

(* The flags of a Java object (Index.java:39-40) never run ahead of those  *)
(* of the native index it points to, whoever else points there: what Java  *)
(* believes initialised or cleared is.                                     *)
FlagsAgree ==
    \A o \in Objects :
        /\ object[o].initialized => Native(o).index_initialized
        /\ object[o].cleared => Native(o).index_cleared

(* A call that passes the tests of the binding's macros (bindings.cpp:     *)
(* 35-36) finds a graph.  Only a load that fails after the old graph was   *)
(* deleted (bindings.cpp:95-97) takes the graph away behind the tests.     *)
Unprotected(n) == InitializedCheck(n) = "goOn" /\ n.appr_alg # "live"

ChecksProtect ==
    [][\A o \in Objects :
         Unprotected(native'[o]) /\ ~Unprotected(native[o]) =>
             \E c \in Objects, p \in Paths, max \in Capacities :
                 Load(c, p, max) /\ file[p].state # "complete"]_vars

(* A graph never holds more elements than its memory was allocated for,    *)
(* whatever capacities the index, the saved file and the load that reads   *)
(* it were given (hnswalg.h:649-652 and bindings.cpp:114).                 *)
CapacityRespected ==
    \A o \in Objects :
        native[o].appr_alg = "live" => count(native[o]) <= native[o].max_elements

(* "Once the index is cleared, it cannot be initialized or used again"     *)
(* (Index.java:255): no call through any object, and no load, changes a    *)
(* native index that was cleared.                                          *)
ClearedForGood ==
    [][\A o \in Objects : native[o].index_cleared => native'[o] = native[o]]_vars

(* An id enters a set of ids (Index.java:139-141, 183-186) only with its   *)
(* item: the native index of an object with that set has it.  NoId enters  *)
(* only in a call in which the native index took a number of its own.      *)
EntersWithItem(id, before, after) ==
    IF id = NoId THEN after.incremental_id = before.incremental_id + 1
    ELSE id \in DOMAIN after.items

IdsEnterWithItems ==
    [][\A o \in Objects : \A id \in idSet'[o] \ idSet[o] :
         \E c \in Objects :
             object[c].ids = o /\ EntersWithItem(id, Native(c), Native(c)')]_vars

(* The finalizer of a plain Index never clears a native index that a       *)
(* synchronized view of it still uses (Index.java:269 and 423).            *)
SynchronizedSurvives ==
    [][\A o, s \in Objects :
         /\ object[o].class = "Index" /\ Finalize(o)
         /\ object[s].class = "ConcurrentIndex" /\ object[s].life = "reachable"
         => UNCHANGED Native(s)]_vars

------------------------------------------------------------------------------
(* What the documentation says and the code does not do.                   *)

(* load "loads the content stored in a file path onto the index.  Note: if *)
(* the index was previously initialized, the old content will be erased"   *)
(* (Index.java:240-243): an index that holds a graph is not refused as     *)
(* "not initialized" by the binding.                                       *)
LoadedAnswers ==
    \A o \in Objects :
        native[o].appr_alg = "live" => InitializedCheck(native[o]) # "notInitialized"

(* getIds promises the "ids for items in this index" (Index.java:148-151): *)
(* what the set of a usable object holds is the id of an item of its index. *)
IdsAreItems ==
    \A o \in Objects :
        object[o].life = "reachable" /\ ~object[o].cleared
        => idSet[object[o].ids] \subseteq DOMAIN Native(o).items
==============================================================================
