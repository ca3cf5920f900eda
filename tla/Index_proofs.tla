---------------------------- MODULE Index_proofs ----------------------------
(***************************************************************************)
(* Proofs about Index, for any number of objects, paths, labels, vectors   *)
(* and capacities.                                                         *)
(***************************************************************************)
EXTENDS Index, FiniteSetTheorems, TLAPS

(* A native index between two calls. *)
NativeOK(n) ==
    /\ n \in NativeIndexes
    /\ IsFiniteSet(DOMAIN n.items)
    /\ n.appr_alg = "live" => count(n) <= n.max_elements

(* What a file that can be loaded says of itself. *)
FileOK(f) ==
    /\ f \in Files
    /\ IsFiniteSet(DOMAIN f.items)
    /\ f.state = "complete" =>
         /\ f.header.count = Cardinality(DOMAIN f.items)
         /\ f.header.count <= f.header.max_elements

(* What every call leaves of a native index. *)
Grown(n, m) ==
    /\ NativeOK(m)
    /\ n.index_initialized => m.index_initialized
    /\ n.index_cleared => m = n

(* ... and what only a failed load does not. *)
StaysProtected(n, m) == Unprotected(m) => Unprotected(n)

LEMMA NoItemsType == NoItems \in ItemSets /\ IsFiniteSet(DOMAIN NoItems) /\ DOMAIN NoItems = {}
<1>1. NoItems \in [{} -> Item] /\ DOMAIN NoItems = {}
  BY DEF NoItems
<1> QED
  BY <1>1, FS_EmptySet DEF ItemSets

LEMMA GrownSame == ASSUME NEW n, NativeOK(n) PROVE Grown(n, n) /\ StaysProtected(n, n)
BY DEF Grown, StaysProtected

LEMMA OutcomeFields ==
    ASSUME NEW n, NEW code PROVE Outcome(n, code).native = n /\ Outcome(n, code).code = code
BY DEF Outcome

LEMMA ResultFields ==
    ASSUME NEW n, NEW value
    PROVE  Result(n, value).native = n /\ Result(n, value).code = "successful"
BY DEF Result

LEMMA SizesAreNumbers == Sizes \subseteq Nat
BY CapacitiesAssumption DEF Sizes

LEMMA InitGrown ==
    ASSUME NEW n, NativeOK(n), NEW max \in Capacities,
           NEW outcome, outcome = init_new_index(n, max)
    PROVE  /\ Grown(n, outcome.native) /\ StaysProtected(n, outcome.native)
           /\ outcome.code = "successful" => outcome.native.index_initialized
<1> DEFINE m == [n EXCEPT !.appr_alg = "live", !.items = NoItems, !.max_elements = max,
                          !.index_initialized = TRUE]
<1>1. /\ m \in NativeIndexes /\ m.appr_alg = "live" /\ m.items = NoItems /\ m.max_elements = max
      /\ m.index_initialized
  BY NoItemsType DEF NativeOK, NativeIndexes, Pointers, Sizes
<1>a. outcome = IF n.index_cleared THEN Outcome(n, "onceCleared")
                ELSE IF n.appr_alg # "null" THEN Outcome(n, "alreadyInitialized")
                ELSE Result(m, {})
  BY DEF init_new_index, Unless, ClearedCheck
<1> HIDE DEF m
<1>2. \/ outcome.native = n /\ outcome.code # "successful"
      \/ outcome.native = m /\ ~n.index_cleared
  <2>1. CASE n.index_cleared
    BY <1>a, <2>1, OutcomeFields
  <2>2. CASE ~n.index_cleared /\ n.appr_alg # "null"
    BY <1>a, <2>2, OutcomeFields
  <2>3. CASE ~n.index_cleared /\ n.appr_alg = "null"
    <3>1. outcome = Result(m, {})
      BY <1>a, <2>3
    <3> QED
      BY <2>3, <3>1, ResultFields
  <2> QED
    BY <2>1, <2>2, <2>3
<1>3. Cardinality(DOMAIN m.items) = 0 /\ max \in Nat
  BY <1>1, NoItemsType, FS_EmptySet, CapacitiesAssumption
<1>4. NativeOK(m)
  BY <1>1, <1>3, NoItemsType DEF NativeOK, count
<1> QED
  BY <1>1, <1>2, <1>4, GrownSame DEF Grown, StaysProtected, Unprotected

LEMMA AddPointGrown ==
    ASSUME NEW n, NativeOK(n), NEW label \in AllLabels, NEW vector \in Vectors,
           n.appr_alg = "live", NEW outcome, outcome = addPoint(n, label, vector)
    PROVE  /\ NativeOK(outcome.native)
           /\ outcome.native.index_initialized = n.index_initialized
           /\ outcome.native.index_cleared = n.index_cleared
           /\ outcome.native.appr_alg = "live"
           /\ outcome.native.incremental_id = n.incremental_id
           /\ outcome.code = "successful" => label \in DOMAIN outcome.native.items
<1> DEFINE new == [l \in DOMAIN n.items \cup {label} |->
                     IF l = label THEN [vector |-> vector, deleted |-> FALSE] ELSE n.items[l]]
           changed == [n.items EXCEPT ![label] = [@ EXCEPT !.vector = vector]]
           with(items) == [n EXCEPT !.items = items]
<1>1. n.items \in [DOMAIN n.items -> Item] /\ DOMAIN n.items \subseteq AllLabels
  BY DEF NativeOK, NativeIndexes, ItemSets
<1>2. \A items \in ItemSets :
        /\ with(items) \in NativeIndexes /\ with(items).items = items
        /\ with(items).max_elements = n.max_elements
        /\ with(items).index_initialized = n.index_initialized
        /\ with(items).index_cleared = n.index_cleared /\ with(items).appr_alg = "live"
        /\ with(items).incremental_id = n.incremental_id
  BY DEF NativeOK, NativeIndexes
<1>3. CASE label \in DOMAIN n.items
  <2>1. changed \in [DOMAIN n.items -> Item]
    <3>1. [n.items[label] EXCEPT !.vector = vector] \in Item
      BY <1>1, <1>3 DEF Item
    <3> QED
      BY <1>1, <3>1
  <2>2. changed \in ItemSets /\ DOMAIN changed = DOMAIN n.items
    BY <1>1, <2>1 DEF ItemSets
  <2>3. outcome = Result(with(changed), {})
    BY <1>3 DEF addPoint
  <2> HIDE DEF changed, with
  <2>4. outcome.native = with(changed)
    BY <2>3, ResultFields
  <2>5. NativeOK(with(changed))
    BY <1>2, <2>2 DEF NativeOK, count
  <2> QED
    BY <1>2, <1>3, <2>2, <2>4, <2>5
<1>4. CASE label \notin DOMAIN n.items /\ ~(count(n) >= n.max_elements)
  <2>1. new \in [DOMAIN n.items \cup {label} -> Item] /\ DOMAIN new = DOMAIN n.items \cup {label}
    BY <1>1 DEF Item
  <2>2. new \in ItemSets
    BY <1>1, <2>1 DEF ItemSets
  <2>3. outcome = Result(with(new), {})
    BY <1>4 DEF addPoint
  <2> HIDE DEF new, with
  <2>4. outcome.native = with(new)
    BY <2>3, ResultFields
  <2>5. IsFiniteSet(DOMAIN new) /\ Cardinality(DOMAIN new) = Cardinality(DOMAIN n.items) + 1
    BY <1>4, <2>1, FS_AddElement DEF NativeOK
  <2>6. Cardinality(DOMAIN n.items) \in Nat /\ n.max_elements \in Nat
    <3>1. IsFiniteSet(DOMAIN n.items)
      BY DEF NativeOK
    <3>2. n.max_elements \in Nat
      <4>1. n.max_elements \in Sizes
        BY DEF NativeOK, NativeIndexes
      <4> QED
        BY <4>1, SizesAreNumbers
    <3> QED
      BY <3>1, <3>2, FS_CardinalityType
  <2>7. NativeOK(with(new))
    BY <1>2, <1>4, <2>2, <2>5, <2>6 DEF NativeOK, count
  <2> QED
    BY <1>2, <2>1, <2>2, <2>4, <2>7
<1>5. CASE label \notin DOMAIN n.items /\ count(n) >= n.max_elements
  <2>1. outcome = Outcome(n, "exceptionThrown")
    BY <1>5 DEF addPoint
  <2>2. outcome.native = n /\ outcome.code = "exceptionThrown"
    BY <2>1, OutcomeFields
  <2> QED
    BY <2>2
<1> QED
  BY <1>3, <1>4, <1>5

LEMMA AddItemGrown ==
    ASSUME NEW n, NativeOK(n), NEW id \in Labels \cup {NoId}, NEW vector \in Vectors,
           id = NoId => n.incremental_id < MaxNumber,
           NEW outcome, outcome = add_item(n, id, vector)
    PROVE  /\ Grown(n, outcome.native) /\ StaysProtected(n, outcome.native)
           /\ outcome.code = "successful" => EntersWithItem(id, n, outcome.native)
<1> DEFINE numbered == [n EXCEPT !.incremental_id = @ + 1]
<1>1. CASE outcome = Outcome(n, AddItemCheck(n)) /\ AddItemCheck(n) # "goOn"
  <2>1. AddItemCheck(n) # "successful"
    BY DEF AddItemCheck, InitializedCheck, ClearedCheck
  <2>2. outcome.native = n /\ outcome.code # "successful"
    BY <1>1, <2>1, OutcomeFields
  <2> QED
    BY <2>2, GrownSame
<1>2. CASE outcome = Undefined(n)
  <2>1. outcome.native = n /\ outcome.code = "undefined"
    BY <1>2, OutcomeFields DEF Undefined
  <2> QED
    BY <2>1, GrownSame
<1>3. CASE AddItemCheck(n) = "goOn" /\ n.appr_alg = "live" /\ outcome = Added(n, id, vector)
  <2>1. n.index_cleared = FALSE
    BY <1>3 DEF AddItemCheck, InitializedCheck, ClearedCheck, NativeOK, NativeIndexes
  <2>2. CASE id = NoId
    <3>1. n.incremental_id \in 0 .. MaxNumber /\ n.incremental_id < MaxNumber
      BY <2>2 DEF NativeOK, NativeIndexes
    <3>2. n.incremental_id \in AllLabels /\ n.incremental_id + 1 \in 0 .. MaxNumber
      BY <3>1, MaxNumberAssumption DEF AllLabels
    <3>3. /\ numbered \in NativeIndexes /\ numbered.items = n.items /\ numbered.appr_alg = "live"
          /\ numbered.max_elements = n.max_elements
          /\ numbered.incremental_id = n.incremental_id + 1
          /\ numbered.index_initialized = n.index_initialized
          /\ numbered.index_cleared = n.index_cleared
      BY <1>3, <3>2 DEF NativeOK, NativeIndexes
    <3>4. outcome = addPoint(numbered, n.incremental_id, vector)
      BY <1>3, <2>2 DEF Added
    <3> HIDE DEF numbered
    <3>5. NativeOK(numbered)
      BY <1>3, <3>3 DEF NativeOK, count
    <3>6. /\ NativeOK(outcome.native)
          /\ outcome.native.index_initialized = n.index_initialized
          /\ outcome.native.appr_alg = "live"
          /\ outcome.native.incremental_id = numbered.incremental_id
      BY <3>2, <3>3, <3>4, <3>5, AddPointGrown
    <3>7. EntersWithItem(id, n, outcome.native)
      BY <2>2, <3>3, <3>6 DEF EntersWithItem
    <3> QED
      BY <2>1, <3>6, <3>7 DEF Grown, StaysProtected, Unprotected
  <2>3. CASE id # NoId
    <3>1. id \in Labels /\ id \in AllLabels
      BY <2>3 DEF AllLabels
    <3>2. outcome = addPoint(n, id, vector)
      BY <1>3, <2>3 DEF Added
    <3>3. /\ NativeOK(outcome.native)
          /\ outcome.native.index_initialized = n.index_initialized
          /\ outcome.native.appr_alg = "live"
          /\ outcome.code = "successful" => id \in DOMAIN outcome.native.items
      BY <1>3, <3>1, <3>2, AddPointGrown
    <3>4. outcome.code = "successful" => EntersWithItem(id, n, outcome.native)
      BY <2>3, <3>3 DEF EntersWithItem
    <3> QED
      BY <2>1, <3>3, <3>4 DEF Grown, StaysProtected, Unprotected
  <2> QED
    BY <2>2, <2>3
<1> QED
  BY <1>1, <1>2, <1>3 DEF add_item, Unless, OnGraph

LEMMA MarkDeletedGrown ==
    ASSUME NEW n, NativeOK(n), NEW label \in Labels,
           NEW outcome, outcome = mark_deleted(n, label)
    PROVE  Grown(n, outcome.native) /\ StaysProtected(n, outcome.native)
<1> DEFINE changed == [n.items EXCEPT ![label] = [@ EXCEPT !.deleted = TRUE]]
           m == [n EXCEPT !.items = changed]
<1>1. CASE \E code : outcome = Outcome(n, code)
  BY <1>1, OutcomeFields, GrownSame
<1>2. CASE InitializedCheck(n) = "goOn" /\ label \in DOMAIN n.items /\ outcome = Result(m, {})
  <2>1. n.items \in [DOMAIN n.items -> Item] /\ DOMAIN n.items \subseteq AllLabels
    BY DEF NativeOK, NativeIndexes, ItemSets
  <2>2. [n.items[label] EXCEPT !.deleted = TRUE] \in Item
    BY <1>2, <2>1 DEF Item
  <2>3. changed \in [DOMAIN n.items -> Item]
    BY <2>1, <2>2
  <2>4. changed \in ItemSets /\ DOMAIN changed = DOMAIN n.items
    BY <2>1, <2>3 DEF ItemSets
  <2> HIDE DEF changed
  <2>5. /\ m \in NativeIndexes /\ m.items = changed /\ m.max_elements = n.max_elements
        /\ m.appr_alg = n.appr_alg /\ m.index_initialized = n.index_initialized
        /\ m.index_cleared = n.index_cleared
    BY <2>4 DEF NativeOK, NativeIndexes
  <2>6. outcome.native = m
    BY <1>2, ResultFields
  <2> HIDE DEF m
  <2>7. NativeOK(m)
    BY <2>4, <2>5 DEF NativeOK, count
  <2>8. n.index_cleared = FALSE
    BY <1>2 DEF InitializedCheck, ClearedCheck, NativeOK, NativeIndexes
  <2> QED
    BY <2>5, <2>6, <2>7, <2>8
       DEF Grown, StaysProtected, Unprotected, InitializedCheck, ClearedCheck
<1> QED
  BY <1>1, <1>2 DEF mark_deleted, markDelete, Unless, OnGraph, Undefined

LEMMA DeallocatedOK ==
    ASSUME NEW n, NativeOK(n), NEW m, m = Deallocated(n)
    PROVE  /\ NativeOK(m)
           /\ m.items = n.items
           /\ m.index_initialized = n.index_initialized /\ m.index_cleared = n.index_cleared
<1>1. m = n \/ m = [n EXCEPT !.appr_alg = "released"]
  BY DEF Deallocated
<1> QED
  BY <1>1 DEF NativeOK, NativeIndexes, Pointers

(* The capacity of a loaded index is never below what the file holds. *)
LEMMA CapacityEnough ==
    ASSUME NEW f, FileOK(f), f.state = "complete", NEW max \in Capacities
    PROVE  /\ Capacity(f, max) \in Sizes
           /\ Cardinality(DOMAIN f.items) <= Capacity(f, max)
<1>1. /\ f.header.count = Cardinality(DOMAIN f.items) /\ f.header.count \in Nat
      /\ f.header.max_elements \in Sizes /\ f.header.count <= f.header.max_elements
  BY DEF FileOK, Files
<1>2. f.header.max_elements \in Nat /\ max \in Nat /\ max \in Sizes
  BY <1>1, SizesAreNumbers, CapacitiesAssumption DEF Sizes
<1> QED
  BY <1>1, <1>2 DEF Capacity

LEMMA LoadGrown ==
    ASSUME NEW n, NativeOK(n), NEW f, FileOK(f), NEW max \in Capacities,
           NEW outcome, outcome = load_index(n, f, max)
    PROVE  /\ Grown(n, outcome.native)
           /\ f.state = "complete" => StaysProtected(n, outcome.native)
<1> DEFINE d == Deallocated(n)
           m == [d EXCEPT !.appr_alg = "live", !.items = f.items,
                          !.max_elements = Capacity(f, max)]
<1>1. CASE \E code : outcome = Outcome(n, code)
  BY <1>1, OutcomeFields, GrownSame
<1>d. /\ NativeOK(d)
      /\ d.index_initialized = n.index_initialized /\ d.index_cleared = n.index_cleared
  BY DeallocatedOK
<1>2. CASE ~n.index_cleared /\ f.state # "complete" /\ outcome = Outcome(d, "exceptionThrown")
  <2>1. outcome.native = d
    BY <1>2, OutcomeFields
  <2> HIDE DEF d
  <2> QED
    BY <1>2, <1>d, <2>1 DEF Grown
<1>3. CASE ~n.index_cleared /\ f.state = "complete" /\ outcome = Result(m, {})
  <2> HIDE DEF d
  <2>1. /\ f.items \in ItemSets /\ IsFiniteSet(DOMAIN f.items)
        /\ Capacity(f, max) \in Sizes
        /\ Cardinality(DOMAIN f.items) <= Capacity(f, max)
    BY <1>3, CapacityEnough DEF FileOK, Files
  <2>2. /\ m \in NativeIndexes /\ m.items = f.items /\ m.max_elements = Capacity(f, max)
        /\ m.appr_alg = "live" /\ m.index_initialized = d.index_initialized
    BY <1>d, <2>1 DEF NativeOK, NativeIndexes, Pointers
  <2>3. outcome.native = m
    BY <1>3, ResultFields
  <2> HIDE DEF m
  <2>4. NativeOK(m)
    BY <2>1, <2>2 DEF NativeOK, count
  <2> QED
    BY <1>3, <1>d, <2>2, <2>3, <2>4 DEF Grown, StaysProtected, Unprotected
<1> QED
  BY <1>1, <1>2, <1>3 DEF load_index, Loaded, Unless, ClearedCheck, Undefined

LEMMA ClearGrown ==
    ASSUME NEW n, NativeOK(n), NEW outcome, outcome = clear_index(n)
    PROVE  /\ Grown(n, outcome.native) /\ StaysProtected(n, outcome.native)
           /\ outcome.code = "successful" => outcome.native.index_cleared
<1> DEFINE d == Deallocated(n)
           m == [d EXCEPT !.index_cleared = TRUE]
<1>1. CASE \E code : outcome = Outcome(n, code) /\ code # "successful"
  BY <1>1, OutcomeFields, GrownSame
<1>2. CASE ~n.index_cleared /\ outcome = Result(m, {})
  <2>1. /\ NativeOK(d) /\ d.index_initialized = n.index_initialized
    BY DeallocatedOK
  <2> HIDE DEF d
  <2>2. /\ m \in NativeIndexes /\ m.items = d.items /\ m.max_elements = d.max_elements
        /\ m.appr_alg = d.appr_alg /\ m.index_initialized = d.index_initialized
        /\ m.index_cleared = TRUE
    BY <2>1 DEF NativeOK, NativeIndexes
  <2>3. outcome.native = m
    BY <1>2, ResultFields
  <2> HIDE DEF m
  <2>4. NativeOK(m)
    BY <2>1, <2>2 DEF NativeOK, count
  <2> QED
    BY <1>2, <2>1, <2>2, <2>3, <2>4
       DEF Grown, StaysProtected, Unprotected, InitializedCheck, ClearedCheck
<1> QED
  BY <1>1, <1>2 DEF clear_index, Released, Unless, ClearedCheck, Undefined

(* A saved index is a file that can be loaded. *)
LEMMA SavedFileOK ==
    ASSUME NEW n, NativeOK(n), n.appr_alg = "live"
    PROVE  FileOK(Saved(n))
<1>1. count(n) \in Nat /\ count(n) <= n.max_elements
  BY FS_CardinalityType DEF NativeOK, count
<1>2. n.items \in ItemSets /\ n.max_elements \in Sizes /\ IsFiniteSet(DOMAIN n.items)
  BY DEF NativeOK, NativeIndexes
<1> QED
  BY <1>1, <1>2 DEF Saved, FileOf, Header, FileOK, Files, count

LEMMA BadFileOK ==
    ASSUME NEW state \in {"absent", "damaged"} PROVE FileOK(BadFile(state))
<1>1. 0 \in Sizes /\ 0 \in Nat
  BY DEF Sizes
<1> QED
  BY <1>1, NoItemsType DEF BadFile, FileOK, Files

------------------------------------------------------------------------------
NativesOK == \A o \in Objects : NativeOK(native[o])
FilesOK == \A p \in Paths : FileOK(file[p])

(* A plain Index uses the native index it made; whoever uses another's has *)
(* marked the object that made it.                                         *)
ViewsMarked ==
    \A o \in Objects :
        /\ object[o].class = "Index" => object[o].reference = o
        /\ object[o].reference # o =>
             /\ object[object[o].reference].referenceReused
             /\ object[object[o].reference].life # "none"

IInv == TypeOK /\ NativesOK /\ FilesOK /\ FlagsAgree /\ ViewsMarked

(* What a step does to the native indexes. *)
NativesGrow ==
    native' \in [Objects -> NativeIndexes] /\ \A o \in Objects : Grown(native[o], native'[o])
StillProtected == \A o \in Objects : StaysProtected(native[o], native'[o])

LEMMA InitIInv == Init => IInv
<1> SUFFICES ASSUME Init PROVE IInv
  OBVIOUS
<1>1. NewIndex \in NativeIndexes /\ NewIndex.appr_alg = "null" /\ NewIndex.items = NoItems
  BY NoItemsType, MaxNumberAssumption DEF NewIndex, NativeIndexes, Pointers, Sizes
<1>2. NativeOK(NewIndex)
  BY <1>1, NoItemsType DEF NativeOK
<1>3. /\ native \in [Objects -> NativeIndexes]
      /\ \A o \in Objects : native[o] = NewIndex
  BY <1>1 DEF Init
<1>4. FileOK(BadFile("absent")) /\ file = [p \in Paths |-> BadFile("absent")]
  BY BadFileOK DEF Init
<1>5. /\ object \in [Objects -> JavaObjects]
      /\ \A o \in Objects :
           /\ object[o].reference = o /\ ~object[o].initialized /\ ~object[o].cleared
  BY DEF Init, NewObject, JavaObjects, Classes, Lives
<1>6. file \in [Paths -> Files] /\ FilesOK
  BY <1>4 DEF FilesOK, FileOK
<1>7. TypeOK
  BY <1>3, <1>5, <1>6 DEF Init, TypeOK
<1> QED
  BY <1>2, <1>3, <1>5, <1>6, <1>7 DEF IInv, NativesOK, FlagsAgree, ViewsMarked

LEMMA ReferenceType ==
    ASSUME IInv, NEW o \in Objects
    PROVE  /\ object[o].reference \in Objects /\ object[o].ids \in Objects
           /\ Native(o) = native[object[o].reference] /\ NativeOK(Native(o))
<1>1. object[o] \in JavaObjects
  BY DEF IInv, TypeOK
<1> QED
  BY <1>1 DEF IInv, NativesOK, Native, JavaObjects

(* A call changes one native index. *)
LEMMA AnswersGrow ==
    ASSUME IInv, NEW o \in Objects, NEW outcome, Answers(o, outcome),
           Grown(Native(o), outcome.native)
    PROVE  /\ NativesGrow /\ crashed' \in BOOLEAN
           /\ native'[object[o].reference] = outcome.native
           /\ StaysProtected(Native(o), outcome.native) => StillProtected
<1>1. /\ object[o].reference \in Objects /\ Native(o) = native[object[o].reference]
  BY ReferenceType
<1>2. native \in [Objects -> NativeIndexes] /\ \A x \in Objects : NativeOK(native[x])
  BY DEF IInv, TypeOK, NativesOK
<1>3. native' = [native EXCEPT ![object[o].reference] = outcome.native]
      /\ crashed' \in BOOLEAN
  BY DEF Answers
<1>4. outcome.native \in NativeIndexes
  BY DEF Grown, NativeOK
<1>5. native'[object[o].reference] = outcome.native
      /\ \A x \in Objects : x # object[o].reference => native'[x] = native[x]
  BY <1>1, <1>2, <1>3
<1>6. native' \in [Objects -> NativeIndexes]
  BY <1>1, <1>2, <1>3, <1>4
<1>7. \A x \in Objects : Grown(native[x], native'[x])
  BY <1>1, <1>2, <1>5, GrownSame
<1>8. StaysProtected(Native(o), outcome.native) => StillProtected
  BY <1>1, <1>2, <1>5, GrownSame DEF StillProtected
<1> QED
  BY <1>3, <1>5, <1>6, <1>7, <1>8 DEF NativesGrow

(* A call that leaves the Java objects and the files alone. *)
LEMMA CallKeeps ==
    ASSUME IInv, NativesGrow, crashed' \in BOOLEAN, idSet' \in [Objects -> SUBSET (Labels \cup {NoId})],
           UNCHANGED <<object, file>>
    PROVE  IInv'
<1>1. TypeOK'
  BY DEF IInv, TypeOK, NativesGrow
<1>2. NativesOK' /\ FilesOK' /\ ViewsMarked'
  BY DEF IInv, NativesOK, FilesOK, ViewsMarked, NativesGrow, Grown
<1>3. FlagsAgree'
  BY ReferenceType DEF IInv, FlagsAgree, NativesGrow, Grown, Native
<1> QED
  BY <1>1, <1>2, <1>3 DEF IInv

------------------------------------------------------------------------------
(* The calls that leave the native index as it is. *)
LEMMA SameKeeps ==
    ASSUME IInv, NEW o \in Objects, NEW outcome, Answers(o, outcome),
           outcome.native = Native(o), JavaUnchanged
    PROVE  IInv' /\ NativesGrow /\ StillProtected
<1>1. Grown(Native(o), outcome.native) /\ StaysProtected(Native(o), outcome.native)
  BY ReferenceType, GrownSame
<1>2. idSet' \in [Objects -> SUBSET (Labels \cup {NoId})] /\ UNCHANGED <<object, file>>
  BY DEF JavaUnchanged, IInv, TypeOK
<1>3. NativesGrow /\ crashed' \in BOOLEAN /\ StillProtected
  BY <1>1, AnswersGrow
<1> QED
  BY <1>2, <1>3, CallKeeps

LEMMA SetEfKeeps ==
    ASSUME IInv, NEW o \in Objects, SetEf(o)
    PROVE  IInv' /\ NativesGrow /\ StillProtected
<1>1. set_ef(Native(o)).native = Native(o)
  BY OutcomeFields, ResultFields DEF set_ef, Unless, OnGraph, Undefined
<1> QED
  BY <1>1, SameKeeps DEF SetEf, Calls

LEMMA GetLengthKeeps ==
    ASSUME IInv, NEW o \in Objects, GetLength(o)
    PROVE  IInv' /\ NativesGrow /\ StillProtected
<1>1. getIndexLength(Native(o)).native = Native(o)
  BY OutcomeFields, ResultFields DEF getIndexLength, OnGraph, Undefined
<1> QED
  BY <1>1, SameKeeps DEF GetLength, Calls

LEMMA LookedUpSame ==
    ASSUME NEW n, NEW id, NEW value
    PROVE  Unless(InitializedCheck(n), n, LookedUp(n, id, value)).native = n
BY OutcomeFields, ResultFields DEF LookedUp, Unless, OnGraph, Undefined

LEMMA HasIdKeeps ==
    ASSUME IInv, NEW o \in Objects, NEW id, HasId(o, id) \/ GetData(o, id)
    PROVE  IInv' /\ NativesGrow /\ StillProtected
<1>1. hasId(Native(o), id).native = Native(o) /\ getDataById(Native(o), id).native = Native(o)
  BY LookedUpSame DEF hasId, getDataById, DataOf
<1> QED
  BY <1>1, SameKeeps DEF HasId, GetData, Calls

LEMMA KnnQueryKeeps ==
    ASSUME IInv, NEW o \in Objects, NEW k, KnnQuery(o, k)
    PROVE  IInv' /\ NativesGrow /\ StillProtected
<1>1. PICK outcome \in knn_query(Native(o), k) : Answers(o, outcome) /\ JavaUnchanged
  BY DEF KnnQuery, Calls
<1>2. PICK found \in searchKnn(Native(o), k) :
        outcome = Unless(InitializedCheck(Native(o)), Native(o), found)
  BY DEF knn_query
<1>3. found.native = Native(o)
  BY OutcomeFields, ResultFields DEF searchKnn, OnGraph, Undefined
<1>4. outcome.native = Native(o)
  BY <1>2, <1>3, OutcomeFields DEF Unless
<1> QED
  BY <1>1, <1>4, SameKeeps

LEMMA GetParameterKeeps ==
    ASSUME IInv, NEW o \in Objects, GetParameter(o)
    PROVE  IInv' /\ NativesGrow /\ StillProtected
<1>1. PICK outcome : /\ outcome = IF object[o].initialized THEN parameter(Native(o))
                                  ELSE Outcome(Native(o), "notInitialized")
                     /\ Answers(o, outcome) /\ JavaUnchanged
  BY DEF GetParameter, Calls
<1>2. outcome.native = Native(o)
  BY <1>1, OutcomeFields, ResultFields DEF parameter, OnGraph, Undefined
<1> QED
  BY <1>1, <1>2, SameKeeps

------------------------------------------------------------------------------
(* The calls that change it. *)
LEMMA InitializeKeeps ==
    ASSUME IInv, NEW o \in Objects, NEW max \in Capacities, Initialize(o, max)
    PROVE  IInv' /\ NativesGrow /\ StillProtected
<1>1. PICK outcome :
        /\ outcome = IF object[o].initialized THEN Outcome(Native(o), "alreadyInitialized")
                     ELSE init_new_index(Native(o), max)
        /\ Answers(o, outcome)
        /\ object' = [object EXCEPT ![o].initialized = InitializedAfter(o, outcome.code)]
        /\ UNCHANGED <<idSet, file>>
  BY DEF Initialize, Calls
<1>2. NativeOK(Native(o))
  BY ReferenceType
<1>3. /\ Grown(Native(o), outcome.native) /\ StaysProtected(Native(o), outcome.native)
      /\ outcome.code = "successful" => outcome.native.index_initialized
  <2>1. CASE object[o].initialized
    <3>1. outcome.native = Native(o) /\ outcome.code = "alreadyInitialized"
      BY <1>1, <2>1, OutcomeFields
    <3> QED
      BY <1>2, <3>1, GrownSame
  <2>2. CASE ~object[o].initialized
    BY <1>1, <1>2, <2>2, InitGrown
  <2> QED
    BY <2>1, <2>2
<1>4. /\ NativesGrow /\ crashed' \in BOOLEAN /\ StillProtected
      /\ native'[object[o].reference] = outcome.native
  BY <1>1, <1>3, AnswersGrow
<1>5. object \in [Objects -> JavaObjects] /\ InitializedAfter(o, outcome.code) \in BOOLEAN
  BY DEF IInv, TypeOK, InitializedAfter, JavaObjects
<1>6. /\ object' \in [Objects -> JavaObjects]
      /\ \A x \in Objects : /\ object'[x].reference = object[x].reference
                            /\ object'[x].class = object[x].class
                            /\ object'[x].life = object[x].life
                            /\ object'[x].cleared = object[x].cleared
                            /\ object'[x].referenceReused = object[x].referenceReused
                            /\ x # o => object'[x].initialized = object[x].initialized
      /\ object'[o].initialized = InitializedAfter(o, outcome.code)
  BY <1>1, <1>5 DEF JavaObjects
<1>7. TypeOK' /\ NativesOK' /\ FilesOK'
  BY <1>1, <1>4, <1>6 DEF IInv, TypeOK, NativesOK, FilesOK, NativesGrow, Grown
<1>8. ViewsMarked'
  BY <1>6, ReferenceType DEF IInv, ViewsMarked
<1>9. FlagsAgree'
  <2> SUFFICES ASSUME NEW x \in Objects
               PROVE  /\ object'[x].initialized => native'[object[x].reference].index_initialized
                      /\ object'[x].cleared => native'[object[x].reference].index_cleared
    BY <1>6 DEF FlagsAgree, Native
  <2>1. /\ object[x].initialized => native[object[x].reference].index_initialized
        /\ object[x].cleared => native[object[x].reference].index_cleared
        /\ Grown(native[object[x].reference], native'[object[x].reference])
    BY <1>4, ReferenceType DEF IInv, FlagsAgree, Native, NativesGrow
  <2>2. CASE object'[x].initialized => object[x].initialized
    BY <1>6, <2>1, <2>2 DEF Grown
  <2>3. CASE x = o /\ outcome.code = "successful"
    BY <1>3, <1>4, <1>6, <2>1, <2>3 DEF Grown
  <2>4. CASE x = o /\ outcome.code # "successful"
    BY <1>6, <2>2, <2>4 DEF InitializedAfter
  <2>5. CASE x # o
    BY <1>6, <2>2, <2>5
  <2> QED
    BY <2>3, <2>4, <2>5
<1> QED
  BY <1>4, <1>7, <1>8, <1>9 DEF IInv

LEMMA AddItemKeeps ==
    ASSUME IInv, NEW o \in Objects, NEW id \in Labels \cup {NoId}, NEW vector \in Vectors,
           AddItem(o, id, vector)
    PROVE  IInv' /\ NativesGrow /\ StillProtected
<1>1. PICK outcome : outcome = add_item(Native(o), id, vector) /\ Answers(o, outcome)
  BY DEF AddItem, Calls
<1>2. Grown(Native(o), outcome.native) /\ StaysProtected(Native(o), outcome.native)
  BY <1>1, ReferenceType, AddItemGrown DEF AddItem
<1>3. NativesGrow /\ crashed' \in BOOLEAN /\ StillProtected
  BY <1>1, <1>2, AnswersGrow
<1> QED
  BY <1>3, CallKeeps DEF AddItem, JavaUnchanged, IInv, TypeOK

LEMMA AddItemSaveIdKeeps ==
    ASSUME IInv, NEW o \in Objects, NEW id \in Labels \cup {NoId}, NEW vector \in Vectors,
           AddItemSaveId(o, id, vector)
    PROVE  /\ IInv' /\ NativesGrow /\ StillProtected
           /\ \A x \in Objects : idSet'[x] \subseteq idSet[x] \cup
                IF x = object[o].ids /\ EntersWithItem(id, Native(o), Native(o)')
                THEN {id} ELSE {}
<1>1. PICK outcome :
        /\ outcome = add_item(Native(o), id, vector) /\ Answers(o, outcome)
        /\ idSet' = [idSet EXCEPT ![object[o].ids] = Remembered(@, id, outcome.code)]
        /\ UNCHANGED <<object, file>>
  BY DEF AddItemSaveId, Calls
<1>2. id = NoId => Native(o).incremental_id < MaxNumber
  BY DEF AddItemSaveId
<1>3. /\ Grown(Native(o), outcome.native) /\ StaysProtected(Native(o), outcome.native)
      /\ outcome.code = "successful" => EntersWithItem(id, Native(o), outcome.native)
  BY <1>1, <1>2, ReferenceType, AddItemGrown
<1>4. /\ NativesGrow /\ crashed' \in BOOLEAN /\ StillProtected
      /\ native'[object[o].reference] = outcome.native
  BY <1>1, <1>3, AnswersGrow
<1>5. object[o].ids \in Objects /\ idSet \in [Objects -> SUBSET (Labels \cup {NoId})]
  BY ReferenceType DEF IInv, TypeOK
<1>6. idSet' \in [Objects -> SUBSET (Labels \cup {NoId})]
  BY <1>1, <1>5 DEF Remembered
<1>7. Native(o)' = outcome.native
  BY <1>1, <1>4 DEF Native
<1> QED
  BY <1>1, <1>3, <1>4, <1>5, <1>6, <1>7, CallKeeps DEF Remembered

LEMMA MarkDeletedKeeps ==
    ASSUME IInv, NEW o \in Objects, NEW id \in Labels, MarkDeleted(o, id)
    PROVE  /\ IInv' /\ NativesGrow /\ StillProtected
           /\ \A x \in Objects : idSet'[x] \subseteq idSet[x]
<1>1. PICK outcome :
        /\ outcome = mark_deleted(Native(o), id) /\ Answers(o, outcome)
        /\ idSet' = [idSet EXCEPT ![object[o].ids] =
                       IF outcome.code = "successful" THEN @ \ {id} ELSE @]
        /\ UNCHANGED <<object, file>>
  BY DEF MarkDeleted, Calls
<1>2. Grown(Native(o), outcome.native) /\ StaysProtected(Native(o), outcome.native)
  BY <1>1, ReferenceType, MarkDeletedGrown
<1>3. NativesGrow /\ crashed' \in BOOLEAN /\ StillProtected
  BY <1>1, <1>2, AnswersGrow
<1>4. object[o].ids \in Objects /\ idSet \in [Objects -> SUBSET (Labels \cup {NoId})]
  BY ReferenceType DEF IInv, TypeOK
<1>5. /\ idSet' \in [Objects -> SUBSET (Labels \cup {NoId})]
      /\ \A x \in Objects : idSet'[x] \subseteq idSet[x]
  BY <1>1, <1>4
<1> QED
  BY <1>1, <1>3, <1>5, CallKeeps

LEMMA SaveKeeps ==
    ASSUME IInv, NEW o \in Objects, NEW p \in Paths, Save(o, p)
    PROVE  IInv' /\ NativesGrow /\ StillProtected
<1>1. PICK outcome :
        /\ outcome = save_index(Native(o)) /\ Answers(o, outcome)
        /\ IF outcome.code = "successful"
           THEN \E contents \in {Saved(Native(o)), BadFile("damaged"), file[p]} :
                    file' = [file EXCEPT ![p] = contents]
           ELSE UNCHANGED file
        /\ UNCHANGED <<object, idSet>>
  BY DEF Save, Calls
<1>2. /\ outcome.native = Native(o)
      /\ outcome.code = "successful" => Native(o).appr_alg = "live"
  <2>1. \/ outcome = Outcome(Native(o), InitializedCheck(Native(o)))
           /\ InitializedCheck(Native(o)) # "goOn"
        \/ outcome = Outcome(Native(o), "undefined")
        \/ outcome = Result(Native(o), {Saved(Native(o))}) /\ Native(o).appr_alg = "live"
    BY <1>1 DEF save_index, Unless, OnGraph, Undefined
  <2>2. InitializedCheck(Native(o)) # "successful"
    BY DEF InitializedCheck, ClearedCheck
  <2> QED
    BY <2>1, <2>2, OutcomeFields, ResultFields
<1>3. NativeOK(Native(o))
  BY ReferenceType
<1>4. NativesGrow /\ crashed' \in BOOLEAN /\ StillProtected
  BY <1>1, <1>2, <1>3, GrownSame, AnswersGrow
<1>5. file \in [Paths -> Files] /\ \A q \in Paths : FileOK(file[q])
  BY DEF IInv, TypeOK, FilesOK
<1>6. \/ UNCHANGED file
      \/ \E contents : FileOK(contents) /\ file' = [file EXCEPT ![p] = contents]
  <2>1. CASE outcome.code = "successful"
    <3>1. FileOK(Saved(Native(o))) /\ FileOK(BadFile("damaged")) /\ FileOK(file[p])
      BY <1>2, <1>3, <1>5, <2>1, SavedFileOK, BadFileOK
    <3> QED
      BY <1>1, <2>1, <3>1
  <2>2. CASE outcome.code # "successful"
    BY <1>1, <2>2
  <2> QED
    BY <2>1, <2>2
<1>7. file' \in [Paths -> Files] /\ FilesOK'
  BY <1>5, <1>6 DEF FilesOK, FileOK
<1>8. TypeOK' /\ NativesOK' /\ ViewsMarked'
  BY <1>1, <1>4, <1>7 DEF IInv, TypeOK, NativesOK, NativesGrow, Grown, ViewsMarked
<1>9. FlagsAgree'
  BY <1>1, <1>4, ReferenceType DEF IInv, FlagsAgree, Native, NativesGrow, Grown
<1> QED
  BY <1>4, <1>7, <1>8, <1>9 DEF IInv

LEMMA LoadKeeps ==
    ASSUME IInv, NEW o \in Objects, NEW p \in Paths, NEW max \in Capacities, Load(o, p, max)
    PROVE  IInv' /\ NativesGrow /\ (file[p].state = "complete" => StillProtected)
<1>1. PICK outcome :
        /\ outcome = load_index(Native(o), file[p], max) /\ Answers(o, outcome)
        /\ JavaUnchanged
  BY DEF Load, Calls
<1>2. FileOK(file[p])
  BY DEF IInv, FilesOK
<1>3. /\ Grown(Native(o), outcome.native)
      /\ file[p].state = "complete" => StaysProtected(Native(o), outcome.native)
  BY <1>1, <1>2, ReferenceType, LoadGrown
<1>4. /\ NativesGrow /\ crashed' \in BOOLEAN
      /\ file[p].state = "complete" => StillProtected
  BY <1>1, <1>3, AnswersGrow
<1> QED
  BY <1>1, <1>4, CallKeeps DEF JavaUnchanged, IInv, TypeOK

LEMMA ClearedKeeps ==
    ASSUME IInv, NEW o \in Objects, NEW life \in Lives, life # "none", Cleared(o, life)
    PROVE  /\ IInv' /\ NativesGrow /\ StillProtected
           /\ \A x \in Objects : x # object[o].reference => native'[x] = native[x]
           /\ \A x \in Objects : object'[x].reference = object[x].reference
<1>1. PICK outcome :
        /\ outcome = clear_index(Native(o)) /\ Answers(o, outcome)
        /\ object' = [object EXCEPT ![o].life = life,
                                    ![o].cleared = @ \/ outcome.code = "successful"]
        /\ UNCHANGED <<idSet, file>>
  BY DEF Cleared
<1>2. /\ Grown(Native(o), outcome.native) /\ StaysProtected(Native(o), outcome.native)
      /\ outcome.code = "successful" => outcome.native.index_cleared
  BY <1>1, ReferenceType, ClearGrown
<1>3. /\ NativesGrow /\ crashed' \in BOOLEAN /\ StillProtected
      /\ native'[object[o].reference] = outcome.native
  BY <1>1, <1>2, AnswersGrow
<1>4. object \in [Objects -> JavaObjects] /\ native \in [Objects -> NativeIndexes]
  BY DEF IInv, TypeOK
<1>5. /\ object' \in [Objects -> JavaObjects]
      /\ \A x \in Objects : /\ object'[x].reference = object[x].reference
                            /\ object'[x].class = object[x].class
                            /\ object[x].life # "none" => object'[x].life # "none"
                            /\ object'[x].initialized = object[x].initialized
                            /\ object'[x].referenceReused = object[x].referenceReused
                            /\ x # o => object'[x].cleared = object[x].cleared
      /\ object'[o].cleared = (object[o].cleared \/ outcome.code = "successful")
  <2> DEFINE flag == object[o].cleared \/ outcome.code = "successful"
             changed == [object[o] EXCEPT !.life = life, !.cleared = flag]
  <2>1. object[o] \in JavaObjects /\ flag \in BOOLEAN
    BY <1>4 DEF JavaObjects
  <2>2. object' = [object EXCEPT ![o] = changed]
    BY <1>1, <1>4, <2>1 DEF JavaObjects
  <2> HIDE DEF flag
  <2>3. /\ changed \in JavaObjects /\ changed.life = life /\ changed.cleared = flag
        /\ changed.reference = object[o].reference /\ changed.class = object[o].class
        /\ changed.initialized = object[o].initialized
        /\ changed.referenceReused = object[o].referenceReused
    BY <2>1 DEF JavaObjects
  <2> HIDE DEF changed
  <2>4. /\ object' \in [Objects -> JavaObjects] /\ object'[o] = changed
        /\ \A x \in Objects : x # o => object'[x] = object[x]
    BY <1>4, <2>2, <2>3
  <2> QED
    BY <2>3, <2>4 DEF flag
<1>6. TypeOK' /\ NativesOK' /\ FilesOK'
  BY <1>1, <1>3, <1>5 DEF IInv, TypeOK, NativesOK, FilesOK, NativesGrow, Grown
<1>7. ViewsMarked'
  BY <1>5, ReferenceType DEF IInv, ViewsMarked
<1>8. FlagsAgree'
  <2> SUFFICES ASSUME NEW x \in Objects
               PROVE  /\ object'[x].initialized => native'[object[x].reference].index_initialized
                      /\ object'[x].cleared => native'[object[x].reference].index_cleared
    BY <1>5 DEF FlagsAgree, Native
  <2>1. /\ object[x].initialized => native[object[x].reference].index_initialized
        /\ object[x].cleared => native[object[x].reference].index_cleared
        /\ NativeOK(native[object[x].reference])
        /\ Grown(native[object[x].reference], native'[object[x].reference])
    BY <1>3, ReferenceType DEF IInv, FlagsAgree, Native, NativesGrow
  <2>2. CASE object'[x].cleared => object[x].cleared
    BY <1>5, <2>1, <2>2 DEF Grown
  <2>3. CASE x = o /\ outcome.code = "successful"
    BY <1>2, <1>3, <1>5, <2>1, <2>3 DEF Grown
  <2>4. CASE x = o /\ outcome.code # "successful"
    BY <1>5, <2>2, <2>4
  <2>5. CASE x # o
    BY <1>5, <2>2, <2>5
  <2> QED
    BY <2>3, <2>4, <2>5
<1>9. \A x \in Objects : x # object[o].reference => native'[x] = native[x]
  BY <1>1, <1>4, ReferenceType DEF Answers
<1> QED
  BY <1>3, <1>5, <1>6, <1>7, <1>8, <1>9 DEF IInv

------------------------------------------------------------------------------
(* The steps of Java alone. *)
LEMMA NativesSame ==
    ASSUME IInv, UNCHANGED native PROVE NativesGrow /\ StillProtected
BY GrownSame DEF IInv, TypeOK, NativesOK, NativesGrow, StillProtected

LEMMA NewKeeps ==
    ASSUME IInv, NEW o \in Objects, NEW class \in Classes, New(o, class)
    PROVE  IInv'
<1> DEFINE new == NewObject(o, class, "reachable")
<1>1. /\ object' = [object EXCEPT ![o] = new] /\ object[o].life = "none"
      /\ UNCHANGED <<native, idSet, file, crashed>>
      /\ object \in [Objects -> JavaObjects]
  BY DEF New, IInv, TypeOK
<1>2. /\ new \in JavaObjects /\ new.reference = o /\ ~new.initialized /\ ~new.cleared
  BY DEF NewObject, JavaObjects, Lives
<1> HIDE DEF new
<1>3. /\ object' \in [Objects -> JavaObjects] /\ object'[o] = new
      /\ \A x \in Objects : x # o => object'[x] = object[x]
  BY <1>1, <1>2
<1>4. TypeOK' /\ NativesOK' /\ FilesOK'
  BY <1>1, <1>3 DEF IInv, TypeOK, NativesOK, FilesOK
<1>5. FlagsAgree'
  BY <1>1, <1>2, <1>3 DEF IInv, FlagsAgree, Native
<1>6. ViewsMarked'
  <2>1. \A x \in Objects : object[x].reference # x => object[x].reference # o
    BY <1>1 DEF IInv, ViewsMarked
  <2> QED
    BY <1>2, <1>3, <2>1, ReferenceType DEF IInv, ViewsMarked
<1> QED
  BY <1>4, <1>5, <1>6 DEF IInv

LEMMA SynchronizedIndexKeeps ==
    ASSUME IInv, NEW o \in Objects, NEW s \in Objects, SynchronizedIndex(o, s)
    PROVE  IInv'
<1> DEFINE view == [NewObject(s, "ConcurrentIndex", "reachable") EXCEPT
                      !.reference = object[o].reference, !.ids = object[o].ids,
                      !.cleared = object[o].cleared, !.initialized = object[o].initialized]
<1>1. /\ object[o].life = "reachable" /\ object[s].life = "none" /\ o # s
      /\ object \in [Objects -> JavaObjects] /\ object[o] \in JavaObjects
      /\ UNCHANGED <<native, idSet, file, crashed>>
  BY DEF SynchronizedIndex, Callable, IInv, TypeOK
<1>2. /\ view \in JavaObjects /\ view.class = "ConcurrentIndex" /\ view.life = "reachable"
      /\ view.reference = object[o].reference
      /\ view.initialized = object[o].initialized /\ view.cleared = object[o].cleared
  BY <1>1 DEF NewObject, JavaObjects, Classes, Lives
<1>3. /\ Marked(object[o]) \in JavaObjects /\ Marked(object[o]).referenceReused
      /\ Marked(object[o]).class = object[o].class /\ Marked(object[o]).life = "reachable"
      /\ Marked(object[o]).reference = object[o].reference
      /\ Marked(object[o]).initialized = object[o].initialized
      /\ Marked(object[o]).cleared = object[o].cleared
  BY <1>1 DEF Marked, JavaObjects
<1>4. object' = [object EXCEPT ![o] = Marked(@), ![s] = view]
  BY DEF SynchronizedIndex
<1> HIDE DEF view
<1>5. /\ object' \in [Objects -> JavaObjects]
      /\ object'[o] = Marked(object[o]) /\ object'[s] = view
      /\ \A x \in Objects : x # o /\ x # s => object'[x] = object[x]
  BY <1>1, <1>2, <1>3, <1>4
<1>6. TypeOK' /\ NativesOK' /\ FilesOK'
  BY <1>1, <1>5 DEF IInv, TypeOK, NativesOK, FilesOK
<1>7. FlagsAgree'
  BY <1>1, <1>2, <1>3, <1>5 DEF IInv, FlagsAgree, Native
<1>8. ViewsMarked'
  <2> SUFFICES ASSUME NEW x \in Objects
               PROVE  /\ object'[x].class = "Index" => object'[x].reference = x
                      /\ object'[x].reference # x =>
                           /\ object'[object'[x].reference].referenceReused
                           /\ object'[object'[x].reference].life # "none"
    BY DEF ViewsMarked
  <2>1. \A z \in Objects :
           /\ object[z].reference \in Objects
           /\ object[z].class = "Index" => object[z].reference = z
           /\ object[z].reference # z =>
                /\ object[z].reference # s
                /\ object'[object[z].reference].referenceReused
                /\ object'[object[z].reference].life # "none"
    <3> TAKE z \in Objects
    <3>1. /\ object[z].reference \in Objects
          /\ object[z].class = "Index" => object[z].reference = z
          /\ object[z].reference # z =>
               /\ object[object[z].reference].referenceReused
               /\ object[object[z].reference].life # "none"
      BY ReferenceType DEF IInv, ViewsMarked
    <3>2. CASE object[z].reference = o
      BY <1>1, <1>3, <1>5, <3>1, <3>2
    <3>3. CASE object[z].reference # o
      BY <1>1, <1>5, <3>1, <3>3
    <3> QED
      BY <3>2, <3>3
  <2>2. CASE x = s
    <3>1. object'[x].class = "ConcurrentIndex" /\ object'[x].reference = object[o].reference
      BY <1>2, <1>5, <2>2
    <3>2. CASE object[o].reference = o
      BY <1>3, <1>5, <3>1, <3>2
    <3>3. CASE object[o].reference # o
      BY <2>1, <3>1, <3>3
    <3> QED
      BY <3>2, <3>3
  <2>3. CASE x = o
    BY <1>3, <1>5, <2>1, <2>3
  <2>4. CASE x # o /\ x # s
    BY <1>5, <2>1, <2>4
  <2> QED
    BY <2>2, <2>3, <2>4
<1> QED
  BY <1>6, <1>7, <1>8 DEF IInv

(* An object that is only dropped, or finalized without a call. *)
LEMMA LifeKeeps ==
    ASSUME IInv, NEW o \in Objects, NEW life \in Lives, life # "none",
           object' = [object EXCEPT ![o].life = life],
           UNCHANGED <<native, idSet, file, crashed>>
    PROVE  IInv'
<1>1. object \in [Objects -> JavaObjects]
  BY DEF IInv, TypeOK
<1>2. /\ object' \in [Objects -> JavaObjects]
      /\ \A x \in Objects : /\ object'[x].reference = object[x].reference
                            /\ object'[x].class = object[x].class
                            /\ object[x].life # "none" => object'[x].life # "none"
                            /\ object'[x].initialized = object[x].initialized
                            /\ object'[x].cleared = object[x].cleared
                            /\ object'[x].referenceReused = object[x].referenceReused
  BY <1>1 DEF JavaObjects
<1>3. TypeOK' /\ NativesOK' /\ FilesOK' /\ FlagsAgree'
  BY <1>2 DEF IInv, TypeOK, NativesOK, FilesOK, FlagsAgree, Native
<1>4. ViewsMarked'
  BY <1>2, ReferenceType DEF IInv, ViewsMarked
<1> QED
  BY <1>3, <1>4 DEF IInv

LEMMA FinalizeKeeps ==
    ASSUME IInv, NEW o \in Objects, Finalize(o)
    PROVE  /\ IInv' /\ NativesGrow /\ StillProtected
           /\ \A x \in Objects : object'[x].reference = object[x].reference
           /\ \A x \in Objects :
                x # object[o].reference \/ object[o].referenceReused => native'[x] = native[x]
<1>1. "finalized" \in Lives /\ "finalized" # "none"
  BY DEF Lives
<1>2. CASE object[o].cleared \/ object[o].referenceReused
  <2>1. /\ object' = [object EXCEPT ![o].life = "finalized"]
        /\ UNCHANGED <<native, idSet, file, crashed>>
    BY <1>2 DEF Finalize
  <2>2. \A x \in Objects : object'[x].reference = object[x].reference
    BY <2>1 DEF IInv, TypeOK, JavaObjects
  <2> QED
    BY <1>1, <2>1, <2>2, LifeKeeps, NativesSame
<1>3. CASE ~(object[o].cleared \/ object[o].referenceReused)
  BY <1>1, <1>3, ClearedKeeps DEF Finalize
<1> QED
  BY <1>2, <1>3

------------------------------------------------------------------------------
FailedLoad ==
    \E o \in Objects, p \in Paths, max \in Capacities :
        Load(o, p, max) /\ file[p].state # "complete"

LEMMA NextKeeps ==
    ASSUME IInv, Next
    PROVE  IInv' /\ NativesGrow /\ (StillProtected \/ FailedLoad)
<1>1. CASE \E o \in Objects, class \in Classes : New(o, class)
  BY <1>1, NewKeeps, NativesSame DEF New
<1>2. CASE \E o, s \in Objects : SynchronizedIndex(o, s)
  BY <1>2, SynchronizedIndexKeeps, NativesSame DEF SynchronizedIndex
<1>3. CASE \E o \in Objects, max \in Capacities : Initialize(o, max)
  BY <1>3, InitializeKeeps
<1>4. CASE \E o \in Objects :
             \/ SetEf(o) \/ GetLength(o) \/ KnnQuery(o, 1) \/ GetParameter(o)
             \/ \E id \in Labels : HasId(o, id) \/ GetData(o, id)
  BY <1>4, SetEfKeeps, GetLengthKeeps, KnnQueryKeeps, GetParameterKeeps, HasIdKeeps
<1>5. CASE \E o \in Objects, vector \in Vectors, id \in Labels \cup {NoId} :
             AddItem(o, id, vector)
  BY <1>5, AddItemKeeps
<1>6. CASE \E o \in Objects, vector \in Vectors, id \in Labels \cup {NoId} :
             AddItemSaveId(o, id, vector)
  BY <1>6, AddItemSaveIdKeeps
<1>7. CASE \E o \in Objects, id \in Labels : MarkDeleted(o, id)
  BY <1>7, MarkDeletedKeeps
<1>8. CASE \E o \in Objects, p \in Paths : Save(o, p)
  BY <1>8, SaveKeeps
<1>9. CASE \E o \in Objects, p \in Paths, max \in Capacities : Load(o, p, max)
  BY <1>9, LoadKeeps DEF FailedLoad
<1>10. CASE \E o \in Objects : Clear(o)
  <2>1. PICK o \in Objects : Cleared(o, "reachable")
    BY <1>10 DEF Clear, Callable
  <2> QED
    BY <2>1, ClearedKeeps DEF Lives
<1>11. CASE \E o \in Objects : Drop(o)
  BY <1>11, LifeKeeps, NativesSame DEF Drop, Lives
<1>12. CASE \E o \in Objects : Finalize(o)
  BY <1>12, FinalizeKeeps
<1> QED
  BY <1>1, <1>2, <1>3, <1>4, <1>5, <1>6, <1>7, <1>8, <1>9, <1>10, <1>11, <1>12 DEF Next

LEMMA StutterKeeps ==
    ASSUME IInv, UNCHANGED vars PROVE IInv' /\ NativesGrow /\ StillProtected
<1>1. UNCHANGED <<native, object, idSet, file, crashed>>
  BY DEF vars
<1>2. IInv'
  BY <1>1 DEF IInv, TypeOK, NativesOK, FilesOK, FlagsAgree, ViewsMarked, Native
<1> QED
  BY <1>1, <1>2, NativesSame

(* The invariant is inductive. *)
LEMMA Inductive == Spec => []IInv
<1>1. IInv /\ [Next]_vars => IInv'
  BY NextKeeps, StutterKeeps
<1> QED
  BY <1>1, InitIInv, PTL DEF Spec

(* The native indexes, the Java objects, the sets of ids and the files     *)
(* keep their types (Index.java, bindings.cpp).                            *)
THEOREM TypeCorrect == Spec => []TypeOK
<1>1. IInv => TypeOK
  BY DEF IInv
<1> QED
  BY <1>1, Inductive, PTL

(* What a Java object believes initialised or cleared is so in the native  *)
(* index it points to, however many views share it (Index.java:39-40).     *)
THEOREM FlagsCorrect == Spec => []FlagsAgree
<1>1. IInv => FlagsAgree
  BY DEF IInv
<1> QED
  BY <1>1, Inductive, PTL

(* No graph holds more elements than its memory has room for, whatever it  *)
(* was loaded from and into (hnswalg.h:649-652, bindings.cpp:114).         *)
THEOREM NeverOverfull == Spec => []CapacityRespected
<1>1. IInv => CapacityRespected
  BY DEF IInv, NativesOK, NativeOK, CapacityRespected
<1> QED
  BY <1>1, Inductive, PTL

(* A native index that was cleared never changes again (Index.java:255).   *)
THEOREM ClearedStays == Spec => ClearedForGood
<1> DEFINE Stays == \A o \in Objects : native[o].index_cleared => native'[o] = native[o]
<1>1. IInv /\ [Next]_vars => [Stays]_vars
  BY NextKeeps DEF NativesGrow, Grown
<1> QED
  BY <1>1, Inductive, PTL DEF Spec, ClearedForGood

(* Only a load that fails leaves an index that passes the tests of the     *)
(* binding without a graph (bindings.cpp:35-36 and 95-97).                 *)
THEOREM ChecksSuffice == Spec => ChecksProtect
<1> DEFINE Suffice ==
      \A o \in Objects :
         Unprotected(native'[o]) /\ ~Unprotected(native[o]) =>
             \E c \in Objects, p \in Paths, max \in Capacities :
                 Load(c, p, max) /\ file[p].state # "complete"
<1>1. IInv /\ [Next]_vars => [Suffice]_vars
  BY NextKeeps DEF StillProtected, StaysProtected, FailedLoad
<1> QED
  BY <1>1, Inductive, PTL DEF Spec, ChecksProtect

(* An id enters a set of ids only with its item, and NoId only with an     *)
(* automatic number, whatever the binding answers and whoever shares the   *)
(* set (Index.java:139-141).                                               *)
THEOREM IdsEnter == Spec => IdsEnterWithItems
<1> DEFINE Enter ==
      \A o \in Objects : \A id \in idSet'[o] \ idSet[o] :
         \E c \in Objects :
             object[c].ids = o /\ EntersWithItem(id, Native(c), Native(c)')
<1>1. ASSUME IInv, Next PROVE Enter
  <2>1. CASE \E c \in Objects, vector \in Vectors, id \in Labels \cup {NoId} :
               AddItemSaveId(c, id, vector)
    <3>1. PICK c \in Objects, vector \in Vectors, id \in Labels \cup {NoId} :
                 AddItemSaveId(c, id, vector)
      BY <2>1
    <3>2. \A x \in Objects : idSet'[x] \subseteq idSet[x] \cup
            IF x = object[c].ids /\ EntersWithItem(id, Native(c), Native(c)')
            THEN {id} ELSE {}
      BY <1>1, <3>1, AddItemSaveIdKeeps
    <3> QED
      BY <3>2
  <2>2. CASE \E c \in Objects, id \in Labels : MarkDeleted(c, id)
    BY <1>1, <2>2, MarkDeletedKeeps
  <2>3. CASE UNCHANGED idSet
    BY <2>3
  <2> QED
    BY <1>1, <2>1, <2>2, <2>3
       DEF Next, New, SynchronizedIndex, Initialize, SetEf, AddItem, GetLength, KnnQuery, HasId,
           GetData, GetParameter, Save, Load, Clear, Cleared, Drop, Finalize, JavaUnchanged
<1>2. IInv /\ [Next]_vars => [Enter]_vars
  BY <1>1
<1> QED
  BY <1>2, Inductive, PTL DEF Spec, IdsEnterWithItems

(* The finalizer of a plain Index leaves the native index of every view    *)
(* that is in use alone (Index.java:269 and 423).                          *)
THEOREM ViewsSurvive == Spec => SynchronizedSurvives
<1> DEFINE Survive ==
      \A o, s \in Objects :
         /\ object[o].class = "Index" /\ Finalize(o)
         /\ object[s].class = "ConcurrentIndex" /\ object[s].life = "reachable"
         => UNCHANGED Native(s)
<1>1. ASSUME IInv, NEW o \in Objects, NEW s \in Objects,
             object[o].class = "Index", Finalize(o), object[s].class = "ConcurrentIndex"
      PROVE  UNCHANGED Native(s)
  <2>1. /\ \A x \in Objects : object'[x].reference = object[x].reference
        /\ \A x \in Objects :
             x # object[o].reference \/ object[o].referenceReused => native'[x] = native[x]
    BY <1>1, FinalizeKeeps
  <2>2. object[o].reference = o /\ object[s].reference \in Objects
    BY <1>1, ReferenceType DEF IInv, ViewsMarked
  <2>3. CASE object[s].reference = o
    <3>1. s # o
      BY <1>1
    <3>2. object[o].referenceReused
      BY <1>1, <2>3, <3>1 DEF IInv, ViewsMarked
    <3> QED
      BY <2>1, <2>2, <3>2 DEF Native
  <2>4. CASE object[s].reference # o
    BY <2>1, <2>2, <2>4 DEF Native
  <2> QED
    BY <2>3, <2>4
<1>2. IInv /\ [Next]_vars => [Survive]_vars
  BY <1>1
<1> QED
  BY <1>2, Inductive, PTL DEF Spec, SynchronizedSurvives
=============================================================================
