------------------------- MODULE ConcurrentIndex_proofs -------------------------
(***************************************************************************)
(* Proofs about ConcurrentIndex, for any number of threads, any calls and  *)
(* any capacity: the calls of an object under its lock implement           *)
(* AtomicIndex.                                                            *)
(***************************************************************************)
EXTENDS ConcurrentIndex, SequenceTheorems, TLAPS

------------------------------------------------------------------------------
(* The inductive invariant.                                                *)

Functions == DOMAIN answer = Threads /\ DOMAIN header = Threads

(* What a call knows at each place. *)
CallOK(t) ==
    /\ pc[t] = "idle" => request[t] = NoRequest
    /\ pc[t] # "idle" => request[t] \in Requests
    /\ pc[t] \in {"idle", "waiting", "working"} => answer[t] = NoAnswer
    /\ pc[t] = "locked" => answer[t] = NoAnswer \/ answer[t].code = "undefined"
    /\ pc[t] \in {"unlock", "saveId"} => answer[t].code # "none"
    /\ pc[t] = "saveId" => request[t].method = "addItem"
    /\ pc[t] = "working" =>
          /\ Check(native, request[t].method) = "goOn"
          /\ request[t].method = "load" => native.appr_alg # "live"
          /\ request[t].method = "save" => header[t] = Header(native)

CallsOK == \A t \in Threads : CallOK(t)

(* Readers together, or one writer. *)
Exclusion ==
    /\ \A t \in readers : ~Writes(request[t].method)
    /\ \A t \in writers : Writes(request[t].method) /\ readers = {} /\ writers = {t}

IInv == TypeOK /\ Functions /\ CallsOK /\ Exclusion

------------------------------------------------------------------------------
(* The native index.                                                       *)

NativeOK(n) ==
    /\ n \in [appr_alg : {"null", "live", "released"}, items : {n.items},
              max_elements : Nat, index_initialized : BOOLEAN,
              index_cleared : BOOLEAN, incremental_id : Nat]
    /\ Items(n.items)

LEMMA MethodsType ==
    ASSUME NEW r \in Requests
    PROVE  r.method \in Methods /\ r # NoRequest
BY RequestsAssumption DEF Methods, NoRequest

LEMMA NoItemsType == Items(NoItems)
BY DEF Items, NoItems

LEMMA NewIndexType == \A n \in InitialIndexes : NativeOK(n)
<1> DEFINE m == [NewIndex EXCEPT !.appr_alg = "live", !.items = NoItems,
                                 !.max_elements = MaxElements, !.index_initialized = TRUE]
<1>1. init_new_index(NewIndex, MaxElements) = Result(m, {})
  BY DEF init_new_index, Unless, ClearedCheck, NewIndex
<1>2. NativeOK(m)
  BY NoItemsType, MaxElementsAssumption DEF NewIndex, NativeOK
<1> QED
  BY <1>1, <1>2 DEF InitialIndexes, Result

(* One item of an index gets another vector, or a mark. *)
LEMMA ItemChanged ==
    ASSUME NEW items, Items(items), NEW label \in DOMAIN items
    PROVE  /\ \A vector \in Vectors : Items([items EXCEPT ![label].vector = vector])
           /\ Items([items EXCEPT ![label].deleted = TRUE])
<1> DEFINE Item == [vector : Vectors, deleted : BOOLEAN]
<1>1. DOMAIN items \subseteq Nat /\ items \in [DOMAIN items -> Item]
  BY DEF Items
<1>2. items[label] \in Item
  BY <1>1
<1>3. ASSUME NEW item \in Item PROVE Items([items EXCEPT ![label] = item])
  BY <1>1 DEF Items
<1>4. ASSUME NEW vector \in Vectors PROVE [items[label] EXCEPT !.vector = vector] \in Item
  BY <1>2
<1>5. [items[label] EXCEPT !.deleted = TRUE] \in Item
  BY <1>2
<1> HIDE DEF Item
<1> QED
  BY <1>3, <1>4, <1>5

LEMMA AddPointType ==
    ASSUME NEW n, NativeOK(n), NEW label \in Nat, NEW vector \in Vectors
    PROVE  NativeOK(addPoint(n, label, vector).native)
           /\ addPoint(n, label, vector).code \in {"successful", "exceptionThrown"}
<1> DEFINE known == [n EXCEPT !.items[label].vector = vector]
           more == [l \in DOMAIN n.items \cup {label} |->
                      IF l = label THEN [vector |-> vector, deleted |-> FALSE]
                      ELSE n.items[l]]
           grown == [n EXCEPT !.items =
                       [l \in DOMAIN @ \cup {label} |->
                          IF l = label THEN [vector |-> vector, deleted |-> FALSE] ELSE @[l]]]
<1>1. CASE label \in DOMAIN n.items
  <2>1. addPoint(n, label, vector) = Result(known, {})
    BY <1>1 DEF addPoint
  <2>2. NativeOK(known)
    <3>1. known.items = [n.items EXCEPT ![label].vector = vector]
      BY DEF NativeOK
    <3>2. Items(known.items)
      BY <1>1, <3>1, ItemChanged DEF NativeOK
    <3> QED
      BY <3>2 DEF NativeOK
  <2> QED
    BY <2>1, <2>2 DEF Result
<1>2. CASE label \notin DOMAIN n.items /\ count(n) >= n.max_elements
  BY <1>2 DEF addPoint, Outcome
<1>3. CASE label \notin DOMAIN n.items /\ ~(count(n) >= n.max_elements)
  <2>1. addPoint(n, label, vector) = Result(grown, {})
    BY <1>3 DEF addPoint
  <2>2. NativeOK(grown)
    <3>1. grown.items = more
      BY DEF NativeOK
    <3>2. Items(more)
      BY DEF NativeOK, Items
    <3> QED
      BY <3>1, <3>2 DEF NativeOK
  <2> QED
    BY <2>1, <2>2 DEF Result
<1> QED
  BY <1>1, <1>2, <1>3

LEMMA AddedType ==
    ASSUME NEW n, NativeOK(n), NEW id \in Labels \cup {NoId}, NEW vector \in Vectors
    PROVE  NativeOK(Added(n, id, vector).native)
           /\ Added(n, id, vector).code \in {"successful", "exceptionThrown"}
<1> DEFINE m == [n EXCEPT !.incremental_id = @ + 1]
<1>1. NativeOK(m)
  BY DEF NativeOK
<1>2. n.incremental_id \in Nat
  BY DEF NativeOK
<1>3. id = NoId \/ id \in Nat
  BY LabelsAssumption
<1> HIDE DEF m
<1>4. CASE id = NoId
  BY <1>1, <1>2, <1>4, AddPointType DEF Added, m
<1>5. CASE id # NoId
  BY <1>3, <1>5, AddPointType DEF Added
<1> QED
  BY <1>4, <1>5

LEMMA MarkDeleteType ==
    ASSUME NEW n, NativeOK(n), NEW label
    PROVE  NativeOK(markDelete(n, label).native) /\ markDelete(n, label).code # "none"
<1> DEFINE marked == [n EXCEPT !.items[label].deleted = TRUE]
<1>1. CASE n.appr_alg = "live" /\ label \in DOMAIN n.items
  <2>1. markDelete(n, label) = Result(marked, {})
    BY <1>1 DEF markDelete, OnGraph
  <2>2. NativeOK(marked)
    <3>1. marked.items = [n.items EXCEPT ![label].deleted = TRUE]
      BY DEF NativeOK
    <3>2. Items(marked.items)
      BY <1>1, <3>1, ItemChanged DEF NativeOK
    <3> QED
      BY <3>2 DEF NativeOK
  <2> QED
    BY <2>1, <2>2 DEF Result
<1>2. CASE ~(n.appr_alg = "live" /\ label \in DOMAIN n.items)
  BY <1>2 DEF markDelete, OnGraph, Undefined, Outcome
<1> QED
  BY <1>1, <1>2

LEMMA DeallocatedType ==
    ASSUME NEW n, NativeOK(n)
    PROVE  /\ NativeOK(Deallocated(n)) /\ Deallocated(n).appr_alg # "live"
           /\ ClearedCheck(Deallocated(n)) = ClearedCheck(n)
           /\ n.appr_alg # "live" => Deallocated(n) = n
           /\ n.appr_alg = "live" => /\ Deallocated(n).appr_alg = "released"
                                     /\ [Deallocated(n) EXCEPT !.appr_alg = "live"] = n
BY DEF NativeOK, Deallocated, ClearedCheck

LEMMA LoadedType ==
    ASSUME NEW n, NativeOK(n), NEW r \in Requests, r.method = "load"
    PROVE  /\ NativeOK(Loaded(n, r.file, r.max).native)
           /\ Loaded(n, r.file, r.max).code \in {"successful", "exceptionThrown"}
<1> DEFINE capacity == Capacity(r.file, r.max)
           full == [n EXCEPT !.appr_alg = "live", !.items = r.file.items,
                             !.max_elements = capacity]
<1>1. Items(r.file.items) /\ capacity \in Nat
  BY RequestsAssumption DEF Capacity
<1> HIDE DEF capacity
<1>2. NativeOK(full)
  BY <1>1 DEF NativeOK
<1>3. Loaded(n, r.file, r.max) =
        IF r.file.state # "complete" THEN Outcome(n, "exceptionThrown") ELSE Result(full, {})
  BY DEF Loaded, capacity
<1> QED
  BY <1>2, <1>3 DEF Outcome, Result

LEMMA ReleasedType ==
    ASSUME NEW n, NativeOK(n)
    PROVE  NativeOK(Released(n).native) /\ Released(n).code \in {"successful", "undefined"}
<1>1. NativeOK([Deallocated(n) EXCEPT !.index_cleared = TRUE])
  BY DEF NativeOK, Deallocated
<1> QED
  BY <1>1 DEF Released, Undefined, Outcome, Result

(* The work of a call keeps the type of the index, and answers. *)
LEMMA WorkType ==
    ASSUME NEW n, NativeOK(n), NEW r \in Requests, NEW h,
           NEW outcome \in Work(n, r, h)
    PROVE  NativeOK(outcome.native) /\ outcome.code # "none"
<1> USE DEF Work
<1>0. r.method \in Methods
  BY MethodsType
<1>1. CASE r.method = "addItem"
  <2>1. outcome = OnGraph(n, Added(n, r.id, r.vector))
    BY <1>1
  <2>2. r.id \in Labels \cup {NoId} /\ r.vector \in Vectors
    BY <1>1, RequestsAssumption
  <2> QED
    BY <2>1, <2>2, AddedType DEF OnGraph, Undefined, Outcome
<1>2. CASE r.method = "markDeleted"
  BY <1>2, MarkDeleteType
<1>3. CASE r.method \in {"hasId", "getData"}
  BY <1>3 DEF DataOf, LookedUp, OnGraph, Undefined, Outcome, Result
<1>4. CASE r.method = "knnQuery"
  BY <1>4 DEF searchKnn, OnGraph, Undefined, Outcome, Result
<1>5. CASE r.method = "getLength"
  BY <1>5 DEF getIndexLength, OnGraph, Undefined, Outcome, Result
<1>6. CASE r.method \in {"setEf", "save"}
  BY <1>6 DEF OnGraph, Undefined, Outcome, Result
<1>7. CASE r.method = "load"
  BY <1>7, LoadedType
<1>8. CASE r.method = "clear"
  BY <1>8, ReleasedType
<1> QED
  BY <1>0, <1>1, <1>2, <1>3, <1>4, <1>5, <1>6, <1>7, <1>8 DEF Methods

(* What holds the read lock leaves the index as it is. *)
LEMMA ReadersOnlyRead ==
    ASSUME NEW n, NEW r \in Requests, ~Writes(r.method), NEW h,
           NEW outcome \in Work(n, r, h)
    PROVE  outcome.native = n
<1>0. r.method \in {"hasId", "getData", "knnQuery", "getLength", "save"}
  BY MethodsType DEF Methods, Writes
<1> USE DEF Work, OnGraph, Undefined, Outcome, Result
<1>1. CASE r.method \in {"hasId", "getData"}
  BY <1>1 DEF DataOf, LookedUp
<1>2. CASE r.method = "knnQuery"
  BY <1>2 DEF searchKnn
<1>3. CASE r.method \in {"getLength", "save"}
  BY <1>3 DEF getIndexLength
<1> QED
  BY <1>0, <1>1, <1>2, <1>3

------------------------------------------------------------------------------
(* The invariant holds of the first state, and every step keeps it.        *)

InCall == {"locked", "working", "unlock"}

LEMMA InitIInv == Init => IInv
<1> SUFFICES ASSUME Init PROVE IInv
  OBVIOUS
<1>1. NativeOK(native)
  BY NewIndexType DEF Init
<1>2. TypeOK
  BY <1>1 DEF Init, TypeOK, NativeOK, Places
<1>3. Functions /\ CallsOK /\ Exclusion
  BY DEF Init, Functions, CallsOK, CallOK, Exclusion
<1> QED
  BY <1>2, <1>3 DEF IInv

LEMMA AskKeeps == ASSUME IInv, NEW t \in Threads, Ask(t) PROVE IInv'
<1>0. PICK r \in Requests : request' = [request EXCEPT ![t] = r]
  BY DEF Ask
<1>1. /\ pc[t] = "idle" /\ pc'[t] = "waiting" /\ request'[t] = r
      /\ pc' \in [Threads -> Places] /\ request' \in [Threads -> Requests \cup {NoRequest}]
      /\ \A u \in Threads \ {t} : pc'[u] = pc[u] /\ request'[u] = request[u]
  BY <1>0 DEF IInv, TypeOK, Ask, At, Goto, Places
<1>2. /\ queue' \in Seq(Threads) /\ Len(queue') = Len(queue) + 1 /\ Len(queue) \in Nat
      /\ queue'[Len(queue) + 1] = t
      /\ \A i \in 1 .. Len(queue) : queue'[i] = queue[i]
      /\ DOMAIN queue = 1 .. Len(queue) /\ DOMAIN queue' = 1 .. Len(queue')
  BY AppendProperties, LenProperties DEF IInv, TypeOK, Ask
<1>3. \A i \in 1 .. Len(queue) : queue[i] \in Threads /\ pc[queue[i]] = "waiting"
  BY <1>2 DEF IInv, TypeOK
<1>4. \A i \in 1 .. Len(queue) : queue[i] # t
  BY <1>1, <1>3
<1>5. {queue'[i] : i \in DOMAIN queue'} = {u \in Threads : pc'[u] = "waiting"}
  <2>1. {queue'[i] : i \in DOMAIN queue'} = {queue[i] : i \in DOMAIN queue} \cup {t}
    BY <1>2
  <2> QED
    BY <2>1, <1>1 DEF IInv, TypeOK
<1>6. \A i, j \in DOMAIN queue' : queue'[i] = queue'[j] => i = j
  BY <1>2, <1>4 DEF IInv, TypeOK
<1>7. {u \in Threads : pc'[u] \in InCall} = {u \in Threads : pc[u] \in InCall}
  BY <1>1 DEF InCall
<1>8. TypeOK'
  BY <1>1, <1>2, <1>5, <1>6, <1>7 DEF IInv, TypeOK, Ask, InCall
<1>9. CallsOK'
  BY <1>1 DEF IInv, CallsOK, CallOK, Ask
<1>10. Functions' /\ Exclusion'
  BY <1>1 DEF IInv, TypeOK, Functions, Exclusion, Ask
<1> QED
  BY <1>8, <1>9, <1>10 DEF IInv

LEMMA AcquireKeeps == ASSUME IInv, NEW t \in Threads, Acquire(t) PROVE IInv'
<1>1. /\ pc[t] = "waiting" /\ pc'[t] = "locked" /\ request[t] \in Requests
      /\ pc' \in [Threads -> Places]
      /\ \A u \in Threads \ {t} : pc'[u] = pc[u]
      /\ writers = {} /\ queue # <<>> /\ Head(queue) = t /\ queue' = Tail(queue)
  BY DEF IInv, TypeOK, CallsOK, CallOK, Acquire, At, Goto, Places, First
<1>2. /\ queue' \in Seq(Threads) /\ Len(queue') = Len(queue) - 1 /\ Len(queue) \in Nat \ {0}
      /\ queue[1] = t
      /\ \A i \in 1 .. Len(queue') : queue'[i] = queue[i + 1]
      /\ DOMAIN queue = 1 .. Len(queue) /\ DOMAIN queue' = 1 .. Len(queue')
  BY <1>1, HeadTailProperties, LenProperties, EmptySeq DEF IInv, TypeOK
<1>3. {queue'[i] : i \in DOMAIN queue'} = {u \in Threads : pc'[u] = "waiting"}
  <2>1. {queue'[i] : i \in DOMAIN queue'} = {queue[i] : i \in DOMAIN queue} \ {t}
    <3>1. ASSUME NEW i \in DOMAIN queue' PROVE queue'[i] = queue[i + 1] /\ i + 1 # 1
                                               /\ i + 1 \in DOMAIN queue /\ queue[i + 1] # t
      BY <1>2 DEF IInv, TypeOK
    <3>2. ASSUME NEW i \in DOMAIN queue, queue[i] # t
          PROVE  i - 1 \in DOMAIN queue' /\ queue'[i - 1] = queue[i]
      <4>1. i \in 1 .. Len(queue) /\ i # 1
        BY <1>2, <3>2
      <4>2. i - 1 \in 1 .. Len(queue') /\ (i - 1) + 1 = i
        BY <1>2, <4>1
      <4> QED
        BY <1>2, <4>2
    <3> QED
      BY <3>1, <3>2
  <2> QED
    BY <2>1, <1>1 DEF IInv, TypeOK
<1>4. \A i, j \in DOMAIN queue' : queue'[i] = queue'[j] => i = j
  <2> SUFFICES ASSUME NEW i \in DOMAIN queue', NEW j \in DOMAIN queue', queue'[i] = queue'[j]
               PROVE  i = j
    OBVIOUS
  <2>1. queue[i + 1] = queue[j + 1] /\ i + 1 \in DOMAIN queue /\ j + 1 \in DOMAIN queue
    BY <1>2
  <2>2. i + 1 = j + 1
    BY <2>1 DEF IInv, TypeOK
  <2> QED
    BY <2>2, <1>2
<1>5. readers' \cup writers' = {u \in Threads : pc'[u] \in InCall}
  BY <1>1 DEF IInv, TypeOK, Acquire, InCall
<1>6. TypeOK'
  BY <1>1, <1>2, <1>3, <1>4, <1>5 DEF IInv, TypeOK, Acquire, InCall
<1>7. CallsOK'
  BY <1>1 DEF IInv, CallsOK, CallOK, Acquire
<1>8. Functions' /\ Exclusion'
  BY <1>1 DEF IInv, Functions, Exclusion, Acquire
<1> QED
  BY <1>6, <1>7, <1>8 DEF IInv

(* A call that holds the lock goes on, and keeps it. *)
LEMMA Onward ==
    ASSUME IInv, NEW t \in Threads, NEW place \in InCall, pc[t] \in InCall,
           pc' = [pc EXCEPT ![t] = place], NativeOK(native'),
           \A u \in Threads \ {t} : answer'[u] = answer[u] /\ header'[u] = header[u],
           native' # native => t \in writers,
           DOMAIN answer' = Threads, DOMAIN header' = Threads,
           CallOK(t)', UNCHANGED <<idSet, request, locks>>
    PROVE  IInv'
<1>1. /\ pc'[t] = place /\ pc' \in [Threads -> Places]
      /\ \A u \in Threads \ {t} : pc'[u] = pc[u]
  BY DEF IInv, TypeOK, InCall, Places
<1>2. TypeOK'
  <2>1. {u \in Threads : pc'[u] \in InCall} = {u \in Threads : pc[u] \in InCall}
    BY <1>1
  <2>2. {u \in Threads : pc'[u] = "waiting"} = {u \in Threads : pc[u] = "waiting"}
    BY <1>1 DEF InCall
  <2> QED
    BY <1>1, <2>1, <2>2 DEF IInv, TypeOK, NativeOK, locks, InCall
<1>3. ASSUME NEW u \in Threads PROVE CallOK(u)'
  <2>1. CASE u = t
    BY <2>1
  <2>2. CASE u # t /\ native' = native
    BY <2>2, <1>1 DEF IInv, CallsOK, CallOK
  <2>3. CASE u # t /\ t \in writers
    <3>1. pc[u] \notin InCall
      BY <2>3 DEF IInv, TypeOK, Exclusion, InCall
    <3> QED
      BY <2>3, <3>1, <1>1 DEF IInv, CallsOK, CallOK, InCall
  <2> QED
    BY <2>1, <2>2, <2>3
<1>4. Exclusion' /\ Functions'
  BY DEF IInv, Exclusion, Functions, locks
<1> QED
  BY <1>2, <1>3, <1>4 DEF IInv, CallsOK

(* Writers are alone. *)
LEMMA HolderWrites ==
    ASSUME IInv, NEW t \in Threads, pc[t] \in InCall
    PROVE  /\ request[t] \in Requests /\ request[t].method \in Methods
           /\ Writes(request[t].method) => t \in writers
           /\ t \in writers => \A u \in Threads : pc[u] \in InCall => u = t
BY MethodsType DEF IInv, TypeOK, CallsOK, CallOK, Exclusion, InCall

LEMMA Answered ==
    ASSUME IInv, NEW t \in Threads, NEW outcome, Answer(t, outcome)
    PROVE  /\ answer'[t] = [code |-> outcome.code, value |-> outcome.value]
           /\ answer'[t].code = outcome.code
           /\ DOMAIN answer' = Threads
           /\ \A u \in Threads \ {t} : answer'[u] = answer[u]
           /\ native' = outcome.native
BY DEF IInv, Functions, Answer

LEMMA RefuseKeeps == ASSUME IInv, NEW t \in Threads, Refuse(t) PROVE IInv'
<1> DEFINE code == Check(native, request[t].method)
           outcome == Outcome(native, code)
<1>1. /\ pc[t] = "locked" /\ pc[t] \in InCall /\ Answer(t, outcome)
      /\ pc' = [pc EXCEPT ![t] = "unlock"] /\ pc'[t] = "unlock"
      /\ UNCHANGED <<idSet, request, header, locks>>
  BY DEF Refuse, At, Goto, InCall, IInv, TypeOK
<1>2. outcome.native = native /\ outcome.code = code
  BY DEF Outcome
<1>3. code # "none"
  BY DEF Check, ClearedCheck, AddItemCheck, InitializedCheck
<1> HIDE DEF outcome, code
<1>4. CallOK(t)'
  BY <1>1, <1>2, <1>3, Answered, HolderWrites DEF CallOK
<1>5. NativeOK(native) /\ Functions
  BY DEF IInv, TypeOK, NativeOK
<1> QED
  BY <1>1, <1>2, <1>4, <1>5, Answered, Onward DEF InCall, Functions

LEMMA EnterKeeps == ASSUME IInv, NEW t \in Threads, Enter(t) PROVE IInv'
<1>1. /\ pc[t] = "locked" /\ pc[t] \in InCall
      /\ pc' = [pc EXCEPT ![t] = "working"] /\ pc'[t] = "working"
      /\ UNCHANGED <<idSet, request, answer, locks>>
      /\ request[t] \in Requests
      /\ Check(native, request[t].method) = "goOn"
      /\ native' = IF request[t].method = "load" THEN Deallocated(native) ELSE native
      /\ header' = [header EXCEPT ![t] =
                      IF request[t].method = "save" THEN Header(native) ELSE NoHeader]
  BY HolderWrites DEF Enter, At, Goto, InCall, IInv, TypeOK
<1>2. answer[t] = NoAnswer
  BY DEF Enter, At, Running, IInv, CallsOK, CallOK
<1>3. NativeOK(native) /\ DOMAIN header = Threads /\ DOMAIN answer = Threads
  BY DEF IInv, TypeOK, NativeOK, Functions
<1>4. NativeOK(native') /\ (native' # native => t \in writers)
  BY <1>1, <1>3, DeallocatedType, HolderWrites DEF Writes
<1>5. CallOK(t)'
  <2>1. Check(native', request[t].method) = "goOn"
    BY <1>1, <1>3, DeallocatedType DEF Check
  <2>2. request[t].method = "load" => native'.appr_alg # "live"
    BY <1>1, <1>3, DeallocatedType
  <2>3. request[t].method = "save" => header'[t] = Header(native')
    BY <1>1, <1>3
  <2> QED
    BY <1>1, <1>2, <2>1, <2>2, <2>3 DEF CallOK
<1> QED
  BY <1>1, <1>3, <1>4, <1>5, Onward DEF InCall

LEMMA DeleteTwiceKeeps == ASSUME IInv, NEW t \in Threads, DeleteTwice(t) PROVE IInv'
<1>1. /\ pc[t] = "locked" /\ pc[t] \in InCall /\ Answer(t, Undefined(native))
      /\ UNCHANGED <<idSet, pc, request, header, locks>> /\ request[t] \in Requests
  BY HolderWrites DEF DeleteTwice, At, InCall
<1>2. pc' = [pc EXCEPT ![t] = "locked"]
  BY <1>1 DEF IInv, TypeOK
<1> DEFINE outcome == Undefined(native)
<1>o. outcome.code = "undefined" /\ outcome.native = native
  BY DEF Undefined, Outcome
<1> HIDE DEF outcome
<1>a. Answer(t, outcome)
  BY <1>1 DEF outcome
<1>3. answer'[t].code = "undefined" /\ native' = native
  BY <1>a, <1>o, Answered
<1>4. CallOK(t)'
  BY <1>1, <1>3 DEF CallOK
<1>5. NativeOK(native) /\ Functions
  BY DEF IInv, TypeOK, NativeOK
<1> QED
  BY <1>1, <1>2, <1>3, <1>a, <1>4, <1>5, Answered, Onward DEF InCall, Functions

LEMMA PerformKeeps == ASSUME IInv, NEW t \in Threads, Perform(t) PROVE IInv'
<1>1. /\ pc[t] = "working" /\ pc[t] \in InCall
      /\ pc' = [pc EXCEPT ![t] = "unlock"] /\ pc'[t] = "unlock"
      /\ UNCHANGED <<idSet, request, header, locks>> /\ request[t] \in Requests
  BY HolderWrites DEF Perform, At, Goto, InCall, IInv, TypeOK
<1>2. PICK outcome \in Work(native, request[t], header[t]) : Answer(t, outcome)
  BY DEF Perform
<1>3. NativeOK(native) /\ Functions
  BY DEF IInv, TypeOK, NativeOK
<1>4. NativeOK(outcome.native) /\ outcome.code # "none"
  BY <1>1, <1>3, WorkType
<1>5. native' # native => t \in writers
  <2>1. native' = outcome.native
    BY <1>2, Answered
  <2>2. ~Writes(request[t].method) => outcome.native = native
    BY <1>1, ReadersOnlyRead
  <2> QED
    BY <1>1, <2>1, <2>2, HolderWrites
<1>6. CallOK(t)'
  BY <1>1, <1>2, <1>4, Answered DEF CallOK
<1> QED
  BY <1>1, <1>2, <1>3, <1>4, <1>5, <1>6, Answered, Onward DEF InCall, Functions

LEMMA ReturnKeeps ==
    ASSUME IInv, NEW t \in Threads, pc[t] \in {"unlock", "saveId"},
           pc'[t] \in {"idle", "saveId"}, pc' \in [Threads -> Places],
           \A u \in Threads \ {t} : /\ pc'[u] = pc[u] /\ request'[u] = request[u]
                                    /\ answer'[u] = answer[u] /\ header'[u] = header[u],
           request' \in [Threads -> Requests \cup {NoRequest}],
           Functions', CallOK(t)', ReleaseLock(t), UNCHANGED <<native, queue>>,
           idSet' \subseteq Labels \cup {NoId}
    PROVE  IInv'
<1>1. readers' \cup writers' = {u \in Threads : pc'[u] \in InCall}
  BY DEF IInv, TypeOK, ReleaseLock, InCall
<1>2. {u \in Threads : pc'[u] = "waiting"} = {u \in Threads : pc[u] = "waiting"}
  OBVIOUS
<1>3. TypeOK'
  BY <1>1, <1>2 DEF IInv, TypeOK, InCall
<1>4. CallsOK'
  BY DEF IInv, CallsOK, CallOK
<1>5. Exclusion'
  <2>1. t \notin readers' /\ t \notin writers' /\ readers' \subseteq readers
        /\ writers' \subseteq writers /\ readers' \cup writers' \subseteq Threads
    BY <1>1 DEF ReleaseLock
  <2> QED
    BY <2>1 DEF IInv, Exclusion, ReleaseLock
<1> QED
  BY <1>3, <1>4, <1>5 DEF IInv

LEMMA Forgotten ==
    ASSUME IInv, NEW t \in Threads, Forget(t)
    PROVE  /\ pc'[t] = "idle" /\ pc' \in [Threads -> Places]
           /\ request' \in [Threads -> Requests \cup {NoRequest}]
           /\ request'[t] = NoRequest /\ answer'[t] = NoAnswer
           /\ Functions' /\ CallOK(t)'
           /\ \A u \in Threads \ {t} : /\ pc'[u] = pc[u] /\ request'[u] = request[u]
                                       /\ answer'[u] = answer[u] /\ header'[u] = header[u]
<1>1. pc' = [pc EXCEPT ![t] = "idle"]
  BY DEF Forget, Goto
<1> QED
  BY <1>1 DEF IInv, TypeOK, Functions, Forget, Places, CallOK

LEMMA SavedIdType ==
    ASSUME IInv, NEW t \in Threads, pc[t] # "idle", request[t].method = "addItem"
    PROVE  request[t].id \in Labels \cup {NoId}
BY RequestsAssumption DEF IInv, CallsOK, CallOK

LEMMA UnlockKeeps == ASSUME IInv, NEW t \in Threads, Unlock(t) PROVE IInv'
<1>1. /\ pc[t] = "unlock" /\ ReleaseLock(t) /\ UNCHANGED <<native, queue>>
      /\ idSet' \subseteq Labels \cup {NoId}
  BY DEF IInv, TypeOK, Unlock, At
<1>2. CASE SavesId(t) /\ Goto(t, "saveId") /\ UNCHANGED <<request, answer, header>>
  <2>1. /\ pc'[t] = "saveId" /\ pc' \in [Threads -> Places]
        /\ \A u \in Threads \ {t} : pc'[u] = pc[u]
    BY <1>2 DEF IInv, TypeOK, Goto, Places
  <2>2. CallOK(t)'
    BY <1>1, <1>2, <2>1 DEF IInv, CallsOK, CallOK, SavesId, Succeeded
  <2>3. Functions' /\ request' \in [Threads -> Requests \cup {NoRequest}]
    BY <1>2 DEF IInv, TypeOK, Functions
  <2> QED
    BY <1>1, <1>2, <2>1, <2>2, <2>3, ReturnKeeps
<1>3. CASE Forget(t)
  BY <1>1, <1>3, Forgotten, ReturnKeeps
<1> QED
  BY <1>2, <1>3 DEF Unlock

LEMMA SaveIdKeeps == ASSUME IInv, NEW t \in Threads, SaveId(t) PROVE IInv'
<1>1. /\ pc[t] = "saveId" /\ Forget(t) /\ UNCHANGED <<native, locks>>
      /\ request[t].method = "addItem"
  BY DEF SaveId, At, IInv, CallsOK, CallOK
<1>2. idSet' \subseteq Labels \cup {NoId}
  BY <1>1, SavedIdType DEF IInv, TypeOK, SaveId
<1>3. ReleaseLock(t)
  <2>1. t \notin readers \cup writers
    BY <1>1 DEF IInv, TypeOK
  <2> QED
    BY <1>1, <2>1 DEF ReleaseLock, locks
<1> QED
  BY <1>1, <1>2, <1>3, Forgotten, ReturnKeeps DEF locks

LEMMA NextKeeps == ASSUME IInv, [Next]_vars PROVE IInv'
<1>1. CASE UNCHANGED vars
  BY <1>1 DEF vars, IInv, TypeOK, Functions, CallsOK, CallOK, Exclusion
<1>2. ASSUME NEW t \in Threads, Ask(t) \/ Step(t) PROVE IInv'
  BY <1>2, AskKeeps, AcquireKeeps, RefuseKeeps, EnterKeeps, DeleteTwiceKeeps, PerformKeeps,
     UnlockKeeps, SaveIdKeeps DEF Step
<1> QED
  BY <1>1, <1>2 DEF Next

LEMMA Inductive == Spec => []IInv
<1> QED
  BY InitIInv, NextKeeps, PTL DEF Spec

(* The index keeps its type, the lock is held by the calls between Acquire *)
(* and Unlock and by no other, and every call that waits is in the queue   *)
(* once, whatever the calls of the other threads and their exceptions.     *)
THEOREM TypeCorrect == Spec => []TypeOK
<1>1. IInv => TypeOK
  BY DEF IInv
<1> QED
  BY <1>1, Inductive, PTL

------------------------------------------------------------------------------
(* The refinement.                                                         *)

LEMMA SameCount == ASSUME NEW n PROVE Abstract!count(n) = count(n)
BY DEF Abstract!count, count, Abstract!Cardinality, Cardinality

(* The operators of the binding do not depend on who instantiates them.    *)
LEMMA SameChecks ==
    ASSUME NEW n, NEW method
    PROVE  /\ Abstract!ClearedCheck(n) = ClearedCheck(n)
           /\ Abstract!InitializedCheck(n) = InitializedCheck(n)
           /\ Abstract!AddItemCheck(n) = AddItemCheck(n)
BY SameCount
   DEF Abstract!ClearedCheck, ClearedCheck, Abstract!InitializedCheck, InitializedCheck,
       Abstract!AddItemCheck, AddItemCheck, Abstract!IsFull, IsFull

LEMMA SameAnswers ==
    ASSUME NEW n, NEW code, NEW value, NEW check, NEW outcome
    PROVE  /\ Abstract!Outcome(n, code) = Outcome(n, code)
           /\ Abstract!Result(n, value) = Result(n, value)
           /\ Abstract!Undefined(n) = Undefined(n)
           /\ Abstract!OnGraph(n, outcome) = OnGraph(n, outcome)
           /\ Abstract!Unless(check, n, outcome) = Unless(check, n, outcome)
BY DEF Abstract!Outcome, Outcome, Abstract!Result, Result, Abstract!Undefined, Undefined,
       Abstract!OnGraph, OnGraph, Abstract!Unless, Unless

LEMMA SameAdded ==
    ASSUME NEW n, NEW id, NEW vector
    PROVE  Abstract!Added(n, id, vector) = Added(n, id, vector)
BY SameCount
   DEF Abstract!Added, Added, Abstract!addPoint, addPoint, Abstract!NoId, NoId,
       Abstract!Result, Result, Abstract!Outcome, Outcome

LEMMA SameFiles ==
    ASSUME NEW n, NEW saved, NEW max
    PROVE  /\ Abstract!Saved(n) = FileOf(Header(n), n.items)
           /\ Abstract!Deallocated(n) = Deallocated(n)
           /\ Abstract!Loaded(n, saved, max) = Loaded(n, saved, max)
           /\ Abstract!Released(n) = Released(n)
BY SameCount, SameAnswers
   DEF Abstract!Saved, Abstract!FileOf, FileOf, Abstract!Header, Header,
       Abstract!Deallocated, Deallocated, Abstract!Loaded, Loaded, Abstract!Capacity, Capacity,
       Abstract!Released, Released

LEMMA SameLookups ==
    ASSUME NEW n, NEW id, NEW value, NEW k
    PROVE  /\ Abstract!LookedUp(n, id, value) = LookedUp(n, id, value)
           /\ Abstract!DataOf(n, id) = DataOf(n, id)
           /\ Abstract!markDelete(n, id) = markDelete(n, id)
           /\ Abstract!searchKnn(n, k) = searchKnn(n, k)
<1>1. Abstract!Visible(n) = Visible(n)
  BY DEF Abstract!Visible, Visible
<1>2. \A v : Abstract!LookedUp(n, id, v) = LookedUp(n, id, v)
  BY <1>1, SameAnswers DEF Abstract!LookedUp, LookedUp
<1>3. Abstract!DataOf(n, id) = DataOf(n, id)
  BY <1>2 DEF Abstract!DataOf, DataOf
<1>4. Abstract!markDelete(n, id) = markDelete(n, id)
  BY SameAnswers DEF Abstract!markDelete, markDelete
<1>5. Abstract!searchKnn(n, k) = searchKnn(n, k)
  BY <1>1 DEF Abstract!searchKnn, searchKnn, Abstract!Cardinality, Cardinality,
              Abstract!OnGraph, OnGraph, Abstract!Outcome, Outcome, Abstract!Result, Result,
              Abstract!Undefined, Undefined
<1> QED
  BY <1>2, <1>3, <1>4, <1>5

(* What the abstract call does, in the terms of the two halves of a call.  *)
LEMMA OutcomesInHalves ==
    ASSUME NEW n, NEW r \in Requests
    PROVE  Abstract!Outcomes(n, r) =
             IF Check(n, r.method) # "goOn" THEN {Outcome(n, Check(n, r.method))}
             ELSE IF r.method # "load" THEN Work(n, r, Header(n))
             ELSE IF n.appr_alg = "released" THEN {Undefined(n)}
             ELSE {Loaded(Deallocated(n), r.file, r.max)}
<1>0. r.method \in Methods
  BY MethodsType
<1> USE SameAnswers, SameChecks DEF Abstract!Outcomes, Work, Check
<1>1. CASE r.method = "addItem"
  BY <1>1, SameAdded DEF Abstract!add_item, Unless
<1>2. CASE r.method = "markDeleted"
  BY <1>2, SameLookups DEF Abstract!mark_deleted, Unless
<1>3. CASE r.method = "hasId"
  BY <1>3, SameLookups DEF Abstract!hasId, Unless
<1>4. CASE r.method = "getData"
  BY <1>4, SameLookups DEF Abstract!getDataById, Unless
<1>5. CASE r.method = "knnQuery"
  <2>1. Abstract!Outcomes(n, r) =
          {Unless(InitializedCheck(n), n, outcome) : outcome \in searchKnn(n, r.k)}
    BY <1>5, SameLookups DEF Abstract!knn_query
  <2>2. searchKnn(n, r.k) # {}
    BY DEF searchKnn
  <2> QED
    BY <1>5, <2>1, <2>2 DEF Unless
<1>6. CASE r.method = "getLength"
  BY <1>6, SameCount DEF Abstract!getIndexLength, getIndexLength
<1>7. CASE r.method = "setEf"
  BY <1>7 DEF Abstract!set_ef, Unless
<1>8. CASE r.method = "save"
  BY <1>8, SameFiles DEF Abstract!save_index, Unless
<1>9. CASE r.method = "load"
  BY <1>9, SameFiles DEF Abstract!load_index, Unless
<1>10. CASE r.method = "clear"
  BY <1>10, SameFiles DEF Abstract!clear_index, Unless
<1> QED
  BY <1>0, <1>1, <1>2, <1>3, <1>4, <1>5, <1>6, <1>7, <1>8, <1>9, <1>10 DEF Methods

(* The abstract index differs from the native one only while a load works. *)
Loading(t) == pc[t] = "working" /\ request[t].method = "load"

LEMMA SettledNative ==
    /\ (\A t \in Threads : ~Loading(t)) => Settled = native
    /\ (\A t \in Threads : ~Loading(t)') => Settled' = native'
BY DEF Settled, Loading

LEMMA SettledSame ==
    ASSUME native' = native, \A t \in Threads : Loading(t)' <=> Loading(t)
    PROVE  Settled' = Settled
BY DEF Settled, Loading

LEMMA NobodyElseLoads ==
    ASSUME IInv, NEW t \in Threads, pc[t] \in InCall
    PROVE  \A u \in Threads \ {t} : ~Loading(u)
BY HolderWrites DEF Loading, InCall, Writes

------------------------------------------------------------------------------
(* Each step is a step of AtomicIndex, or none.                            *)
abstractVars == <<Settled, request, answer>>

LEMMA InitRefines == Init => Abstract!AInit
<1> SUFFICES ASSUME Init PROVE Abstract!AInit
  OBVIOUS
<1>1. Settled = native
  BY SettledNative DEF Init, Loading
<1> QED
  BY <1>1 DEF Init, Abstract!AInit, NoRequest, NoAnswer, Abstract!NoRequest, Abstract!NoAnswer

LEMMA AskRefines == ASSUME IInv, NEW t \in Threads, Ask(t) PROVE Abstract!AAsk(t)
<1>1. /\ pc[t] = "idle" /\ request[t] = NoRequest /\ native' = native /\ answer' = answer
      /\ pc' = [pc EXCEPT ![t] = "waiting"]
      /\ \E r \in Requests : request' = [request EXCEPT ![t] = r]
  BY DEF IInv, CallsOK, CallOK, Ask, At, Goto
<1>2. \A u \in Threads : Loading(u)' <=> Loading(u)
  BY <1>1 DEF IInv, TypeOK, Loading
<1>3. Settled' = Settled
  BY <1>1, <1>2, SettledSame
<1> QED
  BY <1>1, <1>3 DEF Abstract!AAsk, NoRequest, Abstract!NoRequest

LEMMA AcquireRefines == ASSUME IInv, NEW t \in Threads, Acquire(t) PROVE UNCHANGED abstractVars
<1>1. /\ pc[t] = "waiting" /\ UNCHANGED <<native, request, answer>>
      /\ pc' = [pc EXCEPT ![t] = "locked"]
  BY DEF Acquire, At, Goto
<1>2. \A u \in Threads : Loading(u)' <=> Loading(u)
  BY <1>1 DEF IInv, TypeOK, Loading
<1> QED
  BY <1>1, <1>2, SettledSame DEF abstractVars

(* A call that is answered from a settled index. *)
LEMMA AnswerRefines ==
    ASSUME IInv, NEW t \in Threads, pc[t] \in InCall, answer[t] = NoAnswer,
           NEW outcome \in Abstract!Outcomes(Settled, request[t]), Answer(t, outcome),
           ~Loading(t)', \A u \in Threads \ {t} : pc'[u] = pc[u], UNCHANGED request
    PROVE  Abstract!APerform(t)
<1>1. \A u \in Threads : ~Loading(u)'
  BY NobodyElseLoads DEF Loading
<1>2. Settled' = outcome.native
  BY <1>1, SettledNative DEF Answer
<1>3. answer' = [answer EXCEPT ![t] = [code |-> outcome.code, value |-> outcome.value]]
  BY DEF Answer
<1>4. request[t] # NoRequest
  BY HolderWrites, MethodsType
<1> QED
  BY <1>2, <1>3, <1>4
  DEF Abstract!APerform, NoRequest, Abstract!NoRequest, NoAnswer, Abstract!NoAnswer

LEMMA RefuseRefines == ASSUME IInv, NEW t \in Threads, Refuse(t) PROVE Abstract!APerform(t)
<1> DEFINE outcome == Outcome(native, Check(native, request[t].method))
<1>1. /\ pc[t] = "locked" /\ pc[t] \in InCall /\ pc' = [pc EXCEPT ![t] = "unlock"]
      /\ Check(native, request[t].method) # "goOn" /\ request[t] \in Requests
      /\ Answer(t, outcome) /\ UNCHANGED request
  BY HolderWrites DEF Refuse, At, Goto, InCall
<1>2. answer[t] = NoAnswer
  BY DEF Refuse, At, Running, IInv, CallsOK, CallOK
<1>3. Settled = native
  BY <1>1, NobodyElseLoads, SettledNative DEF Loading
<1>4. outcome \in Abstract!Outcomes(Settled, request[t])
  BY <1>1, <1>3, OutcomesInHalves
<1>5. ~Loading(t)' /\ \A u \in Threads \ {t} : pc'[u] = pc[u]
  BY <1>1 DEF IInv, TypeOK, Loading
<1> HIDE DEF outcome
<1> QED
  BY <1>1, <1>2, <1>4, <1>5, AnswerRefines

LEMMA EnterRefines == ASSUME IInv, NEW t \in Threads, Enter(t) PROVE UNCHANGED abstractVars
<1>1. /\ pc[t] = "locked" /\ pc[t] \in InCall /\ pc' = [pc EXCEPT ![t] = "working"]
      /\ UNCHANGED <<request, answer>> /\ NativeOK(native)
      /\ ~(request[t].method = "load" /\ native.appr_alg = "released")
      /\ native' = IF request[t].method = "load" THEN Deallocated(native) ELSE native
  BY DEF Enter, At, Goto, InCall, IInv, TypeOK, NativeOK
<1>2. Settled = native
  BY <1>1, NobodyElseLoads, SettledNative DEF Loading
<1>3. /\ pc'[t] = "working" /\ request'[t] = request[t]
      /\ \A u \in Threads \ {t} : ~Loading(u)'
  BY <1>1, NobodyElseLoads DEF IInv, TypeOK, Loading
<1>4. Settled' = native
  <2>1. CASE request[t].method # "load"
    BY <1>1, <1>3, <2>1, SettledNative DEF Loading
  <2>2. CASE request[t].method = "load" /\ native.appr_alg = "live"
    <3>1. /\ native' = Deallocated(native) /\ native'.appr_alg = "released"
          /\ [native' EXCEPT !.appr_alg = "live"] = native
      BY <1>1, <2>2, DeallocatedType
    <3> QED
      BY <1>3, <2>2, <3>1 DEF Settled
  <2>3. CASE request[t].method = "load" /\ native.appr_alg # "live"
    <3>1. native' = native /\ native'.appr_alg # "released"
      BY <1>1, <2>3, DeallocatedType
    <3> QED
      BY <3>1 DEF Settled
  <2> QED
    BY <2>1, <2>2, <2>3
<1> QED
  BY <1>1, <1>2, <1>4 DEF abstractVars

LEMMA DeleteTwiceRefines ==
    ASSUME IInv, NEW t \in Threads, DeleteTwice(t) PROVE Abstract!APerform(t)
<1> DEFINE outcome == Undefined(native)
<1>1. /\ pc[t] = "locked" /\ pc[t] \in InCall /\ UNCHANGED <<pc, request>>
      /\ Check(native, request[t].method) = "goOn" /\ request[t] \in Requests
      /\ request[t].method = "load" /\ native.appr_alg = "released"
      /\ Answer(t, outcome)
  BY HolderWrites DEF DeleteTwice, At, InCall
<1>2. answer[t] = NoAnswer
  BY DEF DeleteTwice, At, Running, IInv, CallsOK, CallOK
<1>3. Settled = native
  BY <1>1, NobodyElseLoads, SettledNative DEF Loading
<1>4. outcome \in Abstract!Outcomes(Settled, request[t])
  BY <1>1, <1>3, OutcomesInHalves
<1>5. ~Loading(t)' /\ \A u \in Threads \ {t} : pc'[u] = pc[u]
  BY <1>1 DEF Loading
<1> HIDE DEF outcome
<1> QED
  BY <1>1, <1>2, <1>4, <1>5, AnswerRefines

LEMMA PerformRefines == ASSUME IInv, NEW t \in Threads, Perform(t) PROVE Abstract!APerform(t)
<1>1. /\ pc[t] = "working" /\ pc[t] \in InCall /\ pc' = [pc EXCEPT ![t] = "unlock"]
      /\ UNCHANGED request /\ request[t] \in Requests /\ NativeOK(native)
  BY HolderWrites DEF Perform, At, Goto, InCall, IInv, TypeOK, NativeOK
<1>2. PICK outcome \in Work(native, request[t], header[t]) : Answer(t, outcome)
  BY DEF Perform
<1>3. /\ answer[t] = NoAnswer /\ Check(native, request[t].method) = "goOn"
      /\ request[t].method = "load" => native.appr_alg # "live"
      /\ request[t].method = "save" => header[t] = Header(native)
  BY <1>1 DEF IInv, CallsOK, CallOK
<1>4. outcome \in Abstract!Outcomes(Settled, request[t])
  <2>1. CASE request[t].method # "load"
    <3>1. Settled = native
      BY <1>1, <2>1, NobodyElseLoads, SettledNative DEF Loading
    <3>2. Work(native, request[t], header[t]) = Work(native, request[t], Header(native))
      BY <1>3 DEF Work
    <3> QED
      BY <1>1, <1>3, <2>1, <3>1, <3>2, OutcomesInHalves
  <2>2. CASE request[t].method = "load"
    <3>1. /\ Check(Settled, "load") = "goOn" /\ Settled.appr_alg # "released"
          /\ Deallocated(Settled) = native
      <4>1. CASE native.appr_alg = "released"
        <5>1. Settled = [native EXCEPT !.appr_alg = "live"]
          BY <1>1, <2>2, <4>1 DEF Settled
        <5> QED
          BY <1>1, <1>3, <2>2, <4>1, <5>1 DEF NativeOK, Check, ClearedCheck, Deallocated
      <4>2. CASE native.appr_alg # "released"
        <5>1. Settled = native
          BY <4>2 DEF Settled
        <5> QED
          BY <1>1, <1>3, <2>2, <4>2, <5>1, DeallocatedType
      <4> QED
        BY <4>1, <4>2
    <3>2. outcome = Loaded(native, request[t].file, request[t].max)
      BY <1>2, <2>2 DEF Work
    <3> QED
      BY <1>1, <2>2, <3>1, <3>2, OutcomesInHalves
  <2> QED
    BY <2>1, <2>2
<1>5. ~Loading(t)' /\ \A u \in Threads \ {t} : pc'[u] = pc[u]
  BY <1>1 DEF IInv, TypeOK, Loading
<1> QED
  BY <1>1, <1>2, <1>3, <1>4, <1>5, AnswerRefines

LEMMA ForgetRefines ==
    ASSUME IInv, NEW t \in Threads, pc[t] \in {"unlock", "saveId"}, Forget(t),
           UNCHANGED native
    PROVE  Abstract!AReturn(t)
<1>1. answer[t] # NoAnswer
  BY DEF IInv, CallsOK, CallOK, NoAnswer
<1>2. \A u \in Threads : Loading(u)' <=> Loading(u)
  BY Forgotten DEF Loading
<1>3. Settled' = Settled
  BY <1>2, SettledSame
<1> QED
  BY <1>1, <1>3
  DEF Forget, Abstract!AReturn, NoRequest, Abstract!NoRequest, NoAnswer, Abstract!NoAnswer

LEMMA UnlockRefines ==
    ASSUME IInv, NEW t \in Threads, Unlock(t)
    PROVE  UNCHANGED abstractVars \/ Abstract!AReturn(t)
<1>1. pc[t] = "unlock" /\ UNCHANGED native
  BY DEF Unlock, At
<1>2. CASE Goto(t, "saveId") /\ UNCHANGED <<request, answer, header>>
  <2>1. \A u \in Threads : Loading(u)' <=> Loading(u)
    BY <1>1, <1>2 DEF IInv, TypeOK, Goto, Loading
  <2> QED
    BY <1>1, <1>2, <2>1, SettledSame DEF abstractVars
<1>3. CASE Forget(t)
  BY <1>1, <1>3, ForgetRefines
<1> QED
  BY <1>2, <1>3 DEF Unlock

LEMMA NextRefines ==
    ASSUME IInv, [Next]_vars PROVE [Abstract!ANext]_abstractVars
<1>1. CASE UNCHANGED vars
  BY <1>1 DEF vars, abstractVars, Settled
<1>2. ASSUME NEW t \in Threads, Ask(t) \/ Step(t)
      PROVE  Abstract!AAsk(t) \/ Abstract!APerform(t) \/ Abstract!AReturn(t)
             \/ UNCHANGED abstractVars
  <2>1. CASE SaveId(t)
    BY <2>1, ForgetRefines DEF SaveId, At
  <2> QED
    BY <1>2, <2>1, AskRefines, AcquireRefines, RefuseRefines, EnterRefines,
       DeleteTwiceRefines, PerformRefines, UnlockRefines DEF Step
<1> QED
  BY <1>1, <1>2 DEF Next, Abstract!ANext

(* Every call of an object under its lock works as if it had the native    *)
(* index to itself at one instant between request and return, whatever the *)
(* others call: although it tests before it works, although a load deletes *)
(* the graph before it has another, and a save writes the count before the *)
(* elements (ConcurrentIndex.java:10-18).                                  *)
THEOREM CallsAreAtomic == Spec => ImplementsAtomicIndex
<1>1. Init => Abstract!AInit
  BY InitRefines
<1>2. IInv /\ [Next]_vars => [Abstract!ANext]_<<Settled, request, answer>>
  BY NextRefines DEF abstractVars
<1> QED
  BY <1>1, <1>2, Inductive, PTL DEF Spec, ImplementsAtomicIndex, Abstract!ASpec

==============================================================================
