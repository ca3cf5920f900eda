-------------------------- MODULE ConcurrentIndex --------------------------
(***************************************************************************)
(* ConcurrentIndex.java: threads that call one object, whose overridden    *)
(* methods hold a fair read-write lock around those of Index.java.  A call *)
(* is split where another call could see or disturb it without the lock:   *)
(* the tests of the binding, then the work on the graph.  A load deletes   *)
(* the old graph before it builds the new one; a save writes the header    *)
(* before the elements.                                                    *)
(***************************************************************************)
EXTENDS NativeIndex, Sequences

CONSTANTS Threads,       \* threads that share the object
          Requests,      \* calls with their arguments
          MaxElements,   \* capacity of the index
          MaxNumber      \* bound of this model: no number is asked for from here on

Methods == {"addItem", "markDeleted", "hasId", "getData", "knnQuery", "getLength",
            "setEf", "save", "load", "clear"}

Items(items) ==
    /\ DOMAIN items \subseteq Nat
    /\ items \in [DOMAIN items -> [vector : Vectors, deleted : BOOLEAN]]

ASSUME MaxElementsAssumption == MaxElements \in Nat
ASSUME MaxNumberAssumption == MaxNumber \in Nat
ASSUME RequestsAssumption ==
    \A r \in Requests :
        /\ r.method \in Methods
        /\ r.method = "addItem" =>
              r.id \in Labels \cup {NoId} /\ r.vector \in Vectors /\ r.saveId \in BOOLEAN
        /\ r.method = "load" =>
              Items(r.file.items) /\ r.file.header.max_elements \in Nat /\ r.max \in Nat

VARIABLES native,   \* the native index
          idSet,    \* the set of ids of the object
          pc,       \* where each call is
          request,  \* request[t]: the call of thread t
          answer,   \* answer[t]: what it has been answered
          header,   \* header[t]: the header that a save of thread t has written
          readers,  \* threads that hold the read lock
          writers,  \* threads that hold the write lock
          queue     \* threads that wait for the lock, longest first

locks == <<readers, writers, queue>>
vars == <<native, idSet, pc, request, answer, header, readers, writers, queue>>

NoRequest == [method |-> "none"]
NoAnswer == [code |-> "none", value |-> {}]
NoHeader == [max_elements |-> 0, count |-> 0]

(* Mutant: insertions under the read lock. *)
WritesButAdds(method) == method \in {"load", "clear", "setEf", "markDeleted"}

(* The methods that take the write lock; the others take the read lock. *)
Writes(method) == method \in {"addItem", "load", "clear", "setEf", "markDeleted"}

(* Threads share the object once it is initialised. *)
InitialIndexes == {init_new_index(NewIndex, MaxElements).native}

Init ==
    /\ native \in InitialIndexes
    /\ idSet = {}
    /\ pc = [t \in Threads |-> "idle"]
    /\ request = [t \in Threads |-> NoRequest]
    /\ answer = [t \in Threads |-> NoAnswer]
    /\ header = [t \in Threads |-> NoHeader]
    /\ readers = {} /\ writers = {} /\ queue = <<>>

(* Nothing is said of a program that has used memory it has released. *)
Running == \A t \in Threads : answer[t].code # "undefined"

At(t, place) == Running /\ pc[t] = place
Goto(t, place) == pc' = [pc EXCEPT ![t] = place]

------------------------------------------------------------------------------
(* The lock: first come, first served, readers together. *)
Ask(t) ==
    /\ At(t, "idle")
    /\ \E r \in Requests :
         /\ request' = [request EXCEPT ![t] = r]
         /\ r.method = "addItem" /\ r.id = NoId => native.incremental_id < MaxNumber
    /\ queue' = Append(queue, t)
    /\ Goto(t, "waiting")
    /\ UNCHANGED <<native, idSet, answer, header, readers, writers>>

First(t) == queue # <<>> /\ Head(queue) = t

Acquire(t) ==
    /\ At(t, "waiting") /\ First(t) /\ writers = {}
    /\ IF Writes(request[t].method)
       THEN readers = {} /\ writers' = {t} /\ UNCHANGED readers
       ELSE readers' = readers \cup {t} /\ UNCHANGED writers
    /\ queue' = Tail(queue)
    /\ Goto(t, "locked")
    /\ UNCHANGED <<native, idSet, request, answer, header>>

(* Mutant: an exception leaves the lock held. *)
UnlockAnswered(t) ==
    /\ readers' = IF answer[t].code = "successful" THEN readers \ {t} ELSE readers
    /\ writers' = IF answer[t].code = "successful" THEN writers \ {t} ELSE writers

(* "finally": whether the call has returned or thrown. *)
ReleaseLock(t) == readers' = readers \ {t} /\ writers' = writers \ {t}

------------------------------------------------------------------------------
Answer(t, outcome) ==
    /\ native' = outcome.native
    /\ answer' = [answer EXCEPT ![t] = [code |-> outcome.code, value |-> outcome.value]]

(* The tests of a call before it works on the graph. *)
Check(n, method) ==
    CASE method \in {"load", "clear"} -> ClearedCheck(n)
      [] method = "addItem" -> AddItemCheck(n)
      [] method = "getLength" -> "goOn"
      [] OTHER -> InitializedCheck(n)

Refuse(t) ==
    /\ At(t, "locked") /\ Check(native, request[t].method) # "goOn"
    /\ Answer(t, Outcome(native, Check(native, request[t].method)))
    /\ Goto(t, "unlock")
    /\ UNCHANGED <<idSet, request, header, locks>>

Enter(t) ==
    /\ At(t, "locked") /\ Check(native, request[t].method) = "goOn"
    /\ ~(request[t].method = "load" /\ native.appr_alg = "released")
    /\ native' = IF request[t].method = "load" THEN Deallocated(native) ELSE native
    /\ header' = [header EXCEPT ![t] =
                    IF request[t].method = "save" THEN Header(native) ELSE NoHeader]
    /\ Goto(t, "working")
    /\ UNCHANGED <<idSet, request, answer, locks>>

(* load_index deletes a graph that a failed load has deleted already. *)
DeleteTwice(t) ==
    /\ At(t, "locked") /\ Check(native, request[t].method) = "goOn"
    /\ request[t].method = "load" /\ native.appr_alg = "released"
    /\ Answer(t, Undefined(native))
    /\ UNCHANGED <<idSet, pc, request, header, locks>>

(* The rest of a call. *)
Work(n, r, h) ==
    CASE r.method = "addItem" -> {OnGraph(n, Added(n, r.id, r.vector))}
      [] r.method = "markDeleted" -> {markDelete(n, r.id)}
      [] r.method = "hasId" -> {LookedUp(n, r.id, {})}
      [] r.method = "getData" -> {DataOf(n, r.id)}
      [] r.method = "knnQuery" -> searchKnn(n, r.k)
      [] r.method = "getLength" -> {getIndexLength(n)}
      [] r.method = "setEf" -> {OnGraph(n, Result(n, {}))}
      [] r.method = "save" -> {OnGraph(n, Result(n, {FileOf(h, n.items)}))}
      [] r.method = "load" -> {Loaded(n, r.file, r.max)}
      [] r.method = "clear" -> {Released(n)}

Perform(t) ==
    /\ At(t, "working")
    /\ \E outcome \in Work(native, request[t], header[t]) : Answer(t, outcome)
    /\ Goto(t, "unlock")
    /\ UNCHANGED <<idSet, request, header, locks>>

(* The thread may call again. *)
Forget(t) ==
    /\ Goto(t, "idle")
    /\ request' = [request EXCEPT ![t] = NoRequest]
    /\ answer' = [answer EXCEPT ![t] = NoAnswer]
    /\ header' = [header EXCEPT ![t] = NoHeader]

Succeeded(t, method) == request[t].method = method /\ answer[t].code = "successful"
SavesId(t) == Succeeded(t, "addItem") /\ request[t].saveId

(* markDeleted removes the id before it gives the lock back. *)
Unlock(t) ==
    /\ At(t, "unlock")
    /\ ReleaseLock(t)
    /\ idSet' = IF Succeeded(t, "markDeleted") THEN idSet \ {request[t].id} ELSE idSet
    /\ IF SavesId(t) THEN Goto(t, "saveId") /\ UNCHANGED <<request, answer, header>>
       ELSE Forget(t)
    /\ UNCHANGED <<native, queue>>

(* addItem(item, id, saveId) is inherited: it adds the id without the lock. *)
SaveId(t) ==
    /\ At(t, "saveId")
    /\ idSet' = idSet \cup {request[t].id}
    /\ Forget(t)
    /\ UNCHANGED <<native, locks>>

Step(t) == Acquire(t) \/ Refuse(t) \/ Enter(t) \/ DeleteTwice(t) \/ Perform(t)
             \/ Unlock(t) \/ SaveId(t)

Next == \E t \in Threads : Ask(t) \/ Step(t)

Spec == Init /\ [][Next]_vars

(* A thread inside a call is scheduled again and again. *)
FairSpec == Spec /\ \A t \in Threads : WF_vars(Step(t))

------------------------------------------------------------------------------
Places == {"idle", "waiting", "locked", "working", "unlock", "saveId"}

(* The native index keeps its type; the lock is held exactly by the calls  *)
(* between Acquire and Unlock, and the queue holds every call that waits,  *)
(* once.  addItem(item, -1, true) puts -1 into the set of ids.             *)
TypeOK ==
    /\ pc \in [Threads -> Places]
    /\ request \in [Threads -> Requests \cup {NoRequest}]
    /\ idSet \subseteq Labels \cup {NoId}
    /\ native \in [appr_alg : {"null", "live", "released"}, items : {native.items},
                   max_elements : Nat, index_initialized : BOOLEAN,
                   index_cleared : BOOLEAN, incremental_id : Nat]
    /\ Items(native.items)
    /\ readers \cup writers = {t \in Threads : pc[t] \in {"locked", "working", "unlock"}}
    /\ queue \in Seq(Threads)
    /\ {queue[i] : i \in DOMAIN queue} = {t \in Threads : pc[t] = "waiting"}
    /\ \A i, j \in DOMAIN queue : queue[i] = queue[j] => i = j

(* "This class offers a thread-safe alternative for a small-world Index"   *)
(* (ConcurrentIndex.java:10): every call that takes the lock works as if   *)
(* it had the native index to itself at one instant, although it tests the *)
(* flags and the capacity first (bindings.cpp:114), deletes the old graph  *)
(* before it has a new one (95-97), and writes the count of a file before  *)
(* its elements (hnswalg.h:607, 620).  Seen so, an index whose graph is    *)
(* being replaced still has the old one.                                   *)
Settled ==
    IF \E t \in Threads : pc[t] = "working" /\ request[t].method = "load"
                          /\ native.appr_alg = "released"
    THEN [native EXCEPT !.appr_alg = "live"]
    ELSE native

Abstract == INSTANCE AtomicIndex WITH native <- Settled

ImplementsAtomicIndex == Abstract!ASpec

(* Every caller gets the lock in its turn, whatever the others go on       *)
(* asking for, and returns, also when the call throws                      *)
(* (ConcurrentIndex.java:21, fairness enabled, and the finally blocks).    *)
EveryCallReturns ==
    \A t \in Threads : (pc[t] = "waiting") ~> (pc[t] = "idle" \/ ~Running)
==============================================================================
