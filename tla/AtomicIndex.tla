---------------------------- MODULE AtomicIndex ----------------------------
(***************************************************************************)
(* What ConcurrentIndex.java promises of the methods it calls thread-safe: *)
(* each call works on the native index in one instant between the request  *)
(* and the return, as if it were alone.                                    *)
(***************************************************************************)
EXTENDS NativeIndex

CONSTANTS Threads,  \* callers
          Requests, \* calls with their arguments
          InitialIndexes

VARIABLES native,   \* the native index
          request,  \* request[t]: the call of thread t
          answer    \* answer[t]: what it has been answered

NoRequest == [method |-> "none"]
NoAnswer == [code |-> "none", value |-> {}]

(* What a call does to an index nobody else is using. *)
Outcomes(n, r) ==
    CASE r.method = "addItem"     -> {add_item(n, r.id, r.vector)}
      [] r.method = "markDeleted" -> {mark_deleted(n, r.id)}
      [] r.method = "hasId"       -> {hasId(n, r.id)}
      [] r.method = "getData"     -> {getDataById(n, r.id)}
      [] r.method = "knnQuery"    -> knn_query(n, r.k)
      [] r.method = "getLength"   -> {getIndexLength(n)}
      [] r.method = "setEf"       -> {set_ef(n)}
      [] r.method = "save"        -> {save_index(n)}
      [] r.method = "load"        -> {load_index(n, r.file, r.max)}
      [] r.method = "clear"       -> {clear_index(n)}

AInit ==
    /\ native \in InitialIndexes
    /\ request = [t \in Threads |-> NoRequest]
    /\ answer = [t \in Threads |-> NoAnswer]

AAsk(t) ==
    /\ request[t] = NoRequest
    /\ \E r \in Requests : request' = [request EXCEPT ![t] = r]
    /\ UNCHANGED <<native, answer>>

APerform(t) ==
    /\ request[t] # NoRequest /\ answer[t] = NoAnswer
    /\ \E outcome \in Outcomes(native, request[t]) :
         /\ native' = outcome.native
         /\ answer' = [answer EXCEPT ![t] = [code |-> outcome.code, value |-> outcome.value]]
    /\ UNCHANGED request

AReturn(t) ==
    /\ answer[t] # NoAnswer
    /\ request' = [request EXCEPT ![t] = NoRequest]
    /\ answer' = [answer EXCEPT ![t] = NoAnswer]
    /\ UNCHANGED native

ANext == \E t \in Threads : AAsk(t) \/ APerform(t) \/ AReturn(t)

ASpec == AInit /\ [][ANext]_<<native, request, answer>>
==============================================================================
