----------------------------- MODULE VisitedSets -----------------------------
(***************************************************************************)
(* What a graph search of hnswlib needs from its "visited" array: a set of *)
(* elements of its own that starts empty, and an answer to the question    *)
(* "did this search meet this element before?".  VisitedListPool.tla is    *)
(* the implementation with pooled, never cleared arrays and 16-bit tags.   *)
(***************************************************************************)
CONSTANTS Threads,   \* threads that search
          Elements   \* internal ids of the elements of the index

VARIABLES searching, \* the threads inside a search
          visited,   \* visited[t]: elements the search of t has met
          answer     \* answer[t]: outcome of the last test of t

avars == <<searching, visited, answer>>

AInit ==
    /\ searching = {}
    /\ visited = [t \in Threads |-> {}]
    /\ answer = [t \in Threads |-> "none"]

(* A search begins: nothing is visited yet. *)
ABegin(t) ==
    /\ t \notin searching
    /\ searching' = searching \cup {t}
    /\ visited' = [visited EXCEPT ![t] = {}]
    /\ answer' = [answer EXCEPT ![t] = "none"]

(* The search meets element e, and learns whether it had met it before. *)
AVisit(t, e) ==
    /\ t \in searching
    /\ answer' = [answer EXCEPT ![t] = IF e \in visited[t] THEN "seen" ELSE "new"]
    /\ visited' = [visited EXCEPT ![t] = @ \cup {e}]
    /\ UNCHANGED searching

(* The search ends and its set is forgotten. *)
AEnd(t) ==
    /\ t \in searching
    /\ searching' = searching \ {t}
    /\ visited' = [visited EXCEPT ![t] = {}]
    /\ answer' = [answer EXCEPT ![t] = "none"]

ANext ==
    \E t \in Threads :
        \/ ABegin(t)
        \/ \E e \in Elements : AVisit(t, e)
        \/ AEnd(t)

ASpec == AInit /\ [][ANext]_avars
==============================================================================
