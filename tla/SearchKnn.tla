------------------------------ MODULE SearchKnn ------------------------------
(***************************************************************************)
(* HierarchicalNSW::searchKnn beside the calls of HierarchicalNSW.  The    *)
(* native search takes no mutex but that of the visited lists: it is the   *)
(* read lock of ConcurrentIndex that keeps insertions and deletions out    *)
(* while a query runs.  A query writes nothing another query could see, so *)
(* one at a time stands for any number of them.                            *)
(***************************************************************************)
EXTENDS HierarchicalNSW

CONSTANTS Queries, \* the vectors asked for
          Ks,      \* how many results are asked for
          Ef       \* ef_

ASSUME QueriesAssumption == Queries \subseteq Points
ASSUME KsAssumption == Ks \subseteq Nat \ {0}
ASSUME EfAssumption == Ef \in Nat

VARIABLES hasDeletions, \* has_deletions_
          query         \* the query that is running: where it is, its local variables

qvars == <<vars, hasDeletions, query>>

NoQuery ==
    [pc |-> "idle", point |-> Garbage, k |-> 1, obj |-> None, layer |-> 0, start |-> None,
     top |-> {}, cand |-> {}, visited |-> {}, code |-> "none"]

QInit ==
    /\ Init
    /\ hasDeletions = FALSE
    /\ query = NoQuery

------------------------------------------------------------------------------
(* Mutant: no read lock. *)
Always == TRUE

(* The read lock of ConcurrentIndex: no insertion is in flight, and none   *)
(* begins until the query has returned.                                    *)
Quiet == InFlight = {}
Reading == query.pc # "idle"

(* The template argument of searchBaseLayerST: marks are looked at only in *)
(* an index that has had a deletion.                                       *)
Hidden(x) == hasDeletions /\ x \in deleted

Visibles(S) == {x \in S : ~Hidden(x)}

(* Mutant: the search at the bottom begins with nothing found. *)
BottomSearchFromOutside(q, from) ==
    [q EXCEPT !.pc = "search", !.obj = from, !.layer = 0, !.start = from,
              !.cand = {from}, !.visited = {from}]

(* searchBaseLayerST begins at the element the descent ended at. *)
BottomSearch(q, from) ==
    [q EXCEPT !.pc = "search", !.obj = from, !.layer = 0, !.start = from,
              !.top = Visibles({from}), !.cand = {from}, !.visited = {from}]

(* A query of an index that counts no elements finds nothing; with an      *)
(* element counted and no entry point yet it reads a vector at id -1.      *)
BeginQuery ==
    /\ ~Reading /\ Quiet
    /\ \E p \in Queries, k \in Ks :
          LET asked == [NoQuery EXCEPT !.point = p, !.k = k]
          IN  \/ /\ curElementCount = 0
                 /\ query' = [asked EXCEPT !.pc = "answered", !.code = "queryCannotReturn"]
              \/ /\ curElementCount # 0 /\ enterpoint = None
                 /\ query' = [asked EXCEPT !.pc = "crashed"]
              \/ /\ curElementCount # 0 /\ enterpoint # None /\ maxlevel > 0
                 /\ query' = [asked EXCEPT !.pc = "descend", !.obj = enterpoint,
                                           !.layer = maxlevel]
              \/ /\ curElementCount # 0 /\ enterpoint # None /\ maxlevel <= 0
                 /\ query' = BottomSearch(asked, enterpoint)
    /\ UNCHANGED <<vars, hasDeletions>>

(* The greedy descent: to the closest element of a list, or one layer      *)
(* down when none is closer.                                               *)
DescendQuery ==
    /\ query.pc = "descend"
    /\ LET obj == query.obj
           layer == query.layer
           seen == {obj} \cup links[obj][layer]
       IN  \/ /\ ~HasList(obj, layer)
              /\ query' = [query EXCEPT !.pc = "crashed"]
           \/ /\ HasList(obj, layer)
              /\ \E best \in seen :
                    /\ IsClosest(query.point, best, seen)
                    /\ \/ /\ best # obj
                          /\ query' = [query EXCEPT !.obj = best]
                       \/ /\ best = obj /\ Below(layer) > 0
                          /\ query' = [query EXCEPT !.layer = Below(layer)]
                       \/ /\ best = obj /\ Below(layer) = 0
                          /\ query' = BottomSearch(query, obj)
    /\ UNCHANGED <<vars, hasDeletions>>

(* ef of the search at the bottom. *)
Width(q) == IF q.k > Ef THEN q.k ELSE Ef

(* Mutant: the search gives up before it has found anything. *)
GivesUp(q) ==
    \A node \in q.cand : node # q.start /\ \A r \in q.top : Closer(q.point, r, node)

(* Nothing is left to expand, or the closest candidate is farther than the *)
(* farthest result - also when there are fewer results than ef.            *)
QueryOver(q) ==
    \A node \in q.cand : q.top # {} /\ \A r \in q.top : Closer(q.point, r, node)

(* One turn of the loop of searchBaseLayerST: the closest candidate's      *)
(* bottom list.  What is marked deleted is expanded, not answered.         *)
ExpandQuery ==
    /\ query.pc = "search" /\ ~QueryOver(query)
    /\ \E node \in query.cand :
          LET p == query.point
              new == links[node][0] \ query.visited
              top == Nearest(p, query.top \cup Visibles(new), Width(query))
              near(x) == \/ Cardinality(top) < Width(query)
                         \/ \E r \in top : ~Closer(p, r, x)
          IN  /\ IsClosest(p, node, query.cand)
              /\ query' = [query EXCEPT
                              !.top = top,
                              !.cand = {x \in (@ \ {node}) \cup new : near(x)},
                              !.visited = @ \cup new]
    /\ UNCHANGED <<vars, hasDeletions>>

(* The k closest are answered; the binding refuses to return fewer.        *)
AnswerQuery ==
    /\ query.pc = "search" /\ QueryOver(query)
    /\ LET best == Nearest(query.point, query.top, query.k)
       IN  query' = [query EXCEPT
                        !.pc = "answered", !.top = best, !.cand = {}, !.visited = {},
                        !.code = IF Cardinality(best) = query.k
                                 THEN "successful" ELSE "queryCannotReturn"]
    /\ UNCHANGED <<vars, hasDeletions>>

(* The read lock is released. *)
ReturnQuery ==
    /\ query.pc = "answered"
    /\ query' = NoQuery
    /\ UNCHANGED <<vars, hasDeletions>>

QueryStep == BeginQuery \/ DescendQuery \/ ExpandQuery \/ AnswerQuery \/ ReturnQuery

(* markDelete sets the flag before it looks for the label. *)
MarkLabel(label) ==
    /\ \/ MarkDelete(label)
       \/ InFlight = {} /\ label \notin DOMAIN labelLookup /\ UNCHANGED vars
    /\ hasDeletions' = TRUE
    /\ UNCHANGED query

Write ==
    /\ ~Reading
    /\ \/ (\E c \in Calls : Step(c)) /\ UNCHANGED <<hasDeletions, query>>
       \/ \E label \in DeleteLabels : MarkLabel(label)

QNext == Write \/ QueryStep \/ (Stopped /\ UNCHANGED <<hasDeletions, query>>)

QSpec == QInit /\ [][QNext]_qvars

(* The thread of a query goes on. *)
FairQSpec == QSpec /\ WF_qvars(DescendQuery \/ ExpandQuery \/ AnswerQuery \/ ReturnQuery)

------------------------------------------------------------------------------
(* What a query may count on, and what it answers.                         *)
Places_Q == {"idle", "descend", "search", "answered", "crashed"}

QTypeOK ==
    /\ TypeOK
    /\ hasDeletions \in BOOLEAN
    /\ query \in [pc : Places_Q, point : Points, k : Nat \ {0}, obj : Ids \cup {None},
                  layer : Levels, start : Ids \cup {None}, top : SUBSET Ids,
                  cand : SUBSET Ids, visited : SUBSET Ids,
                  code : {"none", "successful", "queryCannotReturn"}]

Answered == query.pc = "answered" /\ query.start # None
Wide == Ef >= MaxElements

(* No query reads an entry point that is not there, or a list that does    *)
(* not exist: an index that counts an element has its entry point, and     *)
(* every link of a layer leads to an element of it (hnswalg.h:1108-1117).  *)
NoWildRead == query.pc # "crashed"

(* What is marked deleted is never answered, although the search looks at  *)
(* the marks only if a flag of the whole index says so (hnswalg.h:782,     *)
(* 1139).                                                                  *)
NothingDeletedAnswered == Answered => query.top \cap deleted = {}

(* With a search as wide as the index and nothing deleted, a query answers *)
(* exactly the k nearest of the elements its links lead to: the early end  *)
(* of the search loses nothing (hnswalg.h:270-329).                        *)
NearestReached ==
    Answered /\ Wide /\ deleted = {} =>
        query.top = Nearest(query.point, Reach(query.start), query.k)

(* However narrow the search and whatever is deleted, a query comes back   *)
(* empty only when there is nothing visible where its links lead: the      *)
(* search never ends before it has found one (hnswalg.h:258-266, 274).     *)
NeverEmptyHanded ==
    Answered /\ Reach(query.start) \ deleted # {} => query.top # {}

(* Whatever the order in which insertions ran beside each other, once they *)
(* are over a wide search finds every one of them, whichever element its   *)
(* descent ends at: no insertion is out of reach while no list has had to  *)
(* be pruned (hnswalg.h:1072-1085, 454-470).                               *)
InsertionsFound ==
    Answered /\ Wide /\ deleted = {} =>
        query.top = Nearest(query.point, Inserted, query.k)

(* Every query returns: a descent only ever comes closer, and no element   *)
(* is expanded twice (hnswalg.h:1111-1136, 270-329).                       *)
QueriesReturn == Reading ~> ~Reading

(* "Marks an element with the given label deleted, does NOT really change  *)
(* the current graph" (hnswalg.h:777): a wide search still finds the       *)
(* nearest of the elements that are not marked (AbstractIndexTest.java:    *)
(* 491-503).                                                               *)
OnlyMarkedHidden ==
    Answered /\ Wide =>
        query.top = Nearest(query.point, Reach(query.start) \ deleted, query.k)
==============================================================================
