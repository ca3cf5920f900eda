--------------------------- MODULE SearchKnn_proofs ---------------------------
(***************************************************************************)
(* Proofs about SearchKnn, for every index the insertions, updates and     *)
(* deletions of HierarchicalNSW can have made, every query and every       *)
(* width of the search.                                                    *)
(*                                                                         *)
(* Queries change nothing of the index, so what is proved of its calls     *)
(* holds beside queries too; the rest is an invariant of the search.       *)
(***************************************************************************)
EXTENDS SearchKnn, Insertions_proofs

Results == {"none", "successful", "queryCannotReturn"}
QueryType ==
    [pc : Places_Q, point : Points, k : Nat \ {0}, obj : Ids \cup {None},
     layer : Levels, start : Ids \cup {None}, top : SUBSET Ids,
     cand : SUBSET Ids, visited : SUBSET Ids, code : Results]

(* Where a query has an element to go on from. *)
Placed == query.pc = "descend" => query.obj # None /\ query.layer > 0

(* The flag of the index does not lag behind the marks. *)
FlagCovers == deleted # {} => hasDeletions

(* While nothing has been found, or in a search as wide as the index, no   *)
(* candidate is dropped: what was expanded has all its links visited.      *)
Lossless == query.top = {} \/ (Wide /\ deleted = {})

Searching ==
    query.pc = "search" =>
        /\ query.start \in query.visited
        /\ query.top \subseteq query.visited /\ query.cand \subseteq query.visited
        /\ query.visited \subseteq Reach(query.start)
        /\ query.top \cap deleted = {}
        /\ query.top = {} => query.visited \subseteq deleted
        /\ Wide /\ deleted = {} => query.top = query.visited
        /\ Lossless => \A v \in query.visited \ query.cand :
                            links[v][0] \subseteq query.visited

QIInv ==
    /\ hasDeletions \in BOOLEAN
    /\ query \in QueryType
    /\ Placed /\ FlagCovers /\ Searching
    /\ NothingDeletedAnswered /\ NearestReached /\ NeverEmptyHanded

LEMMA WidthType ==
    ASSUME query \in QueryType
    PROVE  Width(query) \in Nat \ {0} /\ (Wide => Width(query) >= MaxElements)
BY EfAssumption, SizesAssumption DEF QueryType, Width, Wide

------------------------------------------------------------------------------
(* Queries are steps that leave the index alone. *)

LEMMA QueryLeavesIndex == ASSUME QueryStep PROVE UNCHANGED <<vars, hasDeletions>>
BY DEF QueryStep, BeginQuery, DescendQuery, ExpandQuery, AnswerQuery, ReturnQuery

LEMMA QNextIsNext == ASSUME [QNext]_qvars PROVE [Next]_vars
<1>1. CASE Write
  <2>1. CASE \E c \in Calls : Step(c)
    BY <2>1 DEF Next
  <2>2. CASE \E label \in DeleteLabels : MarkLabel(label)
    BY <2>2 DEF MarkLabel, Next
  <2> QED
    BY <1>1, <2>1, <2>2 DEF Write
<1>2. CASE QueryStep
  BY <1>2, QueryLeavesIndex
<1>3. CASE Stopped
  BY <1>3 DEF Stopped
<1>4. CASE UNCHANGED qvars
  BY <1>4 DEF qvars
<1> QED
  BY <1>1, <1>2, <1>3, <1>4 DEF QNext

(* Whatever is true of the calls without queries is true of them beside    *)
(* queries under the read lock.                                            *)
THEOREM QueriesLeaveTheIndexAlone == QSpec => Spec
<1>1. QInit => Init
  BY DEF QInit
<1>2. [QNext]_qvars => [Next]_vars
  BY QNextIsNext
<1> QED
  BY <1>1, <1>2, PTL DEF QSpec, Spec

(* Only an insertion takes a mark away, and only markDelete sets one. *)
LEMMA MarksOnlyFall == ASSUME NEW c \in Calls, Step(c) PROVE deleted' \subseteq deleted
BY DEF Step, AddItem, Reserve, LockForInsert, LockElement, LockGlobal, ReadEntry, FirstElement,
   Finish, Descend, Expand, SelectNeighbors, TearOwnList, WriteOwnList, Connect,
   LockForUpdate, ReadEntryUpdate, OneHop, TwoHop, Relink, Crash, graph

------------------------------------------------------------------------------
(* Steps that are not a query's: no query is running. *)

LEMMA WriteStep == ASSUME QIInv, Write PROVE QIInv'
<1>1. query.pc = "idle" /\ query' = query
  BY DEF Write, Reading, MarkLabel
<1>2. hasDeletions' \in BOOLEAN /\ FlagCovers'
  <2>1. CASE (\E c \in Calls : Step(c)) /\ UNCHANGED <<hasDeletions, query>>
    BY <2>1, MarksOnlyFall DEF QIInv, FlagCovers
  <2>2. CASE \E label \in DeleteLabels : MarkLabel(label)
    BY <2>2 DEF MarkLabel, FlagCovers
  <2> QED
    BY <2>1, <2>2 DEF Write
<1>3. query' \in QueryType'
  BY <1>1 DEF QIInv, QueryType, Results, Places_Q
<1>4. Placed' /\ Searching'
  BY <1>1 DEF Placed, Searching
<1>5. NothingDeletedAnswered' /\ NearestReached' /\ NeverEmptyHanded'
  BY <1>1 DEF NothingDeletedAnswered, NearestReached, NeverEmptyHanded, Answered
<1> QED
  BY <1>2, <1>3, <1>4, <1>5 DEF QIInv

(* The index and the query stay as they are. *)
LEMMA StutterStep ==
    ASSUME QIInv, UNCHANGED qvars PROVE QIInv'
<1>1. UNCHANGED <<links, vec, deleted, hasDeletions, query>>
  BY DEF qvars, vars, graph
<1> QED
  BY <1>1 DEF QIInv, QueryType, Results, Places_Q, Placed, FlagCovers, Searching, Lossless,
     NothingDeletedAnswered, NearestReached, NeverEmptyHanded, Answered, Wide, Reach, Closed,
     Nearest, Closer

------------------------------------------------------------------------------
(* The steps of a query, over an index that stays as it is. *)

LEMMA ReachFrom == ASSUME NEW x \in Ids PROVE x \in Reach(x)
BY DEF Reach

LEMMA ReachGrows ==
    ASSUME TypeOK, NEW x \in Ids, NEW v \in Reach(x)
    PROVE  links[v][0] \subseteq Reach(x)
<1>1. 0 \in Levels
  BY SizesAssumption DEF Levels
<1>2. links[v][0] \subseteq Ids
  BY <1>1 DEF TypeOK, Reach
<1>3. ASSUME NEW S \in SUBSET Ids, x \in S, Closed(S) PROVE links[v][0] \subseteq S
  BY <1>3 DEF Reach, Closed
<1> QED
  BY <1>2, <1>3 DEF Reach

(* Only an index that has had a deletion looks at the marks. *)
LEMMA VisiblesFacts ==
    ASSUME FlagCovers, NEW S
    PROVE  /\ Visibles(S) \subseteq S
           /\ Visibles(S) \cap deleted = {}
           /\ S \ deleted \subseteq Visibles(S)
           /\ deleted = {} => Visibles(S) = S
BY DEF FlagCovers, Visibles, Hidden

(* The invariant after a step of a query that is not an answer. *)
LEMMA UnansweredOK ==
    ASSUME UNCHANGED <<links, vec, deleted, hasDeletions>>, QIInv,
           query' \in QueryType, Placed', Searching', query'.pc # "answered"
    PROVE  QIInv'
<1>1. hasDeletions' \in BOOLEAN /\ FlagCovers'
  BY DEF QIInv, FlagCovers
<1>2. QueryType' = QueryType
  BY DEF QueryType, Results, Places_Q
<1>3. NothingDeletedAnswered' /\ NearestReached' /\ NeverEmptyHanded'
  BY DEF NothingDeletedAnswered, NearestReached, NeverEmptyHanded, Answered
<1> QED
  BY <1>1, <1>2, <1>3 DEF QIInv

LEMMA BottomSearchOK ==
    ASSUME TypeOK, QIInv, NEW q \in QueryType, NEW from \in Ids,
           query' = BottomSearch(q, from), UNCHANGED <<vars, hasDeletions>>
    PROVE  QIInv'
<1>1. UNCHANGED <<links, vec, deleted, hasDeletions>>
  BY DEF vars, graph
<1>2. Visibles({from}) \subseteq {from} /\ from \in Ids /\ 0 \in Levels
  BY VisiblesFacts, SizesAssumption DEF QIInv, Levels
<1>3. /\ query' \in QueryType /\ query'.pc = "search" /\ query'.start = from
      /\ query'.top = Visibles({from})
      /\ query'.cand = {from} /\ query'.visited = {from}
  BY <1>2 DEF BottomSearch, QueryType, Results, Places_Q
<1>4. Reach(from)' = Reach(from) /\ from \in Reach(from)
  BY <1>1, ReachFrom DEF Reach, Closed
<1>5. /\ Visibles({from}) \cap deleted = {}
      /\ Visibles({from}) = {} => from \in deleted
      /\ deleted = {} => Visibles({from}) = {from}
  BY VisiblesFacts DEF QIInv
<1>6. Searching'
  BY <1>1, <1>2, <1>3, <1>4, <1>5 DEF Searching, Lossless
<1>7. Placed'
  BY <1>3 DEF Placed
<1> QED
  BY <1>1, <1>3, <1>6, <1>7, UnansweredOK

LEMMA BeginQueryStep == ASSUME TypeOK, QIInv, BeginQuery PROVE QIInv'
<1>1. PICK p \in Queries, k \in Ks :
          LET asked == [NoQuery EXCEPT !.point = p, !.k = k]
          IN  \/ query' = [asked EXCEPT !.pc = "answered", !.code = "queryCannotReturn"]
              \/ query' = [asked EXCEPT !.pc = "crashed"]
              \/ /\ enterpoint # None /\ maxlevel > 0
                 /\ query' = [asked EXCEPT !.pc = "descend", !.obj = enterpoint,
                                           !.layer = maxlevel]
              \/ /\ enterpoint # None
                 /\ query' = BottomSearch(asked, enterpoint)
  BY DEF BeginQuery
<1> DEFINE asked == [NoQuery EXCEPT !.point = p, !.k = k]
<1>2. UNCHANGED <<vars, hasDeletions>>
  BY DEF BeginQuery
<1>3. UNCHANGED <<links, vec, deleted, hasDeletions>>
  BY <1>2 DEF vars, graph
<1>4. asked \in QueryType /\ asked.start = None /\ asked.top = {} /\ asked.pc = "idle"
  <2>1. 0 \in Levels /\ Garbage \in Points /\ p \in Points /\ k \in Nat \ {0}
    BY QueriesAssumption, KsAssumption, SizesAssumption, PointsAssumption DEF Levels
  <2>2. NoQuery \in QueryType
    BY <2>1 DEF NoQuery, QueryType, Results, Places_Q
  <2>3. NoQuery.start = None /\ NoQuery.top = {} /\ NoQuery.pc = "idle"
    BY DEF NoQuery
  <2> QED
    BY <2>1, <2>2, <2>3 DEF QueryType
<1>5. (enterpoint # None => enterpoint \in Ids) /\ (maxlevel > 0 => maxlevel \in Levels)
  BY DEF TypeOK, None
<1> HIDE DEF asked
<1>6. CASE query' = [asked EXCEPT !.pc = "answered", !.code = "queryCannotReturn"]
  <2>1. /\ query' \in QueryType /\ query'.pc = "answered" /\ query'.start = None
        /\ query'.top = {}
    BY <1>4, <1>6 DEF QueryType, Results, Places_Q
  <2>2. Placed' /\ Searching' /\ NothingDeletedAnswered' /\ NearestReached'
        /\ NeverEmptyHanded'
    BY <2>1 DEF Placed, Searching, NothingDeletedAnswered, NearestReached, NeverEmptyHanded,
                Answered
  <2>3. hasDeletions' \in BOOLEAN /\ FlagCovers' /\ QueryType' = QueryType
    BY <1>3 DEF QIInv, FlagCovers, QueryType, Results, Places_Q
  <2> QED
    BY <2>1, <2>2, <2>3 DEF QIInv
<1>7. CASE query' = [asked EXCEPT !.pc = "crashed"]
  <2>1. query' \in QueryType /\ query'.pc = "crashed"
    BY <1>4, <1>7 DEF QueryType, Results, Places_Q
  <2> QED
    BY <1>3, <2>1, UnansweredOK DEF Placed, Searching
<1>8. CASE /\ enterpoint # None /\ maxlevel > 0
           /\ query' = [asked EXCEPT !.pc = "descend", !.obj = enterpoint,
                                     !.layer = maxlevel]
  <2>1. query' \in QueryType /\ query'.pc = "descend" /\ query'.obj # None
        /\ query'.layer > 0
    BY <1>4, <1>5, <1>8 DEF QueryType, Results, Places_Q
  <2> QED
    BY <1>3, <2>1, UnansweredOK DEF Placed, Searching
<1>9. CASE enterpoint # None /\ query' = BottomSearch(asked, enterpoint)
  BY <1>2, <1>4, <1>5, <1>9, BottomSearchOK
<1> QED
  BY <1>1, <1>6, <1>7, <1>8, <1>9 DEF asked

LEMMA DescendQueryStep == ASSUME TypeOK, QIInv, DescendQuery PROVE QIInv'
<1>1. UNCHANGED <<vars, hasDeletions>>
  BY DEF DescendQuery
<1>2. UNCHANGED <<links, vec, deleted, hasDeletions>>
  BY <1>1 DEF vars, graph
<1>3. /\ query.pc = "descend" /\ query \in QueryType
      /\ query.obj \in Ids /\ query.layer \in Levels /\ query.layer > 0
  BY DEF DescendQuery, QIInv, Placed, QueryType
<1>4. links[query.obj][query.layer] \subseteq Ids
  BY <1>3 DEF TypeOK
<1>5. CASE query' = [query EXCEPT !.pc = "crashed"]
  <2>1. query' \in QueryType /\ query'.pc = "crashed"
    BY <1>3, <1>5 DEF QueryType, Results, Places_Q
  <2> QED
    BY <1>2, <2>1, UnansweredOK DEF Placed, Searching
<1>6. ASSUME NEW best \in Ids, query' = [query EXCEPT !.obj = best] PROVE QIInv'
  <2>1. query' \in QueryType /\ query'.pc = "descend" /\ query'.obj # None
        /\ query'.layer > 0
    BY <1>3, <1>6 DEF QueryType, Ids, None
  <2> QED
    BY <1>2, <2>1, UnansweredOK DEF Placed, Searching
<1>7. CASE Below(query.layer) > 0 /\ query' = [query EXCEPT !.layer = Below(query.layer)]
  <2>1. Below(query.layer) \in Levels
    BY <1>3, <1>7, SizesAssumption DEF Below, Levels
  <2>2. query' \in QueryType /\ query'.pc = "descend" /\ query'.obj # None
        /\ query'.layer > 0
    BY <1>3, <1>7, <2>1 DEF QueryType, Ids, None
  <2> QED
    BY <1>2, <2>2, UnansweredOK DEF Placed, Searching
<1>8. CASE query' = BottomSearch(query, query.obj)
  BY <1>1, <1>3, <1>8, BottomSearchOK
<1> QED
  BY <1>3, <1>4, <1>5, <1>6, <1>7, <1>8 DEF DescendQuery

LEMMA ExpandQueryStep == ASSUME TypeOK, QIInv, ExpandQuery PROVE QIInv'
<1>1. UNCHANGED <<links, vec, deleted, hasDeletions>>
  BY DEF ExpandQuery, vars, graph
<1>2. query.pc = "search" /\ query \in QueryType
  BY DEF ExpandQuery, QIInv
<1> DEFINE p == query.point
           W == Width(query)
           New(node) == links[node][0] \ query.visited
           Top(node) == Nearest(p, query.top \cup Visibles(New(node)), W)
           near(node, x) == \/ Cardinality(Top(node)) < W
                            \/ \E r \in Top(node) : ~Closer(p, r, x)
<1>3. PICK node \in query.cand :
          query' = [query EXCEPT
                       !.top = Top(node),
                       !.cand = {x \in (@ \ {node}) \cup New(node) : near(node, x)},
                       !.visited = @ \cup New(node)]
  BY DEF ExpandQuery
<1> DEFINE new == New(node)
           found == query.top \cup Visibles(new)
           top == Top(node)
           left == (query.cand \ {node}) \cup new
           cand == {x \in left : near(node, x)}
           visited == query.visited \cup new
<1>4. /\ p \in Points /\ W \in Nat \ {0} /\ (Wide => W >= MaxElements)
      /\ query.top \subseteq Ids /\ query.cand \subseteq Ids /\ query.visited \subseteq Ids
  BY <1>2, WidthType DEF QueryType
<1>5. node \in Ids /\ new \subseteq Ids /\ new \subseteq links[node][0]
  <2>1. 0 \in Levels /\ node \in Ids
    BY <1>4, SizesAssumption DEF Levels
  <2> QED
    BY <2>1 DEF TypeOK
<1>6. /\ Visibles(new) \subseteq new /\ Visibles(new) \cap deleted = {}
      /\ new \ deleted \subseteq Visibles(new)
      /\ deleted = {} => Visibles(new) = new
  BY VisiblesFacts DEF QIInv
<1>7. top \subseteq found /\ found \subseteq Ids
  BY <1>4, <1>5, <1>6, NearestSubset
<1>8. /\ query.start \in query.visited
      /\ query.top \subseteq query.visited /\ query.cand \subseteq query.visited
      /\ query.visited \subseteq Reach(query.start)
      /\ query.top \cap deleted = {}
      /\ query.top = {} => query.visited \subseteq deleted
      /\ Wide /\ deleted = {} => query.top = query.visited
      /\ Lossless => \A v \in query.visited \ query.cand : links[v][0] \subseteq query.visited
  BY <1>2 DEF QIInv, Searching
<1>9. /\ query' \in QueryType /\ query'.pc = "search" /\ query'.start = query.start
      /\ query'.top = top /\ query'.cand = cand /\ query'.visited = visited
  <2>1. top \subseteq Ids /\ cand \subseteq Ids /\ visited \subseteq Ids
    BY <1>4, <1>5, <1>7
  <2> HIDE DEF p, W, New, Top, near, top, new, visited, left, found
  <2>2. query' = [query EXCEPT !.top = top, !.cand = cand, !.visited = visited]
    BY <1>3 DEF top, new, left, visited
  <2> QED
    BY <1>2, <2>1, <2>2 DEF QueryType
<1> HIDE DEF p, W, New, Top, new, top, found
<1>10. visited \subseteq Reach(query.start)
  <2>1. node \in Reach(query.start) /\ query.start \in Ids
    BY <1>4, <1>8
  <2>2. links[node][0] \subseteq Reach(query.start)
    BY <2>1, ReachGrows
  <2> QED
    BY <1>5, <1>8, <2>2
<1>11. top = {} => query.top = {} /\ visited \subseteq deleted
  <2>1. top = {} => found = {}
    BY <1>4, <1>7, NearestSome DEF top, Top, found, new
  <2>2. found = {} => query.top = {} /\ new \subseteq deleted
    BY <1>6 DEF found
  <2> QED
    BY <1>8, <2>1, <2>2
<1>12. Wide /\ deleted = {} => top = visited
  <2>1. SUFFICES ASSUME Wide, deleted = {} PROVE top = visited
    OBVIOUS
  <2>2. top = found
    BY <1>4, <1>7, <2>1, NearestAll DEF top, Top, found, new
  <2> QED
    BY <1>6, <1>8, <2>1, <2>2 DEF found
<1>13. top = {} \/ (Wide /\ deleted = {}) =>
          \A v \in visited \ cand : links[v][0] \subseteq visited
  <2>1. SUFFICES ASSUME top = {} \/ (Wide /\ deleted = {}), NEW v \in visited \ cand
                 PROVE  links[v][0] \subseteq visited
    OBVIOUS
  <2>2. \A x \in left : near(node, x)
    <3>1. CASE top = {}
      <4>1. Cardinality(top) < W
        BY <1>4, <3>1, FS_EmptySet
      <4> QED
        BY <4>1 DEF top
    <3>2. CASE Wide /\ deleted = {}
      <4>1. \A x \in left : x \in top /\ x \in Ids
        BY <1>4, <1>5, <1>8, <1>12, <3>2
      <4>2. \A x \in left : ~Closer(p, x, x)
        BY <1>4, <4>1, CloserIrreflexive
      <4> QED
        BY <4>1, <4>2 DEF top
    <3> QED
      BY <2>1, <3>1, <3>2
  <2>3. v \notin left
    BY <2>1, <2>2
  <2>4. Lossless
    BY <1>11, <2>1 DEF Lossless
  <2>5. CASE v = node
    BY <2>5 DEF new, New
  <2>6. CASE v # node
    BY <1>8, <2>1, <2>3, <2>4, <2>6
  <2> QED
    BY <2>5, <2>6
<1>14. top \subseteq visited /\ cand \subseteq visited /\ top \cap deleted = {}
  BY <1>6, <1>7, <1>8 DEF found
<1>15. Reach(query.start)' = Reach(query.start)
  BY <1>1, <1>9 DEF Reach, Closed
<1> HIDE DEF visited, cand
<1>16. Searching'
  <2>1. query'.visited \subseteq Reach(query.start)'
    BY <1>9, <1>10, <1>15
  <2>2. query.start \in visited
    BY <1>8 DEF visited
  <2> QED
    BY <1>1, <1>9, <1>11, <1>12, <1>13, <1>14, <2>1, <2>2 DEF Searching, Lossless, Wide
<1>17. Placed'
  BY <1>9 DEF Placed
<1> QED
  BY <1>1, <1>9, <1>16, <1>17, UnansweredOK

LEMMA AnswerQueryStep == ASSUME TypeOK, QIInv, AnswerQuery PROVE QIInv'
<1>1. UNCHANGED <<links, vec, deleted, hasDeletions>>
  BY DEF AnswerQuery, vars, graph
<1>2. query.pc = "search" /\ query \in QueryType /\ QueryOver(query)
  BY DEF AnswerQuery, QIInv
<1> DEFINE best == Nearest(query.point, query.top, query.k)
<1>3. /\ query.point \in Points /\ query.k \in Nat \ {0} /\ query.top \subseteq Ids
      /\ query.cand \subseteq Ids /\ query.visited \subseteq Ids
  BY <1>2 DEF QueryType
<1>4. best \subseteq query.top
  BY NearestSubset
<1>5. /\ query' \in QueryType /\ query'.pc = "answered" /\ query'.start = query.start
      /\ query'.point = query.point /\ query'.k = query.k /\ query'.top = best
  <2>1. PICK code \in Results :
            query' = [query EXCEPT !.pc = "answered", !.top = best, !.cand = {},
                                   !.visited = {}, !.code = code]
    BY DEF AnswerQuery, Results
  <2>2. best \subseteq Ids
    BY <1>3, <1>4
  <2> HIDE DEF best
  <2> QED
    BY <1>2, <2>1, <2>2 DEF QueryType, Places_Q
<1>6. /\ query.start \in query.visited /\ query.cand \subseteq query.visited
      /\ query.visited \subseteq Reach(query.start)
      /\ query.top \cap deleted = {}
      /\ query.top = {} => query.visited \subseteq deleted
      /\ Wide /\ deleted = {} => query.top = query.visited
      /\ Lossless => \A v \in query.visited \ query.cand : links[v][0] \subseteq query.visited
  BY <1>2 DEF QIInv, Searching
(* A search that has lost nothing ends when there is nothing to expand. *)
<1>7. Lossless => Reach(query.start) = query.visited
  <2>1. SUFFICES ASSUME Lossless PROVE Reach(query.start) \subseteq query.visited
    BY <1>6
  <2>2. query.cand = {}
    <3>1. CASE query.top = {}
      BY <1>2, <3>1 DEF QueryOver
    <3>2. CASE Wide /\ deleted = {}
      <4>1. \A x \in query.cand : x \in query.top /\ Closer(query.point, x, x)
        BY <1>2, <1>6, <3>2 DEF QueryOver
      <4> QED
        BY <1>3, <4>1, CloserIrreflexive
    <3> QED
      BY <2>1, <3>1, <3>2 DEF Lossless
  <2>3. Closed(query.visited)
    BY <1>6, <2>1, <2>2 DEF Closed
  <2> QED
    BY <1>3, <1>6, <2>3 DEF Reach
<1>8. /\ Reach(query.start)' = Reach(query.start)
      /\ Nearest(query.point, Reach(query.start), query.k)'
            = Nearest(query.point, Reach(query.start), query.k)
  BY <1>1, <1>5 DEF Reach, Closed, Nearest, Closer
<1>9. NearestReached'
  <2>1. SUFFICES ASSUME Wide, deleted = {}
                 PROVE  best = Nearest(query.point, Reach(query.start), query.k)
    BY <1>1, <1>5, <1>8 DEF NearestReached, Wide
  <2> QED
    BY <1>6, <1>7, <2>1 DEF Lossless
<1>10. NeverEmptyHanded'
  <2>1. SUFFICES ASSUME best = {} PROVE Reach(query.start) \subseteq deleted
    BY <1>1, <1>5, <1>8 DEF NeverEmptyHanded
  <2>2. query.top = {}
    BY <1>3, <2>1, NearestSome
  <2> QED
    BY <1>6, <1>7, <2>2 DEF Lossless
<1>11. NothingDeletedAnswered'
  BY <1>1, <1>4, <1>5, <1>6 DEF NothingDeletedAnswered
<1>12. Placed' /\ Searching' /\ hasDeletions' \in BOOLEAN /\ FlagCovers'
  BY <1>1, <1>5 DEF Placed, Searching, QIInv, FlagCovers
<1>13. QueryType' = QueryType
  BY DEF QueryType, Results, Places_Q
<1> QED
  BY <1>5, <1>9, <1>10, <1>11, <1>12, <1>13 DEF QIInv

LEMMA ReturnQueryStep == ASSUME TypeOK, QIInv, ReturnQuery PROVE QIInv'
<1>1. UNCHANGED <<links, vec, deleted, hasDeletions>> /\ query' = NoQuery
  BY DEF ReturnQuery, vars, graph
<1>2. NoQuery \in QueryType /\ NoQuery.pc = "idle"
  BY SizesAssumption, PointsAssumption
     DEF NoQuery, QueryType, Results, Places_Q, Levels, None
<1> QED
  BY <1>1, <1>2, UnansweredOK DEF Placed, Searching

------------------------------------------------------------------------------
LEMMA QInitIInv == QInit => QIInv
<1> SUFFICES ASSUME QInit PROVE QIInv
  OBVIOUS
<1>1. query = NoQuery /\ hasDeletions = FALSE /\ deleted = {}
  BY DEF QInit, Init
<1>2. NoQuery \in QueryType /\ NoQuery.pc = "idle"
  BY SizesAssumption, PointsAssumption
     DEF NoQuery, QueryType, Results, Places_Q, Levels, None
<1> QED
  BY <1>1, <1>2 DEF QIInv, Placed, FlagCovers, Searching, NothingDeletedAnswered,
                    NearestReached, NeverEmptyHanded, Answered

LEMMA QNextIInv == TypeOK /\ QIInv /\ [QNext]_qvars => QIInv'
<1> SUFFICES ASSUME TypeOK, QIInv, [QNext]_qvars PROVE QIInv'
  OBVIOUS
<1>1. CASE Write
  BY <1>1, WriteStep
<1>2. CASE QueryStep
  BY <1>2, BeginQueryStep, DescendQueryStep, ExpandQueryStep, AnswerQueryStep,
     ReturnQueryStep DEF QueryStep
<1>3. CASE Stopped /\ UNCHANGED <<hasDeletions, query>>
  <2>1. UNCHANGED qvars
    BY <1>3 DEF Stopped, qvars
  <2> QED
    BY <2>1, StutterStep
<1>4. CASE UNCHANGED qvars
  BY <1>4, StutterStep
<1> QED
  BY <1>1, <1>2, <1>3, <1>4 DEF QNext

LEMMA QInvariance == QSpec => [](TypeOK /\ QIInv)
<1>1. QSpec => []TypeOK
  BY QueriesLeaveTheIndexAlone, TypeCorrect, PTL
<1> QED
  BY <1>1, QInitIInv, QNextIInv, PTL DEF QSpec

(* Every variable of index and query keeps its type beside queries: every  *)
(* id a query computes with names an element (hnswalg.h:1104-1148).        *)
THEOREM QueryTypeCorrect == QSpec => []QTypeOK
<1>1. TypeOK /\ QIInv => QTypeOK
  BY DEF QIInv, QTypeOK, QueryType, Results
<1> QED
  BY <1>1, QInvariance, PTL

(* Whatever was marked before, and although the search looks at the marks  *)
(* only if the flag of the index is set, no query ever answers an element  *)
(* that is marked deleted (hnswalg.h:782, 1140).                           *)
THEOREM DeletedNeverAnswered == QSpec => []NothingDeletedAnswered
<1>1. QIInv => NothingDeletedAnswered
  BY DEF QIInv
<1> QED
  BY <1>1, QInvariance, PTL

(* In a search as wide as the index, with nothing deleted, a query answers *)
(* exactly the k nearest elements of those its links lead to: the early    *)
(* end of the loop loses nothing (hnswalg.h:266-317).                      *)
THEOREM WideSearchExact == QSpec => []NearestReached
<1>1. QIInv => NearestReached
  BY DEF QIInv
<1> QED
  BY <1>1, QInvariance, PTL

(* However narrow the search is and whatever is deleted, a query comes     *)
(* back empty only when its links lead to nothing visible: the search does *)
(* not end before it has found something (hnswalg.h:254-257, 268).         *)
THEOREM SearchFindsSomething == QSpec => []NeverEmptyHanded
<1>1. QIInv => NeverEmptyHanded
  BY DEF QIInv
<1> QED
  BY <1>1, QInvariance, PTL

------------------------------------------------------------------------------
(* What a query may count on: an index that counts an element has an       *)
(* entry point, and each list leads to elements of its layer.              *)

EntryReady ==
    InFlight = {} /\ curElementCount # 0 =>
        enterpoint \in initialised /\ elementLevels[enterpoint] = maxlevel /\ maxlevel \in Levels
ListsLead ==
    Reading => \A i \in initialised, l \in Levels : links[i][l] \subseteq Members(l)

(* A query descends along elements of its layer, and begins its search at  *)
(* the bottom from an element.                                             *)
Tame ==
    /\ query.pc # "crashed"
    /\ query.pc = "descend" => query.obj \in Members(query.layer)
    /\ Reading /\ query.start # None => query.start \in initialised

LEMMA BeginTame ==
    ASSUME TypeOK, EntryReady, BeginQuery PROVE Tame'
<1>1. PICK p \in Queries, k \in Ks :
        LET asked == [NoQuery EXCEPT !.point = p, !.k = k]
        IN  \/ query' = [asked EXCEPT !.pc = "answered", !.code = "queryCannotReturn"]
            \/ /\ curElementCount # 0 /\ enterpoint = None
               /\ query' = [asked EXCEPT !.pc = "crashed"]
            \/ /\ curElementCount # 0
               /\ query' = [asked EXCEPT !.pc = "descend", !.obj = enterpoint,
                                         !.layer = maxlevel]
            \/ /\ curElementCount # 0
               /\ query' = BottomSearch(asked, enterpoint)
  BY DEF BeginQuery
<1>2. UNCHANGED <<initialised, elementLevels>>
  BY DEF BeginQuery, vars, graph
<1>3. curElementCount # 0 =>
        /\ enterpoint # None /\ enterpoint \in initialised
        /\ maxlevel <= elementLevels[enterpoint]
  <2>1. InFlight = {}
    BY DEF BeginQuery, Quiet
  <2>2. \A l \in Levels : l <= l
    BY DEF Levels
  <2> QED
    BY <2>1, <2>2 DEF EntryReady, TypeOK, Ids, None
<1>4. CASE query'.pc = "descend"
  <2>1. /\ curElementCount # 0 /\ query'.obj = enterpoint /\ query'.layer = maxlevel
        /\ query'.start = None
    BY <1>1, <1>4 DEF NoQuery, BottomSearch
  <2> QED
    BY <1>2, <1>3, <1>4, <2>1 DEF Tame, Members
<1>5. CASE query'.pc # "descend"
  <2>1. query'.pc # "crashed" /\ (query'.start # None => query'.start \in initialised)
    BY <1>1, <1>3 DEF NoQuery, BottomSearch
  <2> QED
    BY <1>2, <1>5, <2>1 DEF Tame
<1> QED
  BY <1>4, <1>5

LEMMA DescendTame ==
    ASSUME TypeOK, ListsLead, query \in QueryType, Tame, DescendQuery PROVE Tame'
<1>1. PICK q, obj, layer : q = query /\ obj = q.obj /\ layer = q.layer
  OBVIOUS
<1>2. /\ q \in QueryType /\ q.pc = "descend" /\ layer \in Levels
      /\ obj \in Members(layer) /\ obj \in initialised
      /\ q.start # None => q.start \in initialised
  BY <1>1 DEF DescendQuery, QueryType, Tame, Members, Reading
<1>3. HasList(obj, layer) /\ links[obj][layer] \subseteq Members(layer)
  BY <1>1, <1>2 DEF Members, HasList, ListsLead, Reading
<1>4. (\A l : Members(l)' = Members(l)) /\ initialised' = initialised
  BY DEF DescendQuery, vars, graph, Members
<1>5. \/ \E best \in Members(layer) : query' = [q EXCEPT !.obj = best]
      \/ Below(layer) > 0 /\ query' = [q EXCEPT !.layer = Below(layer)]
      \/ query' = BottomSearch(q, obj)
  BY <1>1, <1>2, <1>3 DEF DescendQuery
<1>6. CASE \E best \in Members(layer) : query' = [q EXCEPT !.obj = best]
  <2>1. PICK best \in Members(layer) : query' = [q EXCEPT !.obj = best]
    BY <1>6
  <2>2. query'.pc = "descend" /\ query'.obj = best /\ query'.layer = layer
        /\ query'.start = q.start
    BY <1>1, <1>2, <2>1 DEF QueryType
  <2> QED
    BY <1>2, <1>4, <2>2 DEF Tame
<1>7. CASE Below(layer) > 0 /\ query' = [q EXCEPT !.layer = Below(layer)]
  <2>1. Below(layer) \in Levels /\ Below(layer) <= layer
    BY <1>2, <1>7, SizesAssumption DEF Below, Levels
  <2>2. obj \in Members(Below(layer))
    BY <1>2, <2>1, MembersBelow
  <2>3. query'.pc = "descend" /\ query'.obj = obj /\ query'.layer = Below(layer)
        /\ query'.start = q.start
    BY <1>1, <1>2, <1>7 DEF QueryType
  <2> QED
    BY <1>2, <1>4, <2>2, <2>3 DEF Tame
<1>8. CASE query' = BottomSearch(q, obj)
  <2>1. query'.pc = "search" /\ query'.start = obj
    BY <1>2, <1>8 DEF BottomSearch, QueryType
  <2> QED
    BY <1>2, <1>4, <2>1 DEF Tame
<1> QED
  BY <1>5, <1>6, <1>7, <1>8

LEMMA QNextTame ==
    ASSUME TypeOK, EntryReady, ListsLead, QIInv, Tame, [QNext]_qvars PROVE Tame'
<1>1. query \in QueryType
  BY DEF QIInv
<1>2. CASE Write
  BY <1>2 DEF Write, Reading, MarkLabel, Tame
<1>3. CASE ExpandQuery \/ AnswerQuery \/ ReturnQuery
  <2>1. CASE ExpandQuery \/ AnswerQuery
    <3>1. /\ query'.pc \in {"search", "answered"} /\ query'.start = query.start
          /\ initialised' = initialised /\ Reading
      BY <1>1, <2>1 DEF ExpandQuery, AnswerQuery, QueryType, vars, graph, Reading
    <3> QED
      BY <3>1 DEF Tame
  <2>2. CASE ReturnQuery
    BY <2>2 DEF ReturnQuery, NoQuery, Tame
  <2> QED
    BY <1>3, <2>1, <2>2
<1>4. CASE UNCHANGED <<vars, query>>
  BY <1>4 DEF Tame, Members, vars, graph, Reading
<1> QED
  BY <1>1, <1>2, <1>3, <1>4, BeginTame, DescendTame DEF QNext, QueryStep, Stopped, qvars

(* No call is in flight while a query runs: this is the read lock. *)
Undisturbed == Reading => InFlight = {}

LEMMA QNextUndisturbed == ASSUME Undisturbed, [QNext]_qvars PROVE Undisturbed'
<1>1. CASE Write
  BY <1>1 DEF Write, MarkLabel, Reading, Undisturbed
<1>2. CASE BeginQuery
  BY <1>2 DEF BeginQuery, Quiet, InFlight, vars, calls, Undisturbed
<1>3. CASE DescendQuery \/ ExpandQuery \/ AnswerQuery \/ ReturnQuery
  <2>1. Reading /\ UNCHANGED pc
    BY <1>3 DEF DescendQuery, ExpandQuery, AnswerQuery, ReturnQuery, Reading, vars, calls
  <2> QED
    BY <2>1 DEF InFlight, Undisturbed
<1>4. CASE UNCHANGED <<vars, query>>
  BY <1>4 DEF Reading, InFlight, vars, calls, Undisturbed
<1> QED
  BY <1>1, <1>2, <1>3, <1>4 DEF QNext, QueryStep, Stopped, qvars

LEMMA UndisturbedInvariance == QSpec => []Undisturbed
<1>1. QInit => Undisturbed
  BY DEF QInit, NoQuery, Reading, Undisturbed
<1> QED
  BY <1>1, QNextUndisturbed, PTL DEF QSpec

------------------------------------------------------------------------------
(* Queries of an index that was only inserted into.                        *)

(* An element whose link lock is free has been inserted. *)
LEMMA FinishedInserted == ASSUME IInv, JInv PROVE Finished \subseteq Inserted
<1> SUFFICES ASSUME NEW i \in Finished PROVE i \in Inserted
  OBVIOUS
<1>1. i \in initialised /\ linkLocks[i] = Free
  BY DEF Finished
<1>2. PICK c \in Calls : loc[c].elem = i /\ pc[c] \in Filled \cup {"done"}
  BY <1>1 DEF JInv, MemoryFilled
<1>3. pc[c] = "done"
  BY <1>1, <1>2, CallsType DEF JInv, OwnLocks, AtWork
<1>4. i # None
  BY <1>1 DEF IInv, TypeOK, Ids, None
<1> QED
  BY <1>2, <1>3, <1>4 DEF Inserted, JInv, NoLateException, Fresh

LEMMA InsertionsReady ==
    ASSUME IInv, JInv, Given PROVE EntryReady /\ ListsLead
<1>1. ListsLead
  BY DEF ListsLead, JInv, Graph, LinksOK
<1> SUFFICES ASSUME InFlight = {}, curElementCount # 0
             PROVE  /\ enterpoint \in initialised /\ elementLevels[enterpoint] = maxlevel
                    /\ maxlevel \in Levels
  BY <1>1 DEF EntryReady
<1>2. \A c \in Calls : pc[c] \in {"ready", "done"}
  BY DEF InFlight
<1>3. PICK c \in Calls : loc[c].elem = 0
  <2>1. curElementCount \in 0 .. MaxElements /\ MaxElements \in Nat
    BY SizesAssumption DEF IInv, TypeOK
  <2>2. 0 \in 0 .. curElementCount - 1
    BY <2>1
  <2> QED
    BY <2>2 DEF Given
<1>4. pc[c] = "done" /\ ~loc[c].isUpdate
  BY <1>2, <1>3 DEF IInv, CallsOK, CallOK, JInv, Fresh, None
<1>5. 0 \in Inserted
  BY <1>3, <1>4 DEF JInv, NoLateException, Inserted, None
<1>6. ~EntryProvisional
  BY <1>2 DEF EntryProvisional
<1>7. elementLevels[0] <= maxlevel /\ elementLevels[0] \in Levels
  BY <1>5, <1>6, SizesAssumption DEF IInv, EntryPointOnTop, TypeOK, Ids
<1>8. maxlevel # None /\ maxlevel \in Levels
  BY <1>7 DEF IInv, TypeOK, Levels, None
<1> QED
  BY <1>6, <1>8, InsertedFinished DEF IInv, EntryPointOnTop, Finished

LEMMA InsertionsTame ==
    ASSUME InsertionsOnly PROVE QSpec => [](IInv /\ JInv /\ Given /\ QIInv /\ Tame)
<1>1. QInit => Tame
  BY DEF QInit, Tame, NoQuery, Reading
<1>2. QSpec => [](IInv /\ JInv /\ Given)
  BY QueriesLeaveTheIndexAlone, Invariance, InsertionInvariance, GivenInvariance, PTL
<1>3. IInv /\ JInv /\ Given /\ QIInv /\ Tame /\ [QNext]_qvars => Tame'
  BY QNextTame, InsertionsReady DEF IInv
<1> QED
  BY <1>1, <1>2, <1>3, QInvariance, PTL DEF QSpec

(* No query of an index that was filled by insertions, in whatever order   *)
(* they ran beside each other, reads an entry point that is not there or a *)
(* list that does not exist (hnswalg.h:1108-1136).                         *)
THEOREM QueriesStayInTheGraph == ASSUME InsertionsOnly PROVE QSpec => []NoWildRead
<1>1. Tame => NoWildRead
  BY DEF Tame, NoWildRead
<1> QED
  BY <1>1, InsertionsTame, PTL

------------------------------------------------------------------------------
(* Queries of an index whose insertions and updates took turns.            *)

LEMMA TurnsReady ==
    ASSUME IInv, TInv, Undisturbed PROVE EntryReady /\ ListsLead
<1>1. ASSUME Reading, NEW i \in initialised, NEW l \in Levels PROVE Proper(i, l)
  <2>1. \A c \in Calls : pc[c] \in {"ready", "done"}
    BY <1>1 DEF InFlight, Undisturbed
  <2> QED
    BY <2>1 DEF TInv, LinksInTurn, Rewriting
<1>2. ListsLead
  BY <1>1 DEF ListsLead, Proper
<1> SUFFICES ASSUME InFlight = {}, curElementCount # 0
             PROVE  /\ enterpoint \in initialised /\ elementLevels[enterpoint] = maxlevel
                    /\ maxlevel \in Levels
  BY <1>2 DEF EntryReady
<1>3. \A c \in Calls : pc[c] \in {"ready", "done"}
  BY DEF InFlight
<1>4. 0 \in Inserted
  <2>1. 0 \in Ids /\ 0 < curElementCount
    BY SizesAssumption DEF Ids, IInv, TypeOK
  <2> QED
    BY <1>3, <2>1 DEF TInv, Allotted, Unwritten, Linking
<1>5. ~EntryProvisional
  BY <1>3 DEF EntryProvisional
<1>6. elementLevels[0] <= maxlevel /\ elementLevels[0] \in Levels
  <2>1. 0 \in Ids
    BY SizesAssumption DEF Ids
  <2>2. elementLevels[0] <= maxlevel
    BY <1>4, <1>5 DEF IInv, EntryPointOnTop
  <2>3. elementLevels[0] \in Levels
    BY <2>1 DEF IInv, TypeOK
  <2> QED
    BY <2>2, <2>3
<1>7. maxlevel # None /\ maxlevel \in Levels
  BY <1>6 DEF IInv, TypeOK, Levels, None
<1> QED
  BY <1>5, <1>7, InsertedIn DEF IInv, EntryPointOnTop

(* No query of an index whose insertions and updates took turns reads an   *)
(* entry point that is not there or a list that does not exist: an update  *)
(* leaves no link behind that leads out of a layer (hnswalg.h:1108-1136).  *)
THEOREM QueriesStayInTheGraphInTurn == ASSUME InTurn PROVE QSpec => []NoWildRead
<1>1. QInit => Tame
  BY DEF QInit, Tame, NoQuery, Reading
<1>2. QSpec => [](IInv /\ TInv)
  BY QueriesLeaveTheIndexAlone, TurnInvariance, PTL
<1>3. IInv /\ TInv /\ QIInv /\ Undisturbed /\ Tame /\ [QNext]_qvars => Tame'
  BY QNextTame, TurnsReady DEF IInv
<1>4. Tame => NoWildRead
  BY DEF Tame, NoWildRead
<1> QED
  BY <1>1, <1>2, <1>3, <1>4, QInvariance, UndisturbedInvariance, PTL DEF QSpec

------------------------------------------------------------------------------
(* Every element that was inserted is found, until a list is pruned.       *)

(* An element is about to join a bottom list that is full: the heuristic   *)
(* will leave it out, or another element.                                  *)
Pruning ==
    \E c \in Calls : /\ pc[c] = "connect" /\ loc[c].layer = 0
                     /\ \E n \in loc[c].selected : ~HasRoom(links[n][0], 0)

(* A call that has written its own bottom list has chosen elements that    *)
(* are inserted, and is in the lists of those it is done with.             *)
Mutual(c) ==
    LET m == loc[c]
    IN  /\ pc[c] = "connect" /\ m.layer = 0 =>
              \A n \in links[m.elem][0] :
                  n \in Inserted /\ (n \in m.selected \/ m.elem \in links[n][0])
        /\ pc[c] = "finish" /\ m.maxlevelcopy # None =>
              \A n \in links[m.elem][0] : n \in Inserted /\ m.elem \in links[n][0]

(* The bottom links between inserted elements lead from each to all.       *)
Connected ==
    \A R \in SUBSET Ids :
        /\ R \cap Inserted # {}
        /\ \A i \in R \cap Inserted : links[i][0] \cap Inserted \subseteq R
        => Inserted \subseteq R

CInv == Connected /\ \A c \in Calls : Mutual(c)

(* Only the end of an insertion inserts. *)
LEMMA StepInserts ==
    ASSUME IInv, JInv, NEW c \in Calls, Step(c)
    PROVE  \/ Inserted' = Inserted
           \/ /\ Finish(c) /\ Inserted' = Inserted \cup {loc[c].elem}
<1>1. Still(c) /\ result[c] # "ok" /\ ~loc[c].isUpdate
  <2>1. pc[c] # "done"
    BY DEF Step, AddItem, Reserve, LockForInsert, LockElement, LockGlobal, ReadEntry,
           FirstElement, Finish, Descend, Expand, SelectNeighbors, TearOwnList, WriteOwnList,
           Connect, LockForUpdate, ReadEntryUpdate, OneHop, TwoHop, Relink
  <2> QED
    BY <2>1, StepMoves DEF IInv, CallsOK, CallOK, JInv, Fresh
<1>2. CASE Finish(c)
  <2>1. result'[c] = "ok" /\ loc'[c].elem = loc[c].elem /\ loc'[c].isUpdate = loc[c].isUpdate
    BY <1>2, ReturnAt DEF Finish
  <2>2. Inserted' = Inserted \cup {loc[c].elem}
    BY <1>1, <2>1 DEF Inserted, Still
  <2> QED
    BY <1>2, <2>2
<1>3. CASE ~Finish(c)
  <2>1. \/ UNCHANGED result
        \/ \E code \in {"full", "exception"} : Return(c, code)
    BY <1>3 DEF Step, AddItem, Reserve, LockForInsert, LockElement, LockGlobal, ReadEntry,
         FirstElement, Descend, Expand, SelectNeighbors, TearOwnList, WriteOwnList,
         Connect, LockForUpdate, ReadEntryUpdate, OneHop, TwoHop, Relink, NextLayer,
         NextUpdateLayer, Repair, Crash, Throw
  <2>2. result'[c] # "ok"
    BY <1>1, <2>1, ReturnAt
  <2> QED
    BY <1>1, <2>2 DEF Inserted, Still
<1> QED
  BY <1>2, <1>3

(* What an insertion does to a neighbour n. *)
Connects(c, m, n, joined) ==
    /\ m = loc[c] /\ m \in Locals /\ pc[c] = "connect"
    /\ m.elem \in Ids /\ m.layer \in Levels
    /\ n \in m.selected /\ n \in Finished /\ n \in Ids
    /\ n # m.elem /\ m.elem \notin links[n][m.layer]
    /\ links[n][m.layer] \subseteq Ids \ {n}
    /\ HasRoom(links[n][m.layer], m.layer) => joined = links[n][m.layer] \cup {m.elem}
    /\ links' = [links EXCEPT ![n][m.layer] = joined]
    /\ IF Rest(m.selected, n) # {}
       THEN Goto(c, "connect", [m EXCEPT !.selected = Rest(m.selected, n)])
       ELSE NextLayer(c, m.next)
    /\ UNCHANGED result

LEMMA ConnectTakes ==
    ASSUME IInv, JInv, NEW c \in Calls, Connect(c)
    PROVE  \E m, n, joined : Connects(c, m, n, joined)
<1>1. PICK m, layer, e : m = loc[c] /\ layer = m.layer /\ e = m.elem
  OBVIOUS
<1>2. /\ pc[c] = "connect" /\ pc[c] \in Gathering /\ ~m.isUpdate /\ m \in Locals
      /\ layer \in Levels /\ e \in Ids
  BY <1>1, LinkingElement DEF Connect, Gathering
<1>3. /\ m.selected \subseteq Members(layer) \cap Finished
      /\ \A n \in m.selected : e \notin links[n][layer]
      /\ e \notin Finished
  BY <1>1, <1>2, LinkingElement DEF JInv, Graph, SearchOK, UnlinkedBelow
<1>4. ASSUME NEW n \in m.selected
      PROVE  /\ n \in Ids /\ n # e /\ ~(layer > elementLevels[n])
             /\ ~(Cardinality(links[n][layer]) > MaxLinks(layer))
             /\ links[n][layer] \subseteq Ids \ {n}
  <2>1. n \in initialised /\ n \in Ids /\ n # e /\ layer <= elementLevels[n]
        /\ elementLevels[n] \in Nat /\ layer \in Nat
    BY <1>2, <1>3, SizesAssumption DEF Members, Locals, IInv, TypeOK, Levels
  <2>2. /\ Cardinality(links[n][layer]) <= MaxLinks(layer)
        /\ links[n][layer] \subseteq Members(layer) \ {n}
    BY <1>2, <2>1 DEF JInv, Graph, LinksOK
  <2>3. Cardinality(links[n][layer]) \in Nat /\ MaxLinks(layer) \in Nat
    BY <1>2, <2>1, LinksType, IdSetsFinite, SizesAssumption DEF MaxLinks
  <2> QED
    BY <2>1, <2>2, <2>3 DEF IInv, TypeOK, Members
<1>5. PICK n \in m.selected : \E joined :
        /\ HasRoom(links[n][layer], layer) => joined = links[n][layer] \cup {e}
        /\ links' = [links EXCEPT ![n][layer] = joined]
        /\ IF Rest(m.selected, n) # {}
           THEN Goto(c, "connect", [m EXCEPT !.selected = Rest(m.selected, n)])
           ELSE NextLayer(c, m.next)
        /\ UNCHANGED result
  BY <1>1, <1>2, <1>4 DEF Connect
<1>6. PICK joined :
        /\ HasRoom(links[n][layer], layer) => joined = links[n][layer] \cup {e}
        /\ links' = [links EXCEPT ![n][layer] = joined]
        /\ IF Rest(m.selected, n) # {}
           THEN Goto(c, "connect", [m EXCEPT !.selected = Rest(m.selected, n)])
           ELSE NextLayer(c, m.next)
        /\ UNCHANGED result
  BY <1>5
<1>7. Connects(c, m, n, joined)
  BY <1>1, <1>2, <1>3, <1>4, <1>6 DEF Connects
<1> QED
  BY <1>7

(* While there is room, the bottom lists of inserted elements only grow.   *)
LEMMA BottomGrows ==
    ASSUME ~Pruning, IInv, JInv, NEW c \in Calls, Step(c), NEW i \in Inserted
    PROVE  links[i][0] \subseteq links'[i][0]
<1>1. 0 \in Levels /\ i \in Finished /\ i \in Ids
  BY InsertedFinished, SizesAssumption DEF Levels, Finished, IInv, TypeOK
<1>2. CASE UNCHANGED links
  BY <1>2
<1>3. CASE ReadEntry(c)
  <2>1. links' = [links EXCEPT ![loc[c].elem] = [l \in Levels |-> {}]] /\ pc[c] = "readEntry"
    BY <1>3 DEF ReadEntry
  <2>2. i # loc[c].elem
    BY <1>1, <2>1, OwnElement DEF AtWork
  <2> QED
    BY <1>1, <2>1, <2>2, LinksType
<1>4. CASE WriteOwnList(c)
  <2>1. /\ \/ UNCHANGED links
           \/ \E S : links' = [links EXCEPT ![loc[c].elem][loc[c].layer] = S]
        /\ pc[c] = "writeOwnList"
    BY <1>4 DEF WriteOwnList
  <2>2. i # loc[c].elem
    BY <1>1, <2>1, OwnElement DEF AtWork, Filled
  <2> QED
    BY <1>1, <2>1, <2>2, LinksType
<1>5. CASE Connect(c)
  <2>1. PICK m, n, joined : Connects(c, m, n, joined)
    BY <1>5, ConnectTakes
  <2>2. CASE i = n /\ m.layer = 0
    <3>1. HasRoom(links[n][m.layer], m.layer)
      BY <2>1, <2>2 DEF Connects, Pruning
    <3> QED
      BY <1>1, <2>1, <2>2, <3>1, LinksType DEF Connects
  <2>3. CASE i # n \/ m.layer # 0
    BY <1>1, <2>1, <2>3, LinksType DEF Connects
  <2> QED
    BY <2>2, <2>3
<1> QED
  BY <1>2, <1>3, <1>4, <1>5, NoUpdateSteps
     DEF Step, AddItem, Reserve, LockForInsert, LockElement, LockGlobal, FirstElement,
         Finish, Descend, Expand, SelectNeighbors, LockForUpdate, ReadEntryUpdate, OneHop,
         TwoHop, Relink, TearOwnList, NextLayer, Crash, graph

(* The others keep what they know: their own lists are theirs, those of    *)
(* their neighbours only grow.                                             *)
LEMMA MutualStays ==
    ASSUME ~Pruning, IInv, JInv, CInv, NEW c \in Calls, Step(c), NEW d \in Calls \ {c}
    PROVE  Mutual(d)'
<1>1. pc'[d] = pc[d] /\ loc'[d] = loc[d]
  BY StepMoves DEF Still
<1>2. pc[d] \in {"connect", "finish"} => links'[loc[d].elem][0] = links[loc[d].elem][0]
  BY OwnListStays, SizesAssumption DEF AtWork, Filled, Levels
<1>3. Inserted \subseteq Inserted' /\ \A n \in Inserted : links[n][0] \subseteq links'[n][0]
  BY StepInserts, BottomGrows
<1> QED
  BY <1>1, <1>2, <1>3 DEF CInv, Mutual

LEMMA WriteOwnListMutual ==
    ASSUME IInv, JInv, NEW c \in Calls, Step(c), WriteOwnList(c) PROVE Mutual(c)'
<1>1. PICK m, e : m = loc[c] /\ e = m.elem
  OBVIOUS
<1>2. /\ pc[c] = "writeOwnList" /\ ~m.isUpdate /\ e \in Ids /\ m.layer \in Levels
      /\ m.selected \subseteq Inserted
  BY <1>1, LinkingElement, FinishedInserted DEF WriteOwnList, Gathering, JInv, Graph, SearchOK
<1>3. CASE pc'[c] # "connect"
  BY <1>3 DEF WriteOwnList, Goto, Throw, Return, IInv, TypeOK, Mutual
<1>4. CASE pc'[c] = "connect"
  <2>1. links' = [links EXCEPT ![e][m.layer] = m.selected] /\ HalfApart(m, loc'[c])
    BY <1>1, <1>2, <1>4, InsertionWrites
  <2>3. m.layer = 0 => links'[e][0] = m.selected
    BY <1>2, <2>1, LinksType
  <2>4. Inserted \subseteq Inserted'
    BY StepInserts
  <2> QED
    BY <1>1, <1>2, <1>4, <2>1, <2>3, <2>4 DEF Mutual, HalfApart
<1> QED
  BY <1>3, <1>4

LEMMA ConnectMutual ==
    ASSUME ~Pruning, IInv, JInv, CInv, NEW c \in Calls, Step(c), Connect(c) PROVE Mutual(c)'
<1>1. PICK m, n, joined : Connects(c, m, n, joined)
  BY ConnectTakes
<1>2. PICK e : e = m.elem
  OBVIOUS
<1>3. CASE m.layer # 0
  <2>1. CASE Goto(c, "connect", [m EXCEPT !.selected = Rest(m.selected, n)])
    <3>1. PICK k : k = [m EXCEPT !.selected = Rest(m.selected, n)]
      OBVIOUS
    <3>2. k.layer = m.layer
      BY <1>1, <3>1 DEF Connects, Locals
    <3>3. pc'[c] = "connect" /\ loc'[c] = k
      BY <1>1, <2>1, <3>1, GotoAt DEF Connects
    <3> QED
      BY <1>3, <3>2, <3>3 DEF Mutual
  <2>2. CASE NextLayer(c, m.next)
    <3>1. pc'[c] = "search"
      BY <1>1, <1>3, <2>2, GotoAt DEF Connects, NextLayer
    <3> QED
      BY <3>1 DEF Mutual
  <2> QED
    BY <1>1, <2>1, <2>2 DEF Connects
<1>4. CASE m.layer = 0
  <2>1. \A i \in links[e][0] : i \in Inserted /\ (i \in m.selected \/ e \in links[i][0])
    BY <1>1, <1>2, <1>4 DEF Connects, CInv, Mutual
  <2>2. links'[e][0] = links[e][0]
    BY <1>1, <1>2, LinksType DEF Connects
  <2>3. e \in links'[n][0]
    <3>1. HasRoom(links[n][0], 0)
      BY <1>1, <1>4 DEF Connects, Pruning
    <3> QED
      BY <1>1, <1>2, <1>4, <3>1, LinksType DEF Connects
  <2>4. \A i \in Inserted : links[i][0] \subseteq links'[i][0]
    BY BottomGrows
  <2>5. Inserted \subseteq Inserted'
    BY StepInserts
  <2>6. \A i \in links'[e][0] :
          i \in Inserted' /\ (i \in Rest(m.selected, n) \/ e \in links'[i][0])
    BY <2>1, <2>2, <2>3, <2>4, <2>5 DEF Rest
  <2>7. CASE Rest(m.selected, n) # {}
    <3>1. PICK k : k = [m EXCEPT !.selected = Rest(m.selected, n)]
      OBVIOUS
    <3>2. k.elem = e /\ k.selected = Rest(m.selected, n)
      BY <1>1, <1>2, <3>1 DEF Connects, Locals
    <3>3. pc'[c] = "connect" /\ loc'[c] = k
      BY <1>1, <2>7, <3>1, GotoAt DEF Connects
    <3> QED
      BY <2>6, <3>2, <3>3 DEF Mutual
  <2>8. CASE Rest(m.selected, n) = {}
    <3>1. pc'[c] = "finish" /\ loc'[c] = m
      BY <1>1, <1>4, <2>8, GotoAt DEF Connects, NextLayer
    <3> QED
      BY <1>2, <2>6, <2>8, <3>1 DEF Mutual
  <2> QED
    BY <2>7, <2>8
<1> QED
  BY <1>3, <1>4

(* Only the last two steps know of mutual links. *)
LEMMA MutualElsewhere ==
    ASSUME IInv, JInv, NEW c \in Calls, Step(c), ~WriteOwnList(c), ~Connect(c)
    PROVE  Mutual(c)'
<1>1. CASE FirstElement(c)
  <2>1. pc'[c] = "finish" /\ loc'[c] = loc[c] /\ loc[c].maxlevelcopy = None
    BY <1>1, GotoAt DEF FirstElement, IInv, CallsOK, CallOK
  <2> QED
    BY <2>1 DEF Mutual
<1>2. CASE SelectNeighbors(c)
  <2>1. pc'[c] \in {"writeOwnList", "crashed"} \/ (pc'[c] = "finish" /\ loc'[c] = loc[c])
    <3>1. ~loc[c].isUpdate
      BY DEF JInv, Fresh
    <3> QED
      BY <1>2, <3>1 DEF SelectNeighbors, Goto, Crash, IInv, TypeOK
  <2>2. pc[c] = "search" /\ UNCHANGED links
    BY <1>2 DEF SelectNeighbors, graph, NextLayer, Crash
  <2>3. links[loc[c].elem][0] = {}
    <3>1. 0 \in Levels /\ loc[c].layer \in Levels /\ 0 <= loc[c].layer
      BY <2>2, LinkingElement, SizesAssumption DEF Gathering, Levels
    <3> QED
      BY <2>2, <3>1 DEF JInv, Graph, UnlinkedBelow, Unlinked
  <2> QED
    BY <2>1, <2>2, <2>3 DEF Mutual
<1>3. CASE ~FirstElement(c) /\ ~SelectNeighbors(c)
  <2>1. \/ \E code : Return(c, code)
        \/ \E p \in Places \ {"connect", "finish"} : \E m : Goto(c, p, m)
    BY <1>3, NoUpdateSteps
       DEF Step, AddItem, Reserve, LockForInsert, LockElement, LockGlobal, ReadEntry, Finish,
           Descend, Expand, LockForUpdate, ReadEntryUpdate, OneHop, TwoHop, Relink,
           TearOwnList, Crash, Throw, Places
  <2>2. pc'[c] \notin {"connect", "finish"}
    BY <2>1 DEF Return, Goto, IInv, TypeOK
  <2> QED
    BY <2>2 DEF Mutual
<1> QED
  BY <1>1, <1>2, <1>3

LEMMA ConnectedStays ==
    ASSUME ~Pruning, IInv, JInv, CInv, NEW c \in Calls, Step(c),
           pc[c] = "finish" /\ loc[c].maxlevelcopy # None => links[loc[c].elem][0] # {}
    PROVE  Connected'
<1>1. ASSUME NEW R \in SUBSET Ids, R \cap Inserted' # {},
             \A i \in R \cap Inserted' : links'[i][0] \cap Inserted' \subseteq R
      PROVE  Inserted' \subseteq R
  <2>1. \A i \in R \cap Inserted : links[i][0] \cap Inserted \subseteq R
    BY <1>1, BottomGrows, StepInserts
  <2>2. R \cap Inserted # {} => Inserted \subseteq R
    BY <2>1 DEF CInv, Connected
  <2>3. CASE Inserted' = Inserted
    BY <1>1, <2>2, <2>3
  <2>4. CASE Finish(c) /\ Inserted' = Inserted \cup {loc[c].elem}
    <3>1. PICK e : e = loc[c].elem
      OBVIOUS
    <3>2. UNCHANGED links /\ pc[c] = "finish" /\ ~loc[c].isUpdate
      BY <2>4 DEF Finish, graph, JInv, Fresh
    <3>3. CASE loc[c].maxlevelcopy = None
      <4>1. Inserted = {}
        BY <3>2, <3>3 DEF IInv, FirstAlone, Provisional
      <4> QED
        BY <1>1, <2>4, <4>1
    <3>4. CASE loc[c].maxlevelcopy # None
      <4>1. links[e][0] # {} /\ \A n \in links[e][0] : n \in Inserted /\ e \in links[n][0]
        BY <3>1, <3>2, <3>4 DEF CInv, Mutual
      <4>2. R \cap Inserted # {}
        <5>1. CASE e \in R
          BY <1>1, <2>4, <3>1, <3>2, <4>1, <5>1
        <5>2. CASE e \notin R
          BY <1>1, <2>4, <3>1, <5>2
        <5> QED
          BY <5>1, <5>2
      <4>3. e \in R
        BY <1>1, <2>2, <2>4, <3>1, <3>2, <4>1, <4>2
      <4> QED
        BY <2>2, <2>4, <3>1, <4>2, <4>3
    <3> QED
      BY <3>3, <3>4
  <2> QED
    BY <2>3, <2>4, StepInserts
<1> QED
  BY <1>1 DEF Connected

LEMMA ConnectedSame == ASSUME CInv, UNCHANGED <<links, pc, loc, result>> PROVE CInv'
<1>1. Inserted' = Inserted
  BY DEF Inserted
<1> QED
  BY <1>1 DEF CInv, Connected, Mutual

LEMMA NextConnected ==
    ASSUME ~Pruning, DeleteLabels = {}, IInv, JInv, KInv, CInv, [Next]_vars
    PROVE  CInv'
<1>1. CASE UNCHANGED vars
  BY <1>1, ConnectedSame DEF vars, graph, calls
<1>2. ASSUME NEW c \in Calls, Step(c) PROVE CInv'
  <2>1. Mutual(c)'
    BY <1>2, WriteOwnListMutual, ConnectMutual, MutualElsewhere
  <2>2. \A d \in Calls \ {c} : Mutual(d)'
    BY <1>2, MutualStays
  <2> QED
    BY <1>2, <2>1, <2>2, ConnectedStays DEF CInv, KInv, SomethingFound
<1> QED
  BY <1>1, <1>2 DEF Next, Stopped

LEMMA ConnectedInvariance ==
    ASSUME InsertionsOnly, DeleteLabels = {}
    PROVE  Spec /\ []~Pruning => [](IInv /\ JInv /\ CInv)
<1>1. Init => CInv
  BY DEF Init, CInv, Connected, Mutual, Inserted
<1>2. ~Pruning /\ IInv /\ JInv /\ KInv /\ CInv /\ [Next]_vars => CInv'
  BY NextConnected
<1> QED
  BY <1>1, <1>2, FoundInvariance, PTL DEF Spec

(* Once no insertion is in flight, the links lead from every element to    *)
(* every other and to nothing else.                                        *)
LEMMA ReachInserted ==
    ASSUME IInv, JInv, Connected, InFlight = {}, NEW from \in initialised
    PROVE  Reach(from) = Inserted
<1>1. initialised \subseteq Inserted
  <2> SUFFICES ASSUME NEW i \in initialised PROVE i \in Inserted
    OBVIOUS
  <2>1. \A c \in Calls : pc[c] \in {"ready", "done"}
    BY DEF InFlight
  <2>2. i \in Ids /\ linkLocks[i] \in Calls \cup {Free}
    BY DEF IInv, TypeOK
  <2>3. linkLocks[i] = Free
    BY <2>1, <2>2 DEF JInv, OwnLocks, AtWork, Filled
  <2> QED
    BY <2>3, FinishedInserted DEF Finished
<1>2. Inserted \subseteq initialised /\ Inserted \subseteq Ids
  BY InsertedFinished DEF Finished, IInv, TypeOK
<1>3. Closed(Inserted)
  BY <1>1, <1>2, SizesAssumption DEF Closed, JInv, Graph, LinksOK, Members, Levels
<1>4. Reach(from) \subseteq Inserted
  BY <1>1, <1>2, <1>3 DEF Reach
<1>5. ASSUME NEW x \in Inserted, NEW S \in SUBSET Ids, from \in S, Closed(S)
      PROVE  x \in S
  <2>1. S \cap Inserted # {} /\ \A i \in S \cap Inserted : links[i][0] \cap Inserted \subseteq S
    BY <1>1, <1>5 DEF Closed
  <2> QED
    BY <1>5, <2>1 DEF Connected
<1> QED
  BY <1>2, <1>4, <1>5 DEF Reach

LEMMA AllFound ==
    ASSUME IInv, JInv, CInv, QIInv, Tame, Undisturbed PROVE InsertionsFound
<1> SUFFICES ASSUME Answered PROVE Reach(query.start) = Inserted
  BY DEF InsertionsFound, QIInv, NearestReached
<1>1. Reading /\ query.start \in initialised
  BY DEF Answered, Reading, Tame
<1> QED
  BY <1>1, ReachInserted DEF Undisturbed, CInv

(* In an index that is filled by insertions, in whatever order they run    *)
(* beside each other, a search as wide as the index answers the k nearest  *)
(* of all its elements, whichever element its descent ends at, up to the   *)
(* step at which a bottom list is full for the next element                *)
(* (hnswalg.h:1072-1085, 454-470).                                         *)
THEOREM ParallelInsertionsFound ==
    ASSUME InsertionsOnly, DeleteLabels = {}
    PROVE  QSpec /\ []~Pruning => []InsertionsFound
<1>1. QSpec /\ []~Pruning => [](IInv /\ JInv /\ CInv)
  BY QueriesLeaveTheIndexAlone, ConnectedInvariance, PTL
<1> QED
  BY <1>1, AllFound, InsertionsTame, QInvariance, UndisturbedInvariance, PTL

------------------------------------------------------------------------------
(* An insertion, alone, among elements of which any are deleted.           *)

(* A search that has found nothing has met nothing but deleted elements,   *)
(* and all that the links of those it is done with lead to.                *)
Met(c) ==
    LET m == loc[c]
    IN  /\ m.obj \in m.visited
        /\ m.top = {} => /\ m.visited \subseteq deleted
                         /\ \A v \in m.visited \ m.cand : links[v][0] \subseteq m.visited

CutOff(c) == Reach(loc[c].obj) \subseteq deleted /\ loc[c].ep \notin Reach(loc[c].obj)

StaysLinked(c) ==
    LET m == loc[c]
    IN  /\ pc[c] = "search" /\ m.layer = 0 => Met(c)
        /\ pc[c] = "writeOwnList" => m.selected # {}
        /\ pc[c] = "connect" /\ m.layer = 0 => links[m.elem][0] # {}
        /\ pc[c] = "finish" /\ m.maxlevelcopy # None => links[m.elem][0] # {} \/ CutOff(c)

DInv == OneBusy /\ \A c \in Calls : StaysLinked(c)

LEMMA SearchAnew ==
    ASSUME JInv', NEW c \in Calls, NEW m \in Locals, NEW from, NEW layer,
           pc'[c] = "search", loc'[c] = SearchFrom(m, from, layer),
           deleted \ {m.elem} \subseteq deleted'
    PROVE  StaysLinked(c)'
<1>1. PICK k : k = SearchFrom(m, from, layer)
  OBVIOUS
<1>2. /\ k.obj = from /\ k.top = {from} \ deleted /\ k.cand = {from} /\ k.visited = {from}
      /\ k.elem = m.elem
  BY <1>1 DEF SearchFrom, Locals
<1>3. loc'[c] = k
  BY <1>1
<1>4. k.cand \subseteq initialised' \ {k.elem}
  BY <1>3 DEF JInv, Graph, SearchOK, Members
<1>5. from # m.elem
  BY <1>2, <1>4
<1>6. Met(c)'
  BY <1>2, <1>3, <1>5 DEF Met
<1> QED
  BY <1>6 DEF StaysLinked

LEMMA ExpandLinked ==
    ASSUME IInv, JInv, NEW c \in Calls, Step(c), Expand(c), StaysLinked(c)
    PROVE  StaysLinked(c)'
<1>1. /\ pc[c] = "search" /\ loc[c] \in Locals /\ loc[c].cand \subseteq Members(loc[c].layer)
      /\ loc[c].layer \in Levels
  BY DEF Expand, JInv, Graph, SearchOK, IInv, TypeOK, Locals
<1>2. \A node \in loc[c].cand : HasList(node, loc[c].layer)
  BY <1>1 DEF Members, HasList
<1>3. PICK node, new, top, m :
        /\ node \in loc[c].cand
        /\ new = links[node][loc[c].layer] \ loc[c].visited
        /\ top = Nearest(Point(c), loc[c].top \cup (new \ deleted), EfConstruction)
        /\ m = [loc[c] EXCEPT
                   !.top = top,
                   !.cand = {x \in (@ \ {node}) \cup new :
                                \/ Cardinality(top) < EfConstruction
                                \/ \E r \in top : ~Closer(Point(c), r, x)},
                   !.visited = @ \cup new]
        /\ Goto(c, "search", m)
        /\ UNCHANGED <<store, graph, entry, locks, result>>
  BY <1>2 DEF Expand
<1>4. Still(c) /\ pc'[c] = "search" /\ loc'[c] = m /\ UNCHANGED <<deleted, links>>
  BY <1>1, <1>3, GotoAt DEF graph
<1>5. /\ m.top = top /\ m.visited = loc[c].visited \cup new /\ m.obj = loc[c].obj
      /\ m.layer = loc[c].layer
      /\ m.cand = {x \in (loc[c].cand \ {node}) \cup new :
                      \/ Cardinality(top) < EfConstruction
                      \/ \E r \in top : ~Closer(Point(c), r, x)}
  BY <1>1, <1>3 DEF Locals
<1> SUFFICES ASSUME m.layer = 0 PROVE Met(c)'
  BY <1>4 DEF StaysLinked
<1>7. Met(c)
  BY <1>1, <1>5 DEF StaysLinked
<1>8. ASSUME top = {}
      PROVE  /\ m.visited \subseteq deleted
             /\ \A v \in m.visited \ m.cand : links[v][0] \subseteq m.visited
  <2>1. loc[c].top = {} /\ new \ deleted = {}
    <3>1. links[node][loc[c].layer] \subseteq Ids
      BY <1>1, <1>3, LinksType DEF Locals
    <3>2. loc[c].top \cup (new \ deleted) \in SUBSET Ids
      BY <1>1, <1>3, <3>1 DEF Locals
    <3>3. loc[c].top \cup (new \ deleted) = {}
      BY <1>3, <1>8, <3>2, NearestSome, WorkloadType, SizesAssumption DEF IInv
    <3> QED
      BY <3>3
  <2>2. Cardinality(top) < EfConstruction
    BY <1>8, FS_EmptySet, SizesAssumption
  <2>3. m.cand = (loc[c].cand \ {node}) \cup new
    BY <1>5, <2>2
  <2>4. new = links[node][0] \ loc[c].visited
    BY <1>3, <1>5
  <2> QED
    BY <1>5, <1>7, <2>1, <2>3, <2>4 DEF Met
<1> QED
  BY <1>4, <1>5, <1>7, <1>8 DEF Met

(* A search that ends with nothing at all, not even the entry point, has   *)
(* met everything its links lead to.                                       *)
LEMMA NothingMet ==
    ASSUME IInv, JInv, NEW c \in Calls, pc[c] = "search", SearchOver(c), Met(c),
           Candidates(c) = {}
    PROVE  CutOff(c)
<1>1. /\ loc[c] \in Locals /\ ~loc[c].isUpdate /\ loc[c].ep \in Finished
      /\ loc[c].top \subseteq Ids /\ Point(c) \in Points
  BY LocalsType, WorkloadType DEF JInv, Fresh, Graph, SearchOK, Locals
<1>2. loc[c].ep \notin deleted
  <2>1. loc[c].top \cup {loc[c].ep} \in SUBSET Ids
    BY <1>1 DEF Finished, IInv, TypeOK
  <2> QED
    BY <1>1, <2>1, NearestSome, SizesAssumption DEF Candidates, IInv
<1>3. loc[c].top = {} /\ loc[c].cand = {}
  BY <1>1, <1>2 DEF Candidates, SearchOver
<1>4. /\ loc[c].visited \in SUBSET Ids /\ Closed(loc[c].visited)
      /\ loc[c].obj \in loc[c].visited /\ loc[c].visited \subseteq deleted
  BY <1>1, <1>3 DEF Met, Closed, Locals
<1>5. Reach(loc[c].obj) \subseteq loc[c].visited
  BY <1>4 DEF Reach
<1> QED
  BY <1>2, <1>4, <1>5 DEF CutOff

LEMMA SelectNeighborsLinked ==
    ASSUME IInv, JInv, NEW c \in Calls, SelectNeighbors(c), StaysLinked(c)
    PROVE  StaysLinked(c)'
<1>1. /\ pc[c] = "search" /\ SearchOver(c) /\ loc[c] \in Locals /\ ~loc[c].isUpdate
      /\ loc[c].layer \in Levels
  BY LocalsType DEF SelectNeighbors, JInv, Fresh, Locals
<1>2. PICK chosen : chosen = Heuristic(Point(c), Candidates(c), M)
  OBVIOUS
<1>3. loc[c].layer = 0 /\ chosen = {} => CutOff(c)
  <2>1. Candidates(c) \in SUBSET Ids
    <3>1. loc[c].ep \in Ids /\ loc[c].top \in SUBSET Ids /\ Point(c) \in Points
      BY <1>1, WorkloadType DEF JInv, Graph, SearchOK, Finished, IInv, TypeOK, Locals
    <3> QED
      BY <1>1, <3>1, NearestSubset, SizesAssumption DEF Candidates, IInv
  <2>2. chosen = {} => Candidates(c) = {}
    BY <1>2, <2>1, HeuristicSome, WorkloadType, SizesAssumption DEF IInv
  <2> QED
    BY <1>1, <2>2, NothingMet DEF StaysLinked
<1>4. CASE chosen # {}
  <2>1. PICK next, m :
          /\ m = [loc[c] EXCEPT !.selected = chosen, !.next = next,
                                !.top = {}, !.cand = {}, !.visited = {}]
          /\ Goto(c, "writeOwnList", m) /\ UNCHANGED result
    BY <1>1, <1>2, <1>4 DEF SelectNeighbors
  <2>2. pc'[c] = "writeOwnList" /\ loc'[c] = m /\ m.selected = chosen
    BY <1>1, <2>1, GotoAt DEF Locals
  <2> QED
    BY <1>4, <2>2 DEF StaysLinked
<1>5. CASE chosen = {}
  <2>1. CASE Crash(c)
    <3>1. pc'[c] = "crashed"
      BY <2>1 DEF Crash, Goto, IInv, TypeOK
    <3> QED
      BY <3>1 DEF StaysLinked
  <2>2. CASE /\ loc[c].layer = 0 /\ Goto(c, "finish", loc[c])
             /\ UNCHANGED <<store, graph, entry, locks, result>>
    <3>1. pc'[c] = "finish" /\ loc'[c] = loc[c] /\ UNCHANGED <<links, deleted>>
      BY <2>2, GotoAt DEF graph
    <3>2. CutOff(c)'
      BY <1>3, <1>5, <2>2, <3>1 DEF CutOff, Reach, Closed
    <3> QED
      BY <3>1, <3>2 DEF StaysLinked
  <2> QED
    BY <1>1, <1>2, <1>5, <2>1, <2>2 DEF SelectNeighbors
<1> QED
  BY <1>4, <1>5

LEMMA WriteOwnListLinked ==
    ASSUME IInv, JInv, NEW c \in Calls, WriteOwnList(c), StaysLinked(c)
    PROVE  StaysLinked(c)'
<1>1. PICK m, layer, e : m = loc[c] /\ layer = m.layer /\ e = m.elem
  OBVIOUS
<1>2. /\ pc[c] = "writeOwnList" /\ m \in Locals /\ ~m.isUpdate /\ layer \in Levels
      /\ e \in Ids /\ m.selected # {}
      /\ m.selected \subseteq Members(layer) /\ Unlinked(e, layer)
  <2>1. /\ pc[c] = "writeOwnList" /\ m \in Locals /\ ~m.isUpdate /\ layer \in Levels
        /\ e \in Ids /\ m.selected # {}
    BY <1>1, LocalsType DEF WriteOwnList, JInv, Fresh, StaysLinked, Locals, Midway
  <2>2. layer <= layer
    BY <2>1 DEF Levels
  <2> QED
    BY <1>1, <2>1, <2>2 DEF JInv, Graph, SearchOK, UnlinkedBelow
<1>3. links[e][layer] = {} /\ \A n \in m.selected : layer <= elementLevels[n]
  BY <1>2 DEF Unlinked, Members
<1>4. /\ links' = [links EXCEPT ![e][layer] = m.selected] /\ UNCHANGED result
      /\ \E k : Goto(c, "connect", k) /\ HalfApart(m, k)
  BY <1>1, <1>2, <1>3, OwnListWritten
<1>5. pc'[c] = "connect" /\ HalfApart(m, loc'[c])
  BY <1>4, GotoAt
<1>6. links'[e][layer] # {}
  BY <1>2, <1>4, LinksType DEF IInv, TypeOK
<1> QED
  BY <1>1, <1>5, <1>6 DEF StaysLinked, HalfApart

LEMMA ConnectLinked ==
    ASSUME IInv, IInv', JInv, JInv', NEW c \in Calls, Connect(c), StaysLinked(c)
    PROVE  StaysLinked(c)'
<1>1. PICK m, n, joined : Connects(c, m, n, joined)
  BY ConnectTakes
<1>2. deleted' = deleted
  BY DEF Connect
<1>3. m.layer = 0 => links'[m.elem][0] # {}
  BY <1>1, LinksType DEF Connects, StaysLinked
<1>4. CASE Rest(m.selected, n) # {}
  <2>1. PICK k : k = [m EXCEPT !.selected = Rest(m.selected, n)]
    OBVIOUS
  <2>2. k.elem = m.elem /\ k.layer = m.layer
    BY <1>1, <2>1 DEF Connects, Locals
  <2>3. pc'[c] = "connect" /\ loc'[c] = k
    BY <1>1, <1>4, <2>1, GotoAt DEF Connects
  <2> QED
    BY <1>3, <2>2, <2>3 DEF StaysLinked
<1>5. CASE Rest(m.selected, n) = {} /\ m.layer = 0
  <2>1. pc'[c] = "finish" /\ loc'[c] = m
    BY <1>1, <1>5, GotoAt DEF Connects, NextLayer
  <2> QED
    BY <1>3, <1>5, <2>1 DEF StaysLinked
<1>6. CASE Rest(m.selected, n) = {} /\ m.layer # 0
  <2>1. pc'[c] = "search" /\ loc'[c] = SearchFrom(m, m.next, Below(m.layer)) /\ m \in Locals
    BY <1>1, <1>6, GotoAt DEF Connects, NextLayer
  <2> QED
    BY <1>2, <2>1, SearchAnew
<1> QED
  BY <1>4, <1>5, <1>6

LEMMA ReadEntryLinked ==
    ASSUME IInv, IInv', JInv, JInv', NEW c \in Calls, ReadEntry(c)
    PROVE  StaysLinked(c)'
<1>1. PICK read : read = [loc[c] EXCEPT !.ep = enterpoint, !.obj = enterpoint]
  OBVIOUS
<1>2. read \in Locals /\ read.elem = loc[c].elem
  <2>1. loc[c] \in Locals /\ enterpoint \in Ids \cup {None}
    BY DEF IInv, TypeOK
  <2> QED
    BY <1>1, <2>1 DEF Locals
<1>3. deleted' = deleted \ {loc[c].elem} /\ UNCHANGED result
  BY DEF ReadEntry
<1>4. CASE \E p \in {"firstElement", "descend"} : \E m : Goto(c, p, m)
  <2>1. pc'[c] \in {"firstElement", "descend"}
    BY <1>3, <1>4, GotoAt
  <2> QED
    BY <2>1 DEF StaysLinked
<1>5. CASE Goto(c, "search", SearchFrom(read, enterpoint, loc[c].maxlevelcopy))
  <2>1. pc'[c] = "search" /\ loc'[c] = SearchFrom(read, enterpoint, loc[c].maxlevelcopy)
    BY <1>3, <1>5, GotoAt
  <2> QED
    BY <1>2, <1>3, <2>1, SearchAnew
<1> QED
  BY <1>1, <1>4, <1>5 DEF ReadEntry

LEMMA DescendLinked ==
    ASSUME IInv, IInv', JInv, JInv', NEW c \in Calls, Descend(c)
    PROVE  StaysLinked(c)'
<1>1. HasList(loc[c].obj, loc[c].layer) /\ loc[c] \in Locals
  BY DEF Descend, JInv, Graph, SearchOK, Members, HasList, IInv, TypeOK
<1>2. UNCHANGED <<deleted, result>>
      /\ \/ \E m : Goto(c, "descend", m)
         \/ Goto(c, "search", SearchFrom(loc[c], loc[c].obj, loc[c].level))
  BY <1>1 DEF Descend, graph
<1>3. CASE \E m : Goto(c, "descend", m)
  <2>1. pc'[c] = "descend"
    BY <1>2, <1>3, GotoAt
  <2> QED
    BY <2>1 DEF StaysLinked
<1>4. CASE Goto(c, "search", SearchFrom(loc[c], loc[c].obj, loc[c].level))
  <2>1. pc'[c] = "search" /\ loc'[c] = SearchFrom(loc[c], loc[c].obj, loc[c].level)
    BY <1>2, <1>4, GotoAt
  <2> QED
    BY <1>1, <1>2, <2>1, SearchAnew
<1> QED
  BY <1>2, <1>3, <1>4

LEMMA EarlyLinked ==
    ASSUME IInv, NEW c \in Calls,
           \/ AddItem(c) \/ Reserve(c) \/ LockForInsert(c) \/ LockElement(c)
           \/ LockGlobal(c) \/ FirstElement(c) \/ Finish(c)
    PROVE  StaysLinked(c)'
<1>1. CASE FirstElement(c)
  <2>1. pc'[c] = "finish" /\ loc'[c] = loc[c] /\ loc[c].maxlevelcopy = None
    BY <1>1, GotoAt DEF FirstElement, IInv, CallsOK, CallOK
  <2> QED
    BY <2>1 DEF StaysLinked
<1>2. CASE \/ \E code : Return(c, code)
           \/ \E p \in {"reserve", "lockForInsert", "lockForUpdate", "lockElement", "lockGlobal",
                        "readEntry"} : \E m : Goto(c, p, m) /\ UNCHANGED result
  <2>1. pc'[c] \notin {"search", "writeOwnList", "connect", "finish"}
    BY <1>2, ReturnAt, GotoAt
  <2> QED
    BY <2>1 DEF StaysLinked
<1> QED
  BY <1>1, <1>2 DEF AddItem, Reserve, Throw, LockForInsert, LockElement, LockGlobal, Finish

LEMMA StepLinked ==
    ASSUME IInv, IInv', JInv, JInv', NEW c \in Calls, Step(c), StaysLinked(c)
    PROVE  StaysLinked(c)'
<1>1. ~(\/ LockForUpdate(c) \/ ReadEntryUpdate(c) \/ OneHop(c) \/ TwoHop(c) \/ Relink(c)
        \/ TearOwnList(c))
  BY NoUpdateSteps DEF LockForUpdate, ReadEntryUpdate, OneHop, TwoHop, Relink, TearOwnList
<1> QED
  BY <1>1, EarlyLinked, ReadEntryLinked, DescendLinked, ExpandLinked, SelectNeighborsLinked,
     WriteOwnListLinked, ConnectLinked DEF Step

(* Only one call runs. *)
LEMMA OneBusyStays ==
    ASSUME MaxParallel = 1, IInv, JInv, OneBusy, NEW c \in Calls, Step(c)
    PROVE  OneBusy' /\ \A d \in Calls \ {c} : ~Busy(d) /\ ~Busy(d)'
<1>1. \A d \in Calls \ {c} : ~Busy(d)
  <2>1. CASE AddItem(c)
    BY <2>1, NobodyElse
  <2>2. CASE ~AddItem(c)
    <3>1. Busy(c)
      BY <2>2 DEF Step, Reserve, LockForInsert, LockElement, LockGlobal, ReadEntry,
             FirstElement, Finish, Descend, Expand, SelectNeighbors, TearOwnList,
             WriteOwnList, Connect, LockForUpdate, ReadEntryUpdate, OneHop, TwoHop, Relink, Busy
    <3> QED
      BY <3>1 DEF OneBusy
  <2> QED
    BY <2>1, <2>2
<1>2. \A d \in Calls \ {c} : ~Busy(d)'
  BY <1>1, StepMoves DEF Still, Busy
<1> QED
  BY <1>1, <1>2 DEF OneBusy

LEMMA LinkedSame ==
    ASSUME DInv, UNCHANGED <<links, deleted, pc, loc, result>> PROVE DInv'
<1>1. \A from : Reach(from)' = Reach(from)
  BY DEF Reach, Closed
<1> QED
  BY <1>1 DEF DInv, OneBusy, Busy, StaysLinked, Met, CutOff

LEMMA NextLinked ==
    ASSUME MaxParallel = 1, IInv, IInv', JInv, JInv', DInv, [Next]_vars PROVE DInv'
<1>1. CASE UNCHANGED vars
  BY <1>1, LinkedSame DEF vars, graph, calls
<1>2. ASSUME NEW c \in Calls, Step(c) PROVE DInv'
  <2>1. OneBusy' /\ \A d \in Calls \ {c} : ~Busy(d)'
    BY <1>2, OneBusyStays DEF DInv
  <2>2. StaysLinked(c)'
    BY <1>2, <2>1, StepLinked DEF DInv
  <2>3. \A d \in Calls \ {c} : StaysLinked(d)'
    BY <2>1 DEF Busy, StaysLinked
  <2> QED
    BY <2>1, <2>2, <2>3 DEF DInv
<1>3. ASSUME NEW label \in DeleteLabels, MarkDelete(label) PROVE DInv'
  <2>1. UNCHANGED <<links, pc, loc, result>> /\ \A c \in Calls : pc[c] \in {"ready", "done"}
    BY <1>3 DEF MarkDelete, calls, InFlight
  <2> QED
    BY <2>1 DEF DInv, OneBusy, Busy, StaysLinked
<1> QED
  BY <1>1, <1>2, <1>3 DEF Next, Stopped

LEMMA LinkedInvariance ==
    ASSUME InsertionsOnly, MaxParallel = 1 PROVE Spec => [](IInv /\ JInv /\ DInv)
<1>1. Init => DInv
  BY DEF Init, DInv, OneBusy, Busy, StaysLinked
<1>2. IInv /\ IInv' /\ JInv /\ JInv' /\ DInv /\ [Next]_vars => DInv'
  BY NextLinked
<1> QED
  BY <1>1, <1>2, Invariance, InsertionInvariance, PTL DEF Spec

(* Whatever was deleted and pruned before, an insertion that runs alone    *)
(* leaves its element without a neighbour only where its bottom search was *)
(* cut off among deleted elements (hnswalg.h:205-222, 1072-1085).          *)
THEOREM AloneLinksUnlessCutOff ==
    ASSUME InsertionsOnly, MaxParallel = 1 PROVE Spec => []LinksUnlessCutOff
<1>1. DInv => LinksUnlessCutOff
  BY DEF DInv, StaysLinked, CutOff, LinksUnlessCutOff
<1> QED
  BY <1>1, LinkedInvariance, PTL
==============================================================================
