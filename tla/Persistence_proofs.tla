-------------------------- MODULE Persistence_proofs --------------------------
(***************************************************************************)
(* Proofs about Persistence: for every index that insertions, updates and  *)
(* deletions can have made, in any interleaving, every moment at which the *)
(* process can end, and any number of saves and loads.                     *)
(***************************************************************************)
EXTENDS Persistence, SearchKnn_proofs

------------------------------------------------------------------------------
(* What the file relies on: all there is of an index belongs to the        *)
(* elements it counts, and no list lies above the level of its element.    *)

(* Every id among the local variables of a call is that of an element. *)
Knows(m) ==
    /\ {m.elem, m.ep, m.obj, m.next} \subseteq Elements \cup {None}
    /\ m.top \cup m.cand \cup m.visited \cup m.selected \subseteq Elements
    /\ m.hops \cup m.sCand \cup m.sNeigh \subseteq Elements

(* A call works at layers its element has; what it relinks it has read     *)
(* before, at the same layer.                                              *)
InLayers(p, m) ==
    /\ p \in Midway => m.level <= elementLevels[m.elem]
    /\ p \in Midway \ {"descend"} => m.layer <= m.level
    /\ p = "twoHop" => \A n \in m.sNeigh \ m.hops : m.layer <= elementLevels[n]
    /\ p = "relink" => \A n \in m.sNeigh : m.layer <= elementLevels[n]

Filed(lists) ==
    \A i \in Ids, l \in Levels :
        /\ lists[i][l] \subseteq Elements
        /\ lists[i][l] # {} => i \in Elements /\ l <= elementLevels[i]

LinksFiled == Filed(links) /\ Filed(stale)

(* Until its memory is set up, an element has a call that will do it. *)
Coming == {"lockForInsert", "lockElement", "lockGlobal", "readEntry"}
Owner(c, i) ==
    /\ ~loc[c].isUpdate /\ loc[c].elem = i
    /\ pc[c] \in Coming \/ i \in initialised

Owned == \A i \in Elements : \E c \in Calls : Owner(c, i)

(* Nothing was written outside the elements; no level is drawn twice. *)
Blank == \A i \in Ids \ Elements : vec[i] = Garbage /\ elementLevels[i] = 0
Undrawn ==
    \A c \in Calls : pc[c] \in {"lockForInsert", "lockElement"}
                        => elementLevels[loc[c].elem] = 0

(* Every element has exactly one label. *)
OneLabelEach ==
    /\ \A i \in Elements : \E label \in DOMAIN labelLookup : labelLookup[label] = i
    /\ \A l1, l2 \in DOMAIN labelLookup : labelLookup[l1] = labelLookup[l2] => l1 = l2

FInv ==
    /\ deleted \cup initialised \subseteq Elements
    /\ enterpoint \in Elements \cup {None}
    /\ Owned /\ Blank /\ Undrawn /\ OneLabelEach /\ LinksFiled
    /\ \A c \in Calls : Knows(loc[c]) /\ InLayers(pc[c], loc[c])

------------------------------------------------------------------------------
(* Facts the steps share.                                                  *)

LEMMA KnownType ==
    ASSUME IInv
    PROVE  /\ curElementCount \in Nat /\ Elements \subseteq Ids /\ None \notin Elements
           /\ \A i : i \in Elements <=> i \in Nat /\ i < curElementCount
BY SizesAssumption DEF IInv, TypeOK, Elements, Ids, None

LEMMA LevelsType ==
    ASSUME IInv, NEW i \in Ids PROVE elementLevels[i] \in Nat /\ elementLevels[i] \in Levels
BY SizesAssumption DEF IInv, TypeOK, Levels

(* The elements a call can have in hand. *)
LEMMA InHand ==
    ASSUME IInv, FInv, NEW c \in Calls
    PROVE  /\ loc[c] \in Locals /\ Knows(loc[c]) /\ InLayers(pc[c], loc[c])
           /\ loc[c].layer \in Nat /\ loc[c].level \in Nat
           /\ loc[c].elem # None => loc[c].elem \in Elements
           /\ pc[c] \in Midway \cup Coming \cup {"finish"} => loc[c].elem \in Elements
<1>1. loc[c] \in Locals /\ CallOK(c)
  BY DEF IInv, TypeOK, CallsOK
<1>2. Knows(loc[c]) /\ InLayers(pc[c], loc[c])
  BY DEF FInv
<1>3. loc[c].elem # None => loc[c].elem \in Elements
  BY <1>2 DEF Knows
<1>4. loc[c].layer \in Nat /\ loc[c].level \in Nat
  BY <1>1, SizesAssumption DEF Locals, Levels
<1> QED
  BY <1>1, <1>2, <1>3, <1>4 DEF CallOK, Midway, Coming

LEMMA LinksKnown ==
    ASSUME IInv, FInv, NEW i \in Elements, NEW l \in Levels
    PROVE  links[i][l] \subseteq Elements /\ stale[i][l] \subseteq Elements
BY KnownType DEF FInv, LinksFiled, Filed

LEMMA OneWritten ==
    ASSUME NEW lists \in [Ids -> [Levels -> SUBSET Ids]], Filed(lists),
           NEW n \in Elements, n \in Ids, NEW l \in Levels, l <= elementLevels[n],
           NEW S \in SUBSET Elements
    PROVE  Filed([lists EXCEPT ![n][l] = S])
<1>1. \A i \in Ids, k \in Levels :
        [lists EXCEPT ![n][l] = S][i][k] = IF i = n /\ k = l THEN S ELSE lists[i][k]
  OBVIOUS
<1> QED
  BY <1>1 DEF Filed

(* One list is written, of an element of the layer. *)
LEMMA ListWritten ==
    ASSUME IInv, FInv, NEW n \in Elements, NEW l \in Levels, l <= elementLevels[n],
           NEW S \in SUBSET Elements,
           links' = links \/ links' = [links EXCEPT ![n][l] = S],
           stale' = stale \/ \E list : stale' = StaleAfter(n, l, list),
           UNCHANGED <<curElementCount, elementLevels>>
    PROVE  LinksFiled' /\ links' \in [Ids -> [Levels -> SUBSET Ids]]
           /\ stale' \in [Ids -> [Levels -> SUBSET Ids]]
<1>1. /\ n \in Ids /\ Elements \subseteq Ids /\ links \in [Ids -> [Levels -> SUBSET Ids]]
      /\ stale \in [Ids -> [Levels -> SUBSET Ids]]
  BY KnownType, LinksType
<1>2. Filed(links) /\ Filed(stale)
  BY DEF FInv, LinksFiled
<1>3. PICK T \in SUBSET Elements : stale' = stale \/ stale' = [stale EXCEPT ![n][l] = T]
  <2>1. CASE stale' = stale
    BY <2>1
  <2>2. ASSUME NEW list, stale' = StaleAfter(n, l, list)
        PROVE  \E T \in SUBSET Elements : stale' = [stale EXCEPT ![n][l] = T]
    <3>1. links[n][l] \cup stale[n][l] \in SUBSET Elements /\ stale[n][l] \in SUBSET Elements
      BY LinksKnown
    <3>2. CASE Cardinality(list) < Cardinality(links[n][l])
      BY <1>1, <2>2, <3>1, <3>2 DEF StaleAfter
    <3>3. CASE ~(Cardinality(list) < Cardinality(links[n][l]))
      BY <1>1, <2>2, <3>1, <3>3 DEF StaleAfter
    <3> QED
      BY <3>2, <3>3
  <2> QED
    BY <2>1, <2>2
<1>4. Filed([links EXCEPT ![n][l] = S]) /\ Filed([stale EXCEPT ![n][l] = T])
  BY <1>1, <1>2, OneWritten
<1>5. Filed(links') /\ Filed(stale')
  BY <1>2, <1>3, <1>4
<1>6. LinksFiled'
  BY <1>5 DEF LinksFiled, Filed, Elements
<1>7. [links EXCEPT ![n][l] = S] \in [Ids -> [Levels -> SUBSET Ids]]
      /\ [stale EXCEPT ![n][l] = T] \in [Ids -> [Levels -> SUBSET Ids]]
  BY <1>1
<1> QED
  BY <1>1, <1>3, <1>6, <1>7

LEMMA LinksStayFiled ==
    ASSUME FInv, UNCHANGED <<curElementCount, elementLevels, links, stale>> PROVE LinksFiled'
BY DEF FInv, LinksFiled, Filed, Elements

(* A call goes on; the elements stay the same. *)
LEMMA FiledMove ==
    ASSUME IInv, FInv, NEW c \in Calls, Still(c),
           UNCHANGED <<curElementCount, labelLookup, elementLevels>>,
           initialised \subseteq initialised', deleted' \cup initialised' \subseteq Elements,
           \A i \in Ids \ Elements : vec'[i] = vec[i],
           enterpoint' \in Elements \cup {None},
           loc[c].elem # None => /\ loc'[c].elem = loc[c].elem
                                 /\ loc'[c].isUpdate = loc[c].isUpdate,
           pc[c] \in Coming => pc'[c] \in Coming \/ loc[c].elem \in initialised',
           pc'[c] \in {"lockForInsert", "lockElement"} => elementLevels[loc'[c].elem] = 0,
           Knows(loc'[c]), InLayers(pc'[c], loc'[c]), LinksFiled'
    PROVE  FInv'
<1>1. Elements' = Elements
  BY DEF Elements
<1>2. (deleted \cup initialised \subseteq Elements)' /\ enterpoint' \in Elements' \cup {None}
  BY <1>1 DEF FInv
<1>3. Owned'
  <2> SUFFICES ASSUME NEW i \in Elements PROVE \E d \in Calls : Owner(d, i)'
    BY <1>1 DEF Owned
  <2>1. PICK d \in Calls : Owner(d, i)
    BY DEF FInv, Owned
  <2>2. i # None
    BY KnownType
  <2>3. Owner(d, i)'
    BY <2>1, <2>2 DEF Owner, Still
  <2> QED
    BY <2>3
<1>4. Blank' /\ OneLabelEach'
  BY <1>1 DEF FInv, Blank, OneLabelEach
<1>5. Undrawn'
  BY DEF FInv, Undrawn, Still
<1>6. ASSUME NEW d \in Calls PROVE (Knows(loc[d]) /\ InLayers(pc[d], loc[d]))'
  BY <1>1 DEF FInv, Still, Knows, InLayers
<1> QED
  BY <1>2, <1>3, <1>4, <1>5, <1>6 DEF FInv

(* The same for a call in the middle of a search or a repair. *)
LEMMA FiledWalk ==
    ASSUME IInv, FInv, NEW c \in Calls, pc[c] \in Midway,
           NEW p \in Midway \cup {"finish", "crashed"}, NEW m, Goto(c, p, m),
           UNCHANGED result, OnlyLinks, Kept(m, loc[c]), Knows(m), InLayers(p, m),
           LinksFiled'
    PROVE  FInv'
<1>1. Still(c) /\ pc'[c] = p /\ loc'[c] = m
  BY GotoAt
<1>2. enterpoint' \in Elements \cup {None} /\ p \notin Coming /\ pc[c] \notin Coming
  BY DEF FInv, OnlyLinks, entry, Midway, Coming
<1> QED
  BY <1>1, <1>2, FiledMove DEF OnlyLinks, Kept, store, Coming, FInv

(* A call returns or throws. *)
LEMMA FiledReturn ==
    ASSUME IInv, FInv, NEW c \in Calls, pc[c] \notin Coming, NEW code, Return(c, code),
           UNCHANGED <<curElementCount, labelLookup, initialised, elementLevels, vec, deleted>>,
           enterpoint' \in Elements \cup {None}, LinksFiled'
    PROVE  FInv'
<1> DEFINE m == [NoLocals EXCEPT !.label = loc[c].label, !.elem = loc[c].elem,
                                 !.isUpdate = loc[c].isUpdate]
<1>1. Still(c) /\ pc'[c] = "done" /\ loc'[c] = m
  BY ReturnAt DEF Return, IInv, TypeOK
<1>2. m.elem = loc[c].elem /\ m.isUpdate = loc[c].isUpdate
  BY DEF NoLocals
<1>3. Knows(m)
  BY InHand DEF Knows, NoLocals
<1>4. InLayers("done", m)
  BY DEF InLayers, Midway
<1> HIDE DEF m
<1> QED
  BY <1>1, <1>2, <1>3, <1>4, FiledMove DEF FInv

LEMMA FiledCrash ==
    ASSUME IInv, FInv, NEW c \in Calls, pc[c] \in Midway, Crash(c) PROVE FInv'
<1>1. OnlyLinks /\ UNCHANGED result
  BY LinksType DEF OnlyLinks, Crash, graph
<1>2. LinksFiled'
  BY LinksStayFiled DEF Crash, graph, store
<1>3. InLayers("crashed", loc[c])
  BY DEF InLayers, Midway
<1> QED
  BY <1>1, <1>2, <1>3, FiledWalk, InHand DEF Crash, Kept

------------------------------------------------------------------------------
(* The steps of searches and repairs.                                      *)

LEMMA SearchFromFiled ==
    ASSUME IInv, FInv, NEW l \in Locals, Knows(l), NEW from \in Elements, NEW layer,
           layer <= l.level, l.level <= elementLevels[l.elem]
    PROVE  LET m == SearchFrom(l, from, layer)
           IN  Kept(m, l) /\ Knows(m) /\ InLayers("search", m)
<1> DEFINE m == SearchFrom(l, from, layer)
<1>1. /\ m.elem = l.elem /\ m.isUpdate = l.isUpdate /\ m.level = l.level
      /\ m.maxlevelcopy = l.maxlevelcopy /\ m.ep = l.ep /\ m.next = l.next
      /\ m.hops = l.hops /\ m.sCand = l.sCand /\ m.sNeigh = l.sNeigh
      /\ m.obj = from /\ m.layer = layer /\ m.top = {from} \ deleted /\ m.cand = {from}
      /\ m.visited = {from} /\ m.selected = {}
  BY DEF SearchFrom, Locals
<1> HIDE DEF m
<1>2. Kept(m, l) /\ Knows(m)
  BY <1>1 DEF Kept, Knows
<1>3. InLayers("search", m)
  BY <1>1 DEF InLayers, Midway
<1> QED
  BY <1>2, <1>3 DEF m

LEMMA FiledNextLayer ==
    ASSUME IInv, FInv, NEW c \in Calls, pc[c] \in {"search", "connect"}, NEW from \in Elements,
           NextLayer(c, from), OnlyLinks, UNCHANGED result, LinksFiled'
    PROVE  FInv'
<1>1. /\ loc[c] \in Locals /\ Knows(loc[c]) /\ pc[c] \in Midway
      /\ loc[c].layer <= loc[c].level /\ loc[c].level <= elementLevels[loc[c].elem]
      /\ loc[c].layer \in Levels /\ loc[c].level \in Nat
  BY InHand DEF InLayers, Midway, Locals
<1>2. CASE loc[c].layer = 0
  <2>1. Goto(c, "finish", loc[c])
    BY <1>2 DEF NextLayer
  <2>2. InLayers("finish", loc[c])
    BY DEF InLayers, Midway
  <2> QED
    BY <1>1, <2>1, <2>2, FiledWalk DEF Kept
<1>3. CASE loc[c].layer # 0
  <2>1. PICK m : m = SearchFrom(loc[c], from, Below(loc[c].layer))
    OBVIOUS
  <2>2. Below(loc[c].layer) \in Levels /\ Below(loc[c].layer) <= loc[c].level
    BY <1>1, <1>3, SizesAssumption DEF Levels, Below
  <2>3. Kept(m, loc[c]) /\ Knows(m) /\ InLayers("search", m)
    BY <1>1, <2>1, <2>2, SearchFromFiled
  <2>4. Goto(c, "search", m)
    BY <1>3, <2>1 DEF NextLayer
  <2> QED
    BY <1>1, <2>3, <2>4, FiledWalk DEF Midway
<1> QED
  BY <1>2, <1>3

LEMMA DescendFiled == ASSUME IInv, FInv, NEW c \in Calls, Descend(c) PROVE FInv'
<1>1. /\ loc[c] \in Locals /\ Knows(loc[c]) /\ pc[c] = "descend" /\ pc[c] \in Midway
      /\ loc[c].obj \in Elements /\ loc[c].layer \in Levels /\ loc[c].level \in Levels
      /\ loc[c].level <= elementLevels[loc[c].elem] /\ loc[c].level \in Nat
  <2>1. pc[c] = "descend" /\ loc[c].obj # None
    BY DEF Descend, IInv, CallsOK, CallOK
  <2> QED
    BY <2>1, InHand DEF InLayers, Midway, Locals, Knows
<1>2. {loc[c].obj} \cup links[loc[c].obj][loc[c].layer] \subseteq Elements
  BY <1>1, LinksKnown
<1>3. CASE Crash(c)
  BY <1>1, <1>3, FiledCrash
<1>4. ASSUME UNCHANGED <<store, graph, entry, locks, result>>, NEW best \in Elements,
             \/ Goto(c, "descend", [loc[c] EXCEPT !.obj = best])
             \/ Goto(c, "descend", [loc[c] EXCEPT !.layer = Below(loc[c].layer)])
             \/ Goto(c, "search", SearchFrom(loc[c], loc[c].obj, loc[c].level))
      PROVE  FInv'
  <2>0. OnlyLinks /\ UNCHANGED result /\ LinksFiled'
    BY <1>4, LinksType, LinksStayFiled DEF graph, store, OnlyLinks
  <2>1. ASSUME NEW m, \/ m = [loc[c] EXCEPT !.obj = best]
                      \/ m = [loc[c] EXCEPT !.layer = Below(loc[c].layer)]
        PROVE  Kept(m, loc[c]) /\ Knows(m) /\ InLayers("descend", m)
    <3>1. CASE m = [loc[c] EXCEPT !.obj = best]
      BY <1>1, <3>1 DEF Locals, Kept, Knows, InLayers
    <3>2. CASE m = [loc[c] EXCEPT !.layer = Below(loc[c].layer)]
      BY <1>1, <3>2 DEF Locals, Kept, Knows, InLayers
    <3> QED
      BY <2>1, <3>1, <3>2
  <2>2. CASE \E m : /\ Goto(c, "descend", m)
                    /\ \/ m = [loc[c] EXCEPT !.obj = best]
                       \/ m = [loc[c] EXCEPT !.layer = Below(loc[c].layer)]
    BY <1>1, <2>0, <2>1, <2>2, FiledWalk DEF Midway
  <2>3. CASE Goto(c, "search", SearchFrom(loc[c], loc[c].obj, loc[c].level))
    <3>1. PICK m : m = SearchFrom(loc[c], loc[c].obj, loc[c].level)
      OBVIOUS
    <3>2. Kept(m, loc[c]) /\ Knows(m) /\ InLayers("search", m)
      BY <1>1, <3>1, SearchFromFiled
    <3> QED
      BY <1>1, <2>0, <2>3, <3>1, <3>2, FiledWalk DEF Midway
  <2> QED
    BY <1>4, <2>2, <2>3
<1> QED
  BY <1>1, <1>2, <1>3, <1>4 DEF Descend

LEMMA ExpandFiled == ASSUME IInv, FInv, NEW c \in Calls, Expand(c) PROVE FInv'
<1>1. /\ loc[c] \in Locals /\ Knows(loc[c]) /\ pc[c] = "search" /\ pc[c] \in Midway
      /\ loc[c].layer \in Levels /\ InLayers("search", loc[c])
  BY InHand DEF Midway, Expand, Locals
<1>2. CASE Crash(c)
  BY <1>1, <1>2, FiledCrash
<1>3. ASSUME NEW node \in loc[c].cand, NEW new, new = links[node][loc[c].layer] \ loc[c].visited,
             NEW top, top = Nearest(Point(c), loc[c].top \cup (new \ deleted), EfConstruction),
             NEW cand \in SUBSET ((loc[c].cand \ {node}) \cup new),
             Goto(c, "search", [loc[c] EXCEPT !.top = top, !.cand = cand,
                                              !.visited = loc[c].visited \cup new]),
             UNCHANGED <<store, graph, entry, locks, result>>
      PROVE  FInv'
  <2>1. new \subseteq Elements
    BY <1>1, <1>3, LinksKnown DEF Knows
  <2>2. top \subseteq Elements
    BY <1>1, <1>3, <2>1, NearestSubset DEF Knows
  <2>3. PICK m : m = [loc[c] EXCEPT !.top = top, !.cand = cand,
                                    !.visited = loc[c].visited \cup new]
    OBVIOUS
  <2>4. Kept(m, loc[c]) /\ Knows(m) /\ InLayers("search", m)
    BY <1>1, <2>1, <2>2, <2>3 DEF Locals, Kept, Knows, InLayers
  <2>5. OnlyLinks /\ UNCHANGED result /\ LinksFiled'
    BY <1>3, LinksType, LinksStayFiled DEF graph, store, OnlyLinks
  <2> QED
    BY <1>1, <1>3, <2>3, <2>4, <2>5, FiledWalk DEF Midway
<1>4. CASE ~Crash(c)
  <2>1. PICK node \in loc[c].cand :
          LET layer == loc[c].layer
              new == links[node][layer] \ loc[c].visited
              top == Nearest(Point(c), loc[c].top \cup (new \ deleted), EfConstruction)
              near(x) == \/ Cardinality(top) < EfConstruction
                         \/ \E r \in top : ~Closer(Point(c), r, x)
          IN  /\ Goto(c, "search",
                      [loc[c] EXCEPT !.top = top,
                                     !.cand = {x \in (loc[c].cand \ {node}) \cup new : near(x)},
                                     !.visited = loc[c].visited \cup new])
              /\ UNCHANGED <<store, graph, entry, locks, result>>
    BY <1>4 DEF Expand
  <2> DEFINE new == links[node][loc[c].layer] \ loc[c].visited
             top == Nearest(Point(c), loc[c].top \cup (new \ deleted), EfConstruction)
             near(x) == \/ Cardinality(top) < EfConstruction
                        \/ \E r \in top : ~Closer(Point(c), r, x)
             cand == {x \in (loc[c].cand \ {node}) \cup new : near(x)}
  <2>2. cand \in SUBSET ((loc[c].cand \ {node}) \cup new)
    OBVIOUS
  <2>3. /\ Goto(c, "search", [loc[c] EXCEPT !.top = top, !.cand = cand,
                                             !.visited = loc[c].visited \cup new])
        /\ UNCHANGED <<store, graph, entry, locks, result>>
    BY <2>1
  <2>4. PICK n, t, d : n = new /\ t = top /\ d = cand
    OBVIOUS
  <2> HIDE DEF new, top, cand, near
  <2>5. /\ n = links[node][loc[c].layer] \ loc[c].visited
        /\ t = Nearest(Point(c), loc[c].top \cup (n \ deleted), EfConstruction)
    BY <2>4 DEF new, top
  <2> QED
    BY <1>3, <2>2, <2>3, <2>4, <2>5
<1> QED
  BY <1>2, <1>4

LEMMA CandidatesKnown ==
    ASSUME IInv, FInv, NEW c \in Calls PROVE Candidates(c) \subseteq Elements
<1>1. Knows(loc[c]) /\ deleted \subseteq Elements
  BY InHand DEF FInv
<1> QED
  BY <1>1, NearestSubset DEF Candidates, Knows

LEMMA SelectNeighborsFiled ==
    ASSUME IInv, FInv, NEW c \in Calls, SelectNeighbors(c) PROVE FInv'
<1>1. /\ loc[c] \in Locals /\ Knows(loc[c]) /\ pc[c] = "search" /\ pc[c] \in Midway
      /\ InLayers("search", loc[c]) /\ loc[c].obj \in Elements
  <2>1. pc[c] = "search" /\ loc[c].obj # None
    BY DEF SelectNeighbors, IInv, CallsOK, CallOK
  <2> QED
    BY <2>1, InHand DEF Midway, Knows
<1>2. PICK chosen : chosen = Heuristic(Point(c), Candidates(c), M)
  OBVIOUS
<1>3. chosen \subseteq Elements
  BY <1>2, HeuristicSubset, CandidatesKnown
<1>4. CASE Crash(c)
  BY <1>1, <1>4, FiledCrash
<1>5. ASSUME UNCHANGED <<store, graph, entry, locks, result>>
      PROVE  OnlyLinks /\ UNCHANGED result /\ LinksFiled'
  BY <1>5, LinksType, LinksStayFiled DEF graph, store, OnlyLinks
<1>6. ASSUME NEW next \in chosen, NEW p \in {"tearOwnList", "writeOwnList"},
             Goto(c, p, [loc[c] EXCEPT !.selected = chosen, !.next = next,
                                       !.top = {}, !.cand = {}, !.visited = {}]),
             UNCHANGED <<store, graph, entry, locks, result>>
      PROVE  FInv'
  <2>1. PICK m : m = [loc[c] EXCEPT !.selected = chosen, !.next = next,
                                    !.top = {}, !.cand = {}, !.visited = {}]
    OBVIOUS
  <2>2. Kept(m, loc[c]) /\ Knows(m) /\ InLayers(p, m)
    BY <1>1, <1>3, <2>1 DEF Locals, Kept, Knows, InLayers, Midway
  <2> QED
    BY <1>1, <1>5, <1>6, <2>1, <2>2, FiledWalk DEF Midway
<1>7. ASSUME NextLayer(c, loc[c].obj), UNCHANGED <<store, graph, entry, locks, result>>
      PROVE  FInv'
  BY <1>1, <1>5, <1>7, FiledNextLayer
<1>8. ASSUME Goto(c, "finish", loc[c]), UNCHANGED <<store, graph, entry, locks, result>>
      PROVE  FInv'
  BY <1>1, <1>5, <1>8, FiledWalk DEF Kept, InLayers, Midway
<1>9. (IF loc[c].isUpdate THEN "tearOwnList" ELSE "writeOwnList")
        \in {"tearOwnList", "writeOwnList"}
  OBVIOUS
<1> QED
  BY <1>2, <1>4, <1>6, <1>7, <1>8, <1>9 DEF SelectNeighbors

LEMMA ZeroKnown == ASSUME IInv, NEW i \in Elements PROVE 0 \in Elements
BY KnownType

LEMMA TearOwnListFiled == ASSUME IInv, FInv, NEW c \in Calls, TearOwnList(c) PROVE FInv'
<1>1. /\ loc[c] \in Locals /\ Knows(loc[c]) /\ pc[c] = "tearOwnList" /\ pc[c] \in Midway
      /\ InLayers("tearOwnList", loc[c]) /\ loc[c].elem \in Elements /\ loc[c].layer \in Levels
      /\ loc[c].layer \in Nat /\ loc[c].level \in Nat
  BY InHand DEF Midway, TearOwnList, Locals
<1>2. PICK slots \in SUBSET (links[loc[c].elem][loc[c].layer] \cup loc[c].selected
                              \cup stale[loc[c].elem][loc[c].layer] \cup {0}) :
          /\ links' = [links EXCEPT ![loc[c].elem][loc[c].layer] = slots]
          /\ Goto(c, "writeOwnList", [loc[c] EXCEPT !.half = slots])
  BY DEF TearOwnList
<1>3. slots \in SUBSET Elements
  BY <1>1, <1>2, LinksKnown, ZeroKnown DEF Knows
<1>4. loc[c].layer <= elementLevels[loc[c].elem]
  BY <1>1, KnownType, LevelsType DEF InLayers, Midway
<1>5. \E list : stale' = StaleAfter(loc[c].elem, loc[c].layer, list)
  BY DEF TearOwnList
<1>6. UNCHANGED <<store, elementLevels, initialised, vec, deleted, entry, result>>
  BY DEF TearOwnList
<1>7. LinksFiled' /\ OnlyLinks
  BY <1>1, <1>2, <1>3, <1>4, <1>5, <1>6, ListWritten DEF OnlyLinks, store
<1>8. PICK m : m = [loc[c] EXCEPT !.half = slots]
  OBVIOUS
<1>9. Kept(m, loc[c]) /\ Knows(m) /\ InLayers("writeOwnList", m)
  BY <1>1, <1>8 DEF Locals, Kept, Knows, InLayers, Midway
<1> QED
  BY <1>1, <1>2, <1>6, <1>7, <1>8, <1>9, FiledWalk DEF Midway

LEMMA WriteOwnListFiled == ASSUME IInv, FInv, NEW c \in Calls, WriteOwnList(c) PROVE FInv'
<1>1. /\ loc[c] \in Locals /\ Knows(loc[c]) /\ pc[c] = "writeOwnList" /\ pc[c] \in Midway
      /\ InLayers("writeOwnList", loc[c]) /\ loc[c].elem \in Elements /\ loc[c].layer \in Levels
      /\ loc[c].layer \in Nat /\ loc[c].level \in Nat /\ pc[c] \notin Coming
  BY InHand DEF Midway, Coming, WriteOwnList, Locals
<1>2. UNCHANGED <<store, initialised, elementLevels, vec, deleted, entry>>
      /\ enterpoint' \in Elements \cup {None}
  BY DEF WriteOwnList, FInv, entry
<1>3. loc[c].layer <= elementLevels[loc[c].elem]
  BY <1>1, KnownType, LevelsType DEF InLayers, Midway
<1>4. ASSUME NEW S \in SUBSET Elements,
             links' = [links EXCEPT ![loc[c].elem][loc[c].layer] = S],
             stale' = stale \/ \E list : stale' = StaleAfter(loc[c].elem, loc[c].layer, list)
      PROVE  LinksFiled' /\ OnlyLinks
  BY <1>1, <1>2, <1>3, <1>4, ListWritten DEF OnlyLinks, store
<1>5. links[loc[c].elem][loc[c].layer] \cup loc[c].selected \cup {0}
          \cup stale[loc[c].elem][loc[c].layer] \subseteq Elements
  BY <1>1, LinksKnown, ZeroKnown DEF Knows
<1>6. CASE Throw(c) /\ UNCHANGED <<links, stale>>
  <2>1. LinksFiled'
    BY <1>2, <1>6, LinksStayFiled DEF store
  <2> QED
    BY <1>1, <1>2, <1>6, <2>1, FiledReturn DEF Throw, store
<1>7. CASE /\ \E partial \in SUBSET (loc[c].selected \cup links[loc[c].elem][loc[c].layer]
                                     \cup stale[loc[c].elem][loc[c].layer] \cup {0}) :
                  links' = [links EXCEPT ![loc[c].elem][loc[c].layer] = partial]
           /\ Throw(c)
           /\ UNCHANGED stale
  <2>1. LinksFiled'
    <3>1. PICK partial \in SUBSET (loc[c].selected \cup links[loc[c].elem][loc[c].layer]
                                   \cup stale[loc[c].elem][loc[c].layer] \cup {0}) :
                links' = [links EXCEPT ![loc[c].elem][loc[c].layer] = partial]
      BY <1>7
    <3>2. partial \in SUBSET Elements
      BY <1>5
    <3> QED
      BY <1>4, <1>7, <3>1, <3>2
  <2> QED
    BY <1>1, <1>2, <1>7, <2>1, FiledReturn DEF Throw, store
<1>8. CASE /\ \E list \in Written(c) :
                 /\ links' = [links EXCEPT ![loc[c].elem][loc[c].layer] = list]
                 /\ stale' = StaleAfter(loc[c].elem, loc[c].layer, list)
           /\ Goto(c, "connect", [loc[c] EXCEPT !.half = {}])
           /\ UNCHANGED <<result, locks>>
  <2>1. PICK list \in Written(c) :
               /\ links' = [links EXCEPT ![loc[c].elem][loc[c].layer] = list]
               /\ stale' = StaleAfter(loc[c].elem, loc[c].layer, list)
    BY <1>8
  <2>2. list \in SUBSET Elements
    BY <1>5, <2>1 DEF Written
  <2>3. LinksFiled' /\ OnlyLinks
    BY <1>4, <2>1, <2>2
  <2>4. PICK m : m = [loc[c] EXCEPT !.half = {}]
    OBVIOUS
  <2>5. Kept(m, loc[c]) /\ Knows(m) /\ InLayers("connect", m)
    BY <1>1, <2>4 DEF Locals, Kept, Knows, InLayers, Midway
  <2> QED
    BY <1>1, <1>8, <2>3, <2>4, <2>5, FiledWalk DEF Midway
<1> QED
  BY <1>6, <1>7, <1>8 DEF WriteOwnList

LEMMA ConnectFiled == ASSUME IInv, FInv, NEW c \in Calls, Connect(c) PROVE FInv'
<1>1. /\ loc[c] \in Locals /\ Knows(loc[c]) /\ pc[c] = "connect" /\ pc[c] \in Midway
      /\ InLayers("connect", loc[c]) /\ loc[c].elem \in Elements /\ loc[c].layer \in Levels
      /\ loc[c].next \in Elements /\ loc[c].selected \subseteq Elements /\ pc[c] \notin Coming
  <2>1. pc[c] = "connect" /\ loc[c].next # None
    BY DEF Connect, IInv, CallsOK, CallOK
  <2> QED
    BY <2>1, InHand DEF Midway, Coming, Locals, Knows
<1>2. UNCHANGED <<store, initialised, elementLevels, vec, deleted, entry>>
      /\ enterpoint' \in Elements \cup {None}
  BY DEF Connect, FInv, entry
<1>3. CASE Throw(c) /\ UNCHANGED <<links, stale>>
  <2>1. LinksFiled'
    BY <1>2, <1>3, LinksStayFiled DEF store
  <2> QED
    BY <1>1, <1>2, <1>3, <2>1, FiledReturn DEF Throw, store
<1> DEFINE joined(n) ==
              IF HasRoom(links[n][loc[c].layer], loc[c].layer)
              THEN links[n][loc[c].layer] \cup {loc[c].elem}
              ELSE Heuristic(vec[n], links[n][loc[c].layer] \cup {loc[c].elem},
                             MaxLinks(loc[c].layer))
<1>4. ASSUME NEW n \in loc[c].selected, loc[c].layer <= elementLevels[n],
             \/ links' = links
             \/ links' = [links EXCEPT ![n][loc[c].layer] = joined(n)],
             \E list : stale' = StaleAfter(n, loc[c].layer, list)
      PROVE  OnlyLinks /\ LinksFiled'
  <2>1. joined(n) \in SUBSET Elements /\ n \in Elements
    BY <1>1, LinksKnown, HeuristicSubset
  <2> HIDE DEF joined
  <2> QED
    BY <1>1, <1>2, <1>4, <2>1, ListWritten DEF OnlyLinks, store
<1>5. ASSUME NEW n \in loc[c].selected, OnlyLinks, LinksFiled', UNCHANGED <<result, locks>>,
             Goto(c, "connect", [loc[c] EXCEPT !.selected = Rest(loc[c].selected, n)])
      PROVE  FInv'
  <2>1. PICK m : m = [loc[c] EXCEPT !.selected = Rest(loc[c].selected, n)]
    OBVIOUS
  <2>2. Kept(m, loc[c]) /\ Knows(m) /\ InLayers("connect", m)
    BY <1>1, <2>1 DEF Locals, Kept, Knows, InLayers, Midway, Rest
  <2> QED
    BY <1>1, <1>5, <2>1, <2>2, FiledWalk DEF Midway
<1>6. ASSUME OnlyLinks, LinksFiled', UNCHANGED <<result, locks>>, NextLayer(c, loc[c].next)
      PROVE  FInv'
  BY <1>1, <1>6, FiledNextLayer
<1> QED
  BY <1>3, <1>4, <1>5, <1>6 DEF Connect

(* The loop of updatePoint goes on, or the repair begins. *)
LEMMA RepairFiled ==
    ASSUME IInv, FInv, NEW c \in Calls, pc[c] \in {"oneHop", "relink"}, Repair(c), OnlyLinks,
           LinksFiled'
    PROVE  FInv'
<1>1. /\ loc[c] \in Locals /\ Knows(loc[c]) /\ pc[c] \in Midway /\ pc[c] \notin Coming
      /\ loc[c].level <= elementLevels[loc[c].elem] /\ loc[c].level \in Levels
      /\ loc[c].level \in Nat
      /\ loc[c].maxlevelcopy # None => loc[c].ep \in Elements
  <2>1. loc[c].maxlevelcopy # None => loc[c].ep # None
    BY DEF IInv, CallsOK, CallOK
  <2> QED
    BY <2>1, InHand DEF Midway, Coming, Locals, Knows, InLayers
<1>2. PICK l : l = [loc[c] EXCEPT !.obj = loc[c].ep, !.hops = {}, !.sCand = {},
                                  !.sNeigh = {}]
  OBVIOUS
<1>3. l \in Locals /\ Kept(l, loc[c]) /\ Knows(l) /\ l.level = loc[c].level
  <2>1. l \in Locals /\ l.level = loc[c].level
    BY <1>1, <1>2 DEF Locals
  <2>2. Kept(l, loc[c])
    BY <1>1, <1>2 DEF Locals, Kept
  <2>3. /\ l.elem = loc[c].elem /\ l.ep = loc[c].ep /\ l.obj = loc[c].ep /\ l.next = loc[c].next
        /\ l.top = loc[c].top /\ l.cand = loc[c].cand /\ l.visited = loc[c].visited
        /\ l.selected = loc[c].selected /\ l.hops = {} /\ l.sCand = {} /\ l.sNeigh = {}
    BY <1>1, <1>2 DEF Locals
  <2> QED
    BY <1>1, <2>1, <2>2, <2>3 DEF Knows
<1>4. CASE Throw(c)
  <2>1. enterpoint' \in Elements \cup {None}
    BY DEF FInv, OnlyLinks, entry
  <2> QED
    BY <1>1, <1>4, <2>1, FiledReturn DEF Throw, OnlyLinks, store
<1>5. CASE /\ Goto(c, "descend", [l EXCEPT !.layer = loc[c].maxlevelcopy])
           /\ UNCHANGED <<result, locks>>
  <2>1. PICK m : m = [l EXCEPT !.layer = loc[c].maxlevelcopy]
    OBVIOUS
  <2>2. Kept(m, loc[c]) /\ Knows(m) /\ InLayers("descend", m)
    BY <1>1, <1>3, <2>1 DEF Locals, Kept, Knows, InLayers
  <2> QED
    BY <1>1, <1>5, <2>1, <2>2, FiledWalk DEF Midway
<1>6. CASE /\ loc[c].level = loc[c].maxlevelcopy
           /\ Goto(c, "search", SearchFrom(l, loc[c].ep, loc[c].level))
           /\ UNCHANGED <<result, locks>>
  <2>1. PICK m : m = SearchFrom(l, loc[c].ep, loc[c].level)
    OBVIOUS
  <2>2. loc[c].ep \in Elements
    BY <1>1, <1>6 DEF None
  <2>3. Kept(m, l) /\ Knows(m) /\ InLayers("search", m)
    BY <1>1, <1>3, <2>1, <2>2, SearchFromFiled DEF Kept
  <2> QED
    BY <1>1, <1>3, <1>6, <2>1, <2>3, FiledWalk DEF Midway, Kept
<1>7. CASE /\ loc[c].level < loc[c].maxlevelcopy
           /\ Goto(c, "descend", [l EXCEPT !.layer = loc[c].maxlevelcopy])
           /\ UNCHANGED <<result, locks>>
  BY <1>5, <1>7
<1>8. \/ Throw(c)
      \/ /\ loc[c].level < loc[c].maxlevelcopy
         /\ Goto(c, "descend", [l EXCEPT !.layer = loc[c].maxlevelcopy])
         /\ UNCHANGED <<result, locks>>
      \/ /\ loc[c].level = loc[c].maxlevelcopy
         /\ Goto(c, "search", SearchFrom(l, loc[c].ep, loc[c].level))
         /\ UNCHANGED <<result, locks>>
  BY <1>2, Zenon DEF Repair
<1> QED
  BY <1>4, <1>6, <1>7, <1>8

LEMMA NextUpdateLayerFiled ==
    ASSUME IInv, FInv, NEW c \in Calls, pc[c] \in {"oneHop", "relink"}, NextUpdateLayer(c),
           OnlyLinks, LinksFiled'
    PROVE  FInv'
<1>1. /\ loc[c] \in Locals /\ Knows(loc[c]) /\ pc[c] \in Midway
      /\ loc[c].level <= elementLevels[loc[c].elem]
      /\ loc[c].level \in Nat /\ loc[c].layer \in Nat
  BY InHand DEF Midway, Locals, Knows, InLayers
<1>2. CASE loc[c].layer < loc[c].level
  <2>1. PICK m : m = [loc[c] EXCEPT !.layer = loc[c].layer + 1, !.hops = {},
                                    !.sCand = {}, !.sNeigh = {}]
    OBVIOUS
  <2>2. Goto(c, "oneHop", m) /\ UNCHANGED result
    BY <1>2, <2>1 DEF NextUpdateLayer
  <2>3. Kept(m, loc[c]) /\ Knows(m) /\ InLayers("oneHop", m)
    BY <1>1, <1>2, <2>1 DEF Locals, Kept, Knows, InLayers, Midway
  <2> QED
    BY <1>1, <2>2, <2>3, FiledWalk DEF Midway
<1>3. CASE ~(loc[c].layer < loc[c].level)
  BY <1>3, RepairFiled DEF NextUpdateLayer
<1> QED
  BY <1>2, <1>3

LEMMA OneHopFiled == ASSUME IInv, FInv, NEW c \in Calls, OneHop(c) PROVE FInv'
<1>1. /\ loc[c] \in Locals /\ Knows(loc[c]) /\ pc[c] = "oneHop" /\ pc[c] \in Midway
      /\ InLayers("oneHop", loc[c]) /\ loc[c].elem \in Elements /\ loc[c].layer \in Levels
  BY InHand DEF Midway, OneHop, Locals
<1>2. PICK near : near = links[loc[c].elem][loc[c].layer]
  OBVIOUS
<1>3. near \subseteq Elements
  BY <1>1, <1>2, LinksKnown
<1>4. CASE Crash(c)
  BY <1>1, <1>4, FiledCrash
<1>5. ASSUME UNCHANGED <<store, graph, entry>> PROVE OnlyLinks /\ LinksFiled'
  BY <1>5, LinksType, LinksStayFiled DEF OnlyLinks, graph, store
<1>6. ASSUME UNCHANGED <<store, graph, entry>>, NextUpdateLayer(c) PROVE FInv'
  BY <1>1, <1>5, <1>6, NextUpdateLayerFiled
<1>7. ASSUME UNCHANGED <<store, graph, entry>>, UNCHANGED <<result, locks>>,
             Goto(c, "twoHop", [loc[c] EXCEPT !.hops = near, !.sNeigh = near,
                                              !.sCand = {loc[c].elem} \cup near])
      PROVE  FInv'
  <2>1. PICK m : m = [loc[c] EXCEPT !.hops = near, !.sNeigh = near,
                                    !.sCand = {loc[c].elem} \cup near]
    OBVIOUS
  <2>2. Kept(m, loc[c]) /\ Knows(m) /\ InLayers("twoHop", m)
    BY <1>1, <1>3, <2>1 DEF Locals, Kept, Knows, InLayers, Midway
  <2> QED
    BY <1>1, <1>5, <1>7, <2>1, <2>2, FiledWalk DEF Midway
<1> QED
  BY <1>2, <1>4, <1>6, <1>7 DEF OneHop

(* A neighbour whose list was read has a list at that layer. *)
LEMMA TwoHopFiled == ASSUME IInv, FInv, NEW c \in Calls, TwoHop(c) PROVE FInv'
<1>1. /\ loc[c] \in Locals /\ Knows(loc[c]) /\ pc[c] = "twoHop" /\ pc[c] \in Midway
      /\ InLayers("twoHop", loc[c]) /\ loc[c].layer \in Levels /\ loc[c].layer \in Nat
  BY InHand DEF Midway, TwoHop, Locals
<1>2. CASE Crash(c)
  BY <1>1, <1>2, FiledCrash
<1>3. ASSUME NEW hop \in loc[c].hops, NEW p, Readable(hop, loc[c].layer),
             p = (IF loc[c].hops = {hop} THEN "relink" ELSE "twoHop"),
             Goto(c, p, [loc[c] EXCEPT !.hops = loc[c].hops \ {hop},
                                !.sCand = loc[c].sCand \cup links[hop][loc[c].layer]]),
             UNCHANGED <<store, graph, entry, locks, result>>
      PROVE  FInv'
  <2>1. PICK m : m = [loc[c] EXCEPT !.hops = loc[c].hops \ {hop},
                                    !.sCand = loc[c].sCand \cup links[hop][loc[c].layer]]
    OBVIOUS
  <2>2. hop \in Elements /\ links[hop][loc[c].layer] \subseteq Elements
    BY <1>1, LinksKnown DEF Knows
  <2>3. loc[c].layer <= elementLevels[hop]
    BY <1>1, <1>3, <2>2, KnownType, LevelsType DEF Readable, HasList
  <2>4. /\ m.hops = loc[c].hops \ {hop} /\ m.sNeigh = loc[c].sNeigh /\ m.layer = loc[c].layer
        /\ m.level = loc[c].level /\ m.elem = loc[c].elem
    BY <1>1, <2>1 DEF Locals
  <2>5. Kept(m, loc[c]) /\ Knows(m)
    BY <1>1, <2>1, <2>2 DEF Locals, Kept, Knows
  <2>6. \A n \in m.sNeigh \ m.hops : m.layer <= elementLevels[n]
    BY <1>1, <2>3, <2>4 DEF InLayers
  <2>7. InLayers(p, m)
    BY <1>1, <1>3, <2>4, <2>6 DEF InLayers, Midway
  <2>8. OnlyLinks /\ LinksFiled'
    BY <1>3, LinksType, LinksStayFiled DEF OnlyLinks, graph, store
  <2> QED
    BY <1>1, <1>3, <2>1, <2>5, <2>7, <2>8, FiledWalk DEF Midway
<1> QED
  BY <1>2, <1>3 DEF TwoHop

LEMMA RelinkFiled == ASSUME IInv, FInv, NEW c \in Calls, Relink(c) PROVE FInv'
<1>1. /\ loc[c] \in Locals /\ Knows(loc[c]) /\ pc[c] = "relink" /\ pc[c] \in Midway
      /\ InLayers("relink", loc[c]) /\ loc[c].layer \in Levels
  BY InHand DEF Midway, Relink, Locals
<1>2. PICK n \in loc[c].sNeigh :
        LET near == Nearest(vec[n], loc[c].sCand \ {n}, EfConstruction)
            left == loc[c].sNeigh \ {n}
        IN  /\ links' = [links EXCEPT ![n][loc[c].layer] =
                              Heuristic(vec[n], near, MaxLinks(loc[c].layer))]
            /\ stale' = StaleAfter(n, loc[c].layer, links'[n][loc[c].layer])
            /\ IF left # {}
               THEN /\ Goto(c, "relink", [loc[c] EXCEPT !.sNeigh = left])
                    /\ UNCHANGED <<result, locks>>
               ELSE NextUpdateLayer(c)
  BY DEF Relink
<1>3. PICK list : /\ list = Heuristic(vec[n], Nearest(vec[n], loc[c].sCand \ {n}, EfConstruction),
                                      MaxLinks(loc[c].layer))
                  /\ links' = [links EXCEPT ![n][loc[c].layer] = list]
  BY <1>2
<1>4. list \in SUBSET Elements /\ n \in Elements /\ loc[c].layer <= elementLevels[n]
  BY <1>1, <1>3, NearestSubset, HeuristicSubset DEF Knows, InLayers
<1>5. UNCHANGED <<store, initialised, elementLevels, vec, deleted, entry>>
  BY DEF Relink
<1>6. \E lists : stale' = StaleAfter(n, loc[c].layer, lists)
  BY <1>2
<1>7. LinksFiled' /\ OnlyLinks
  BY <1>1, <1>3, <1>4, <1>5, <1>6, ListWritten DEF OnlyLinks, store
<1>8. CASE NextUpdateLayer(c)
  BY <1>1, <1>7, <1>8, NextUpdateLayerFiled
<1>9. CASE /\ Goto(c, "relink", [loc[c] EXCEPT !.sNeigh = loc[c].sNeigh \ {n}])
           /\ UNCHANGED <<result, locks>>
  <2>1. PICK m : m = [loc[c] EXCEPT !.sNeigh = loc[c].sNeigh \ {n}]
    OBVIOUS
  <2>2. Kept(m, loc[c]) /\ Knows(m) /\ InLayers("relink", m)
    BY <1>1, <2>1 DEF Locals, Kept, Knows, InLayers, Midway
  <2> QED
    BY <1>1, <1>7, <1>9, <2>1, <2>2, FiledWalk DEF Midway
<1> QED
  BY <1>2, <1>8, <1>9

------------------------------------------------------------------------------
(* The other steps.                                                        *)

LEMMA AddItemFiled == ASSUME IInv, FInv, NEW c \in Calls, AddItem(c) PROVE FInv'
<1>1. /\ pc[c] = "ready" /\ pc[c] \notin Coming /\ loc[c].elem = None
      /\ UNCHANGED <<curElementCount, labelLookup, graph, entry>>
  BY DEF AddItem, IInv, CallsOK, CallOK, Coming
<1>2. LinksFiled' /\ enterpoint' \in Elements \cup {None}
  BY <1>1, LinksStayFiled DEF graph, entry, FInv
<1>3. CASE \E code : Return(c, code)
  BY <1>1, <1>2, <1>3, FiledReturn DEF graph
<1>4. CASE \E label : Goto(c, "reserve", [NoLocals EXCEPT !.label = label]) /\ UNCHANGED result
  <2>1. PICK m, label : /\ m = [NoLocals EXCEPT !.label = label] /\ Goto(c, "reserve", m)
                        /\ UNCHANGED result
    BY <1>4
  <2>2. Still(c) /\ pc'[c] = "reserve" /\ loc'[c] = m
    BY <2>1, GotoAt
  <2>3. Knows(m) /\ InLayers("reserve", m)
    BY <2>1 DEF Knows, InLayers, NoLocals, Midway
  <2> QED
    BY <1>1, <1>2, <2>2, <2>3, FiledMove DEF graph, FInv
<1> QED
  BY <1>3, <1>4 DEF AddItem

LEMMA ReserveFiled == ASSUME IInv, FInv, NEW c \in Calls, Reserve(c) PROVE FInv'
<1> DEFINE label == loc[c].label
<1>1. /\ pc[c] = "reserve" /\ pc[c] \notin Coming /\ loc[c].elem = None /\ ~loc[c].isUpdate
      /\ loc[c] \in Locals /\ Knows(loc[c]) /\ UNCHANGED <<incrementalId, graph, entry>>
  BY InHand DEF Reserve, IInv, CallsOK, CallOK, Coming
<1>2. CASE /\ label \in DOMAIN labelLookup
           /\ Goto(c, "lockForUpdate",
                   [loc[c] EXCEPT !.elem = labelLookup[label], !.isUpdate = TRUE])
           /\ UNCHANGED <<curElementCount, labelLookup, locks, result>>
  <2>1. PICK m : m = [loc[c] EXCEPT !.elem = labelLookup[label], !.isUpdate = TRUE]
    OBVIOUS
  <2>2. Still(c) /\ pc'[c] = "lockForUpdate" /\ loc'[c] = m
    BY <1>2, <2>1, GotoAt
  <2>3. labelLookup[label] \in Elements
    BY <1>2, KnownType DEF IInv, LabelsOK, TypeOK, Ids
  <2>4. Knows(m) /\ InLayers("lockForUpdate", m)
    BY <1>1, <2>1, <2>3 DEF Knows, InLayers, Locals, Midway
  <2>5. LinksFiled' /\ enterpoint' \in Elements \cup {None}
    BY <1>1, <1>2, LinksStayFiled DEF graph, entry, FInv
  <2> QED
    BY <1>1, <1>2, <2>2, <2>4, <2>5, FiledMove DEF graph, FInv
<1>3. CASE Throw(c) /\ UNCHANGED <<curElementCount, labelLookup>>
  <2>1. LinksFiled' /\ enterpoint' \in Elements \cup {None}
    BY <1>1, <1>3, LinksStayFiled DEF graph, entry, FInv
  <2> QED
    BY <1>1, <1>3, <2>1, FiledReturn DEF Throw, graph
<1>4. CASE /\ label \notin DOMAIN labelLookup
           /\ ~Full
           /\ curElementCount' = curElementCount + 1
           /\ labelLookup' = [l \in DOMAIN labelLookup \cup {label} |->
                                 IF l = label THEN curElementCount ELSE labelLookup[l]]
           /\ Goto(c, "lockForInsert", [loc[c] EXCEPT !.elem = curElementCount])
           /\ UNCHANGED <<locks, result>>
  <2>1. PICK m : m = [loc[c] EXCEPT !.elem = curElementCount]
    OBVIOUS
  <2>2. Still(c) /\ pc'[c] = "lockForInsert" /\ loc'[c] = m
    BY <1>4, <2>1, GotoAt
  <2>3. m.elem = curElementCount /\ ~m.isUpdate
    BY <1>1, <2>1 DEF Locals
  <2>4. /\ Elements' = Elements \cup {curElementCount} /\ curElementCount \in Ids \ Elements
    BY <1>4, KnownType, SizesAssumption DEF Elements, Full, Ids
  <2>5. UNCHANGED <<initialised, elementLevels, vec, deleted, links, stale, enterpoint>>
    BY <1>1 DEF graph, entry
  <2>6. (deleted \cup initialised \subseteq Elements)' /\ enterpoint' \in Elements' \cup {None}
    BY <2>4, <2>5 DEF FInv
  <2>7. Owned'
    <3> SUFFICES ASSUME NEW i \in Elements' PROVE \E d \in Calls : Owner(d, i)'
      BY DEF Owned
    <3>1. CASE i = curElementCount
      BY <2>2, <2>3, <3>1 DEF Owner, Coming
    <3>2. CASE i \in Elements
      <4>1. PICK d \in Calls : Owner(d, i)
        BY <3>2 DEF FInv, Owned
      <4>2. d # c
        BY <1>1, <3>2, <4>1, KnownType DEF Owner
      <4>3. Owner(d, i)'
        BY <2>2, <2>5, <4>1, <4>2 DEF Owner, Still
      <4> QED
        BY <4>3
    <3> QED
      BY <2>4, <3>1, <3>2
  <2>8. Blank'
    BY <2>4, <2>5 DEF FInv, Blank
  <2>9. Undrawn'
    BY <2>2, <2>3, <2>4, <2>5 DEF FInv, Undrawn, Blank, Still
  <2>10. OneLabelEach'
    <3>1. \A l \in DOMAIN labelLookup : labelLookup[l] \in Elements
      BY KnownType DEF IInv, LabelsOK, TypeOK, Ids
    <3>2. /\ DOMAIN labelLookup' = DOMAIN labelLookup \cup {label}
          /\ labelLookup'[label] = curElementCount
          /\ \A l \in DOMAIN labelLookup : labelLookup'[l] = labelLookup[l]
      BY <1>4
    <3> HIDE DEF label
    <3>3. \A i \in Elements' : \E l \in DOMAIN labelLookup' : labelLookup'[l] = i
      BY <2>4, <3>2 DEF FInv, OneLabelEach
    <3>4. \A l1, l2 \in DOMAIN labelLookup' : labelLookup'[l1] = labelLookup'[l2] => l1 = l2
      BY <2>4, <3>1, <3>2 DEF FInv, OneLabelEach
    <3> QED
      BY <3>3, <3>4 DEF OneLabelEach
  <2>11. LinksFiled'
    BY <2>4, <2>5 DEF FInv, LinksFiled, Filed
  <2>12. ASSUME NEW d \in Calls PROVE (Knows(loc[d]) /\ InLayers(pc[d], loc[d]))'
    <3>1. CASE d = c
      <4>1. (Knows(m))'
        BY <1>1, <2>1, <2>4 DEF Knows, Locals
      <4>2. (InLayers("lockForInsert", m))'
        BY DEF InLayers, Midway
      <4> QED
        BY <2>2, <3>1, <4>1, <4>2 DEF Knows, InLayers
    <3>2. CASE d # c
      <4>1. Knows(loc[d]) /\ InLayers(pc[d], loc[d]) /\ pc'[d] = pc[d] /\ loc'[d] = loc[d]
        BY <2>2, <3>2 DEF FInv, Still
      <4> QED
        BY <2>4, <2>5, <4>1 DEF Knows, InLayers
    <3> QED
      BY <3>1, <3>2
  <2> QED
    BY <2>6, <2>7, <2>8, <2>9, <2>10, <2>11, <2>12 DEF FInv
<1> QED
  BY <1>2, <1>3, <1>4 DEF Reserve

LEMMA LockForInsertFiled ==
    ASSUME IInv, FInv, NEW c \in Calls, LockForInsert(c) PROVE FInv'
<1>1. /\ pc[c] = "lockForInsert" /\ Goto(c, "lockElement", loc[c]) /\ Knows(loc[c])
      /\ UNCHANGED <<store, graph, entry, result>>
  BY InHand DEF LockForInsert
<1>2. Still(c) /\ pc'[c] = "lockElement" /\ loc'[c] = loc[c]
  BY <1>1, GotoAt
<1>3. LinksFiled' /\ enterpoint' \in Elements \cup {None}
  BY <1>1, LinksStayFiled DEF store, graph, entry, FInv
<1>4. InLayers("lockElement", loc[c]) /\ elementLevels[loc[c].elem] = 0
  BY <1>1 DEF InLayers, Midway, FInv, Undrawn
<1> QED
  BY <1>1, <1>2, <1>3, <1>4, FiledMove DEF store, graph, FInv, Coming

(* The level is drawn: until now the element had none, and no list. *)
LEMMA LockElementFiled ==
    ASSUME IInv, FInv, NEW c \in Calls, LockElement(c) PROVE FInv'
<1>1. /\ pc[c] = "lockElement" /\ loc[c] \in Locals /\ Knows(loc[c])
      /\ loc[c].elem \in Elements /\ ~loc[c].isUpdate /\ loc[c].elem # None
      /\ UNCHANGED <<store, initialised, vec, deleted, links, stale, entry, result>>
  <2>1. pc[c] = "lockElement"
    BY DEF LockElement
  <2>2. loc[c].elem \in Elements
    BY <2>1, InHand DEF Coming
  <2> QED
    BY <2>1, <2>2, InHand, KnownType DEF LockElement, IInv, CallsOK, CallOK
<1>2. PICK level \in Levels :
        /\ elementLevels' = [elementLevels EXCEPT ![loc[c].elem] = level]
        /\ Goto(c, "lockGlobal", [loc[c] EXCEPT !.level = level])
  BY DEF LockElement
<1>3. PICK m : m = [loc[c] EXCEPT !.level = level]
  OBVIOUS
<1>4. Still(c) /\ pc'[c] = "lockGlobal" /\ loc'[c] = m
  BY <1>1, <1>2, <1>3, GotoAt
<1>5. elementLevels[loc[c].elem] = 0
  BY <1>1 DEF FInv, Undrawn
<1>6. /\ \A i \in Ids : elementLevels'[i] >= elementLevels[i]
      /\ \A i \in Ids \ {loc[c].elem} : elementLevels'[i] = elementLevels[i]
      /\ \A i \in Ids : elementLevels[i] \in Nat /\ elementLevels'[i] \in Nat
      /\ Elements \subseteq Ids
  <2>1. elementLevels \in [Ids -> Levels] /\ Elements \subseteq Ids /\ Levels \subseteq Nat
    BY KnownType, SizesAssumption DEF IInv, TypeOK, Levels
  <2> QED
    BY <1>1, <1>2, <1>5, <2>1
<1>7. Elements' = Elements
  BY <1>1 DEF Elements, store
<1>8. (deleted \cup initialised \subseteq Elements)' /\ enterpoint' \in Elements' \cup {None}
  BY <1>1, <1>7 DEF FInv, entry
<1>9. m.elem = loc[c].elem /\ ~m.isUpdate
  BY <1>1, <1>3 DEF Locals
<1>10. Owned'
  <2> SUFFICES ASSUME NEW i \in Elements PROVE \E d \in Calls : Owner(d, i)'
    BY <1>7 DEF Owned
  <2>1. PICK d \in Calls : Owner(d, i)
    BY DEF FInv, Owned
  <2>2. Owner(d, i)'
    BY <1>1, <1>4, <1>9, <2>1 DEF Owner, Still, Coming
  <2> QED
    BY <2>2
<1>11. Blank' /\ OneLabelEach'
  BY <1>1, <1>6, <1>7 DEF FInv, Blank, OneLabelEach, store
<1>12. Undrawn'
  <2> SUFFICES ASSUME NEW d \in Calls, pc'[d] \in {"lockForInsert", "lockElement"}
               PROVE  elementLevels'[loc'[d].elem] = 0
    BY DEF Undrawn
  <2>1. d # c
    BY <1>4
  <2>2. pc[d] \in {"lockForInsert", "lockElement"} /\ loc'[d] = loc[d]
    BY <1>4, <2>1 DEF Still
  <2>3. ~loc[d].isUpdate /\ loc[d].elem \in Elements
    BY <2>2, InHand DEF IInv, CallsOK, CallOK, Coming
  <2>4. loc[d].elem # loc[c].elem
    BY <1>1, <2>1, <2>3, KnownType DEF IInv, OwnElements
  <2> QED
    BY <1>6, <2>2, <2>3, <2>4 DEF FInv, Undrawn
<1>13. LinksFiled'
  <2>1. \A l \in Levels : l \in Nat
    BY SizesAssumption DEF Levels
  <2>2. ASSUME NEW lists, Filed(lists)
        PROVE  \A i \in Ids, l \in Levels :
                   /\ lists[i][l] \subseteq Elements
                   /\ lists[i][l] # {} => i \in Elements /\ l <= elementLevels'[i]
    BY <1>6, <2>1, <2>2 DEF Filed
  <2> QED
    BY <1>1, <1>7, <2>2 DEF FInv, LinksFiled, Filed
<1>14. ASSUME NEW d \in Calls PROVE (Knows(loc[d]) /\ InLayers(pc[d], loc[d]))'
  <2>1. CASE d = c
    <3>1. Knows(m)
      BY <1>1, <1>3 DEF Knows, Locals
    <3> QED
      BY <1>4, <1>7, <2>1, <3>1 DEF Knows, InLayers, Midway
  <2>2. CASE d # c
    <3>1. pc'[d] = pc[d] /\ loc'[d] = loc[d]
      BY <1>4, <2>2 DEF Still
    <3>2. Knows(loc[d]) /\ InLayers(pc[d], loc[d])
      BY DEF FInv
    <3>3. loc[d].layer \in Nat /\ loc[d].level \in Nat
          /\ (pc[d] \in Midway => loc[d].elem \in Ids)
      BY <1>6, InHand
    <3>4. loc[d].sNeigh \subseteq Ids
      BY <1>6, <3>2 DEF Knows
    <3>5. InLayers(pc[d], loc[d])'
      BY <1>6, <3>1, <3>2, <3>3, <3>4 DEF InLayers
    <3> QED
      BY <1>7, <3>1, <3>2, <3>5 DEF Knows
  <2> QED
    BY <2>1, <2>2
<1> QED
  BY <1>8, <1>10, <1>11, <1>12, <1>13, <1>14 DEF FInv

LEMMA LockGlobalFiled ==
    ASSUME IInv, FInv, NEW c \in Calls, LockGlobal(c) PROVE FInv'
<1>1. /\ pc[c] = "lockGlobal" /\ loc[c] \in Locals /\ Knows(loc[c])
      /\ Goto(c, "readEntry", [loc[c] EXCEPT !.maxlevelcopy = maxlevel])
      /\ UNCHANGED <<store, graph, entry, result>>
  BY InHand DEF LockGlobal
<1>2. PICK m : m = [loc[c] EXCEPT !.maxlevelcopy = maxlevel]
  OBVIOUS
<1>3. Still(c) /\ pc'[c] = "readEntry" /\ loc'[c] = m
  BY <1>1, <1>2, GotoAt
<1>4. m.elem = loc[c].elem /\ m.isUpdate = loc[c].isUpdate /\ Knows(m)
  BY <1>1, <1>2 DEF Locals, Knows
<1>5. LinksFiled' /\ enterpoint' \in Elements \cup {None}
  BY <1>1, LinksStayFiled DEF store, graph, entry, FInv
<1>6. InLayers("readEntry", m)
  BY DEF InLayers, Midway
<1> QED
  BY <1>1, <1>3, <1>4, <1>5, <1>6, FiledMove DEF store, graph, FInv, Coming

LEMMA ReadEntryFiled ==
    ASSUME IInv, FInv, NEW c \in Calls, ReadEntry(c) PROVE FInv'
<1> DEFINE elem == loc[c].elem
<1>1. /\ pc[c] = "readEntry" /\ loc[c] \in Locals /\ Knows(loc[c]) /\ elem \in Elements
      /\ ~loc[c].isUpdate /\ elementLevels[elem] = loc[c].level
      /\ UNCHANGED <<store, elementLevels, entry, locks, result>>
      /\ initialised' = initialised \cup {elem} /\ deleted' = deleted \ {elem}
      /\ vec' = [vec EXCEPT ![elem] = Point(c)]
      /\ links' = [links EXCEPT ![elem] = [l \in Levels |-> {}]]
      /\ stale' = [stale EXCEPT ![elem] = [l \in Levels |-> {}]]
      /\ loc[c].level \in Nat
  <2>1. pc[c] = "readEntry"
    BY DEF ReadEntry
  <2>2. elem \in Elements
    BY <2>1, InHand DEF Coming
  <2>3. ~loc[c].isUpdate
    BY <2>1 DEF IInv, CallsOK, CallOK
  <2>4. elementLevels[elem] = loc[c].level
    BY <2>1, <2>3 DEF IInv, LevelsDrawn, Linking
  <2> QED
    BY <2>1, <2>2, <2>3, <2>4, InHand DEF ReadEntry
<1>2. elem \in Ids
  BY <1>1, KnownType
<1>3. PICK read : read = [loc[c] EXCEPT !.ep = enterpoint, !.obj = enterpoint]
  OBVIOUS
<1>4. /\ read \in Locals /\ read.elem = elem /\ read.level = loc[c].level /\ Knows(read)
      /\ read.isUpdate = loc[c].isUpdate
  <2>1. enterpoint \in Elements \cup {None} /\ enterpoint \in Ids \cup {None}
    BY DEF FInv, IInv, TypeOK
  <2> QED
    BY <1>1, <1>3, <2>1 DEF Locals, Knows
<1>5. /\ Elements' = Elements /\ enterpoint' \in Elements \cup {None}
      /\ initialised \subseteq initialised' /\ deleted' \cup initialised' \subseteq Elements
      /\ UNCHANGED <<curElementCount, labelLookup>> /\ elem \in initialised'
  BY <1>1 DEF Elements, store, entry, FInv
<1>6. \A i \in Ids \ Elements : vec'[i] = vec[i]
  BY <1>1 DEF IInv, TypeOK
<1>7. LinksFiled'
  <2>1. ASSUME NEW i \in Ids, NEW l \in Levels
        PROVE  /\ links'[i][l] = {} \/ links'[i][l] = links[i][l]
               /\ stale'[i][l] = {} \/ stale'[i][l] = stale[i][l]
    BY <1>1, <1>2, LinksType
  <2>2. Filed(links') /\ Filed(stale')
    BY <2>1 DEF FInv, LinksFiled, Filed
  <2> QED
    BY <1>1, <1>5, <2>2 DEF LinksFiled, Filed
<1>8. ASSUME NEW p \in {"firstElement", "descend", "search"}, NEW m, Goto(c, p, m),
             m.elem = elem, m.isUpdate = loc[c].isUpdate, Knows(m), InLayers(p, m)
      PROVE  FInv'
  <2>1. Still(c) /\ pc'[c] = p /\ loc'[c] = m
    BY <1>1, <1>8, GotoAt
  <2>2. InLayers(pc'[c], loc'[c])
    BY <1>8, <2>1
  <2> QED
    BY <1>1, <1>5, <1>6, <1>7, <1>8, <2>1, <2>2, FiledMove
<1>9. CASE Goto(c, "firstElement", read)
  BY <1>4, <1>8, <1>9 DEF InLayers, Midway
<1>10. CASE Goto(c, "descend", [read EXCEPT !.layer = loc[c].maxlevelcopy])
  <2>1. PICK m : m = [read EXCEPT !.layer = loc[c].maxlevelcopy]
    OBVIOUS
  <2>2. /\ m.elem = elem /\ m.isUpdate = loc[c].isUpdate
        /\ m.level = loc[c].level /\ Knows(m)
    BY <1>4, <2>1 DEF Locals, Knows
  <2>3. InLayers("descend", m)
    BY <1>1, <2>2 DEF InLayers
  <2> QED
    BY <1>8, <1>10, <2>1, <2>2, <2>3
<1>11. CASE /\ enterpoint # None /\ loc[c].level >= loc[c].maxlevelcopy
            /\ Goto(c, "search", SearchFrom(read, enterpoint, loc[c].maxlevelcopy))
  <2>1. PICK m : /\ m = [read EXCEPT !.obj = enterpoint, !.layer = loc[c].maxlevelcopy,
                              !.top = {enterpoint} \ deleted, !.cand = {enterpoint},
                              !.visited = {enterpoint}, !.selected = {}]
    OBVIOUS
  <2>2. enterpoint \in Elements /\ loc[c].maxlevelcopy <= loc[c].level
    BY <1>1, <1>11 DEF FInv, Locals, Levels, None
  <2>3. SearchFrom(read, enterpoint, loc[c].maxlevelcopy) = m
    BY <2>1 DEF SearchFrom
  <2>4. Kept(m, read) /\ Knows(m) /\ InLayers("search", m)
    BY <1>1, <1>4, <2>2, <2>3, SearchFromFiled
  <2> QED
    BY <1>4, <1>8, <1>11, <2>3, <2>4 DEF Kept
<1> QED
  BY <1>3, <1>9, <1>10, <1>11 DEF ReadEntry

LEMMA FirstElementFiled ==
    ASSUME IInv, FInv, NEW c \in Calls, FirstElement(c) PROVE FInv'
<1>1. /\ pc[c] = "firstElement" /\ Knows(loc[c]) /\ Goto(c, "finish", loc[c])
      /\ enterpoint' = 0 /\ UNCHANGED <<store, graph, result>>
  BY InHand DEF FirstElement
<1>2. Still(c) /\ pc'[c] = "finish" /\ loc'[c] = loc[c]
  BY <1>1, GotoAt
<1>3. 0 \in Elements
  <2>1. loc[c].elem # None
    BY <1>1 DEF IInv, CallsOK, CallOK
  <2> QED
    BY <2>1, InHand, ZeroKnown
<1>4. LinksFiled' /\ InLayers("finish", loc[c])
  BY <1>1, LinksStayFiled DEF store, graph, InLayers, Midway
<1> QED
  BY <1>1, <1>2, <1>3, <1>4, FiledMove DEF store, graph, FInv, Coming

LEMMA FinishFiled ==
    ASSUME IInv, FInv, NEW c \in Calls, Finish(c) PROVE FInv'
<1>1. /\ pc[c] = "finish" /\ pc[c] \notin Coming /\ Return(c, "ok")
      /\ UNCHANGED <<store, graph>> /\ loc[c].elem \in Elements
      /\ enterpoint' = loc[c].elem \/ enterpoint' = enterpoint
  BY InHand DEF Finish, Coming, entry
<1>2. LinksFiled' /\ enterpoint' \in Elements \cup {None}
  BY <1>1, LinksStayFiled DEF store, graph, FInv
<1> QED
  BY <1>1, <1>2, FiledReturn DEF store, graph

LEMMA LockForUpdateFiled ==
    ASSUME IInv, FInv, NEW c \in Calls, LockForUpdate(c) PROVE FInv'
<1>1. /\ pc[c] = "lockForUpdate" /\ loc[c] \in Locals /\ Knows(loc[c])
      /\ Goto(c, "readEntryUpdate", [loc[c] EXCEPT !.maxlevelcopy = maxlevel])
      /\ UNCHANGED <<store, initialised, elementLevels, deleted, links, stale, entry, result>>
      /\ vec' = [vec EXCEPT ![loc[c].elem] = Point(c)]
  BY InHand DEF LockForUpdate
<1>2. PICK m : m = [loc[c] EXCEPT !.maxlevelcopy = maxlevel]
  OBVIOUS
<1>3. Still(c) /\ pc'[c] = "readEntryUpdate" /\ loc'[c] = m
  BY <1>1, <1>2, GotoAt
<1>4. m.elem = loc[c].elem /\ m.isUpdate = loc[c].isUpdate /\ Knows(m)
  BY <1>1, <1>2 DEF Locals, Knows
<1>5. LinksFiled' /\ enterpoint' \in Elements \cup {None}
  BY <1>1, LinksStayFiled DEF store, entry, FInv
<1>6. loc[c].elem \in Elements
  <2>1. loc[c].elem # None
    BY <1>1 DEF IInv, CallsOK, CallOK
  <2> QED
    BY <2>1, InHand
<1>7. \A i \in Ids \ Elements : vec'[i] = vec[i]
  BY <1>1, <1>6 DEF IInv, TypeOK
<1>8. InLayers("readEntryUpdate", m)
  BY DEF InLayers, Midway
<1> QED
  BY <1>1, <1>3, <1>4, <1>5, <1>7, <1>8, FiledMove DEF store, FInv, Coming

LEMMA ReadEntryUpdateFiled ==
    ASSUME IInv, FInv, NEW c \in Calls, ReadEntryUpdate(c) PROVE FInv'
<1>1. /\ pc[c] = "readEntryUpdate" /\ loc[c] \in Locals /\ Knows(loc[c])
      /\ UNCHANGED <<store, graph, entry, result>>
  BY InHand DEF ReadEntryUpdate
<1>2. PICK m : m = [loc[c] EXCEPT !.ep = enterpoint, !.layer = 0,
                                  !.level = elementLevels[loc[c].elem]]
  OBVIOUS
<1>3. PICK p \in {"finish", "oneHop"} : Goto(c, p, m)
  BY <1>2 DEF ReadEntryUpdate
<1>4. Still(c) /\ pc'[c] = p /\ loc'[c] = m
  BY <1>1, <1>3, GotoAt
<1>5. LinksFiled' /\ enterpoint' \in Elements \cup {None} /\ enterpoint \in Elements \cup {None}
  BY <1>1, LinksStayFiled DEF store, graph, entry, FInv
<1>6. /\ m.elem = loc[c].elem /\ m.isUpdate = loc[c].isUpdate /\ Knows(m)
      /\ m.layer = 0 /\ m.level = elementLevels[loc[c].elem]
  BY <1>1, <1>2, <1>5 DEF Locals, Knows
<1>7. elementLevels[loc[c].elem] \in Nat
  <2>1. loc[c].elem # None
    BY <1>1 DEF IInv, CallsOK, CallOK
  <2> QED
    BY <2>1, InHand, KnownType, LevelsType
<1>8. InLayers(p, m)
  BY <1>3, <1>6, <1>7 DEF InLayers
<1> QED
  BY <1>1, <1>3, <1>4, <1>5, <1>6, <1>8, FiledMove DEF store, graph, FInv, Coming

(* Steps that leave all but the marks as they are. *)
LEMMA QuietFiled ==
    ASSUME FInv, deleted' \subseteq Elements,
           UNCHANGED <<curElementCount, labelLookup, initialised, elementLevels, vec, links,
                       stale, entry, calls>>
    PROVE  FInv'
<1>1. UNCHANGED <<curElementCount, labelLookup, enterpoint, pc, loc>> /\ Elements' = Elements
  BY DEF store, entry, calls, Elements
<1>2. LinksFiled'
  BY <1>1, LinksStayFiled
<1>3. Owned' /\ Blank' /\ Undrawn' /\ OneLabelEach'
  BY <1>1 DEF FInv, Owned, Owner, Blank, Undrawn, OneLabelEach
<1>4. ASSUME NEW d \in Calls PROVE (Knows(loc[d]) /\ InLayers(pc[d], loc[d]))'
  BY <1>1 DEF FInv, Knows, InLayers
<1> QED
  BY <1>1, <1>2, <1>3, <1>4 DEF FInv

LEMMA MarkDeleteFiled ==
    ASSUME IInv, FInv, NEW label, MarkDelete(label) PROVE FInv'
<1>1. labelLookup[label] \in Elements
  BY KnownType DEF MarkDelete, IInv, LabelsOK, TypeOK, Ids
<1> QED
  BY <1>1, QuietFiled DEF store, MarkDelete, FInv

LEMMA NextFiled == IInv /\ FInv /\ [Next]_vars => FInv'
<1> SUFFICES ASSUME IInv, FInv, [Next]_vars PROVE FInv'
  OBVIOUS
<1>1. CASE UNCHANGED vars
  BY <1>1, QuietFiled DEF store, vars, graph, FInv
<1>2. ASSUME NEW c \in Calls, Step(c) PROVE FInv'
  BY <1>2, AddItemFiled, ReserveFiled, LockForInsertFiled, LockElementFiled, LockGlobalFiled,
     ReadEntryFiled, FirstElementFiled, FinishFiled, DescendFiled, ExpandFiled,
     SelectNeighborsFiled, TearOwnListFiled, WriteOwnListFiled, ConnectFiled,
     LockForUpdateFiled, ReadEntryUpdateFiled, OneHopFiled, TwoHopFiled, RelinkFiled DEF Step
<1> QED
  BY <1>1, <1>2, MarkDeleteFiled DEF Next, Stopped

LEMMA InitFInv == Init => FInv
<1> SUFFICES ASSUME Init PROVE FInv
  OBVIOUS
<1>1. Elements = {}
  BY DEF Init, Elements
<1>2. /\ DOMAIN labelLookup = {} /\ enterpoint = None /\ deleted = {} /\ initialised = {}
      /\ \A i \in Ids : elementLevels[i] = 0 /\ vec[i] = Garbage
      /\ \A i \in Ids, l \in Levels : links[i][l] = {} /\ stale[i][l] = {}
  BY DEF Init
<1>3. \A c \in Calls : pc[c] = "ready" /\ loc[c] = NoLocals
  BY DEF Init
<1>4. \A c \in Calls : Knows(loc[c]) /\ InLayers(pc[c], loc[c])
  BY <1>3 DEF Knows, InLayers, Midway, NoLocals
<1> QED
  BY <1>1, <1>2, <1>3, <1>4 DEF FInv, Owned, Blank, Undrawn, OneLabelEach, LinksFiled, Filed

------------------------------------------------------------------------------
(* Recursion over the elements.                                            *)

LEMMA Induct ==
    ASSUME NEW n \in Nat, NEW S, 0 \in S, \A k \in 1 .. n : k - 1 \in S => k \in S
    PROVE  0 .. n \subseteq S
<1> DEFINE G == {k \in 0 .. n : k \notin S}
<1> SUFFICES ASSUME G # {} PROVE FALSE
  OBVIOUS
<1>1. G \in SUBSET Nat
  OBVIOUS
<1>2. PICK k \in G : \A j \in G : k <= j
  BY <1>1, SmallestMember
<1>3. k \in 1 .. n /\ k - 1 \in 0 .. n /\ k - 1 \notin G
  BY <1>2
<1> QED
  BY <1>2, <1>3

(* The recursion of AllUpperPieces. *)
IsUpper(U) ==
    U = [n \in 0 .. curElementCount |->
            IF n = 0 THEN <<>> ELSE U[n - 1] \o UpperPieces(n - 1)]
Upper == CHOOSE U : IsUpper(U)

LEMMA UpperExists == ASSUME curElementCount \in Nat PROVE IsUpper(Upper)
<1> DEFINE Body(n, U) == [k \in 0 .. n |->
                            IF k = 0 THEN <<>> ELSE U[k - 1] \o UpperPieces(k - 1)]
           S == {n \in Nat : \E U : U = Body(n, U)}
<1>1. 0 \in S
  <2>1. PICK U : U = [k \in 0 .. 0 |-> <<>>]
    OBVIOUS
  <2>2. U = Body(0, U)
    BY <2>1
  <2> QED
    BY <2>2
<1>2. ASSUME NEW n \in 1 .. curElementCount, n - 1 \in S PROVE n \in S
  <2>1. PICK U : U = Body(n - 1, U)
    BY <1>2
  <2>2. PICK V : V = [k \in 0 .. n |-> IF k = n THEN U[n - 1] \o UpperPieces(n - 1) ELSE U[k]]
    OBVIOUS
  <2>3. n \in Nat /\ n # 0 /\ \A k \in 0 .. n : k # 0 => k - 1 \in 0 .. n - 1
    OBVIOUS
  <2>4. \A k \in 0 .. n - 1 : V[k] = U[k]
    BY <2>2, <2>3
  <2>5. ASSUME NEW k \in 0 .. n
        PROVE  V[k] = IF k = 0 THEN <<>> ELSE V[k - 1] \o UpperPieces(k - 1)
    <3>1. CASE k = n
      BY <2>2, <2>3, <2>4, <3>1
    <3>2. CASE k # n
      <4>1. k \in 0 .. n - 1
        BY <2>3, <3>2
      <4>2. U[k] = IF k = 0 THEN <<>> ELSE U[k - 1] \o UpperPieces(k - 1)
        BY <2>1, <4>1
      <4> QED
        BY <2>3, <2>4, <4>1, <4>2
    <3> QED
      BY <3>1, <3>2
  <2>6. V = Body(n, V)
    BY <2>2, <2>5
  <2> QED
    BY <2>3, <2>6
<1> HIDE DEF S
<1>3. 0 .. curElementCount \subseteq S
  BY <1>1, <1>2, Induct
<1>4. curElementCount \in S
  BY <1>3
<1> QED
  BY <1>4 DEF S, Upper, IsUpper

(* The upper lists of the elements below n. *)
UpperBefore(n) == Upper[n]

LEMMA UpperAll == AllUpperPieces = UpperBefore(curElementCount)
BY DEF AllUpperPieces, Upper, IsUpper, UpperBefore

------------------------------------------------------------------------------
(* The layout of a file.                                                   *)

SizePiece(i) == [kind |-> "size", size |-> UpperSize(i)]
ListsPiece(i) ==
    [kind |-> "lists", lists |-> [l \in Levels \ {0} |-> links[i][l]],
     stale |-> [l \in Levels \ {0} |-> stale[i][l]]]

LEMMA SizeIsLevel ==
    ASSUME IInv, NEW i \in Ids
    PROVE  /\ UpperSize(i) = 0 <=> elementLevels[i] = 0
           /\ UpperSize(i) \div ListSize = elementLevels[i]
<1>1. elementLevels[i] \in Nat /\ M \in Nat \ {0}
  BY LevelsType, SizesAssumption
<1>2. PICK a \in Nat \ {0}, b \in Nat : a = ListSize /\ b = elementLevels[i]
  BY <1>1 DEF ListSize
<1>3. (a * b = 0 <=> b = 0) /\ (a * b) \div a = b
  BY Z3T(30)
<1> QED
  BY <1>2, <1>3 DEF UpperSize

LEMMA UpperPiecesAre ==
    ASSUME IInv, NEW i \in Elements
    PROVE  UpperPieces(i) = IF elementLevels[i] = 0 THEN <<SizePiece(i)>>
                            ELSE <<SizePiece(i), ListsPiece(i)>>
BY SizeIsLevel, KnownType DEF UpperPieces, SizePiece, ListsPiece

UpperSet == {SizePiece(i) : i \in Elements} \cup {ListsPiece(i) : i \in Elements}
PieceSet == {HeaderPiece} \cup {ElementPiece(i) : i \in Elements} \cup UpperSet

Step1(i) == IF elementLevels[i] = 0 THEN 1 ELSE 2

LEMMA UpperGrows ==
    ASSUME IInv, NEW n \in 1 .. curElementCount, UpperBefore(n - 1) \in Seq(UpperSet)
    PROVE  /\ UpperBefore(n) \in Seq(UpperSet)
           /\ Len(UpperBefore(n)) = Len(UpperBefore(n - 1)) + Step1(n - 1)
           /\ \A j \in 1 .. Len(UpperBefore(n - 1)) : UpperBefore(n)[j] = UpperBefore(n - 1)[j]
           /\ UpperBefore(n)[Len(UpperBefore(n - 1)) + 1] = SizePiece(n - 1)
           /\ elementLevels[n - 1] # 0
                => UpperBefore(n)[Len(UpperBefore(n - 1)) + 2] = ListsPiece(n - 1)
<1>1. n - 1 \in Elements /\ curElementCount \in Nat
  BY KnownType
<1>2. UpperBefore(n) = UpperBefore(n - 1) \o UpperPieces(n - 1)
  <2>1. IsUpper(Upper)
    BY <1>1, UpperExists
  <2> QED
    BY <1>1, <2>1 DEF IsUpper, UpperBefore
<1>3. SizePiece(n - 1) \in UpperSet /\ ListsPiece(n - 1) \in UpperSet
  BY <1>1 DEF UpperSet
<1>4. PICK s, p, q : s = UpperBefore(n - 1) /\ p = SizePiece(n - 1) /\ q = ListsPiece(n - 1)
  OBVIOUS
<1>5. CASE elementLevels[n - 1] = 0
  <2>1. UpperPieces(n - 1) = <<p>>
    BY <1>1, <1>4, <1>5, UpperPiecesAre
  <2>2. /\ s \o <<p>> \in Seq(UpperSet) /\ Len(s \o <<p>>) = Len(s) + 1
        /\ \A j \in 1 .. Len(s) : (s \o <<p>>)[j] = s[j]
        /\ (s \o <<p>>)[Len(s) + 1] = p
    BY <1>3, <1>4
  <2> QED
    BY <1>2, <1>4, <1>5, <2>1, <2>2 DEF Step1
<1>6. CASE elementLevels[n - 1] # 0
  <2>1. UpperPieces(n - 1) = <<p, q>>
    BY <1>1, <1>4, <1>6, UpperPiecesAre
  <2>2. /\ s \o <<p, q>> \in Seq(UpperSet) /\ Len(s \o <<p, q>>) = Len(s) + 2
        /\ \A j \in 1 .. Len(s) : (s \o <<p, q>>)[j] = s[j]
        /\ (s \o <<p, q>>)[Len(s) + 1] = p /\ (s \o <<p, q>>)[Len(s) + 2] = q
    BY <1>3, <1>4
  <2> QED
    BY <1>2, <1>4, <1>6, <2>1, <2>2 DEF Step1
<1> QED
  BY <1>5, <1>6

(* The place after the upper lists of the elements below n. *)
End(n) == 1 + curElementCount + Len(UpperBefore(n))

(* All the proofs about files use of Pieces. *)
LEMMA Layout ==
    ASSUME IInv
    PROVE  /\ Pieces \in Seq(PieceSet) /\ curElementCount \in Nat
           /\ Len(Pieces) = End(curElementCount)
           /\ End(0) = 1 + curElementCount
           /\ \A n \in 0 .. curElementCount : End(n) \in Nat /\ End(n) <= Len(Pieces)
           /\ \A n \in 1 .. curElementCount : End(n) = End(n - 1) + Step1(n - 1)
           /\ Pieces[1] = HeaderPiece
           /\ \A i \in Elements : /\ Pieces[i + 2] = ElementPiece(i)
                                  /\ Pieces[End(i) + 1] = SizePiece(i)
                                  /\ elementLevels[i] # 0
                                       => Pieces[End(i) + 2] = ListsPiece(i)
<1> DEFINE cnt == curElementCount
           S == {n \in 0 .. cnt :
                    /\ UpperBefore(n) \in Seq(UpperSet)
                    /\ \A k \in 0 .. n :
                          /\ UpperBefore(k) \in Seq(UpperSet)
                          /\ Len(UpperBefore(k)) <= Len(UpperBefore(n))
                          /\ \A j \in 1 .. Len(UpperBefore(k)) : UpperBefore(n)[j] = UpperBefore(k)[j]}
<1>1. cnt \in Nat
  BY KnownType
<1>2. UpperBefore(0) = <<>>
  BY <1>1, UpperExists DEF IsUpper, UpperBefore
<1>3. 0 \in S
  <2>1. UpperBefore(0) \in Seq(UpperSet) /\ Len(UpperBefore(0)) = 0
    <3>1. PICK t : t = UpperBefore(0)
      OBVIOUS
    <3>2. t = <<>>
      BY <1>2, <3>1
    <3>3. <<>> \in Seq(UpperSet) /\ Len(<<>>) = 0
      BY EmptySeq
    <3> QED
      BY <3>1, <3>2, <3>3
  <2>2. \A k \in 0 .. 0 : k = 0
    OBVIOUS
  <2> QED
    BY <1>1, <2>1, <2>2
<1>4. ASSUME NEW n \in 1 .. cnt, n - 1 \in S PROVE n \in S
  <2>1. /\ UpperBefore(n) \in Seq(UpperSet) /\ UpperBefore(n - 1) \in Seq(UpperSet)
        /\ Len(UpperBefore(n)) = Len(UpperBefore(n - 1)) + Step1(n - 1)
        /\ \A j \in 1 .. Len(UpperBefore(n - 1)) : UpperBefore(n)[j] = UpperBefore(n - 1)[j]
    BY <1>4, UpperGrows
  <2>2. Len(UpperBefore(n - 1)) \in Nat /\ Len(UpperBefore(n)) \in Nat /\ Step1(n - 1) \in {1, 2}
    BY <2>1 DEF Step1
  <2>3. ASSUME NEW k \in 0 .. n
        PROVE  /\ UpperBefore(k) \in Seq(UpperSet)
               /\ Len(UpperBefore(k)) <= Len(UpperBefore(n))
               /\ \A j \in 1 .. Len(UpperBefore(k)) : UpperBefore(n)[j] = UpperBefore(k)[j]
    <3>1. CASE k = n
      BY <2>1, <2>2, <3>1
    <3>2. CASE k # n
      <4>1. k \in 0 .. n - 1
        BY <1>1, <3>2
      <4>2. /\ UpperBefore(k) \in Seq(UpperSet) /\ Len(UpperBefore(k)) <= Len(UpperBefore(n - 1))
            /\ \A j \in 1 .. Len(UpperBefore(k)) : UpperBefore(n - 1)[j] = UpperBefore(k)[j]
        BY <1>4, <4>1
      <4>3. Len(UpperBefore(k)) \in Nat
        BY <4>2
      <4> QED
        BY <2>1, <2>2, <4>2, <4>3
    <3> QED
      BY <3>1, <3>2
  <2>4. n \in 0 .. cnt
    BY <1>1
  <2> QED
    BY <2>1, <2>3, <2>4
<1>5. 0 .. cnt \subseteq S
  <2> HIDE DEF S
  <2> QED
    BY <1>1, <1>3, <1>4, Induct
<1>6. /\ UpperBefore(cnt) \in Seq(UpperSet) /\ Len(UpperBefore(cnt)) \in Nat
      /\ \A k \in 0 .. cnt :
            /\ UpperBefore(k) \in Seq(UpperSet) /\ Len(UpperBefore(k)) \in Nat
            /\ Len(UpperBefore(k)) <= Len(UpperBefore(cnt))
            /\ \A j \in 1 .. Len(UpperBefore(k)) : UpperBefore(cnt)[j] = UpperBefore(k)[j]
  <2>1. cnt \in S
    BY <1>1, <1>5
  <2>2. \A k \in 0 .. cnt : UpperBefore(k) \in Seq(UpperSet) /\ Len(UpperBefore(k)) \in Nat
    BY <2>1
  <2> QED
    BY <2>1, <2>2
<1> HIDE DEF S
<1> DEFINE base == [n \in 1 .. cnt |-> ElementPiece(n - 1)]
           head == <<HeaderPiece>> \o base
<1>7. /\ base \in Seq(PieceSet) /\ Len(base) = cnt
      /\ \A n \in 1 .. cnt : base[n] = ElementPiece(n - 1)
  <2>1. \A n \in 1 .. cnt : n - 1 \in Elements
    BY <1>1, KnownType
  <2>2. \A n \in 1 .. cnt : ElementPiece(n - 1) \in PieceSet
    BY <2>1 DEF PieceSet
  <2> QED
    BY <1>1, <2>2
<1>8. /\ head \in Seq(PieceSet) /\ Len(head) = 1 + cnt /\ head[1] = HeaderPiece
      /\ \A n \in 1 .. cnt : head[n + 1] = ElementPiece(n - 1)
  <2> HIDE DEF base
  <2>1. <<HeaderPiece>> \in Seq(PieceSet) /\ Len(<<HeaderPiece>>) = 1
        /\ <<HeaderPiece>>[1] = HeaderPiece
    BY DEF PieceSet
  <2> QED
    BY <1>1, <1>7, <2>1
<1> HIDE DEF base, head
<1>9. UpperBefore(cnt) \in Seq(PieceSet)
  BY <1>6 DEF PieceSet
<1>10. Pieces = head \o UpperBefore(cnt)
  BY UpperAll DEF Pieces, head, base
<1>11. /\ Pieces \in Seq(PieceSet) /\ Len(Pieces) = End(cnt)
       /\ \A j \in 1 .. 1 + cnt : Pieces[j] = head[j]
       /\ \A j \in 1 .. Len(UpperBefore(cnt)) : Pieces[1 + cnt + j] = UpperBefore(cnt)[j]
  <2>1. PICK t : t = UpperBefore(cnt)
    OBVIOUS
  <2>2. /\ head \o t \in Seq(PieceSet) /\ Len(head \o t) = Len(head) + Len(t)
        /\ \A j \in 1 .. Len(head) + Len(t) :
              (head \o t)[j] = IF j <= Len(head) THEN head[j] ELSE t[j - Len(head)]
    BY <1>8, <1>9, <2>1, ConcatProperties
  <2>3. Len(head) = 1 + cnt /\ Len(t) \in Nat /\ cnt \in Nat
    BY <1>1, <1>6, <1>8, <2>1
  <2> HIDE DEF cnt
  <2>4. \A j \in 1 .. 1 + cnt : (head \o t)[j] = head[j]
    BY <2>2, <2>3
  <2>5. ASSUME NEW j \in 1 .. Len(t) PROVE (head \o t)[1 + cnt + j] = t[j]
    <3>1. 1 + cnt + j \in 1 .. Len(head) + Len(t) /\ ~(1 + cnt + j <= Len(head))
          /\ (1 + cnt + j) - Len(head) = j
      BY <2>3
    <3> QED
      BY <2>2, <3>1
  <2> USE DEF cnt
  <2> QED
    BY <1>10, <2>1, <2>2, <2>3, <2>4, <2>5 DEF End
<1>12. \A n \in 0 .. cnt : End(n) \in Nat /\ End(n) <= Len(Pieces)
  BY <1>1, <1>6, <1>11 DEF End
<1>13. \A n \in 1 .. cnt : End(n) = End(n - 1) + Step1(n - 1)
  <2> SUFFICES ASSUME NEW n \in 1 .. cnt PROVE End(n) = End(n - 1) + Step1(n - 1)
    OBVIOUS
  <2>1. n - 1 \in 0 .. cnt
    BY <1>1
  <2>2. Len(UpperBefore(n)) = Len(UpperBefore(n - 1)) + Step1(n - 1)
    BY <1>6, <2>1, UpperGrows
  <2>3. Len(UpperBefore(n - 1)) \in Nat /\ Step1(n - 1) \in Nat
    BY <1>6, <2>1 DEF Step1
  <2> QED
    BY <1>1, <2>2, <2>3 DEF End
<1>14. ASSUME NEW i \in Elements
       PROVE  /\ Pieces[i + 2] = ElementPiece(i)
              /\ Pieces[End(i) + 1] = SizePiece(i)
              /\ elementLevels[i] # 0 => Pieces[End(i) + 2] = ListsPiece(i)
  <2>1. PICK n \in 1 .. cnt : i = n - 1
    <3>1. i + 1 \in 1 .. cnt /\ i = (i + 1) - 1
      BY <1>1, KnownType
    <3> QED
      BY <3>1
  <2>2. i \in 0 .. cnt /\ n \in 0 .. cnt /\ i \in Nat
    BY <1>1, <2>1
  <2>3. /\ Len(UpperBefore(n)) = Len(UpperBefore(i)) + Step1(i)
        /\ UpperBefore(n)[Len(UpperBefore(i)) + 1] = SizePiece(i)
        /\ elementLevels[i] # 0 => UpperBefore(n)[Len(UpperBefore(i)) + 2] = ListsPiece(i)
    BY <1>6, <2>1, <2>2, UpperGrows
  <2>4. /\ Len(UpperBefore(i)) \in Nat /\ Len(UpperBefore(n)) <= Len(UpperBefore(cnt))
        /\ Step1(i) \in {1, 2} /\ (elementLevels[i] # 0 => Step1(i) = 2)
    BY <1>6, <2>2 DEF Step1
  <2>5. /\ UpperBefore(cnt)[Len(UpperBefore(i)) + 1] = SizePiece(i)
        /\ elementLevels[i] # 0 => UpperBefore(cnt)[Len(UpperBefore(i)) + 2] = ListsPiece(i)
    BY <1>6, <2>2, <2>3, <2>4
  <2>6. /\ Pieces[1 + cnt + (Len(UpperBefore(i)) + 1)] = SizePiece(i)
        /\ elementLevels[i] # 0 => Pieces[1 + cnt + (Len(UpperBefore(i)) + 2)] = ListsPiece(i)
    BY <1>6, <1>11, <2>3, <2>4, <2>5
  <2>7. End(i) + 1 = 1 + cnt + (Len(UpperBefore(i)) + 1)
        /\ End(i) + 2 = 1 + cnt + (Len(UpperBefore(i)) + 2)
    BY <1>1, <2>4 DEF End
  <2>8. Pieces[i + 2] = ElementPiece(i)
    <3>1. i + 2 = n + 1 /\ i + 2 \in 1 .. 1 + cnt
      BY <1>1, <2>1, <2>2
    <3> QED
      BY <1>8, <1>11, <2>1, <3>1
  <2> QED
    BY <2>6, <2>7, <2>8
<1>15. End(0) = 1 + cnt /\ Pieces[1] = HeaderPiece
  BY <1>1, <1>2, <1>8, <1>11 DEF End
<1> QED
  BY <1>1, <1>11, <1>12, <1>13, <1>14, <1>15

------------------------------------------------------------------------------
(* loadIndex of a file that was cut off.                                   *)

(* The file holds the first pieces of the index. *)
FilePrefix ==
    /\ file \in Seq(PieceSet) /\ Len(file) <= Len(Pieces)
    /\ \A j \in 1 .. Len(file) : file[j] = Pieces[j]

LEMMA CountIs == ASSUME IInv, FilePrefix, file # <<>> PROVE Count = curElementCount
<1>1. Len(file) \in Nat \ {0}
  BY EmptySeq DEF FilePrefix
<1>2. file[1] = HeaderPiece
  BY <1>1, Layout DEF FilePrefix
<1> QED
  BY <1>2 DEF Count, HeaderPiece

(* The walk over the sizes comes past the lists of an element if they      *)
(* begin in the file, though it may end before they do.                    *)
Reached(n) == n = 0 \/ End(n - 1) < Len(file)

LEMMA WalkedIs ==
    ASSUME IInv, FilePrefix, file # <<>>
    PROVE  Walked = IF Reached(curElementCount) THEN End(curElementCount) ELSE Broken
<1> DEFINE body(f) == [n \in 0 .. Count |->
                          IF n = 0 THEN 1 + Count
                          ELSE IF f[n - 1] = Broken \/ f[n - 1] >= Len(file) THEN Broken
                          ELSE IF file[f[n - 1] + 1].size = 0 THEN f[n - 1] + 1
                          ELSE f[n - 1] + 2]
           ends == CHOOSE f : f = body(f)
           W == [n \in 0 .. curElementCount |-> IF Reached(n) THEN End(n) ELSE Broken]
<1>1. Walked = ends[Count]
  BY DEF Walked
<1>2. Count = curElementCount /\ curElementCount \in Nat /\ Len(file) \in Nat
  BY CountIs, Layout DEF FilePrefix
<1>3. ASSUME NEW n \in 1 .. curElementCount, NEW e, e = W[n - 1]
      PROVE  W[n] = IF e = Broken \/ e >= Len(file) THEN Broken
                    ELSE IF file[e + 1].size = 0 THEN e + 1 ELSE e + 2
  <2>1. /\ n - 1 \in 0 .. curElementCount /\ n - 1 \in Elements /\ n # 0
        /\ n \in 0 .. curElementCount
    BY <1>2, KnownType
  <2>2. /\ End(n - 1) \in Nat /\ End(n) \in Nat
        /\ End(n) = End(n - 1) + Step1(n - 1)
    BY <2>1, Layout
  <2>3. W[n] = IF End(n - 1) < Len(file) THEN End(n) ELSE Broken
    BY <2>1 DEF Reached
  <2>4. e = IF Reached(n - 1) THEN End(n - 1) ELSE Broken
    BY <1>3, <2>1
  <2> HIDE DEF W
  <2>5. CASE ~Reached(n - 1)
    <3>1. n - 1 # 0 /\ ~(End((n - 1) - 1) < Len(file))
      BY <2>5 DEF Reached
    <3>2. /\ n - 1 \in 1 .. curElementCount /\ (n - 1) - 1 \in 0 .. curElementCount
      BY <2>1, <3>1, <1>2
    <3>3. /\ End((n - 1) - 1) \in Nat /\ End(n - 1) = End((n - 1) - 1) + Step1((n - 1) - 1)
          /\ Step1((n - 1) - 1) \in Nat
      BY <3>2, Layout DEF Step1
    <3>4. ~(End(n - 1) < Len(file))
      BY <1>2, <3>1, <3>3
    <3> QED
      BY <2>3, <2>4, <2>5, <3>4
  <2>6. CASE Reached(n - 1) /\ End(n - 1) >= Len(file)
    BY <1>2, <2>2, <2>3, <2>4, <2>6
  <2>7. CASE Reached(n - 1) /\ End(n - 1) < Len(file)
    <3>1. file[End(n - 1) + 1] = SizePiece(n - 1)
      <4>1. End(n - 1) + 1 \in 1 .. Len(file)
        BY <1>2, <2>2, <2>7
      <4> QED
        BY <2>1, <4>1, Layout DEF FilePrefix
    <3>2. SizePiece(n - 1).size = 0 <=> elementLevels[n - 1] = 0
      BY <2>1, SizeIsLevel, KnownType DEF SizePiece
    <3>3. e = End(n - 1) /\ e # Broken /\ ~(e >= Len(file))
      BY <1>2, <2>2, <2>4, <2>7 DEF Broken
    <3>4. W[n] = End(n)
      BY <2>3, <2>7
    <3> QED
      BY <2>2, <3>1, <3>2, <3>3, <3>4 DEF Step1
  <2> QED
    BY <1>2, <2>2, <2>5, <2>6, <2>7
<1>4. W[0] = 1 + Count
  BY <1>2, Layout DEF Reached
<1>5. W = body(W)
  <2>1. \A n \in 0 .. curElementCount : n # 0 => n \in 1 .. curElementCount
    BY <1>2
  <2>2. \A n \in 0 .. curElementCount : W[n] = body(W)[n]
    BY <1>2, <1>3, <1>4, <2>1
  <2> QED
    BY <1>2, <2>2
<1>6. ends = body(ends)
  <2> HIDE DEF W, body
  <2> QED
    BY <1>5
<1> DEFINE S == {n \in 0 .. curElementCount : ends[n] = W[n]}
<1>7. 0 .. curElementCount \subseteq S
  <2> HIDE DEF ends, W
  <2>1. 0 \in S
    <3>1. ends[0] = 1 + Count
      BY <1>2, <1>6
    <3> QED
      BY <1>2, <1>4, <3>1
  <2>2. ASSUME NEW n \in 1 .. curElementCount, n - 1 \in S PROVE n \in S
    <3>1. n \in 0 .. Count /\ n # 0
      BY <1>2
    <3>2. PICK e : e = ends[n - 1]
      OBVIOUS
    <3>3. body(ends)[n] = IF e = Broken \/ e >= Len(file) THEN Broken
                          ELSE IF file[e + 1].size = 0 THEN e + 1 ELSE e + 2
      BY <3>1, <3>2
    <3>4. e = W[n - 1]
      BY <2>2, <3>2
    <3>5. ends[n] = W[n]
      BY <1>3, <1>6, <3>3, <3>4
    <3> QED
      BY <1>2, <3>1, <3>5
  <2> HIDE DEF S, body
  <2> QED
    BY <1>2, <2>1, <2>2, Induct
<1>8. ends[curElementCount] = W[curElementCount] /\ curElementCount \in 0 .. curElementCount
  BY <1>2, <1>7
<1> HIDE DEF ends
<1> QED
  BY <1>1, <1>2, <1>8

(* A file is taken for whole exactly if no piece is missing. *)
LEMMA WholeIs ==
    ASSUME IInv, FilePrefix, torn => Len(file) < Len(Pieces), torn \in BOOLEAN
    PROVE  IsWhole <=> file = Pieces
<1>1. /\ curElementCount \in Nat /\ Len(file) \in Nat /\ Len(Pieces) \in Nat
      /\ Len(Pieces) = End(curElementCount) /\ Pieces \in Seq(PieceSet)
  BY Layout DEF FilePrefix
<1>2. Len(Pieces) >= 1
  BY <1>1, Layout
<1>3. Len(file) = Len(Pieces) <=> file = Pieces
  <2>1. Len(file) = Len(Pieces) => file = Pieces
    BY <1>1, SeqEqual DEF FilePrefix
  <2> QED
    BY <2>1
<1>4. CASE file = <<>>
  <2>1. Len(file) = 0
    BY <1>4, EmptySeq
  <2> QED
    BY <1>2, <1>3, <1>4, <2>1 DEF IsWhole
<1>5. CASE file # <<>>
  <2>1. Walked = IF Reached(curElementCount) THEN End(curElementCount) ELSE Broken
    BY <1>5, WalkedIs
  <2>2. Len(file) = Len(Pieces) => Reached(curElementCount)
    <3>1. CASE curElementCount # 0
      <4>1. /\ curElementCount \in 1 .. curElementCount
            /\ curElementCount - 1 \in 0 .. curElementCount
        BY <1>1, <3>1
      <4>2. /\ End(curElementCount - 1) \in Nat
            /\ End(curElementCount) = End(curElementCount - 1) + Step1(curElementCount - 1)
            /\ Step1(curElementCount - 1) \in {1, 2}
        BY <4>1, Layout DEF Step1
      <4> QED
        BY <1>1, <4>2 DEF Reached
    <3> QED
      BY <3>1 DEF Reached
  <2>3. Broken # Len(file)
    BY <1>1 DEF Broken
  <2>4. Walked = Len(file) <=> file = Pieces
    BY <1>1, <1>3, <2>1, <2>2, <2>3
  <2>5. file = Pieces => ~torn
    BY <1>1
  <2> QED
    BY <1>5, <2>4, <2>5 DEF IsWhole
<1> QED
  BY <1>4, <1>5

------------------------------------------------------------------------------
(* loadIndex of a whole file.                                              *)

LEMMA WholeFile ==
    ASSUME IInv, file = Pieces
    PROVE  FilePrefix /\ file # <<>> /\ Count = curElementCount
<1>1. Len(Pieces) \in Nat /\ Len(Pieces) >= 1 /\ Pieces \in Seq(PieceSet)
  BY Layout
<1>2. FilePrefix /\ file # <<>>
  BY <1>1, EmptySeq DEF FilePrefix
<1> QED
  BY <1>2, CountIs

LEMMA UpperAtIs ==
    ASSUME IInv, file = Pieces, NEW i \in Elements PROVE UpperAt(i) = End(i) + 1
<1> DEFINE body(f) == [n \in 0 .. i |->
                          IF n = 0 THEN 2 + Count
                          ELSE f[n - 1] + (IF file[f[n - 1]].size = 0 THEN 1 ELSE 2)]
           at == CHOOSE f : f = body(f)
           A == [n \in 0 .. i |-> End(n) + 1]
<1>1. UpperAt(i) = at[i]
  BY DEF UpperAt
<1>2. /\ Count = curElementCount /\ curElementCount \in Nat /\ i \in Nat
      /\ i < curElementCount
  BY WholeFile, Layout, KnownType
<1>3. ASSUME NEW n \in 1 .. i, NEW e, e = A[n - 1]
      PROVE  A[n] = e + (IF file[e].size = 0 THEN 1 ELSE 2)
  <2>1. /\ n - 1 \in 0 .. i /\ n - 1 \in Elements /\ n \in 0 .. i
        /\ n \in 1 .. curElementCount /\ n - 1 \in 0 .. curElementCount
    BY <1>2, KnownType
  <2>2. /\ End(n - 1) \in Nat /\ End(n) = End(n - 1) + Step1(n - 1)
        /\ file[End(n - 1) + 1] = SizePiece(n - 1)
    BY <2>1, Layout
  <2>3. SizePiece(n - 1).size = 0 <=> elementLevels[n - 1] = 0
    BY <2>1, SizeIsLevel, KnownType DEF SizePiece
  <2> QED
    BY <1>3, <2>1, <2>2, <2>3 DEF Step1
<1>4. A[0] = 2 + Count
  BY <1>2, Layout
<1>5. A = body(A)
  <2>1. \A n \in 0 .. i : n # 0 => n \in 1 .. i
    BY <1>2
  <2>2. \A n \in 0 .. i : A[n] = body(A)[n]
    BY <1>2, <1>3, <1>4, <2>1
  <2> QED
    BY <1>2, <2>2
<1>6. at = body(at)
  <2> HIDE DEF A, body
  <2> QED
    BY <1>5
<1> DEFINE S == {n \in 0 .. i : at[n] = A[n]}
<1>7. 0 .. i \subseteq S
  <2> HIDE DEF at, A
  <2>1. 0 \in S
    <3>1. at[0] = 2 + Count
      BY <1>2, <1>6
    <3> QED
      BY <1>2, <1>4, <3>1
  <2>2. ASSUME NEW n \in 1 .. i, n - 1 \in S PROVE n \in S
    <3>1. n \in 0 .. i /\ n # 0
      BY <1>2
    <3>2. PICK e : e = at[n - 1]
      OBVIOUS
    <3>3. body(at)[n] = e + (IF file[e].size = 0 THEN 1 ELSE 2)
      BY <3>1, <3>2
    <3>4. e = A[n - 1]
      BY <2>2, <3>2
    <3>5. at[n] = A[n]
      BY <1>3, <1>6, <3>3, <3>4
    <3> QED
      BY <3>1, <3>5
  <2> HIDE DEF S, body
  <2> QED
    BY <1>2, <2>1, <2>2, Induct
<1>8. at[i] = A[i] /\ i \in 0 .. i
  BY <1>2, <1>7
<1> HIDE DEF at
<1> QED
  BY <1>1, <1>8

(* What is read back of an element. *)
LEMMA LoadedIs ==
    ASSUME IInv, file = Pieces, NEW i \in Elements
    PROVE  /\ LoadedElement(i) = ElementPiece(i)
           /\ LoadedLevel(i) = elementLevels[i]
           /\ \A l \in Levels \ {0} : l <= elementLevels[i] => /\ LoadedLists(i)[l] = links[i][l]
                                                             /\ LoadedStale(i)[l] = stale[i][l]
<1>1. /\ LoadedElement(i) = ElementPiece(i) /\ file[End(i) + 1] = SizePiece(i)
      /\ elementLevels[i] # 0 => file[End(i) + 2] = ListsPiece(i)
      /\ UpperAt(i) = End(i) + 1 /\ i \in Ids
  BY Layout, UpperAtIs, KnownType DEF LoadedElement
<1>2. LoadedLevel(i) = elementLevels[i]
  BY <1>1, SizeIsLevel DEF LoadedLevel, SizePiece
<1>3. ASSUME NEW l \in Levels \ {0}, l <= elementLevels[i]
      PROVE  LoadedLists(i)[l] = links[i][l] /\ LoadedStale(i)[l] = stale[i][l]
  <2>1. elementLevels[i] # 0
    BY <1>1, <1>3, LevelsType, SizesAssumption DEF Levels
  <2>2. /\ i \in 0 .. curElementCount /\ i + 1 \in 1 .. curElementCount /\ (i + 1) - 1 = i
        /\ i + 1 \in 0 .. curElementCount
    BY KnownType
  <2>3. /\ End(i) \in Nat /\ End(i + 1) = End(i) + Step1(i)
        /\ End(i + 1) <= Len(Pieces) /\ Len(Pieces) \in Nat
    BY <2>2, Layout
  <2>4. UpperAt(i) < Len(file) /\ file[UpperAt(i) + 1] = ListsPiece(i)
    <3>1. End(i) + 1 < Len(Pieces) /\ (End(i) + 1) + 1 = End(i) + 2
      BY <2>1, <2>3 DEF Step1
    <3> QED
      BY <1>1, <2>1, <3>1
  <2>5. LoadedLists(i) = ListsPiece(i).lists /\ LoadedStale(i) = ListsPiece(i).stale
    BY <2>4 DEF LoadedLists, LoadedStale
  <2> QED
    BY <2>5 DEF ListsPiece
<1> QED
  BY <1>1, <1>2, <1>3

LEMMA LabelIs ==
    ASSUME IInv, FInv
    PROVE  \A i \in Elements, label \in DOMAIN labelLookup :
               label = ExternalLabel(i) <=> labelLookup[label] = i
<1> SUFFICES ASSUME NEW i \in Elements, NEW label \in DOMAIN labelLookup
             PROVE  label = ExternalLabel(i) <=> labelLookup[label] = i
  OBVIOUS
<1>1. PICK x \in DOMAIN labelLookup : labelLookup[x] = i
  BY DEF FInv, OneLabelEach
<1>2. ExternalLabel(i) \in DOMAIN labelLookup /\ labelLookup[ExternalLabel(i)] = i
  BY <1>1 DEF ExternalLabel
<1> QED
  BY <1>2 DEF FInv, OneLabelEach

(* What is read from a whole file is the index that is in the variables.   *)
LEMMA RestoreIs ==
    ASSUME IInv, FInv, Quiet, file = Pieces, Restore
    PROVE  /\ UNCHANGED <<curElementCount, labelLookup, graph, entry>>
           /\ incrementalId' = 0
           /\ hasDeletions' \in BOOLEAN /\ (deleted' # {} => hasDeletions')
<1>1. /\ Count = curElementCount /\ 0 .. Count - 1 = Elements
  BY WholeFile DEF Elements
<1>2. /\ curElementCount' = curElementCount /\ incrementalId' = 0
      /\ labelLookup' = [label \in {LoadedElement(i).label : i \in Elements} |->
                            CHOOSE i \in Elements : LoadedElement(i).label = label]
      /\ initialised' = Elements
      /\ elementLevels' = [i \in Ids |-> IF i \in Elements THEN LoadedLevel(i) ELSE 0]
      /\ vec' = [i \in Ids |-> IF i \in Elements THEN LoadedElement(i).vector ELSE Garbage]
      /\ deleted' = {i \in Elements : LoadedElement(i).deleted}
      /\ links' = [i \in Ids |-> [l \in Levels |->
                      IF i \notin Elements THEN {}
                      ELSE IF l = 0 THEN LoadedElement(i).list
                      ELSE IF l <= LoadedLevel(i) THEN LoadedLists(i)[l]
                      ELSE {}]]
      /\ stale' = [i \in Ids |-> [l \in Levels |->
                      IF i \notin Elements THEN {}
                      ELSE IF l = 0 THEN LoadedElement(i).stale
                      ELSE IF l <= LoadedLevel(i) THEN LoadedStale(i)[l]
                      ELSE {}]]
      /\ enterpoint' = file[1].enterpoint /\ maxlevel' = file[1].maxlevel
      /\ hasDeletions' = \E i \in Elements : LoadedElement(i).deleted
  <2> DEFINE
        R(E) ==
          /\ labelLookup' = [label \in {LoadedElement(i).label : i \in E} |->
                                CHOOSE i \in E : LoadedElement(i).label = label]
          /\ initialised' = E
          /\ elementLevels' = [i \in Ids |-> IF i \in E THEN LoadedLevel(i) ELSE 0]
          /\ vec' = [i \in Ids |-> IF i \in E THEN LoadedElement(i).vector ELSE Garbage]
          /\ deleted' = {i \in E : LoadedElement(i).deleted}
          /\ links' = [i \in Ids |-> [l \in Levels |->
                          IF i \notin E THEN {}
                          ELSE IF l = 0 THEN LoadedElement(i).list
                          ELSE IF l <= LoadedLevel(i) THEN LoadedLists(i)[l]
                          ELSE {}]]
          /\ stale' = [i \in Ids |-> [l \in Levels |->
                          IF i \notin E THEN {}
                          ELSE IF l = 0 THEN LoadedElement(i).stale
                          ELSE IF l <= LoadedLevel(i) THEN LoadedStale(i)[l]
                          ELSE {}]]
          /\ hasDeletions' = \E i \in E : LoadedElement(i).deleted
  <2>1. R(0 .. Count - 1)
    BY DEF Restore, LoadedFlag
  <2>2. R(Elements)
    <3> HIDE DEF R
    <3> QED
      BY <1>1, <2>1
  <2>3. /\ curElementCount' = Count /\ incrementalId' = 0
        /\ enterpoint' = file[1].enterpoint /\ maxlevel' = file[1].maxlevel
    BY DEF Restore
  <2> QED
    BY <1>1, <2>2, <2>3
<1>3. /\ \A i \in Elements : /\ LoadedElement(i).label = ExternalLabel(i)
                             /\ LoadedElement(i).vector = vec[i]
                             /\ LoadedElement(i).list = links[i][0]
                             /\ LoadedElement(i).stale = stale[i][0]
                             /\ LoadedElement(i).deleted = (i \in deleted)
      /\ file[1].enterpoint = enterpoint /\ file[1].maxlevel = maxlevel
  BY LoadedIs, Layout DEF ElementPiece, HeaderPiece
<1>4. /\ elementLevels \in [Ids -> Levels] /\ vec \in [Ids -> Points]
      /\ links \in [Ids -> [Levels -> SUBSET Ids]] /\ Elements \subseteq Ids
      /\ stale \in [Ids -> [Levels -> SUBSET Ids]]
      /\ labelLookup \in [DOMAIN labelLookup -> Ids]
  BY KnownType DEF IInv, TypeOK
<1>5. elementLevels' = elementLevels
  <2>1. \A i \in Ids : elementLevels[i] = IF i \in Elements THEN LoadedLevel(i) ELSE 0
    BY LoadedIs DEF FInv, Blank
  <2> QED
    BY <1>2, <1>4, <2>1
<1>6. vec' = vec
  <2>1. \A i \in Ids :
          vec[i] = IF i \in Elements THEN LoadedElement(i).vector ELSE Garbage
    BY <1>3 DEF FInv, Blank
  <2> QED
    BY <1>2, <1>4, <2>1
<1>7. deleted' = deleted
  BY <1>2, <1>3 DEF FInv
<1>8. initialised' = initialised
  <2>1. ASSUME NEW i \in Elements PROVE i \in initialised
    <3>1. PICK c \in Calls : Owner(c, i)
      BY DEF FInv, Owned
    <3>2. pc[c] \in {"ready", "done"}
      BY DEF Quiet, InFlight
    <3> QED
      BY <3>1, <3>2 DEF Owner, Coming
  <2> QED
    BY <1>2, <2>1 DEF FInv
<1>9. links' = links
  <2> DEFINE L(i, l) == IF i \notin Elements THEN {}
                        ELSE IF l = 0 THEN LoadedElement(i).list
                        ELSE IF l <= LoadedLevel(i) THEN LoadedLists(i)[l]
                        ELSE {}
  <2>1. ASSUME NEW i \in Ids, NEW l \in Levels PROVE links[i][l] = L(i, l)
    <3>1. links[i][l] # {} => i \in Elements /\ l <= elementLevels[i]
      BY DEF FInv, LinksFiled, Filed
    <3>2. CASE i \notin Elements
      BY <3>1, <3>2
    <3>3. CASE i \in Elements /\ l = 0
      BY <1>3, <3>3
    <3>4. CASE i \in Elements /\ l # 0 /\ l <= elementLevels[i]
      BY <3>4, LoadedIs
    <3>5. CASE i \in Elements /\ l # 0 /\ ~(l <= elementLevels[i])
      BY <3>1, <3>5, LoadedIs
    <3> QED
      BY <3>2, <3>3, <3>4, <3>5
  <2>2. links' = [i \in Ids |-> [l \in Levels |-> L(i, l)]]
    BY <1>2
  <2> HIDE DEF L
  <2>3. \A i \in Ids : links[i] = [l \in Levels |-> L(i, l)]
    BY <1>4, <2>1
  <2> QED
    BY <1>4, <2>2, <2>3
<1>10. labelLookup' = labelLookup
  <2> DEFINE D == {LoadedElement(i).label : i \in Elements}
             at(label) == CHOOSE i \in Elements : LoadedElement(i).label = label
  <2>1. \A label \in DOMAIN labelLookup : labelLookup[label] \in Elements
    BY KnownType DEF IInv, LabelsOK, TypeOK, Ids
  <2>2. \A i \in Elements : ExternalLabel(i) \in DOMAIN labelLookup
    BY DEF FInv, OneLabelEach, ExternalLabel
  <2>3. D = DOMAIN labelLookup
    <3>1. \A i \in Elements : LoadedElement(i).label \in DOMAIN labelLookup
      BY <1>3, <2>2
    <3>2. ASSUME NEW label \in DOMAIN labelLookup
          PROVE  \E i \in Elements : LoadedElement(i).label = label
      <4>1. PICK i \in Elements : i = labelLookup[label]
        BY <2>1
      <4>2. label = ExternalLabel(i)
        BY <4>1, LabelIs
      <4> QED
        BY <1>3, <4>2
    <3> QED
      BY <3>1, <3>2
  <2>4. ASSUME NEW label \in DOMAIN labelLookup PROVE at(label) = labelLookup[label]
    <3>1. \A i \in Elements : LoadedElement(i).label = label <=> labelLookup[label] = i
      BY <1>3, LabelIs
    <3>2. labelLookup[label] \in Elements /\ LoadedElement(labelLookup[label]).label = label
      BY <2>1, <3>1
    <3>3. at(label) \in Elements /\ LoadedElement(at(label)).label = label
      BY <3>2
    <3> HIDE DEF at
    <3> QED
      BY <3>1, <3>3
  <2>5. labelLookup' = [label \in D |-> at(label)]
    BY <1>2
  <2> HIDE DEF D, at
  <2> QED
    BY <1>4, <2>3, <2>4, <2>5
<1>11. enterpoint' = enterpoint /\ maxlevel' = maxlevel
  BY <1>2, <1>3
<1>12. deleted' # {} => hasDeletions'
  BY <1>2
<1>13. hasDeletions' \in BOOLEAN
  BY <1>2
<1>14. stale' = stale
  <2> DEFINE L(i, l) == IF i \notin Elements THEN {}
                        ELSE IF l = 0 THEN LoadedElement(i).stale
                        ELSE IF l <= LoadedLevel(i) THEN LoadedStale(i)[l]
                        ELSE {}
  <2>1. ASSUME NEW i \in Ids, NEW l \in Levels PROVE stale[i][l] = L(i, l)
    <3>1. stale[i][l] # {} => i \in Elements /\ l <= elementLevels[i]
      BY DEF FInv, LinksFiled, Filed
    <3>2. CASE i \notin Elements
      BY <3>1, <3>2
    <3>3. CASE i \in Elements /\ l = 0
      BY <1>3, <3>3
    <3>4. CASE i \in Elements /\ l # 0 /\ l <= elementLevels[i]
      BY <3>4, LoadedIs
    <3>5. CASE i \in Elements /\ l # 0 /\ ~(l <= elementLevels[i])
      BY <3>1, <3>5, LoadedIs
    <3> QED
      BY <3>2, <3>3, <3>4, <3>5
  <2>2. stale' = [i \in Ids |-> [l \in Levels |-> L(i, l)]]
    BY <1>2
  <2> HIDE DEF L
  <2>3. \A i \in Ids : stale[i] = [l \in Levels |-> L(i, l)]
    BY <1>4, <2>1
  <2> QED
    BY <1>4, <2>2, <2>3
<1> QED
  BY <1>2, <1>5, <1>6, <1>7, <1>8, <1>9, <1>10, <1>11, <1>12, <1>13, <1>14 DEF graph, entry

------------------------------------------------------------------------------
(* The pieces stay the same while the index does.                          *)

LEMMA UpperIs == curElementCount \in Nat => IsUpper(Upper)
BY UpperExists

LEMMA PiecesSame ==
    ASSUME IInv, UNCHANGED qvars PROVE Pieces' = Pieces /\ PieceSet' = PieceSet
<1>1. UNCHANGED <<curElementCount, labelLookup, elementLevels, vec, deleted, links, stale,
                  enterpoint, maxlevel>>
  BY DEF qvars, vars, store, graph, entry
<1>2. curElementCount \in Nat /\ Elements' = Elements
  BY <1>1, KnownType DEF Elements
<1>3. HeaderPiece' = HeaderPiece
  BY <1>1 DEF HeaderPiece
<1>4. ASSUME NEW i PROVE ElementPiece(i)' = ElementPiece(i)
  <2> DEFINE Ext(table) == CHOOSE label \in DOMAIN table : table[label] = i
  <2>1. ExternalLabel(i)' = Ext(labelLookup') /\ ExternalLabel(i) = Ext(labelLookup)
    BY DEF ExternalLabel
  <2> HIDE DEF Ext
  <2>2. ExternalLabel(i)' = ExternalLabel(i)
    BY <1>1, <2>1
  <2> QED
    BY <1>1, <2>2 DEF ElementPiece
<1>5. ASSUME NEW i PROVE SizePiece(i)' = SizePiece(i) /\ UpperSize(i)' = UpperSize(i)
  BY <1>1 DEF SizePiece, UpperSize, ListSize
<1>6. ASSUME NEW i PROVE ListsPiece(i)' = ListsPiece(i)
  BY <1>1 DEF ListsPiece
<1>7. ASSUME NEW i PROVE UpperPieces(i)' = UpperPieces(i)
  <2>1. UpperPieces(i) = IF UpperSize(i) = 0 THEN <<[kind |-> "size", size |-> 0]>>
                         ELSE <<SizePiece(i), ListsPiece(i)>>
    BY DEF UpperPieces, SizePiece, ListsPiece
  <2>2. UpperPieces(i)' = IF UpperSize(i)' = 0 THEN <<[kind |-> "size", size |-> 0]>>
                          ELSE <<SizePiece(i)', ListsPiece(i)'>>
    BY DEF UpperPieces, SizePiece, ListsPiece
  <2> QED
    BY <1>5, <1>6, <2>1, <2>2
<1>8. PieceSet' = PieceSet
  BY <1>2, <1>3, <1>4, <1>5, <1>6 DEF PieceSet, UpperSet
<1>9. AllUpperPieces' = AllUpperPieces
  <2>1. (curElementCount \in Nat)'
    BY <1>1, <1>2
  <2>2. IsUpper(Upper)'
    BY <2>1, UpperIs, PTL
  <2>3. IsUpper(Upper)
    BY <1>2, UpperIs
  <2> DEFINE S == {n \in 0 .. curElementCount : Upper'[n] = Upper[n]}
  <2>4. 0 \in S
    BY <1>1, <1>2, <2>2, <2>3 DEF IsUpper
  <2>5. ASSUME NEW n \in 1 .. curElementCount, n - 1 \in S PROVE n \in S
    <3>1. n \in 0 .. curElementCount /\ n # 0 /\ Upper'[n - 1] = Upper[n - 1]
      BY <1>2, <2>5
    <3>2. Upper[n] = Upper[n - 1] \o UpperPieces(n - 1)
      BY <2>3, <3>1 DEF IsUpper
    <3>3. Upper'[n] = Upper'[n - 1] \o UpperPieces(n - 1)'
      BY <1>1, <2>2, <3>1 DEF IsUpper
    <3> QED
      BY <1>7, <3>1, <3>2, <3>3
  <2>6. 0 .. curElementCount \subseteq S
    <3> HIDE DEF S
    <3> QED
      BY <1>2, <2>4, <2>5, Induct
  <2>7. Upper'[curElementCount] = Upper[curElementCount]
    BY <1>2, <2>6
  <2>8. AllUpperPieces = Upper[curElementCount]
    BY UpperAll DEF UpperBefore
  <2>9. AllUpperPieces' = Upper'[curElementCount']
    BY DEF AllUpperPieces, Upper, IsUpper
  <2> QED
    BY <1>1, <2>7, <2>8, <2>9
<1>10. Pieces' = Pieces
  <2>1. [n \in 1 .. curElementCount' |-> ElementPiece(n - 1)']
          = [n \in 1 .. curElementCount |-> ElementPiece(n - 1)]
    BY <1>1, <1>4
  <2> QED
    BY <1>3, <1>9, <2>1 DEF Pieces
<1> QED
  BY <1>8, <1>10

------------------------------------------------------------------------------
(* The inductive invariant: while the index is in a file and not at work,  *)
(* nobody is in the middle of anything, and the file has no piece that is  *)
(* not the index's.                                                        *)

FileInv ==
    /\ phase \in {"up", "saving", "down", "refused"} /\ torn \in BOOLEAN
    /\ phase \in {"saving", "down"} => Quiet /\ ~Reading /\ FilePrefix
    /\ phase = "saving" => ~torn
    /\ phase = "down" /\ torn => Len(file) < Len(Pieces)

PInv == IInv /\ FInv /\ QIInv /\ FileInv

(* The index stays as it is. *)
LEMMA IndexStays ==
    ASSUME IInv, FInv, QIInv, UNCHANGED qvars PROVE IInv' /\ FInv' /\ QIInv'
<1>1. IInv'
  BY NextIInv DEF qvars
<1>2. FInv'
  BY NextFiled DEF qvars
<1> QED
  BY <1>1, <1>2, StutterStep

LEMMA BeginSaveStep == ASSUME PInv, BeginSave PROVE PInv'
<1>1. IInv' /\ FInv' /\ QIInv' /\ Pieces' = Pieces /\ PieceSet' = PieceSet
  BY IndexStays, PiecesSame DEF PInv, BeginSave
<1>2. phase' = "saving" /\ file' = <<>> /\ torn' = FALSE /\ Quiet' /\ ~Reading'
  BY DEF BeginSave, Quiet, InFlight, Reading, qvars, vars, calls
<1>3. FilePrefix'
  <2>1. <<>> \in Seq(PieceSet) /\ Len(<<>>) = 0 /\ Len(Pieces) \in Nat
    BY EmptySeq, Layout DEF PInv
  <2> QED
    BY <1>1, <1>2, <2>1 DEF FilePrefix
<1> QED
  BY <1>1, <1>2, <1>3 DEF PInv, FileInv

LEMMA WritePieceStep == ASSUME PInv, WritePiece PROVE PInv'
<1>1. IInv' /\ FInv' /\ QIInv' /\ Pieces' = Pieces /\ PieceSet' = PieceSet
  BY IndexStays, PiecesSame DEF PInv, WritePiece
<1>2. /\ phase = "saving" /\ phase' = "saving" /\ torn' = torn
      /\ Quiet' /\ ~Reading' /\ FilePrefix /\ ~torn
  BY DEF PInv, FileInv, WritePiece, Quiet, InFlight, Reading, qvars, vars, calls
<1>3. FilePrefix'
  <2>1. PICK k, P : k \in Nat /\ k = Len(file) /\ P = Pieces
    BY <1>2 DEF FilePrefix
  <2>2. /\ file \in Seq(PieceSet) /\ P \in Seq(PieceSet) /\ k < Len(P) /\ Len(P) \in Nat
        /\ file' = Append(file, P[k + 1])
    BY <1>2, <2>1, Layout DEF PInv, FilePrefix, WritePiece
  <2>3. P[k + 1] \in PieceSet
    BY <2>1, <2>2, ElementOfSeq
  <2>4. /\ file' \in Seq(PieceSet) /\ Len(file') = k + 1 /\ file'[k + 1] = P[k + 1]
        /\ \A j \in 1 .. k : file'[j] = file[j]
    BY <2>1, <2>2, <2>3
  <2>5. \A j \in 1 .. k + 1 : file'[j] = P[j]
    <3>1. \A j \in 1 .. k : file[j] = P[j]
      BY <1>2, <2>1 DEF FilePrefix
    <3> QED
      BY <2>1, <2>4, <3>1
  <2> QED
    BY <1>1, <2>1, <2>2, <2>4, <2>5 DEF FilePrefix
<1> QED
  BY <1>1, <1>2, <1>3 DEF PInv, FileInv

LEMMA ExitStep == ASSUME PInv, Exit PROVE PInv'
<1>1. IInv' /\ FInv' /\ QIInv' /\ Pieces' = Pieces /\ PieceSet' = PieceSet
  BY IndexStays, PiecesSame DEF PInv, Exit
<1>2. /\ phase' = "down" /\ file' = file /\ torn' \in BOOLEAN
      /\ torn' => Len(file) < Len(Pieces)
      /\ Quiet' /\ ~Reading' /\ FilePrefix
  BY DEF PInv, FileInv, Exit, Quiet, InFlight, Reading, qvars, vars, calls
<1>3. FilePrefix'
  BY <1>1, <1>2 DEF FilePrefix
<1> QED
  BY <1>1, <1>2, <1>3 DEF PInv, FileInv

(* What Load does is what the index before it says. *)
LEMMA LoadIs ==
    ASSUME PInv, Load
    PROVE  /\ Quiet /\ ~Reading
           /\ \/ /\ file = Pieces /\ phase' = "up"
                 /\ UNCHANGED <<curElementCount, labelLookup, graph, entry>>
                 /\ incrementalId' = 0 /\ hasDeletions' \in BOOLEAN
                 /\ deleted' # {} => hasDeletions'
                 /\ UNCHANGED <<locks, calls, query>>
              \/ file # Pieces /\ phase' = "refused" /\ UNCHANGED qvars
<1>1. IInv /\ FInv /\ FilePrefix /\ Quiet /\ ~Reading /\ torn \in BOOLEAN
      /\ (torn => Len(file) < Len(Pieces))
  BY DEF PInv, FileInv, Load
<1>2. IsWhole <=> file = Pieces
  BY <1>1, WholeIs
<1>3. CASE IsWhole /\ Restore /\ phase' = "up" /\ UNCHANGED <<locks, calls, query>>
  BY <1>1, <1>2, <1>3, RestoreIs
<1>4. CASE ~IsWhole /\ phase' = "refused" /\ UNCHANGED qvars
  BY <1>1, <1>2, <1>4
<1> QED
  BY <1>3, <1>4 DEF Load

LEMMA LoadStep == ASSUME PInv, Load PROVE PInv'
<1>1. torn' = FALSE /\ phase' \in {"up", "refused"}
  BY DEF Load
<1>2. FileInv'
  BY <1>1 DEF FileInv
<1>3. CASE UNCHANGED qvars
  BY <1>2, <1>3, IndexStays DEF PInv
<1>4. CASE /\ UNCHANGED <<curElementCount, labelLookup, graph, entry>>
           /\ incrementalId' = 0 /\ hasDeletions' \in BOOLEAN
           /\ deleted' # {} => hasDeletions'
           /\ UNCHANGED <<locks, calls, query>>
  <2>1. TypeOK'
    BY <1>4 DEF PInv, IInv, TypeOK, graph, entry, locks, calls
  <2>2. IInv'
    BY <1>4, <2>1, QuietStep DEF PInv, graph
  <2>3. FInv'
    BY <1>4, QuietFiled DEF PInv, FInv, graph
  <2>4. query.pc = "idle" /\ query' = query
    BY <1>4, LoadIs DEF Reading
  <2>5. query' \in QueryType'
    BY <2>4 DEF PInv, QIInv, QueryType, Results, Places_Q
  <2>6. Placed' /\ Searching' /\ NothingDeletedAnswered' /\ NearestReached'
        /\ NeverEmptyHanded'
    BY <2>4 DEF Placed, Searching, NothingDeletedAnswered, NearestReached, NeverEmptyHanded,
                Answered
  <2>7. QIInv'
    BY <1>4, <2>5, <2>6 DEF QIInv, FlagCovers
  <2> QED
    BY <1>2, <2>2, <2>3, <2>7 DEF PInv
<1> QED
  BY <1>3, <1>4, LoadIs

LEMMA PNextPInv == PInv /\ [PNext]_pvars => PInv'
<1> SUFFICES ASSUME PInv, [PNext]_pvars PROVE PInv'
  OBVIOUS
<1>1. CASE phase = "up" /\ QNext /\ UNCHANGED <<phase, file, torn>>
  <2>1. [Next]_vars /\ [QNext]_qvars
    BY <1>1, QNextIsNext
  <2>2. IInv' /\ FInv'
    BY <2>1, NextIInv, NextFiled DEF PInv
  <2>3. QIInv'
    BY <2>1, QNextIInv DEF PInv, IInv
  <2>4. FileInv'
    BY <1>1 DEF PInv, FileInv
  <2> QED
    BY <2>2, <2>3, <2>4 DEF PInv
<1>2. CASE UNCHANGED pvars
  <2>1. UNCHANGED <<phase, file, torn, query, pc>> /\ UNCHANGED qvars
    BY <1>2 DEF pvars, qvars, vars, calls
  <2>2. IInv' /\ FInv' /\ QIInv' /\ Pieces' = Pieces /\ PieceSet' = PieceSet
    BY <2>1, IndexStays, PiecesSame DEF PInv
  <2>3. Quiet' = Quiet /\ Reading' = Reading
    BY <2>1 DEF Quiet, InFlight, Reading
  <2>4. FilePrefix' = FilePrefix
    BY <2>1, <2>2 DEF FilePrefix
  <2>5. FileInv'
    BY <2>1, <2>2, <2>3, <2>4 DEF PInv, FileInv
  <2> QED
    BY <2>2, <2>5 DEF PInv
<1> QED
  BY <1>1, <1>2, BeginSaveStep, WritePieceStep, ExitStep, LoadStep DEF PNext, Refused

LEMMA PInvariance == PSpec => []PInv
<1>1. PInit => PInv
  <2> SUFFICES ASSUME PInit PROVE PInv
    OBVIOUS
  <2>1. Init /\ QInit /\ phase = "up" /\ torn = FALSE
    BY DEF PInit, QInit
  <2>2. FileInv
    BY <2>1 DEF FileInv
  <2> QED
    BY <2>1, <2>2, InitIInv, InitFInv, QInitIInv DEF PInv
<1> QED
  BY <1>1, PNextPInv, PTL DEF PSpec

------------------------------------------------------------------------------
(* The theorems.                                                           *)

(* A file is accepted exactly if it is whole: wherever the process ended   *)
(* in the middle of a save, between two pieces or inside one, and whatever *)
(* the index is, the sizes of the upper lists do not lead to the end of    *)
(* what was written (hnswalg.h:640-690).                                   *)
THEOREM CutFilesRefused == PSpec => OnlyWholeFilesLoad
<1>1. PInv /\ [PNext]_pvars => [Load => (phase' = "up" <=> file = Pieces)]_pvars
  BY LoadIs
<1> QED
  BY <1>1, PInvariance, PTL DEF PSpec, OnlyWholeFilesLoad

(* Whatever insertions, updates and deletions made of an index, one that   *)
(* is saved while nobody works on it comes back with the same elements,    *)
(* labels, levels, vectors, marks, links and entry point: all that is not  *)
(* written is found again from what is (hnswalg.h:601-628, 692-746).       *)
THEOREM IndexSurvives == PSpec => LoadedAsSaved
<1>1. PInv /\ [PNext]_pvars
        => [Load /\ phase' = "up"
               => UNCHANGED <<curElementCount, labelLookup, graph, entry>>]_pvars
  BY LoadIs
<1> QED
  BY <1>1, PInvariance, PTL DEF PSpec, LoadedAsSaved

(* A deletion outlives the process: no query of a loaded index answers an  *)
(* element that was marked before the save, although the flag that makes   *)
(* the search look at the marks is not saved (hnswalg.h:605-628, 739-746). *)
THEOREM DeletionsSurvive == PSpec => []NothingDeletedAnswered
<1>1. PInv => NothingDeletedAnswered
  BY DEF PInv, QIInv
<1> QED
  BY <1>1, PInvariance, PTL

(* Across saves and loads too, a query comes back empty only when its      *)
(* links lead to nothing visible (hnswalg.h:258-266, 274).                 *)
THEOREM LoadedIndexAnswers == PSpec => []NeverEmptyHanded
<1>1. PInv => NeverEmptyHanded
  BY DEF PInv, QIInv
<1> QED
  BY <1>1, PInvariance, PTL

------------------------------------------------------------------------------
(* What goes on in a loaded index.                                         *)

(* Nothing that an insertion, an update or a query could notice.           *)
SameIndex == UNCHANGED <<curElementCount, labelLookup, graph, entry, locks, calls, query>>

LEMMA StepOrLoad ==
    ASSUME PInv, [PNext]_pvars PROVE ([Next]_vars /\ [QNext]_qvars) \/ SameIndex
<1>1. CASE Load
  BY <1>1, LoadIs DEF SameIndex, qvars, vars, store
<1>2. CASE UNCHANGED qvars
  BY <1>2 DEF qvars
<1>3. CASE QNext
  BY <1>3, QNextIsNext
<1> QED
  BY <1>1, <1>2, <1>3 DEF PNext, BeginSave, WritePiece, Exit, Refused, pvars

LEMMA InsertionsSurvive ==
    ASSUME InsertionsOnly PROVE PSpec => [](PInv /\ JInv /\ Given /\ WInv)
<1>1. PInit => JInv /\ Given /\ WInv
  BY InitInserts DEF PInit, QInit, Init, Given, WInv, MeetsPassed
<1>2. PInv /\ PInv' /\ JInv /\ [PNext]_pvars => JInv'
  BY StepOrLoad, NextInserts, InsertsStay DEF PInv, SameIndex, graph, locks, calls
<1>3. PInv /\ JInv /\ Given /\ [PNext]_pvars => Given'
  BY StepOrLoad, NextGiven DEF PInv, SameIndex, calls, Given
<1>4. PInv /\ PInv' /\ JInv /\ JInv' /\ WInv /\ [PNext]_pvars => WInv'
  BY StepOrLoad, NextWaits, WaitsStay DEF PInv, SameIndex, calls
<1> QED
  BY <1>1, <1>2, <1>3, <1>4, PInvariance, PTL DEF PSpec

LEMMA FoundSurvives ==
    ASSUME InsertionsOnly, DeleteLabels = {} PROVE PSpec => []KInv
<1>1. PInit => KInv
  BY DEF PInit, QInit, Init, KInv, NoUndefinedRead, SomethingFound
<1>2. PInv /\ JInv /\ KInv /\ [PNext]_pvars => KInv'
  BY StepOrLoad, NextFound, FoundSame DEF PInv, SameIndex, graph, calls
<1> QED
  BY <1>1, <1>2, InsertionsSurvive, PTL DEF PSpec

LEMMA TurnsSurvive == ASSUME InTurn PROVE PSpec => [](PInv /\ TInv /\ HalfOK)
<1>1. PInit => TInv /\ HalfOK
  BY InitTurns DEF PInit, QInit, Init, HalfOK
<1>2. PInv /\ PInv' /\ TInv /\ HalfOK /\ [PNext]_pvars => TInv' /\ HalfOK'
  <2> SUFFICES ASSUME PInv, PInv', TInv, HalfOK, [PNext]_pvars PROVE TInv' /\ HalfOK'
    OBVIOUS
  <2>1. CASE SameIndex
    BY <2>1, TurnsStay DEF SameIndex, graph, entry, calls, HalfOK
  <2>2. CASE [Next]_vars
    BY <2>2, NextTurns, HalfKept DEF PInv
  <2> QED
    BY <2>1, <2>2, StepOrLoad
<1> QED
  BY <1>1, <1>2, PInvariance, PTL DEF PSpec

LEMMA ConnectedSurvives ==
    ASSUME InsertionsOnly, DeleteLabels = {} PROVE PSpec /\ []~Pruning => []CInv
<1>1. PInit => CInv
  BY DEF PInit, QInit, Init, CInv, Connected, Mutual, Inserted
<1>2. ~Pruning /\ PInv /\ JInv /\ KInv /\ CInv /\ [PNext]_pvars => CInv'
  BY StepOrLoad, NextConnected, ConnectedSame DEF PInv, SameIndex, graph, calls
<1> QED
  BY <1>1, <1>2, InsertionsSurvive, FoundSurvives, PTL DEF PSpec

LEMMA LinkedSurvives ==
    ASSUME InsertionsOnly, MaxParallel = 1 PROVE PSpec => []DInv
<1>1. PInit => DInv
  BY DEF PInit, QInit, Init, DInv, OneBusy, Busy, StaysLinked
<1>2. PInv /\ PInv' /\ JInv /\ JInv' /\ DInv /\ [PNext]_pvars => DInv'
  BY StepOrLoad, NextLinked, LinkedSame DEF PInv, SameIndex, graph, calls
<1> QED
  BY <1>1, <1>2, InsertionsSurvive, PTL DEF PSpec

LEMMA UndisturbedSurvives == PSpec => []Undisturbed
<1>1. PInit => Undisturbed
  BY DEF PInit, QInit, NoQuery, Reading, Undisturbed
<1>2. PInv /\ Undisturbed /\ [PNext]_pvars => Undisturbed'
  BY StepOrLoad, QNextUndisturbed DEF SameIndex, calls, Undisturbed, Reading, InFlight
<1> QED
  BY <1>1, <1>2, PInvariance, PTL DEF PSpec

LEMMA TameSurvives ==
    ASSUME InsertionsOnly \/ InTurn PROVE PSpec => []Tame
<1>1. PInit => Tame
  BY DEF PInit, QInit, NoQuery, Reading, Tame
<1>2. ASSUME PInv, EntryReady, ListsLead, Tame, [PNext]_pvars PROVE Tame'
  <2>1. CASE SameIndex
    BY <1>2, <2>1 DEF SameIndex, graph, Tame, Members, Reading
  <2>2. CASE [QNext]_qvars
    BY <1>2, <2>2, QNextTame DEF PInv, IInv
  <2> QED
    BY <1>2, <2>1, <2>2, StepOrLoad
<1>3. CASE InsertionsOnly
  <2>1. PInv /\ JInv /\ Given => EntryReady /\ ListsLead
    BY InsertionsReady DEF PInv
  <2> QED
    BY <1>1, <1>2, <1>3, <2>1, InsertionsSurvive, PTL DEF PSpec
<1>4. CASE InTurn
  <2>1. PInv /\ TInv /\ Undisturbed => EntryReady /\ ListsLead
    BY TurnsReady DEF PInv
  <2> QED
    BY <1>1, <1>2, <1>4, <2>1, TurnsSurvive, UndisturbedSurvives, PTL DEF PSpec
<1> QED
  BY <1>3, <1>4

(* Insertions that go on in a loaded index keep its graph well formed, as  *)
(* if there had been no save (hnswalg.h:1177-1197).                        *)
THEOREM GraphSurvives == ASSUME InsertionsOnly PROVE PSpec => []GraphWellFormed
<1>1. JInv => GraphWellFormed
  BY DEF JInv, Graph, LinksOK, GraphWellFormed, HasList, Members
<1> QED
  BY <1>1, InsertionsSurvive, PTL

(* Parallel insertions into a loaded index do not come to wait for each    *)
(* other in a circle either (hnswalg.h:175, 192, 436, 1008-1020, 1050).    *)
THEOREM NoDeadlockAfterLoad == ASSUME InsertionsOnly PROVE PSpec => []NoWaitCycle
<1>1. PInv /\ JInv /\ WInv => NoWaitCycle
  BY SomeoneRuns DEF PInv
<1> QED
  BY <1>1, InsertionsSurvive, PTL

(* While nothing is deleted, insertions that go on in a loaded index read  *)
(* no memory that nobody wrote, and none of the code's sanity checks       *)
(* throws: the lists, levels and the entry point that were read back are   *)
(* those they would have found (hnswalg.h:409-451, 692-746, 1060, 1075).   *)
THEOREM ChecksHoldAfterLoad ==
    ASSUME InsertionsOnly, DeleteLabels = {} PROVE PSpec => []SanityChecksHold
<1>1. PInv /\ JInv /\ KInv => SanityChecksHold
  BY DEF PInv, IInv, CallsOK, CallOK, JInv, NoLateException, KInv, SanityChecksHold
<1> QED
  BY <1>1, InsertionsSurvive, FoundSurvives, PTL

(* While nothing is deleted, every insertion after the first ends with     *)
(* neighbours, in a loaded index as well (hnswalg.h:1072-1085).            *)
THEOREM InsertionsLinkAfterLoad ==
    ASSUME InsertionsOnly, DeleteLabels = {} PROVE PSpec => []InsertionsLink
<1>1. KInv => InsertionsLink
  BY DEF KInv, SomethingFound, InsertionsLink
<1> QED
  BY <1>1, FoundSurvives, PTL

(* Insertions and updates that take turns keep the graph well formed, and  *)
(* no check of the code throws, however often the index is saved and       *)
(* loaded between them; the automatic numbers that start again at 0 only   *)
(* make more of them updates (hnswalg.h:843-905, bindings.cpp:120).        *)
THEOREM TurnsGoOnAfterLoad ==
    ASSUME InTurn
    PROVE  PSpec => [](GraphWellFormed /\ SanityChecksHold /\ InsertionsLink)
<1>1. PInv /\ TInv => GraphWellFormed /\ SanityChecksHold /\ InsertionsLink
  <2> SUFFICES ASSUME PInv, TInv
               PROVE  GraphWellFormed /\ SanityChecksHold /\ InsertionsLink
    OBVIOUS
  <2>1. GraphWellFormed
    BY DEF TInv, LinksInTurn, Proper, GraphWellFormed, HasList, Members
  <2>2. SanityChecksHold
    BY DEF PInv, IInv, CallsOK, CallOK, TInv, AllWell, NoLateException, SanityChecksHold
  <2>3. InsertionsLink
    BY DEF TInv, InsertOK, SomethingFound, InsertionsLink
  <2> QED
    BY <2>1, <2>2, <2>3
<1> QED
  BY <1>1, TurnsSurvive, PTL

(* No query of a loaded index reads an entry point that is not there or a  *)
(* list that does not exist, be it filled by parallel insertions or by     *)
(* insertions and updates in turn (hnswalg.h:1108-1136).                   *)
THEOREM LoadedQueriesStayInTheGraph ==
    ASSUME InsertionsOnly \/ InTurn PROVE PSpec => []NoWildRead
<1>1. Tame => NoWildRead
  BY DEF Tame, NoWildRead
<1> QED
  BY <1>1, TameSurvives, PTL

(* Whatever was inserted in parallel, before and after saves and loads, is *)
(* found by a wide search, up to the step at which a bottom list is full   *)
(* for the next element (hnswalg.h:724-746, 1072-1085).                    *)
THEOREM LoadedInsertionsFound ==
    ASSUME InsertionsOnly, DeleteLabels = {}
    PROVE  PSpec /\ []~Pruning => []InsertionsFound
<1>1. PInv /\ JInv /\ CInv /\ Tame /\ Undisturbed => InsertionsFound
  BY AllFound DEF PInv
<1> QED
  BY <1>1, InsertionsSurvive, ConnectedSurvives, TameSurvives, UndisturbedSurvives, PTL

(* Insertions one after the other, with deletions, saves and loads in      *)
(* between: an insertion leaves its element without a neighbour only where *)
(* its bottom search was cut off among deleted elements, whose marks and   *)
(* links were read back (hnswalg.h:205-222, 724-746, 1072-1085).           *)
THEOREM LoadedLinksUnlessCutOff ==
    ASSUME InsertionsOnly, MaxParallel = 1 PROVE PSpec => []LinksUnlessCutOff
<1>1. DInv => LinksUnlessCutOff
  BY DEF DInv, StaysLinked, CutOff, LinksUnlessCutOff
<1> QED
  BY <1>1, LinkedSurvives, PTL
==============================================================================
