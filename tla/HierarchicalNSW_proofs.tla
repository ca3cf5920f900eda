------------------------ MODULE HierarchicalNSW_proofs ------------------------
(***************************************************************************)
(* Proofs about HierarchicalNSW, for every workload, every number of       *)
(* parallel calls, every metric and every size of the index.               *)
(***************************************************************************)
EXTENDS HierarchicalNSW, SequenceTheorems, TLAPS

------------------------------------------------------------------------------
(* The inductive invariant.                                                *)

(* An insertion between its read of the top level and its return. *)
Linking(c) ==
    /\ ~loc[c].isUpdate
    /\ pc[c] \in {"readEntry", "firstElement", "descend", "search", "writeOwnList",
                  "connect", "finish"}

(* The first insertion, between its two writes of the entry point. *)
Provisional(c) ==
    pc[c] = "finish" /\ ~loc[c].isUpdate /\ loc[c].maxlevelcopy = None

(* What a call knows at each place. *)
CallOK(c) ==
    /\ pc[c] \in {"ready", "reserve"} => loc[c].elem = None /\ ~loc[c].isUpdate
    /\ pc[c] = "reserve" => loc[c].label \in Nat
    /\ pc[c] \notin {"ready", "reserve", "done"} => loc[c].elem # None
    /\ loc[c].elem < curElementCount
    /\ pc[c] \in {"lockForInsert", "lockElement", "lockGlobal", "readEntry",
                  "firstElement"} => ~loc[c].isUpdate
    /\ pc[c] \in {"lockForUpdate", "readEntryUpdate", "oneHop", "twoHop", "relink",
                  "tearOwnList"} => loc[c].isUpdate
    /\ pc[c] \in {"descend", "search"} => loc[c].obj # None
    /\ pc[c] = "descend" => loc[c].layer > loc[c].level
    /\ pc[c] \in {"tearOwnList", "writeOwnList", "connect"} => loc[c].next # None
    /\ pc[c] = "readEntryUpdate" /\ loc[c].maxlevelcopy # None => enterpoint # None
    /\ pc[c] \in {"oneHop", "twoHop", "relink"} /\ loc[c].maxlevelcopy # None
          => loc[c].ep # None
    /\ pc[c] \in {"descend", "search", "writeOwnList", "connect"} /\ ~loc[c].isUpdate
          => loc[c].maxlevelcopy # None
    /\ pc[c] = "firstElement" => loc[c].maxlevelcopy = None
    /\ result[c] = "none" <=> pc[c] # "done"
    /\ result[c] = "ok" => loc[c].elem # None

CallsOK == \A c \in Calls : CallOK(c)

LabelsOK == \A label \in DOMAIN labelLookup : labelLookup[label] < curElementCount

(* A call at work holds the update lock of its element. *)
StripesHeld == \A c \in Calls : Working(c) => updateLocks[Stripe(loc[c].elem)] = c

(* No element is inserted twice. *)
OwnElements ==
    \A b, c \in Calls :
        (/\ ~loc[b].isUpdate /\ ~loc[c].isUpdate
         /\ loc[b].elem # None /\ loc[b].elem = loc[c].elem) => b = c

(* A call that exceeds the top level it has read holds "global", and the   *)
(* top level stays what it has read.                                       *)
GlobalGuards ==
    \A c \in Calls : Linking(c) =>
        /\ loc[c].level > loc[c].maxlevelcopy => global = c
        /\ global = c => /\ loc[c].level > loc[c].maxlevelcopy
                         /\ maxlevel = loc[c].maxlevelcopy \/ Provisional(c)
        /\ loc[c].maxlevelcopy <= maxlevel

LevelsDrawn ==
    \A c \in Calls : Linking(c) \/ pc[c] = "lockGlobal"
                        => elementLevels[loc[c].elem] = loc[c].level

(* The first insertion is alone until it has corrected the entry point. *)
FirstAlone ==
    \A c \in Calls : Provisional(c) =>
        /\ maxlevel = loc[c].level
        /\ enterpoint # None
        /\ Inserted = {}
        /\ \A d \in Calls : Linking(d) => d = c

IInv ==
    /\ TypeOK /\ CallsOK /\ LabelsOK /\ StripesHeld /\ OwnElements
    /\ GlobalGuards /\ LevelsDrawn /\ FirstAlone /\ EntryPointOnTop

------------------------------------------------------------------------------
(* Facts about the helper operators.                                       *)

LEMMA CallsType == Calls \subseteq Nat /\ Free \notin Calls
BY DEF Calls, Free

LEMMA WorkloadType ==
    ASSUME NEW c \in Calls
    PROVE  Label(c) \in Nat \cup {NoId} /\ Point(c) \in Points
<1>1. Workload[c] \in [label : Nat \cup {NoId}, point : Points]
  BY WorkloadAssumption, ElementOfSeq DEF Calls
<1> QED
  BY <1>1 DEF Label, Point

LEMMA StripeType == ASSUME NEW i \in Ids PROVE Stripe(i) \in Stripes
BY SizesAssumption DEF Stripe, Stripes, Ids

LEMMA NoLocalsType == NoLocals \in Locals
BY SizesAssumption DEF NoLocals, Locals, NoId, None, Levels

(* A choice of neighbours is a subset of what it chooses from. *)
LEMMA NearestSubset ==
    ASSUME NEW p, NEW S, NEW n PROVE Nearest(p, S, n) \subseteq S
BY DEF Nearest

LEMMA HeuristicSubset ==
    ASSUME NEW p, NEW S, NEW m PROVE Heuristic(p, S, m) \subseteq S
BY DEF Heuristic, Nearest, Diverse

LEMMA UnlockedType ==
    ASSUME NEW D, NEW m \in [D -> Calls \cup {Free}], NEW c \in Calls
    PROVE  /\ Unlocked(m, c) \in [D -> Calls \cup {Free}]
           /\ \A d \in D : Unlocked(m, c)[d] = IF m[d] = c THEN Free ELSE m[d]
BY DEF Unlocked

------------------------------------------------------------------------------
(* Moves that leave the store, the levels and the entry point alone.       *)

Midway == {"descend", "search", "tearOwnList", "writeOwnList", "connect",
           "oneHop", "twoHop", "relink"}

(* A call goes on, to the next step of its search or of its repair. *)
LEMMA Walk ==
    ASSUME IInv, NEW c \in Calls, NEW p \in Midway \cup {"finish", "crashed"},
           NEW m \in Locals, pc[c] \in Midway, Goto(c, p, m),
           m.elem = loc[c].elem, m.isUpdate = loc[c].isUpdate,
           m.level = loc[c].level, m.maxlevelcopy = loc[c].maxlevelcopy,
           p \in {"oneHop", "twoHop", "relink", "tearOwnList"} => m.isUpdate,
           p \in {"descend", "search"} => m.obj # None,
           p = "descend" => m.layer > m.level,
           p \in {"tearOwnList", "writeOwnList", "connect"} => m.next # None,
           p \in {"oneHop", "twoHop", "relink"} /\ m.maxlevelcopy # None => m.ep # None,
           UNCHANGED <<store, elementLevels, initialised, vec, deleted, entry, locks, result>>,
           links' \in [Ids -> [Levels -> SUBSET Ids]],
           stale' \in [Ids -> [Levels -> SUBSET Ids]]
    PROVE  IInv'
<1> USE DEF Goto, Midway
<1>0. /\ pc' = [pc EXCEPT ![c] = p]
      /\ loc' = [loc EXCEPT ![c] = m]
      /\ pc \in [Calls -> Places]
      /\ loc \in [Calls -> Locals]
  BY DEF IInv, TypeOK
<1>1. /\ pc'[c] = p /\ loc'[c] = m
      /\ \A d \in Calls \ {c} : pc'[d] = pc[d] /\ loc'[d] = loc[d]
  BY <1>0
<1>2. TypeOK'
  BY <1>0 DEF IInv, TypeOK, store, entry, locks, Places
<1>3. CallsOK'
  BY <1>1 DEF IInv, CallsOK, CallOK, store, entry
<1>4. LabelsOK'
  BY DEF IInv, LabelsOK, store
<1>5. StripesHeld'
  BY <1>1 DEF IInv, StripesHeld, Working, locks
<1>6. OwnElements'
  BY <1>1 DEF IInv, OwnElements
<1>7. \A d \in Calls : Linking(d)' => Linking(d)
  BY <1>1 DEF Linking, IInv, CallsOK, CallOK
<1>8. \A d \in Calls : Provisional(d)' <=> Provisional(d)
  BY <1>1 DEF Provisional, IInv, CallsOK, CallOK
<1>9. GlobalGuards'
  BY <1>1, <1>7, <1>8 DEF IInv, GlobalGuards, entry, locks
<1>10. LevelsDrawn'
  BY <1>1, <1>7 DEF IInv, LevelsDrawn
<1>11. Inserted' = Inserted
  BY <1>1 DEF IInv, Inserted, CallsOK, CallOK
<1>12. FirstAlone'
  BY <1>1, <1>7, <1>8, <1>11 DEF IInv, FirstAlone, entry
<1>13. EntryPointOnTop'
  BY <1>8, <1>11 DEF IInv, EntryPointOnTop, EntryProvisional, Provisional, entry
<1> QED
  BY <1>2, <1>3, <1>4, <1>5, <1>6, <1>9, <1>10, <1>12, <1>13 DEF IInv

(* An exception: the call returns, and releases what it held. *)
LEMMA Thrown ==
    ASSUME IInv, NEW c \in Calls, pc[c] \in Midway \cup {"reserve"}, Throw(c),
           UNCHANGED <<store, elementLevels, initialised, vec, deleted, entry>>,
           links' \in [Ids -> [Levels -> SUBSET Ids]],
           stale' \in [Ids -> [Levels -> SUBSET Ids]]
    PROVE  IInv'
<1> DEFINE m == [NoLocals EXCEPT !.label = loc[c].label, !.elem = loc[c].elem,
                                 !.isUpdate = loc[c].isUpdate]
<1>0. /\ pc' = [pc EXCEPT ![c] = "done"]
      /\ loc' = [loc EXCEPT ![c] = m]
      /\ result' = [result EXCEPT ![c] = "exception"]
      /\ pc \in [Calls -> Places] /\ loc \in [Calls -> Locals]
      /\ result \in [Calls -> {"none", "ok", "full", "exception"}]
  BY DEF IInv, TypeOK, Throw, Return
<1>m. m \in Locals /\ m.elem = loc[c].elem /\ m.isUpdate = loc[c].isUpdate
  BY <1>0, NoLocalsType DEF Locals, NoLocals
<1> HIDE DEF m
<1>1. /\ pc'[c] = "done" /\ loc'[c] = m /\ result'[c] = "exception"
      /\ \A d \in Calls \ {c} : /\ pc'[d] = pc[d] /\ loc'[d] = loc[d]
                                /\ result'[d] = result[d]
  BY <1>0
<1>l. /\ linkLocks' \in [Ids -> Calls \cup {Free}]
      /\ updateLocks' \in [Stripes -> Calls \cup {Free}]
      /\ global' \in Calls \cup {Free}
      /\ \A s \in Stripes : updateLocks[s] # c => updateLocks'[s] = updateLocks[s]
      /\ \A d \in Calls \ {c} : global' = d <=> global = d
  <2>1. /\ linkLocks \in [Ids -> Calls \cup {Free}]
        /\ updateLocks \in [Stripes -> Calls \cup {Free}]
        /\ global \in Calls \cup {Free}
    BY DEF IInv, TypeOK
  <2>2. /\ linkLocks' = Unlocked(linkLocks, c)
        /\ updateLocks' = Unlocked(updateLocks, c)
        /\ global' = IF global = c THEN Free ELSE global
    BY DEF Throw, Return
  <2> QED
    BY <2>1, <2>2, UnlockedType, CallsType
<1>2. TypeOK'
  BY <1>0, <1>m, <1>l DEF IInv, TypeOK, store, entry, Places
<1>3. CallsOK'
  BY <1>1, <1>m DEF IInv, CallsOK, CallOK, store, entry, Midway
<1>4. LabelsOK'
  BY DEF IInv, LabelsOK, store
<1>n. result[c] = "none"
  BY DEF IInv, CallsOK, CallOK, Midway
<1>e. \A d \in Calls : Working(d) => loc[d].elem \in Ids
  BY DEF IInv, TypeOK, CallsOK, CallOK, Working, Locals
<1>5. StripesHeld'
  <2> SUFFICES ASSUME NEW d \in Calls, Working(d)'
               PROVE  updateLocks'[Stripe(loc'[d].elem)] = d
    BY DEF StripesHeld, Stripe
  <2>1. d # c /\ Working(d) /\ loc'[d] = loc[d]
    BY <1>1 DEF Working
  <2> QED
    BY <2>1, <1>l, <1>e, StripeType DEF IInv, StripesHeld
<1>6. OwnElements'
  BY <1>1, <1>m DEF IInv, OwnElements
<1>7. \A d \in Calls : Linking(d)' => Linking(d) /\ d # c
  BY <1>1 DEF Linking
<1>8. \A d \in Calls : /\ Provisional(d)' <=> Provisional(d)
                       /\ Provisional(d) => d # c
  BY <1>1 DEF Provisional, Midway
<1>9. GlobalGuards'
  BY <1>1, <1>7, <1>8, <1>l DEF IInv, GlobalGuards, entry
<1>10. LevelsDrawn'
  BY <1>1, <1>7 DEF IInv, LevelsDrawn
<1>11. Inserted' = Inserted
  <2>1. ASSUME NEW d \in Calls
        PROVE  /\ result'[d] = "ok" <=> result[d] = "ok"
               /\ result[d] = "ok" => loc'[d] = loc[d]
    <3>1. CASE d = c
      BY <1>1, <1>n, <3>1
    <3>2. CASE d # c
      BY <1>1, <3>2
    <3> QED
      BY <3>1, <3>2
  <2>2. {d \in Calls : result'[d] = "ok" /\ ~loc'[d].isUpdate}
           = {d \in Calls : result[d] = "ok" /\ ~loc[d].isUpdate}
    BY <2>1
  <2>3. \A d \in {e \in Calls : result[e] = "ok" /\ ~loc[e].isUpdate} :
           loc'[d].elem = loc[d].elem
    BY <2>1
  <2> QED
    BY <2>2, <2>3, Zenon DEF Inserted
<1>12. FirstAlone'
  BY <1>1, <1>7, <1>8, <1>11 DEF IInv, FirstAlone, entry
<1>13. EntryPointOnTop'
  BY <1>8, <1>11 DEF IInv, EntryPointOnTop, EntryProvisional, Provisional, entry
<1> QED
  BY <1>2, <1>3, <1>4, <1>5, <1>6, <1>9, <1>10, <1>12, <1>13 DEF IInv

------------------------------------------------------------------------------
(* Searches and repairs.                                                   *)

(* The fields of a call's locals that stay as they are once it is midway. *)
Kept(m, l) ==
    m.elem = l.elem /\ m.isUpdate = l.isUpdate /\ m.level = l.level
    /\ m.maxlevelcopy = l.maxlevelcopy /\ m.ep = l.ep

LEMMA LocalsType ==
    ASSUME IInv, NEW c \in Calls
    PROVE  /\ loc[c] \in Locals
           /\ pc[c] \in Midway => loc[c].elem \in Ids
           /\ pc[c] \in {"descend", "search"} => loc[c].obj \in Ids
           /\ pc[c] \in {"tearOwnList", "writeOwnList", "connect"} => loc[c].next \in Ids
<1>1. loc[c] \in Locals
  BY DEF IInv, TypeOK
<1>2. CallOK(c)
  BY DEF IInv, CallsOK
<1> QED
  BY <1>1, <1>2 DEF CallOK, Locals, Midway

LEMMA SearchFromType ==
    ASSUME IInv, NEW l \in Locals, NEW from \in Ids, NEW layer \in Levels
    PROVE  /\ SearchFrom(l, from, layer) \in Locals
           /\ SearchFrom(l, from, layer).obj = from
           /\ Kept(SearchFrom(l, from, layer), l)
BY DEF SearchFrom, Locals, Kept

(* Nothing but the call and the link lists changes. *)
OnlyLinks ==
    /\ UNCHANGED <<store, elementLevels, initialised, vec, deleted, entry>>
    /\ links' \in [Ids -> [Levels -> SUBSET Ids]]
    /\ stale' \in [Ids -> [Levels -> SUBSET Ids]]

LEMMA CrashStep ==
    ASSUME IInv, NEW c \in Calls, pc[c] \in Midway, Crash(c) PROVE IInv'
<1>1. /\ links \in [Ids -> [Levels -> SUBSET Ids]]
      /\ stale \in [Ids -> [Levels -> SUBSET Ids]]
  BY DEF IInv, TypeOK
<1> QED
  BY <1>1, LocalsType, Walk, Zenon DEF Crash, graph

LEMMA NextLayerStep ==
    ASSUME IInv, NEW c \in Calls, pc[c] \in {"search", "connect"}, NEW from \in Ids,
           NextLayer(c, from), OnlyLinks, UNCHANGED <<locks, result>>
    PROVE  IInv'
<1>1. loc[c] \in Locals /\ pc[c] \in Midway
  BY LocalsType DEF Midway
<1>2. CASE loc[c].layer = 0
  <2>1. Goto(c, "finish", loc[c])
    BY <1>2 DEF NextLayer
  <2> QED
    BY <2>1, <1>1, Walk DEF OnlyLinks
<1>3. CASE loc[c].layer # 0
  <2> DEFINE m == SearchFrom(loc[c], from, Below(loc[c].layer))
  <2>1. Below(loc[c].layer) \in Levels
    BY <1>1, <1>3, SizesAssumption DEF Locals, Levels, Below
  <2>2. m \in Locals /\ m.obj = from /\ Kept(m, loc[c])
    BY <1>1, <2>1, SearchFromType
  <2>3. Goto(c, "search", m)
    BY <1>3 DEF NextLayer
  <2> HIDE DEF m
  <2>4. m.obj # None
    BY <2>2 DEF Ids, None
  <2> QED
    BY <2>2, <2>3, <2>4, <1>1, Walk DEF OnlyLinks, Kept, Midway
<1> QED
  BY <1>2, <1>3

LEMMA RepairStep ==
    ASSUME IInv, NEW c \in Calls, pc[c] \in {"oneHop", "relink"}, Repair(c), OnlyLinks
    PROVE  IInv'
<1> DEFINE l == [loc[c] EXCEPT !.obj = loc[c].ep, !.hops = {}, !.sCand = {}, !.sNeigh = {}]
           top == loc[c].maxlevelcopy
<1>1. loc[c] \in Locals /\ pc[c] \in Midway
  BY LocalsType DEF Midway
<1>2. l \in Locals /\ Kept(l, loc[c]) /\ l.obj = loc[c].ep
  BY <1>1 DEF Locals, Kept
<1>3. top # None => loc[c].ep \in Ids
  BY <1>1 DEF IInv, CallsOK, CallOK, Locals
<1>4. CASE Throw(c)
  BY <1>1, <1>4, Thrown DEF OnlyLinks
<1>5. CASE /\ loc[c].level < top
           /\ Goto(c, "descend", [l EXCEPT !.layer = top])
           /\ UNCHANGED <<result, locks>>
  <2> DEFINE m == [l EXCEPT !.layer = top]
  <2>1. top \in Levels /\ loc[c].ep \in Ids
    BY <1>1, <1>3, <1>5 DEF Locals, Levels, None
  <2>2. m \in Locals /\ Kept(m, loc[c]) /\ m.obj = loc[c].ep /\ m.layer = top
    BY <1>2, <2>1 DEF Locals, Kept
  <2> HIDE DEF m
  <2>3. m.obj # None /\ m.layer > m.level
    BY <2>1, <2>2, <1>5 DEF Ids, None, Kept
  <2>4. Goto(c, "descend", m) /\ UNCHANGED <<result, locks>>
    BY <1>5 DEF m
  <2> QED
    BY <2>2, <2>3, <2>4, <1>1, Walk DEF OnlyLinks, Kept, Midway
<1>6. CASE /\ loc[c].level = top
           /\ Goto(c, "search", SearchFrom(l, loc[c].ep, loc[c].level))
           /\ UNCHANGED <<result, locks>>
  <2> DEFINE m == SearchFrom(l, loc[c].ep, loc[c].level)
  <2>1. loc[c].level \in Levels /\ loc[c].ep \in Ids
    BY <1>1, <1>3, <1>6 DEF Locals, Levels, None
  <2>2. m \in Locals /\ Kept(m, l) /\ m.obj = loc[c].ep
    BY <1>2, <2>1, SearchFromType
  <2> HIDE DEF m
  <2>3. m.obj # None
    BY <2>1, <2>2 DEF Ids, None
  <2>4. Goto(c, "search", m) /\ UNCHANGED <<result, locks>>
    BY <1>6 DEF m
  <2> QED
    BY <1>2, <2>2, <2>3, <2>4, <1>1, Walk DEF OnlyLinks, Kept, Midway
<1> QED
  BY <1>4, <1>5, <1>6 DEF Repair

LEMMA NextUpdateLayerStep ==
    ASSUME IInv, NEW c \in Calls, pc[c] \in {"oneHop", "relink"}, NextUpdateLayer(c),
           OnlyLinks
    PROVE  IInv'
<1>1. loc[c] \in Locals /\ pc[c] \in Midway
  BY LocalsType DEF Midway
<1>2. CASE loc[c].layer < loc[c].level
  <2>a. loc[c].layer \in Levels /\ loc[c].level \in Levels
    BY <1>1 DEF Locals
  <2>0. PICK layer \in Levels : layer = loc[c].layer + 1
    BY <2>a, <1>2, SizesAssumption DEF Levels
  <2> DEFINE m == [loc[c] EXCEPT !.layer = layer, !.hops = {}, !.sCand = {}, !.sNeigh = {}]
  <2>1. m \in Locals /\ Kept(m, loc[c])
    BY <1>1, <2>0 DEF Locals, Kept
  <2>2. Goto(c, "oneHop", m) /\ UNCHANGED <<result, locks>>
    BY <1>2, <2>0 DEF NextUpdateLayer
  <2> HIDE DEF m
  <2>4. m.isUpdate /\ (m.maxlevelcopy # None => m.ep # None)
    BY <2>1 DEF IInv, CallsOK, CallOK, Kept
  <2> QED
    BY <2>1, <2>2, <2>4, <1>1, Walk DEF OnlyLinks, Kept, Midway
<1>3. CASE ~(loc[c].layer < loc[c].level)
  BY <1>3, RepairStep DEF NextUpdateLayer
<1> QED
  BY <1>2, <1>3

------------------------------------------------------------------------------
(* The steps midway, one by one.                                           *)

LEMMA LinksType ==
    ASSUME IInv
    PROVE  /\ links \in [Ids -> [Levels -> SUBSET Ids]]
           /\ stale \in [Ids -> [Levels -> SUBSET Ids]]
           /\ \A i \in Ids, layer \in Levels : links[i][layer] \subseteq Ids
BY DEF IInv, TypeOK

LEMMA StaleAfterType ==
    ASSUME IInv, NEW i \in Ids, NEW layer \in Levels
    PROVE  \A list : StaleAfter(i, layer, list) \in [Ids -> [Levels -> SUBSET Ids]]
BY LinksType DEF StaleAfter, IInv, TypeOK

LEMMA DescendStep == ASSUME IInv, NEW c \in Calls, Descend(c) PROVE IInv'
<1>1. /\ loc[c] \in Locals /\ pc[c] = "descend" /\ pc[c] \in Midway
      /\ loc[c].obj \in Ids /\ loc[c].layer \in Levels /\ loc[c].layer > loc[c].level
      /\ loc[c].level \in Levels
  BY LocalsType DEF Midway, Descend, IInv, CallsOK, CallOK, Locals
<1>2. {loc[c].obj} \cup links[loc[c].obj][loc[c].layer] \subseteq Ids
  BY <1>1, LinksType
<1>3. CASE Crash(c)
  BY <1>1, <1>3, CrashStep
<1>4. ASSUME UNCHANGED <<store, graph, entry, locks, result>>,
             NEW best \in Ids,
             \/ Goto(c, "descend", [loc[c] EXCEPT !.obj = best])
             \/ /\ Below(loc[c].layer) > loc[c].level
                /\ Goto(c, "descend", [loc[c] EXCEPT !.layer = Below(loc[c].layer)])
             \/ Goto(c, "search", SearchFrom(loc[c], loc[c].obj, loc[c].level))
      PROVE  IInv'
  <2>0. UNCHANGED <<store, elementLevels, initialised, vec, deleted, entry, locks, result>>
        /\ OnlyLinks
    BY <1>4, LinksType DEF graph, OnlyLinks
  <2>1. CASE Goto(c, "descend", [loc[c] EXCEPT !.obj = best])
    <3> DEFINE m == [loc[c] EXCEPT !.obj = best]
    <3>1. m \in Locals /\ Kept(m, loc[c]) /\ m.obj = best /\ m.layer = loc[c].layer
      BY <1>1 DEF Locals, Kept
    <3>2. Goto(c, "descend", m)
      BY <2>1
    <3> HIDE DEF m
    <3>3. m.obj # None /\ m.layer > m.level
      BY <1>1, <3>1 DEF Ids, None, Kept
    <3> QED
      BY <1>1, <2>0, <3>1, <3>2, <3>3, Walk DEF OnlyLinks, Kept, Midway
  <2>2. CASE /\ Below(loc[c].layer) > loc[c].level
             /\ Goto(c, "descend", [loc[c] EXCEPT !.layer = Below(loc[c].layer)])
    <3> DEFINE m == [loc[c] EXCEPT !.layer = Below(loc[c].layer)]
    <3>1. Below(loc[c].layer) \in Levels
      BY <1>1, <2>2, SizesAssumption DEF Levels, Below
    <3>2. /\ m \in Locals /\ Kept(m, loc[c]) /\ m.obj = loc[c].obj
          /\ m.layer = Below(loc[c].layer)
      BY <1>1, <3>1 DEF Locals, Kept
    <3>3. Goto(c, "descend", m)
      BY <2>2
    <3> HIDE DEF m
    <3>4. m.obj # None /\ m.layer > m.level
      BY <1>1, <2>2, <3>2 DEF Ids, None, Kept
    <3> QED
      BY <1>1, <2>0, <3>2, <3>3, <3>4, Walk DEF OnlyLinks, Kept, Midway
  <2>3. CASE Goto(c, "search", SearchFrom(loc[c], loc[c].obj, loc[c].level))
    <3> DEFINE m == SearchFrom(loc[c], loc[c].obj, loc[c].level)
    <3>1. m \in Locals /\ Kept(m, loc[c]) /\ m.obj = loc[c].obj
      BY <1>1, SearchFromType
    <3>2. Goto(c, "search", m)
      BY <2>3
    <3> HIDE DEF m
    <3>3. m.obj # None
      BY <1>1, <3>1 DEF Ids, None
    <3> QED
      BY <1>1, <2>0, <3>1, <3>2, <3>3, Walk DEF OnlyLinks, Kept, Midway
  <2> QED
    BY <2>1, <2>2, <2>3, <1>4
<1> QED
  BY <1>1, <1>2, <1>3, <1>4 DEF Descend

LEMMA ExpandStep == ASSUME IInv, NEW c \in Calls, Expand(c) PROVE IInv'
<1>1. /\ loc[c] \in Locals /\ pc[c] = "search" /\ pc[c] \in Midway
      /\ loc[c].layer \in Levels /\ loc[c].cand \subseteq Ids
      /\ loc[c].top \subseteq Ids /\ loc[c].visited \subseteq Ids /\ loc[c].obj # None
  BY LocalsType DEF Midway, Expand, IInv, CallsOK, CallOK, Locals
<1>2. CASE Crash(c)
  BY <1>1, <1>2, CrashStep
<1>3. ASSUME NEW top, NEW cand, NEW visited,
             top \subseteq Ids, cand \subseteq Ids, visited \subseteq Ids,
             Goto(c, "search", [loc[c] EXCEPT !.top = top, !.cand = cand,
                                              !.visited = visited]),
             UNCHANGED <<store, graph, entry, locks, result>>
      PROVE  IInv'
  <2> DEFINE m == [loc[c] EXCEPT !.top = top, !.cand = cand, !.visited = visited]
  <2>1. m \in Locals /\ Kept(m, loc[c]) /\ m.obj = loc[c].obj
    BY <1>1, <1>3 DEF Locals, Kept
  <2>2. Goto(c, "search", m)
    BY <1>3
  <2>3. /\ UNCHANGED <<store, elementLevels, initialised, vec, deleted, entry, locks,
                       result>>
        /\ links' \in [Ids -> [Levels -> SUBSET Ids]]
        /\ stale' \in [Ids -> [Levels -> SUBSET Ids]]
    BY <1>3, LinksType DEF graph
  <2> HIDE DEF m
  <2> QED
    BY <1>1, <2>1, <2>2, <2>3, Walk DEF Kept, Midway
<1>4. ASSUME NEW node \in loc[c].cand
      PROVE  links[node][loc[c].layer] \subseteq Ids
  BY <1>1, LinksType
<1> DEFINE new(node) == links[node][loc[c].layer] \ loc[c].visited
           top(node) == Nearest(Point(c), loc[c].top \cup (new(node) \ deleted), EfConstruction)
           near(node, x) == \/ Cardinality(top(node)) < EfConstruction
                            \/ \E r \in top(node) : ~Closer(Point(c), r, x)
           cand(node) == {x \in (loc[c].cand \ {node}) \cup new(node) : near(node, x)}
<1>5. ASSUME NEW node \in loc[c].cand,
             Goto(c, "search", [loc[c] EXCEPT !.top = top(node), !.cand = cand(node),
                                    !.visited = loc[c].visited \cup new(node)]),
             UNCHANGED <<store, graph, entry, locks, result>>
      PROVE  IInv'
  <2>1. top(node) \subseteq loc[c].top \cup (new(node) \ deleted)
    BY NearestSubset
  <2>2. top(node) \subseteq Ids /\ cand(node) \subseteq Ids
        /\ loc[c].visited \cup new(node) \subseteq Ids
    BY <1>1, <1>4, <2>1
  <2> HIDE DEF top, cand, new
  <2> QED
    BY <1>3, <1>5, <2>2
<1> QED
  BY <1>2, <1>5 DEF Expand

LEMMA CandidatesType ==
    ASSUME IInv, NEW c \in Calls PROVE Candidates(c) \subseteq Ids
<1>1. loc[c] \in Locals /\ deleted \subseteq Ids
  BY LocalsType DEF IInv, TypeOK
<1> QED
  BY <1>1, NearestSubset DEF Candidates, Locals

LEMMA SelectNeighborsStep == ASSUME IInv, NEW c \in Calls, SelectNeighbors(c) PROVE IInv'
<1> DEFINE chosen == Heuristic(Point(c), Candidates(c), M)
<1>1. /\ loc[c] \in Locals /\ pc[c] = "search" /\ pc[c] \in Midway /\ loc[c].obj \in Ids
      /\ loc[c].ep \in Ids \cup {None} /\ loc[c].isUpdate \in BOOLEAN
  BY LocalsType DEF Midway, SelectNeighbors, Locals
<1>2. chosen \subseteq Ids
  BY HeuristicSubset, CandidatesType
<1>3. CASE Crash(c)
  BY <1>1, <1>3, CrashStep
<1> HIDE DEF chosen
<1>4. ASSUME UNCHANGED <<store, graph, entry, locks, result>>
      PROVE  /\ UNCHANGED <<store, elementLevels, initialised, vec, deleted, entry, locks, result>>
             /\ OnlyLinks
  BY <1>4, LinksType DEF graph, OnlyLinks
<1>5. ASSUME NEW next \in chosen,
             Goto(c, IF loc[c].isUpdate THEN "tearOwnList" ELSE "writeOwnList",
                  [loc[c] EXCEPT !.selected = chosen, !.next = next,
                                 !.top = {}, !.cand = {}, !.visited = {}]),
             UNCHANGED <<store, graph, entry, locks, result>>
      PROVE  IInv'
  <2> DEFINE m == [loc[c] EXCEPT !.selected = chosen, !.next = next,
                                 !.top = {}, !.cand = {}, !.visited = {}]
  <2> DEFINE p == IF loc[c].isUpdate THEN "tearOwnList" ELSE "writeOwnList"
  <2>1. m \in Locals /\ Kept(m, loc[c]) /\ m.next = next
    BY <1>1, <1>2 DEF Locals, Kept
  <2>2. m.next # None
    BY <1>2, <2>1 DEF Ids, None
  <2>3. Goto(c, p, m)
    BY <1>5
  <2>4. p \in {"tearOwnList", "writeOwnList"} /\ (p = "tearOwnList" => loc[c].isUpdate)
    OBVIOUS
  <2> HIDE DEF m, p
  <2> QED
    BY <1>1, <1>4, <1>5, <2>1, <2>2, <2>3, <2>4, Walk DEF Kept, Midway, OnlyLinks
<1>6. ASSUME NextLayer(c, loc[c].obj), UNCHANGED <<store, graph, entry, locks, result>>
      PROVE  IInv'
  BY <1>1, <1>4, <1>6, NextLayerStep
<1>7. ASSUME Goto(c, "finish", loc[c]), UNCHANGED <<store, graph, entry, locks, result>>
      PROVE  IInv'
  BY <1>1, <1>4, <1>7, Walk DEF OnlyLinks
<1> QED
  BY <1>3, <1>5, <1>6, <1>7 DEF SelectNeighbors, chosen

LEMMA TearOwnListStep == ASSUME IInv, NEW c \in Calls, TearOwnList(c) PROVE IInv'
<1>1. /\ loc[c] \in Locals /\ pc[c] = "tearOwnList" /\ pc[c] \in Midway
      /\ loc[c].next # None /\ loc[c].elem \in Ids /\ loc[c].layer \in Levels
      /\ loc[c].selected \subseteq Ids
  BY LocalsType DEF Midway, TearOwnList, IInv, CallsOK, CallOK, Locals
<1>2. 0 \in Ids
  BY SizesAssumption DEF Ids
<1> DEFINE m(torn) == [loc[c] EXCEPT !.half = torn]
<1>3. PICK torn \in SUBSET (links[loc[c].elem][loc[c].layer] \cup loc[c].selected
                              \cup stale[loc[c].elem][loc[c].layer] \cup {0}) :
          /\ links' = [links EXCEPT ![loc[c].elem][loc[c].layer] = torn]
          /\ Goto(c, "writeOwnList", m(torn))
  BY DEF TearOwnList
<1>4. torn \subseteq Ids
  <2>1. stale[loc[c].elem][loc[c].layer] \subseteq Ids
    BY <1>1, LinksType
  <2> QED
    BY <1>1, <1>2, <2>1, LinksType
<1>5. links' \in [Ids -> [Levels -> SUBSET Ids]]
  BY <1>1, <1>3, <1>4, LinksType
<1>6. stale' \in [Ids -> [Levels -> SUBSET Ids]]
  BY <1>1, StaleAfterType DEF TearOwnList
<1>7. m(torn) \in Locals /\ Kept(m(torn), loc[c]) /\ m(torn).next = loc[c].next
  BY <1>1, <1>4 DEF Locals, Kept
<1> HIDE DEF m
<1> QED
  BY <1>1, <1>3, <1>5, <1>6, <1>7, Walk DEF TearOwnList, Midway, Kept

LEMMA WriteOwnListStep == ASSUME IInv, NEW c \in Calls, WriteOwnList(c) PROVE IInv'
<1>1. /\ loc[c] \in Locals /\ pc[c] = "writeOwnList" /\ pc[c] \in Midway
      /\ loc[c].next # None /\ loc[c].elem \in Ids /\ loc[c].layer \in Levels
      /\ loc[c].selected \subseteq Ids
  BY LocalsType DEF Midway, WriteOwnList, IInv, CallsOK, CallOK, Locals
<1>2. 0 \in Ids
  BY SizesAssumption DEF Ids
<1> DEFINE list == links[loc[c].elem][loc[c].layer]
<1>3. list \subseteq Ids
  BY <1>1, LinksType
<1>4. UNCHANGED <<store, initialised, elementLevels, vec, deleted, entry>>
  BY DEF WriteOwnList
<1>5. ASSUME NEW S, S \subseteq Ids,
             links' = [links EXCEPT ![loc[c].elem][loc[c].layer] = S]
      PROVE  links' \in [Ids -> [Levels -> SUBSET Ids]]
  BY <1>1, <1>5, LinksType
<1>6. CASE Throw(c) /\ UNCHANGED <<links, stale>>
  BY <1>1, <1>4, <1>6, LinksType, Thrown
<1>7. CASE /\ \E partial \in SUBSET (loc[c].selected \cup list
                                   \cup stale[loc[c].elem][loc[c].layer] \cup {0}) :
                  links' = [links EXCEPT ![loc[c].elem][loc[c].layer] = partial]
           /\ Throw(c)
           /\ UNCHANGED stale
  <2>1. PICK partial \in SUBSET (loc[c].selected \cup list
                                \cup stale[loc[c].elem][loc[c].layer] \cup {0}) :
                  links' = [links EXCEPT ![loc[c].elem][loc[c].layer] = partial]
    BY <1>7
  <2>2. partial \subseteq Ids
    BY <1>1, <1>2, <1>3 DEF IInv, TypeOK
  <2>3. links' \in [Ids -> [Levels -> SUBSET Ids]]
    BY <1>5, <2>1, <2>2
  <2> QED
    BY <1>1, <1>4, <1>7, <2>3, LinksType, Thrown
<1> DEFINE m == [loc[c] EXCEPT !.half = {}]
<1>m. m \in Locals /\ Kept(m, loc[c]) /\ m.next = loc[c].next
  BY <1>1 DEF Locals, Kept
<1> HIDE DEF m
<1>8. CASE /\ \E written \in Written(c) :
                 /\ links' = [links EXCEPT ![loc[c].elem][loc[c].layer] = written]
                 /\ stale' = StaleAfter(loc[c].elem, loc[c].layer, written)
           /\ Goto(c, "connect", m)
           /\ UNCHANGED <<result, locks>>
  <2>1. PICK written \in Written(c) :
           /\ links' = [links EXCEPT ![loc[c].elem][loc[c].layer] = written]
           /\ stale' = StaleAfter(loc[c].elem, loc[c].layer, written)
    BY <1>8
  <2>2. written \subseteq Ids
    BY <1>1, <1>3 DEF Written
  <2>3. links' \in [Ids -> [Levels -> SUBSET Ids]]
    BY <1>1, <1>5, <2>1, <2>2
  <2>4. stale' \in [Ids -> [Levels -> SUBSET Ids]]
    BY <1>1, <2>1, StaleAfterType
  <2> QED
    BY <1>1, <1>4, <1>8, <1>m, <2>3, <2>4, Walk DEF Midway, Kept
<1> QED
  BY <1>6, <1>7, <1>8 DEF WriteOwnList, m

LEMMA ConnectStep == ASSUME IInv, NEW c \in Calls, Connect(c) PROVE IInv'
<1>1. /\ loc[c] \in Locals /\ pc[c] = "connect" /\ pc[c] \in Midway
      /\ loc[c].next \in Ids /\ loc[c].elem \in Ids /\ loc[c].layer \in Levels
      /\ loc[c].selected \subseteq Ids /\ loc[c].next # None
  BY LocalsType DEF Midway, Connect, IInv, CallsOK, CallOK, Locals
<1>2. UNCHANGED <<store, initialised, elementLevels, vec, deleted, entry>>
  BY DEF Connect
<1> DEFINE joined(n) ==
              IF HasRoom(links[n][loc[c].layer], loc[c].layer)
              THEN links[n][loc[c].layer] \cup {loc[c].elem}
              ELSE Heuristic(vec[n], links[n][loc[c].layer] \cup {loc[c].elem},
                             MaxLinks(loc[c].layer))
<1>3. CASE Throw(c) /\ UNCHANGED <<links, stale>>
  BY <1>1, <1>2, <1>3, LinksType, Thrown
<1>4. ASSUME NEW n \in loc[c].selected,
             \/ links' = links
             \/ links' = [links EXCEPT ![n][loc[c].layer] = joined(n)],
             stale' = StaleAfter(n, loc[c].layer, links'[n][loc[c].layer])
      PROVE  OnlyLinks
  <2>1. joined(n) \subseteq Ids
    BY <1>1, LinksType, HeuristicSubset
  <2> HIDE DEF joined
  <2>2. links' \in [Ids -> [Levels -> SUBSET Ids]]
    <3>1. n \in Ids /\ loc[c].layer \in Levels
      BY <1>1
    <3>2. links \in [Ids -> [Levels -> SUBSET Ids]]
      BY LinksType
    <3>3. CASE links' = links
      BY <3>2, <3>3
    <3>4. CASE links' = [links EXCEPT ![n][loc[c].layer] = joined(n)]
      BY <2>1, <3>1, <3>2, <3>4
    <3> QED
      BY <1>4, <3>3, <3>4
  <2>3. stale' \in [Ids -> [Levels -> SUBSET Ids]]
    BY <1>1, <1>4, StaleAfterType
  <2> QED
    BY <1>2, <2>2, <2>3 DEF OnlyLinks
<1>5. ASSUME NEW n \in loc[c].selected, OnlyLinks, UNCHANGED <<result, locks>>,
             Goto(c, "connect", [loc[c] EXCEPT !.selected = Rest(loc[c].selected, n)])
      PROVE  IInv'
  <2> DEFINE m == [loc[c] EXCEPT !.selected = Rest(loc[c].selected, n)]
  <2>1. m \in Locals /\ Kept(m, loc[c]) /\ m.next = loc[c].next
    BY <1>1 DEF Locals, Kept, Rest
  <2>2. Goto(c, "connect", m)
    BY <1>5
  <2> HIDE DEF m
  <2> QED
    BY <1>1, <1>5, <2>1, <2>2, Walk DEF OnlyLinks, Kept, Midway
<1>6. ASSUME OnlyLinks, UNCHANGED <<result, locks>>, NextLayer(c, loc[c].next)
      PROVE  IInv'
  BY <1>1, <1>6, NextLayerStep
<1> QED
  BY <1>3, <1>4, <1>5, <1>6 DEF Connect

LEMMA OneHopStep == ASSUME IInv, NEW c \in Calls, OneHop(c) PROVE IInv'
<1>1. /\ loc[c] \in Locals /\ pc[c] = "oneHop" /\ pc[c] \in Midway
      /\ loc[c].elem \in Ids /\ loc[c].layer \in Levels /\ loc[c].isUpdate
      /\ loc[c].maxlevelcopy # None => loc[c].ep # None
  BY LocalsType DEF Midway, OneHop, IInv, CallsOK, CallOK, Locals
<1> DEFINE near == links[loc[c].elem][loc[c].layer]
<1>2. near \subseteq Ids
  BY <1>1, LinksType
<1> HIDE DEF near
<1>3. CASE Crash(c)
  BY <1>1, <1>3, CrashStep
<1>4. ASSUME UNCHANGED <<store, graph, entry>> PROVE OnlyLinks
  BY <1>4, LinksType DEF OnlyLinks, graph
<1>5. ASSUME UNCHANGED <<store, graph, entry>>, NextUpdateLayer(c) PROVE IInv'
  BY <1>1, <1>4, <1>5, NextUpdateLayerStep
<1>6. ASSUME UNCHANGED <<store, graph, entry>>, UNCHANGED <<result, locks>>,
             Goto(c, "twoHop", [loc[c] EXCEPT !.hops = near, !.sNeigh = near,
                                              !.sCand = {loc[c].elem} \cup near])
      PROVE  IInv'
  <2> DEFINE m == [loc[c] EXCEPT !.hops = near, !.sNeigh = near,
                                 !.sCand = {loc[c].elem} \cup near]
  <2>1. m \in Locals /\ Kept(m, loc[c])
    BY <1>1, <1>2 DEF Locals, Kept
  <2>2. Goto(c, "twoHop", m)
    BY <1>6
  <2> HIDE DEF m
  <2> QED
    BY <1>1, <1>4, <1>6, <2>1, <2>2, Walk DEF OnlyLinks, Kept, Midway
<1> QED
  BY <1>3, <1>5, <1>6 DEF OneHop, near

LEMMA TwoHopStep == ASSUME IInv, NEW c \in Calls, TwoHop(c) PROVE IInv'
<1>1. /\ loc[c] \in Locals /\ pc[c] = "twoHop" /\ pc[c] \in Midway
      /\ loc[c].layer \in Levels /\ loc[c].isUpdate
      /\ loc[c].hops \subseteq Ids /\ loc[c].sCand \subseteq Ids
      /\ loc[c].maxlevelcopy # None => loc[c].ep # None
  BY LocalsType DEF Midway, TwoHop, IInv, CallsOK, CallOK, Locals
<1>2. CASE Crash(c)
  BY <1>1, <1>2, CrashStep
<1>3. ASSUME NEW hop \in loc[c].hops,
             Goto(c, IF loc[c].hops = {hop} THEN "relink" ELSE "twoHop",
                  [loc[c] EXCEPT !.hops = loc[c].hops \ {hop},
                                 !.sCand = loc[c].sCand \cup links[hop][loc[c].layer]]),
             UNCHANGED <<store, graph, entry, locks, result>>
      PROVE  IInv'
  <2> DEFINE m == [loc[c] EXCEPT !.hops = loc[c].hops \ {hop},
                                 !.sCand = loc[c].sCand \cup links[hop][loc[c].layer]]
             p == IF loc[c].hops = {hop} THEN "relink" ELSE "twoHop"
  <2>1. links[hop][loc[c].layer] \subseteq Ids
    BY <1>1, LinksType
  <2>2. m \in Locals /\ Kept(m, loc[c])
    BY <1>1, <2>1 DEF Locals, Kept
  <2>3. Goto(c, p, m) /\ p \in {"relink", "twoHop"}
    BY <1>3
  <2>4. OnlyLinks
    BY <1>3, LinksType DEF OnlyLinks, graph
  <2> HIDE DEF m, p
  <2> QED
    BY <1>1, <1>3, <2>2, <2>3, <2>4, Walk DEF OnlyLinks, Kept, Midway
<1> QED
  BY <1>2, <1>3 DEF TwoHop

LEMMA RelinkStep == ASSUME IInv, NEW c \in Calls, Relink(c) PROVE IInv'
<1>1. /\ loc[c] \in Locals /\ pc[c] = "relink" /\ pc[c] \in Midway
      /\ loc[c].layer \in Levels /\ loc[c].isUpdate
      /\ loc[c].sNeigh \subseteq Ids /\ loc[c].sCand \subseteq Ids
      /\ loc[c].maxlevelcopy # None => loc[c].ep # None
  BY LocalsType DEF Midway, Relink, IInv, CallsOK, CallOK, Locals
<1> DEFINE near(n) == Nearest(vec[n], loc[c].sCand \ {n}, EfConstruction)
           list(n) == Heuristic(vec[n], near(n), MaxLinks(loc[c].layer))
<1>2. ASSUME NEW n \in loc[c].sNeigh,
             links' = [links EXCEPT ![n][loc[c].layer] = list(n)],
             stale' = StaleAfter(n, loc[c].layer, links'[n][loc[c].layer]),
             UNCHANGED <<store, initialised, elementLevels, vec, deleted, entry>>
      PROVE  OnlyLinks
  <2>1. list(n) \subseteq Ids
    BY <1>1, NearestSubset, HeuristicSubset
  <2> HIDE DEF list
  <2>2. links' \in [Ids -> [Levels -> SUBSET Ids]]
    BY <1>1, <1>2, <2>1, LinksType
  <2>3. stale' \in [Ids -> [Levels -> SUBSET Ids]]
    BY <1>1, <1>2, StaleAfterType
  <2> QED
    BY <1>2, <2>2, <2>3 DEF OnlyLinks
<1>3. ASSUME NEW n \in loc[c].sNeigh, OnlyLinks, UNCHANGED <<result, locks>>,
             Goto(c, "relink", [loc[c] EXCEPT !.sNeigh = loc[c].sNeigh \ {n}])
      PROVE  IInv'
  <2> DEFINE m == [loc[c] EXCEPT !.sNeigh = loc[c].sNeigh \ {n}]
  <2>1. m \in Locals /\ Kept(m, loc[c])
    BY <1>1 DEF Locals, Kept
  <2>2. Goto(c, "relink", m)
    BY <1>3
  <2> HIDE DEF m
  <2> QED
    BY <1>1, <1>3, <2>1, <2>2, Walk DEF OnlyLinks, Kept, Midway
<1>4. ASSUME OnlyLinks, NextUpdateLayer(c) PROVE IInv'
  BY <1>1, <1>4, NextUpdateLayerStep
<1> QED
  BY <1>2, <1>3, <1>4 DEF Relink

------------------------------------------------------------------------------
(* The steps before an insertion reads the top level, and the beginning of *)
(* an update.                                                              *)

LEMMA Approach ==
    ASSUME IInv, NEW c \in Calls, NEW p, NEW m, Goto(c, p, m),
           TypeOK', LabelsOK', CallOK(c)',
           \A d \in Calls \ {c} : result'[d] = result[d],
           result[c] # "ok", result'[c] # "ok",
           ~Linking(c), ~Linking(c)', p # "lockGlobal",
           UNCHANGED <<elementLevels, entry>>,
           \A d \in Calls \ {c} : global' = d <=> global = d,
           curElementCount' >= curElementCount,
           loc[c].isUpdate => m.isUpdate,
           m.isUpdate \/ m.elem \in {None, loc[c].elem, curElementCount},
           \A s \in Stripes : updateLocks[s] \notin {Free, c} => updateLocks'[s] = updateLocks[s],
           Working(c)' => updateLocks'[Stripe(m.elem)] = c
    PROVE  IInv'
<1> USE DEF Goto
<1>0. /\ pc \in [Calls -> Places] /\ loc \in [Calls -> Locals]
      /\ curElementCount \in Nat /\ curElementCount' \in Nat
      /\ curElementCount # None
  BY DEF IInv, TypeOK, None
<1>1. /\ pc'[c] = p /\ loc'[c] = m
      /\ \A d \in Calls \ {c} : pc'[d] = pc[d] /\ loc'[d] = loc[d]
  BY <1>0
<1>2. \A d \in Calls : loc[d].elem < curElementCount /\ (loc[d].elem \in Int)
  BY DEF IInv, CallsOK, CallOK, TypeOK, Locals, Ids, None
<1>3. CallsOK'
  <2> SUFFICES ASSUME NEW d \in Calls \ {c} PROVE CallOK(d)'
    BY DEF CallsOK
  <2>1. pc'[d] = pc[d] /\ loc'[d] = loc[d] /\ result'[d] = result[d]
    BY <1>1
  <2>2. loc[d].elem < curElementCount'
    BY <1>0, <1>2
  <2> QED
    BY <2>1, <2>2 DEF IInv, CallsOK, CallOK, entry
<1>e. \A d \in Calls : Working(d) => loc[d].elem \in Ids
  BY DEF IInv, TypeOK, CallsOK, CallOK, Working, Locals
<1>5. StripesHeld'
  <2> SUFFICES ASSUME NEW d \in Calls, Working(d)'
               PROVE  updateLocks'[Stripe(loc'[d].elem)] = d
    BY DEF StripesHeld, Stripe
  <2>1. CASE d = c
    BY <2>1, <1>1
  <2>2. CASE d # c
    <3>1. Working(d) /\ loc'[d] = loc[d] /\ Stripe(loc[d].elem) \in Stripes
      BY <2>2, <1>1, <1>e, StripeType DEF Working
    <3> QED
      BY <2>2, <3>1, CallsType DEF IInv, StripesHeld
  <2> QED
    BY <2>1, <2>2
<1>6. OwnElements'
  BY <1>0, <1>1, <1>2 DEF IInv, OwnElements
<1>7. \A d \in Calls : Linking(d)' => Linking(d) /\ d # c
  BY <1>1 DEF Linking
<1>8. \A d \in Calls : /\ Provisional(d)' <=> Provisional(d)
                       /\ Provisional(d) => d # c
  BY <1>1 DEF Provisional, Linking
<1>9. GlobalGuards'
  BY <1>1, <1>7, <1>8 DEF IInv, GlobalGuards, entry
<1>10. LevelsDrawn'
  BY <1>1, <1>7 DEF IInv, LevelsDrawn
<1>11. Inserted' = Inserted
  BY <1>1 DEF Inserted
<1>12. FirstAlone'
  BY <1>1, <1>7, <1>8, <1>11 DEF IInv, FirstAlone, entry
<1>13. EntryPointOnTop'
  BY <1>8, <1>11 DEF IInv, EntryPointOnTop, EntryProvisional, Provisional, entry
<1> QED
  BY <1>3, <1>5, <1>6, <1>9, <1>10, <1>12, <1>13 DEF IInv

(* What a call that has not returned, and the store, look like. *)
LEMMA BeforeType ==
    ASSUME IInv, NEW c \in Calls, pc[c] # "done"
    PROVE  /\ loc[c] \in Locals /\ result[c] = "none"
           /\ pc[c] \notin {"ready", "reserve"} => loc[c].elem \in Ids
           /\ pc[c] \in {"ready", "reserve"} => loc[c].elem = None /\ ~loc[c].isUpdate
           /\ loc[c].elem < curElementCount
           /\ curElementCount \in Nat /\ curElementCount <= MaxElements
<1>1. /\ loc[c] \in Locals
      /\ curElementCount \in Nat /\ curElementCount <= MaxElements
  BY SizesAssumption DEF IInv, TypeOK
<1>2. CallOK(c)
  BY DEF IInv, CallsOK
<1> QED
  BY <1>1, <1>2 DEF CallOK, Locals

LEMMA AddItemStep == ASSUME IInv, NEW c \in Calls, AddItem(c) PROVE IInv'
<1>1. /\ pc[c] = "ready" /\ loc[c] \in Locals /\ result[c] = "none"
      /\ loc[c].elem = None /\ ~loc[c].isUpdate
      /\ UNCHANGED <<curElementCount, labelLookup, graph, entry>>
      /\ curElementCount \in Nat /\ ~Linking(c)
  BY BeforeType DEF AddItem, Linking
<1>2. /\ pc \in [Calls -> Places] /\ loc \in [Calls -> Locals]
      /\ result \in [Calls -> {"none", "ok", "full", "exception"}]
  BY DEF IInv, TypeOK
<1>3. LabelsOK'
  BY <1>1 DEF IInv, LabelsOK
<1>4. CASE Return(c, "full") /\ UNCHANGED incrementalId
  <2> DEFINE m == [NoLocals EXCEPT !.label = loc[c].label, !.elem = loc[c].elem,
                                   !.isUpdate = loc[c].isUpdate]
  <2>0. m \in Locals /\ m.elem = loc[c].elem /\ m.isUpdate = loc[c].isUpdate
    <3>1. loc[c] \in Locals
      BY <1>1
    <3> QED
      BY <3>1, NoLocalsType DEF Locals, NoLocals
  <2>1. m \in Locals /\ m.elem = None /\ ~m.isUpdate
    BY <1>1, <2>0
  <2>2. Goto(c, "done", m) /\ result' = [result EXCEPT ![c] = "full"]
    BY <1>4 DEF Return, Goto
  <2> HIDE DEF m
  <2>3. /\ linkLocks' \in [Ids -> Calls \cup {Free}]
        /\ updateLocks' \in [Stripes -> Calls \cup {Free}]
        /\ global' \in Calls \cup {Free}
        /\ \A s \in Stripes : updateLocks[s] # c => updateLocks'[s] = updateLocks[s]
        /\ \A d \in Calls \ {c} : global' = d <=> global = d
    <3>1. /\ linkLocks \in [Ids -> Calls \cup {Free}]
          /\ updateLocks \in [Stripes -> Calls \cup {Free}]
          /\ global \in Calls \cup {Free}
      BY DEF IInv, TypeOK
    <3>2. /\ linkLocks' = Unlocked(linkLocks, c)
          /\ updateLocks' = Unlocked(updateLocks, c)
          /\ global' = IF global = c THEN Free ELSE global
      BY <1>4 DEF Return
    <3> QED
      BY <3>1, <3>2, UnlockedType, CallsType
  <2>4. TypeOK'
    BY <1>1, <1>2, <1>4, <2>1, <2>2, <2>3 DEF IInv, TypeOK, graph, entry, Places, Goto
  <2>5. pc'[c] = "done" /\ loc'[c] = m /\ result'[c] = "full"
    BY <1>2, <2>2 DEF Goto
  <2>6. CallOK(c)'
    BY <1>1, <2>1, <2>5 DEF CallOK, None
  <2>7. ~Linking(c)' /\ ~Working(c)'
    BY <2>5 DEF Linking, Working
  <2> QED
    BY <1>1, <1>2, <1>3, <2>1, <2>2, <2>3, <2>4, <2>5, <2>6, <2>7, Approach DEF graph
<1>5. ASSUME NEW label \in Nat, Goto(c, "reserve", [NoLocals EXCEPT !.label = label]),
             incrementalId' \in Nat, UNCHANGED <<result, locks>>
      PROVE  IInv'
  <2> DEFINE m == [NoLocals EXCEPT !.label = label]
  <2>1. m \in Locals /\ m.elem = None /\ ~m.isUpdate /\ m.label = label
    BY NoLocalsType DEF Locals, NoLocals
  <2>2. Goto(c, "reserve", m)
    BY <1>5
  <2> HIDE DEF m
  <2>4. TypeOK'
    BY <1>1, <1>2, <1>5, <2>1, <2>2 DEF IInv, TypeOK, graph, entry, Places, Goto, locks
  <2>5. pc'[c] = "reserve" /\ loc'[c] = m
    BY <1>2, <2>2 DEF Goto
  <2>6. CallOK(c)'
    BY <1>1, <1>5, <2>1, <2>5 DEF CallOK, None
  <2>7. ~Linking(c)' /\ ~Working(c)'
    BY <2>5 DEF Linking, Working
  <2> QED
    BY <1>1, <1>2, <1>3, <1>5, <2>1, <2>2, <2>4, <2>5, <2>6, <2>7, Approach
       DEF graph, locks
<1>6. Label(c) # NoId => Label(c) \in Nat
  BY WorkloadType
<1>7. incrementalId \in Nat /\ incrementalId + 1 \in Nat
  BY DEF IInv, TypeOK
<1> QED
  BY <1>4, <1>5, <1>6, <1>7 DEF AddItem

LEMMA ReserveStep == ASSUME IInv, NEW c \in Calls, Reserve(c) PROVE IInv'
<1> DEFINE label == loc[c].label
<1>1. /\ pc[c] = "reserve" /\ loc[c] \in Locals /\ result[c] = "none"
      /\ loc[c].elem = None /\ ~loc[c].isUpdate
      /\ UNCHANGED <<incrementalId, graph, entry>>
      /\ curElementCount \in Nat /\ ~Linking(c)
  BY BeforeType DEF Reserve, Linking
<1>2. /\ pc \in [Calls -> Places] /\ loc \in [Calls -> Locals]
      /\ label \in Nat
  BY <1>1 DEF IInv, TypeOK, CallsOK, CallOK
<1>3. ASSUME NEW p \in {"lockForUpdate", "lockForInsert"}, NEW m \in Locals, Goto(c, p, m),
             UNCHANGED <<locks, result>>, TypeOK', LabelsOK',
             m.elem # None, m.elem < curElementCount', curElementCount' >= curElementCount,
             m.isUpdate <=> p = "lockForUpdate",
             m.isUpdate \/ m.elem = curElementCount
      PROVE  IInv'
  <2>5. pc'[c] = p /\ loc'[c] = m
    BY <1>2, <1>3 DEF Goto
  <2>6. CallOK(c)'
    BY <1>1, <1>3, <2>5 DEF CallOK
  <2>7. ~Linking(c)' /\ ~Working(c)'
    BY <1>3, <2>5 DEF Linking, Working
  <2> QED
    BY <1>1, <1>2, <1>3, <2>5, <2>6, <2>7, Approach DEF graph, locks
<1>4. CASE /\ label \in DOMAIN labelLookup
           /\ Goto(c, "lockForUpdate",
                   [loc[c] EXCEPT !.elem = labelLookup[label], !.isUpdate = TRUE])
           /\ UNCHANGED <<curElementCount, labelLookup, locks, result>>
  <2> DEFINE m == [loc[c] EXCEPT !.elem = labelLookup[label], !.isUpdate = TRUE]
  <2>1. labelLookup[label] \in Ids /\ labelLookup[label] < curElementCount
    BY <1>4 DEF IInv, TypeOK, LabelsOK
  <2>2. m \in Locals /\ m.elem = labelLookup[label] /\ m.isUpdate
    BY <1>1, <2>1 DEF Locals
  <2>3. Goto(c, "lockForUpdate", m)
    BY <1>4
  <2> HIDE DEF m
  <2>4. TypeOK'
    BY <1>1, <1>2, <1>4, <2>2, <2>3 DEF IInv, TypeOK, graph, entry, Places, Goto, locks
  <2>5. LabelsOK'
    BY <1>4 DEF IInv, LabelsOK
  <2> QED
    BY <1>1, <1>3, <1>4, <2>1, <2>2, <2>3, <2>4, <2>5 DEF Ids, None
<1>5. CASE Throw(c) /\ UNCHANGED <<curElementCount, labelLookup>>
  BY <1>1, <1>5, LinksType, Thrown DEF store, graph
<1>6. CASE /\ label \notin DOMAIN labelLookup
           /\ ~Full
           /\ curElementCount' = curElementCount + 1
           /\ labelLookup' =
                 [l \in DOMAIN labelLookup \cup {label} |->
                     IF l = label THEN curElementCount ELSE labelLookup[l]]
           /\ Goto(c, "lockForInsert", [loc[c] EXCEPT !.elem = curElementCount])
           /\ UNCHANGED <<locks, result>>
  <2> DEFINE m == [loc[c] EXCEPT !.elem = curElementCount]
  <2>1. curElementCount \in Ids /\ curElementCount' \in 0 .. MaxElements
    BY <1>1, <1>6, SizesAssumption DEF Full, Ids
  <2>2. m \in Locals /\ m.elem = curElementCount /\ ~m.isUpdate
    BY <1>1, <2>1 DEF Locals
  <2>3. Goto(c, "lockForInsert", m)
    BY <1>6
  <2> HIDE DEF m
  <2>a. /\ DOMAIN labelLookup' \subseteq Nat
        /\ labelLookup' \in [DOMAIN labelLookup' -> Ids]
    BY <1>2, <1>6, <2>1 DEF IInv, TypeOK
  <2>c. pc' \in [Calls -> Places] /\ loc' \in [Calls -> Locals]
    BY <1>2, <2>2, <2>3 DEF Goto, Places
  <2>d. UNCHANGED <<incrementalId, graph, entry, locks, result>>
    BY <1>1, <1>6
  <2>4. TypeOK'
    BY <2>a, <2>c, <2>d, <2>1 DEF IInv, TypeOK, graph, entry, locks
  <2>b. \A l \in DOMAIN labelLookup : labelLookup[l] < curElementCount /\ labelLookup[l] \in Ids
    BY DEF IInv, TypeOK, LabelsOK
  <2>5. LabelsOK'
    BY <1>1, <1>6, <2>b DEF LabelsOK, Ids
  <2> QED
    BY <1>1, <1>3, <1>6, <2>1, <2>2, <2>3, <2>4, <2>5 DEF Ids, None
<1> QED
  BY <1>4, <1>5, <1>6 DEF Reserve

LEMMA LockForInsertStep == ASSUME IInv, NEW c \in Calls, LockForInsert(c) PROVE IInv'
<1>1. /\ pc[c] = "lockForInsert" /\ loc[c] \in Locals /\ result[c] = "none"
      /\ loc[c].elem \in Ids /\ loc[c].elem < curElementCount /\ curElementCount \in Nat
      /\ UNCHANGED <<store, graph, entry, linkLocks, global, result>>
      /\ ~Linking(c)
  BY BeforeType DEF LockForInsert, Linking
<1>2. /\ pc \in [Calls -> Places] /\ loc \in [Calls -> Locals]
      /\ updateLocks \in [Stripes -> Calls \cup {Free}]
      /\ ~loc[c].isUpdate
  BY <1>1 DEF IInv, TypeOK, CallsOK, CallOK
<1>3. /\ Goto(c, "lockElement", loc[c])
      /\ updateLocks[Stripe(loc[c].elem)] = Free
      /\ updateLocks' = Hold(updateLocks, Stripe(loc[c].elem), c)
      /\ Stripe(loc[c].elem) \in Stripes
  BY <1>1, StripeType DEF LockForInsert
<1>4. /\ updateLocks' \in [Stripes -> Calls \cup {Free}]
      /\ updateLocks'[Stripe(loc[c].elem)] = c
      /\ \A s \in Stripes : updateLocks[s] # Free => updateLocks'[s] = updateLocks[s]
  BY <1>2, <1>3 DEF Hold
<1>5. TypeOK'
  BY <1>1, <1>2, <1>3, <1>4 DEF IInv, TypeOK, store, graph, entry, Places, Goto
<1>6. pc'[c] = "lockElement" /\ loc'[c] = loc[c]
  BY <1>2, <1>3 DEF Goto
<1>7. CallOK(c)'
  BY <1>1, <1>2, <1>6 DEF CallOK, Ids, None, store
<1>8. LabelsOK' /\ ~Linking(c)'
  BY <1>1, <1>6 DEF IInv, LabelsOK, Linking, store
<1> QED
  BY <1>1, <1>3, <1>4, <1>5, <1>6, <1>7, <1>8, Approach DEF store, graph

LEMMA LockForUpdateStep == ASSUME IInv, NEW c \in Calls, LockForUpdate(c) PROVE IInv'
<1> DEFINE m == [loc[c] EXCEPT !.maxlevelcopy = maxlevel]
<1>1. /\ pc[c] = "lockForUpdate" /\ loc[c] \in Locals /\ result[c] = "none"
      /\ loc[c].elem \in Ids /\ loc[c].elem < curElementCount /\ curElementCount \in Nat
      /\ UNCHANGED <<store, initialised, elementLevels, deleted, links, stale, entry,
                     linkLocks, global, result>>
      /\ ~Linking(c)
  BY BeforeType DEF LockForUpdate, Linking
<1>2. /\ pc \in [Calls -> Places] /\ loc \in [Calls -> Locals]
      /\ updateLocks \in [Stripes -> Calls \cup {Free}]
      /\ maxlevel \in Levels \cup {None} /\ vec \in [Ids -> Points]
      /\ loc[c].isUpdate
  BY <1>1 DEF IInv, TypeOK, CallsOK, CallOK
<1>3. /\ Goto(c, "readEntryUpdate", m)
      /\ updateLocks[Stripe(loc[c].elem)] = Free
      /\ updateLocks' = Hold(updateLocks, Stripe(loc[c].elem), c)
      /\ vec' = [vec EXCEPT ![loc[c].elem] = Point(c)]
      /\ Stripe(loc[c].elem) \in Stripes
  BY <1>1, StripeType DEF LockForUpdate
<1>m. /\ m \in Locals /\ m.elem = loc[c].elem /\ m.isUpdate = loc[c].isUpdate
      /\ m.maxlevelcopy = maxlevel
  <2>1. loc[c] \in Locals /\ maxlevel \in Levels \cup {None}
    BY <1>1, <1>2
  <2> QED
    BY <2>1 DEF Locals
<1> HIDE DEF m
<1>4. /\ updateLocks' \in [Stripes -> Calls \cup {Free}]
      /\ updateLocks'[Stripe(loc[c].elem)] = c
      /\ \A s \in Stripes : updateLocks[s] # Free => updateLocks'[s] = updateLocks[s]
  BY <1>2, <1>3 DEF Hold
<1>v. vec' \in [Ids -> Points]
  BY <1>2, <1>3, WorkloadType
<1>5. TypeOK'
  BY <1>1, <1>2, <1>3, <1>4, <1>v, <1>m DEF IInv, TypeOK, store, entry, Places, Goto
<1>6. pc'[c] = "readEntryUpdate" /\ loc'[c] = m
  BY <1>2, <1>3 DEF Goto
<1>e. maxlevel # None => enterpoint # None
  BY DEF IInv, EntryPointOnTop, EntryProvisional, FirstAlone, Provisional
<1>7. CallOK(c)'
  BY <1>1, <1>2, <1>6, <1>m, <1>e DEF CallOK, Ids, None, store, entry
<1>8. LabelsOK' /\ ~Linking(c)'
  BY <1>1, <1>6 DEF IInv, LabelsOK, Linking, store
<1>9. m.isUpdate
  BY <1>2, <1>m
<1> QED
  BY <1>1, <1>3, <1>4, <1>5, <1>6, <1>7, <1>8, <1>9, <1>m, Approach DEF store

LEMMA ReadEntryUpdateStep == ASSUME IInv, NEW c \in Calls, ReadEntryUpdate(c) PROVE IInv'
<1> DEFINE m == [loc[c] EXCEPT !.ep = enterpoint, !.layer = 0,
                               !.level = elementLevels[loc[c].elem]]
<1>1. /\ pc[c] = "readEntryUpdate" /\ loc[c] \in Locals /\ result[c] = "none"
      /\ loc[c].elem \in Ids /\ loc[c].elem < curElementCount /\ curElementCount \in Nat
      /\ UNCHANGED <<store, graph, entry, locks, result>>
      /\ ~Linking(c)
  BY BeforeType DEF ReadEntryUpdate, Linking
<1>2. /\ pc \in [Calls -> Places] /\ loc \in [Calls -> Locals]
      /\ enterpoint \in Ids \cup {None} /\ elementLevels[loc[c].elem] \in Levels
      /\ loc[c].isUpdate /\ (loc[c].maxlevelcopy # None => enterpoint # None)
  BY <1>1 DEF IInv, TypeOK, CallsOK, CallOK
<1>m. /\ m \in Locals /\ m.elem = loc[c].elem /\ m.isUpdate = loc[c].isUpdate
      /\ m.maxlevelcopy = loc[c].maxlevelcopy /\ m.ep = enterpoint
  <2>1. /\ loc[c] \in Locals /\ enterpoint \in Ids \cup {None}
        /\ elementLevels[loc[c].elem] \in Levels /\ 0 \in Levels
    BY <1>1, <1>2, SizesAssumption DEF Levels
  <2> QED
    BY <2>1 DEF Locals
<1>3. PICK p \in {"finish", "oneHop"} : Goto(c, p, m)
  BY DEF ReadEntryUpdate
<1> HIDE DEF m
<1>5. TypeOK'
  BY <1>1, <1>2, <1>3, <1>m DEF IInv, TypeOK, store, graph, entry, locks, Places, Goto
<1>6. pc'[c] = p /\ loc'[c] = m
  BY <1>2, <1>3 DEF Goto
<1>7. CallOK(c)'
  BY <1>1, <1>2, <1>3, <1>6, <1>m DEF CallOK, Ids, None, store, entry
<1>8. LabelsOK' /\ ~Linking(c)'
  BY <1>1, <1>2, <1>6, <1>m DEF IInv, LabelsOK, Linking, store
<1>9. updateLocks[Stripe(loc[c].elem)] = c
  BY <1>1 DEF IInv, StripesHeld, Working
<1>10. m.isUpdate
  BY <1>2, <1>m
<1> QED
  BY <1>1, <1>3, <1>5, <1>6, <1>7, <1>8, <1>9, <1>10, <1>m, Approach
     DEF store, graph, locks

------------------------------------------------------------------------------
(* The steps that draw a level, take "global" or move the entry point.     *)

(* While the first insertion is between its two writes, it holds "global". *)
LEMMA ProvisionalHolds ==
    ASSUME IInv, NEW c \in Calls, Provisional(c)
    PROVE  global = c
<1>1. loc[c] \in Locals /\ Linking(c)
  BY DEF IInv, TypeOK, Provisional, Linking
<1>2. loc[c].level > loc[c].maxlevelcopy
  BY <1>1 DEF Provisional, Locals, Levels, None
<1> QED
  BY <1>1, <1>2 DEF IInv, GlobalGuards

LEMMA InsertedType ==
    ASSUME IInv
    PROVE  /\ Inserted \subseteq Ids
           /\ \A i \in Inserted : \E d \in Calls : /\ result[d] = "ok" /\ ~loc[d].isUpdate
                                                   /\ loc[d].elem = i
<1>1. \A d \in Calls : loc[d] \in Locals /\ (result[d] = "ok" => loc[d].elem # None)
  BY DEF IInv, TypeOK, CallsOK, CallOK
<1> QED
  BY <1>1 DEF Inserted, Locals

LEMMA LockElementStep == ASSUME IInv, NEW c \in Calls, LockElement(c) PROVE IInv'
<1>1. /\ pc[c] = "lockElement" /\ loc[c] \in Locals /\ result[c] = "none"
      /\ loc[c].elem \in Ids
      /\ UNCHANGED <<store, initialised, vec, deleted, links, stale, entry,
                     updateLocks, global, result>>
      /\ linkLocks' = Hold(linkLocks, loc[c].elem, c)
  BY BeforeType DEF LockElement
<1>2. PICK level \in Levels :
         /\ elementLevels' = [elementLevels EXCEPT ![loc[c].elem] = level]
         /\ Goto(c, "lockGlobal", [loc[c] EXCEPT !.level = level])
  BY DEF LockElement
<1> DEFINE m == [loc[c] EXCEPT !.level = level]
<1>m. /\ m \in Locals /\ m.elem = loc[c].elem /\ m.isUpdate = loc[c].isUpdate
      /\ m.level = level
  <2>1. loc[c] \in Locals
    BY <1>1
  <2> QED
    BY <2>1 DEF Locals
<1>3. /\ pc \in [Calls -> Places] /\ loc \in [Calls -> Locals]
      /\ elementLevels \in [Ids -> Levels]
      /\ ~loc[c].isUpdate
      /\ Goto(c, "lockGlobal", m)
  BY <1>1, <1>2 DEF IInv, TypeOK, CallsOK, CallOK
<1> HIDE DEF m
<1>4. /\ pc'[c] = "lockGlobal" /\ loc'[c] = m
      /\ \A d \in Calls \ {c} : pc'[d] = pc[d] /\ loc'[d] = loc[d]
  BY <1>3 DEF Goto
<1>5. TypeOK'
  BY <1>1, <1>2, <1>3, <1>m DEF IInv, TypeOK, store, entry, Places, Goto, Hold
<1>6. CallsOK'
  <2>1. CallOK(c)'
    BY <1>1, <1>3, <1>4, <1>m DEF IInv, CallsOK, CallOK, store, entry
  <2>2. \A d \in Calls \ {c} : CallOK(d)'
    BY <1>1, <1>4 DEF IInv, CallsOK, CallOK, store, entry
  <2> QED
    BY <2>1, <2>2 DEF CallsOK
<1>7. LabelsOK'
  BY <1>1 DEF IInv, LabelsOK, store
<1>8. StripesHeld'
  BY <1>1, <1>4, <1>m DEF IInv, StripesHeld, Working, Stripe
<1>9. OwnElements'
  BY <1>4, <1>m DEF IInv, OwnElements
<1>10. \A d \in Calls : /\ Linking(d)' <=> Linking(d)
                        /\ Linking(d) => d # c
                        /\ Provisional(d)' <=> Provisional(d)
  BY <1>1, <1>4 DEF Linking, Provisional
<1>11. GlobalGuards'
  BY <1>1, <1>4, <1>10 DEF IInv, GlobalGuards, entry
<1>12. \A i \in Ids : i # loc[c].elem => elementLevels'[i] = elementLevels[i]
  BY <1>2, <1>3
<1>13. LevelsDrawn'
  <2> SUFFICES ASSUME NEW d \in Calls, Linking(d)' \/ pc'[d] = "lockGlobal"
               PROVE  elementLevels'[loc'[d].elem] = loc'[d].level
    BY DEF LevelsDrawn
  <2>1. CASE d = c
    BY <2>1, <1>1, <1>2, <1>3, <1>4, <1>m
  <2>2. CASE d # c
    <3>1. (Linking(d) \/ pc[d] = "lockGlobal") /\ loc'[d] = loc[d]
      BY <2>2, <1>4, <1>10
    <3>2. ~loc[d].isUpdate /\ loc[d].elem \in Ids
      BY <3>1, BeforeType DEF IInv, CallsOK, CallOK, Linking
    <3>3. loc[d].elem # loc[c].elem
      BY <2>2, <3>2, <1>1, <1>3 DEF IInv, OwnElements, Ids, None
    <3> QED
      BY <3>1, <3>2, <3>3, <1>12 DEF IInv, LevelsDrawn
  <2> QED
    BY <2>1, <2>2
<1>14. Inserted' = Inserted
  BY <1>1, <1>4 DEF Inserted
<1>15. FirstAlone'
  <2>1. \A d \in Calls : Provisional(d) => d # c
    BY <1>1 DEF Provisional
  <2> QED
    BY <1>1, <1>4, <1>10, <1>14, <2>1 DEF IInv, FirstAlone, entry
<1>16. \A i \in Inserted : i \in Ids /\ i # loc[c].elem
  <2> SUFFICES ASSUME NEW i \in Inserted, i = loc[c].elem PROVE FALSE
    BY InsertedType
  <2>1. PICK d \in Calls : result[d] = "ok" /\ ~loc[d].isUpdate /\ loc[d].elem = i
    BY InsertedType
  <2> QED
    BY <2>1, <1>1, <1>3 DEF IInv, OwnElements, Ids, None
<1>17. EntryPointOnTop'
  BY <1>1, <1>10, <1>12, <1>14, <1>16
     DEF IInv, EntryPointOnTop, EntryProvisional, Provisional, entry
<1> QED
  BY <1>5, <1>6, <1>7, <1>8, <1>9, <1>11, <1>13, <1>15, <1>17 DEF IInv

LEMMA LockGlobalStep == ASSUME IInv, NEW c \in Calls, LockGlobal(c) PROVE IInv'
<1> DEFINE m == [loc[c] EXCEPT !.maxlevelcopy = maxlevel]
<1>1. /\ pc[c] = "lockGlobal" /\ loc[c] \in Locals /\ result[c] = "none"
      /\ loc[c].elem \in Ids /\ loc[c].level \in Levels
      /\ global = Free
      /\ UNCHANGED <<store, graph, entry, linkLocks, updateLocks, result>>
  BY BeforeType DEF LockGlobal, Locals
<1>2. /\ pc \in [Calls -> Places] /\ loc \in [Calls -> Locals]
      /\ maxlevel \in Levels \cup {None}
      /\ ~loc[c].isUpdate
  BY <1>1 DEF IInv, TypeOK, CallsOK, CallOK
<1>m. /\ m \in Locals /\ m.elem = loc[c].elem /\ m.isUpdate = loc[c].isUpdate
      /\ m.level = loc[c].level /\ m.maxlevelcopy = maxlevel
  <2>1. loc[c] \in Locals /\ maxlevel \in Levels \cup {None}
    BY <1>1, <1>2
  <2> QED
    BY <2>1 DEF Locals
<1>3. /\ Goto(c, "readEntry", m)
      /\ global' = IF loc[c].level > maxlevel THEN c ELSE Free
  BY DEF LockGlobal, KeepsGlobal
<1> HIDE DEF m
<1>4. /\ pc'[c] = "readEntry" /\ loc'[c] = m
      /\ \A d \in Calls \ {c} : pc'[d] = pc[d] /\ loc'[d] = loc[d]
  BY <1>2, <1>3 DEF Goto
<1>5. TypeOK'
  BY <1>1, <1>2, <1>3, <1>m DEF IInv, TypeOK, store, graph, entry, Places, Goto
<1>6. CallsOK'
  <2>1. CallOK(c)'
    BY <1>1, <1>2, <1>4, <1>m DEF IInv, CallsOK, CallOK, store, entry
  <2>2. \A d \in Calls \ {c} : CallOK(d)'
    BY <1>1, <1>4 DEF IInv, CallsOK, CallOK, store, entry
  <2> QED
    BY <2>1, <2>2 DEF CallsOK
<1>7. LabelsOK'
  BY <1>1 DEF IInv, LabelsOK, store
<1>8. StripesHeld'
  BY <1>1, <1>4, <1>m DEF IInv, StripesHeld, Working, Stripe
<1>9. OwnElements'
  BY <1>4, <1>m DEF IInv, OwnElements
<1>10. \A d \in Calls : ~Provisional(d) /\ ~Provisional(d)'
  <2>1. \A d \in Calls : ~Provisional(d)
    BY <1>1, ProvisionalHolds, CallsType
  <2> QED
    BY <1>4, <2>1 DEF Provisional
<1>11. GlobalGuards'
  <2> SUFFICES ASSUME NEW d \in Calls, Linking(d)'
               PROVE  /\ loc'[d].level > loc'[d].maxlevelcopy => global' = d
                      /\ global' = d => /\ loc'[d].level > loc'[d].maxlevelcopy
                                        /\ maxlevel' = loc'[d].maxlevelcopy \/ Provisional(d)'
                      /\ loc'[d].maxlevelcopy <= maxlevel'
    BY DEF GlobalGuards
  <2>1. CASE d = c
    BY <2>1, <1>1, <1>2, <1>3, <1>4, <1>m, CallsType DEF entry, Levels, None
  <2>2. CASE d # c
    <3>1. Linking(d) /\ loc'[d] = loc[d] /\ global # d /\ global' # d
      BY <2>2, <1>1, <1>3, <1>4, CallsType DEF Linking
    <3> QED
      BY <3>1, <1>1 DEF IInv, GlobalGuards, entry
  <2> QED
    BY <2>1, <2>2
<1>12. LevelsDrawn'
  BY <1>1, <1>4, <1>m DEF IInv, LevelsDrawn, graph, Linking
<1>13. Inserted' = Inserted
  BY <1>1, <1>4 DEF Inserted
<1>14. FirstAlone'
  BY <1>10 DEF FirstAlone
<1>15. EntryPointOnTop'
  BY <1>1, <1>10, <1>13 DEF IInv, EntryPointOnTop, EntryProvisional, Provisional, entry, graph
<1> QED
  BY <1>5, <1>6, <1>7, <1>8, <1>9, <1>11, <1>12, <1>14, <1>15 DEF IInv

LEMMA ReadEntryStep == ASSUME IInv, NEW c \in Calls, ReadEntry(c) PROVE IInv'
<1> DEFINE elem == loc[c].elem
           level == loc[c].level
           top == loc[c].maxlevelcopy
           read == [loc[c] EXCEPT !.ep = enterpoint, !.obj = enterpoint]
<1>1. /\ pc[c] = "readEntry" /\ loc[c] \in Locals /\ result[c] = "none"
      /\ elem \in Ids /\ level \in Levels /\ top \in Levels \cup {None}
      /\ UNCHANGED <<store, elementLevels, entry, locks, result>>
      /\ initialised' = initialised \cup {elem}
      /\ deleted' = deleted \ {elem}
      /\ vec' = [vec EXCEPT ![elem] = Point(c)]
      /\ links' = [links EXCEPT ![elem] = [l \in Levels |-> {}]]
      /\ stale' = [stale EXCEPT ![elem] = [l \in Levels |-> {}]]
  BY BeforeType DEF ReadEntry, Locals
<1>2. /\ pc \in [Calls -> Places] /\ loc \in [Calls -> Locals]
      /\ enterpoint \in Ids \cup {None} /\ maxlevel \in Levels \cup {None}
      /\ ~loc[c].isUpdate /\ Linking(c)
  BY <1>1 DEF IInv, TypeOK, CallsOK, CallOK, Linking
<1>3. /\ initialised' \subseteq Ids
      /\ deleted' \subseteq Ids
      /\ vec' \in [Ids -> Points]
      /\ links' \in [Ids -> [Levels -> SUBSET Ids]]
      /\ stale' \in [Ids -> [Levels -> SUBSET Ids]]
  <2>1. Point(c) \in Points
    BY WorkloadType
  <2> QED
    BY <1>1, <2>1 DEF IInv, TypeOK
<1>r. /\ read \in Locals /\ read.obj = enterpoint
      /\ read.elem = elem /\ read.isUpdate = loc[c].isUpdate
      /\ read.level = level /\ read.maxlevelcopy = top
  <2>1. loc[c] \in Locals /\ enterpoint \in Ids \cup {None}
    BY <1>1, <1>2
  <2> QED
    BY <2>1 DEF Locals
<1>p. \A d \in Calls : Provisional(d) => maxlevel # None /\ enterpoint # None
  <2>1. \A d \in Calls : loc[d].level \in Levels
    BY <1>2 DEF Locals
  <2> QED
    BY <2>1 DEF IInv, FirstAlone, Levels, None
<1>e. enterpoint = None <=> maxlevel = None
  BY <1>p DEF IInv, EntryPointOnTop, EntryProvisional, Provisional
<1>t. top = None <=> enterpoint = None
  <2>1. top <= maxlevel
    BY <1>2 DEF IInv, GlobalGuards
  <2>2. top = None => maxlevel = None
    <3>1. ASSUME top = None PROVE level > top
      BY <1>1, <3>1 DEF Levels, None
    <3>2. ~Provisional(c)
      BY <1>1 DEF Provisional
    <3> QED
      BY <1>2, <3>1, <3>2 DEF IInv, GlobalGuards
  <2>3. maxlevel = None => top = None
    BY <1>1, <2>1 DEF Levels, None
  <2> QED
    BY <2>2, <2>3, <1>e
<1>4. ASSUME NEW p \in {"firstElement", "descend", "search"}, NEW m \in Locals, Goto(c, p, m),
             m.elem = elem, m.isUpdate = loc[c].isUpdate, m.level = level, m.maxlevelcopy = top,
             p = "firstElement" => enterpoint = None,
             p # "firstElement" => enterpoint # None /\ m.obj # None,
             p = "descend" => m.layer > m.level
      PROVE  IInv'
  <2>1. /\ pc'[c] = p /\ loc'[c] = m
        /\ \A d \in Calls \ {c} : pc'[d] = pc[d] /\ loc'[d] = loc[d]
    BY <1>2, <1>4 DEF Goto
  <2>2. TypeOK'
    BY <1>1, <1>2, <1>3, <1>4 DEF IInv, TypeOK, store, entry, locks, Places, Goto
  <2>3. CallsOK'
    <3>1. CallOK(c)'
      BY <1>1, <1>2, <1>4, <1>t, <2>1 DEF IInv, CallsOK, CallOK, store, entry
    <3>2. \A d \in Calls \ {c} : CallOK(d)'
      BY <1>1, <2>1 DEF IInv, CallsOK, CallOK, store, entry
    <3> QED
      BY <3>1, <3>2 DEF CallsOK
  <2>4. LabelsOK'
    BY <1>1 DEF IInv, LabelsOK, store
  <2>5. StripesHeld'
    BY <1>1, <1>4, <2>1 DEF IInv, StripesHeld, Working, Stripe, locks
  <2>6. OwnElements'
    BY <1>4, <2>1 DEF IInv, OwnElements
  <2>7. \A d \in Calls : Linking(d)' => Linking(d)
    BY <1>1, <1>2, <1>4, <2>1 DEF Linking
  <2>8. \A d \in Calls : Provisional(d)' <=> Provisional(d)
    BY <1>1, <1>4, <2>1 DEF Provisional
  <2>9. GlobalGuards'
    BY <1>1, <1>4, <2>1, <2>7, <2>8 DEF IInv, GlobalGuards, entry, locks
  <2>10. LevelsDrawn'
    BY <1>1, <1>4, <2>1, <2>7 DEF IInv, LevelsDrawn
  <2>11. Inserted' = Inserted
    BY <1>1, <2>1 DEF Inserted
  <2>12. FirstAlone'
    <3>1. \A d \in Calls : Provisional(d) => d # c
      BY <1>1 DEF Provisional
    <3> QED
      BY <1>1, <2>1, <2>7, <2>8, <2>11, <3>1 DEF IInv, FirstAlone, entry
  <2>13. EntryPointOnTop'
    BY <1>1, <2>8, <2>11 DEF IInv, EntryPointOnTop, EntryProvisional, Provisional, entry
  <2> QED
    BY <2>2, <2>3, <2>4, <2>5, <2>6, <2>9, <2>10, <2>12, <2>13 DEF IInv
<1>5. CASE enterpoint = None /\ Goto(c, "firstElement", read)
  <2> HIDE DEF read
  <2> QED
    BY <1>4, <1>5, <1>r
<1>6. CASE /\ enterpoint # None
           /\ level < top
           /\ Goto(c, "descend", [read EXCEPT !.layer = top])
  <2> DEFINE m == [read EXCEPT !.layer = top]
  <2> HIDE DEF read
  <2>1. top \in Levels
    BY <1>1, <1>6, <1>t
  <2>2. /\ m \in Locals /\ m.elem = read.elem /\ m.isUpdate = read.isUpdate
        /\ m.level = read.level /\ m.maxlevelcopy = read.maxlevelcopy
        /\ m.obj = read.obj /\ m.layer = top
    BY <1>r, <2>1 DEF Locals
  <2>3. Goto(c, "descend", m)
    BY <1>6
  <2> HIDE DEF m
  <2>4. m.layer > m.level
    BY <1>1, <1>r, <1>6, <2>1, <2>2 DEF Levels
  <2> QED
    BY <1>4, <1>6, <1>r, <2>2, <2>3, <2>4
<1>7. CASE /\ enterpoint # None
           /\ level >= top
           /\ Goto(c, "search", SearchFrom(read, enterpoint, top))
  <2> DEFINE m == SearchFrom(read, enterpoint, top)
  <2> HIDE DEF read
  <2>1. top \in Levels /\ enterpoint \in Ids
    BY <1>1, <1>2, <1>7, <1>t
  <2>2. m \in Locals /\ m.obj = enterpoint /\ Kept(m, read)
    BY <1>r, <2>1, SearchFromType
  <2>3. Goto(c, "search", m)
    BY <1>7
  <2> HIDE DEF m
  <2> QED
    BY <1>4, <1>7, <1>r, <2>2, <2>3 DEF Kept
<1> QED
  BY <1>5, <1>6, <1>7 DEF ReadEntry

LEMMA FirstElementStep == ASSUME IInv, NEW c \in Calls, FirstElement(c) PROVE IInv'
<1>1. /\ pc[c] = "firstElement" /\ loc[c] \in Locals /\ result[c] = "none"
      /\ loc[c].elem \in Ids /\ loc[c].level \in Levels
      /\ enterpoint' = 0 /\ maxlevel' = loc[c].level
      /\ Goto(c, "finish", loc[c])
      /\ UNCHANGED <<store, graph, locks, result>>
  BY BeforeType DEF FirstElement, Locals
<1>2. /\ pc \in [Calls -> Places] /\ loc \in [Calls -> Locals]
      /\ elementLevels \in [Ids -> Levels]
      /\ ~loc[c].isUpdate /\ loc[c].maxlevelcopy = None /\ Linking(c)
      /\ maxlevel \in Levels \cup {None}
  BY <1>1 DEF IInv, TypeOK, CallsOK, CallOK, Linking
<1>3. /\ pc'[c] = "finish" /\ loc'[c] = loc[c]
      /\ \A d \in Calls \ {c} : pc'[d] = pc[d] /\ loc'[d] = loc[d]
  BY <1>1, <1>2 DEF Goto
<1>4. loc[c].level > loc[c].maxlevelcopy /\ global = c /\ ~Provisional(c)
  <2>1. loc[c].level > loc[c].maxlevelcopy
    BY <1>1, <1>2 DEF Levels, None
  <2> QED
    BY <1>1, <1>2, <2>1 DEF IInv, GlobalGuards, Provisional
<1>5. maxlevel = None
  BY <1>2, <1>4 DEF IInv, GlobalGuards
<1>6. \A d \in Calls : ~Provisional(d)
  BY <1>4, ProvisionalHolds
<1>7. \A d \in Calls : Linking(d) => d = c
  <2> SUFFICES ASSUME NEW d \in Calls, Linking(d) PROVE d = c
    OBVIOUS
  <2>1. loc[d].level \in Levels /\ loc[d].maxlevelcopy \in Levels \cup {None}
    BY <1>2 DEF Locals
  <2>2. loc[d].maxlevelcopy <= None
    BY <1>5 DEF IInv, GlobalGuards
  <2>3. loc[d].level > loc[d].maxlevelcopy
    BY <2>1, <2>2 DEF Levels, None
  <2> QED
    BY <1>4, <2>3 DEF IInv, GlobalGuards
<1>8. Inserted = {}
  <2>1. \A i \in Inserted : elementLevels[i] <= None
    BY <1>5, <1>6 DEF IInv, EntryPointOnTop, EntryProvisional, Provisional
  <2>2. \A i \in Inserted : elementLevels[i] \in Levels
    BY <1>2, InsertedType
  <2> QED
    BY <2>1, <2>2 DEF Levels, None
<1>9. TypeOK'
  <2>1. 0 \in Ids
    BY SizesAssumption DEF Ids
  <2> QED
    BY <1>1, <1>2, <2>1 DEF IInv, TypeOK, store, graph, locks, Places, Goto
<1>10. CallsOK'
  <2>1. CallOK(c)'
    BY <1>1, <1>2, <1>3 DEF IInv, CallsOK, CallOK, store
  <2>2. enterpoint' # None
    BY <1>1 DEF None
  <2>3. \A d \in Calls \ {c} : CallOK(d)'
    BY <1>1, <1>3, <2>2 DEF IInv, CallsOK, CallOK, store
  <2> QED
    BY <2>1, <2>3 DEF CallsOK
<1>11. LabelsOK'
  BY <1>1 DEF IInv, LabelsOK, store
<1>12. StripesHeld'
  BY <1>1, <1>3 DEF IInv, StripesHeld, Working, Stripe, locks
<1>13. OwnElements'
  BY <1>3 DEF IInv, OwnElements
<1>14. Provisional(c)'
  BY <1>2, <1>3 DEF Provisional
<1>15. \A d \in Calls : (Linking(d)' => d = c) /\ (Provisional(d)' => d = c)
  BY <1>3, <1>6, <1>7 DEF Linking, Provisional
<1>16. GlobalGuards'
  BY <1>1, <1>2, <1>3, <1>4, <1>14, <1>15 DEF GlobalGuards, locks, Levels, None
<1>17. LevelsDrawn'
  BY <1>1, <1>2, <1>3 DEF IInv, LevelsDrawn, graph, Linking
<1>18. Inserted' = {}
  BY <1>1, <1>3, <1>8 DEF Inserted
<1>19. FirstAlone'
  BY <1>1, <1>3, <1>15, <1>18 DEF FirstAlone, None
<1>20. EntryPointOnTop'
  BY <1>14 DEF EntryPointOnTop, EntryProvisional, Provisional
<1> QED
  BY <1>9, <1>10, <1>11, <1>12, <1>13, <1>16, <1>17, <1>19, <1>20 DEF IInv

LEMMA FinishStep == ASSUME IInv, NEW c \in Calls, Finish(c) PROVE IInv'
<1> DEFINE m == [NoLocals EXCEPT !.label = loc[c].label, !.elem = loc[c].elem,
                                 !.isUpdate = loc[c].isUpdate]
<1>1. /\ pc[c] = "finish" /\ loc[c] \in Locals /\ result[c] = "none"
      /\ loc[c].elem \in Ids /\ loc[c].elem < curElementCount
      /\ loc[c].level \in Levels /\ loc[c].maxlevelcopy \in Levels \cup {None}
      /\ Return(c, "ok")
      /\ UNCHANGED <<store, graph>>
  BY BeforeType DEF Finish, Locals
<1>2. /\ pc \in [Calls -> Places] /\ loc \in [Calls -> Locals]
      /\ result \in [Calls -> {"none", "ok", "full", "exception"}]
      /\ maxlevel \in Levels \cup {None}
      /\ elementLevels \in [Ids -> Levels]
  BY DEF IInv, TypeOK
<1>m. m \in Locals /\ m.elem = loc[c].elem /\ m.isUpdate = loc[c].isUpdate
  <2>1. loc[c] \in Locals
    BY <1>1
  <2> QED
    BY <2>1, NoLocalsType DEF Locals, NoLocals
<1>3. Goto(c, "done", m) /\ result' = [result EXCEPT ![c] = "ok"]
  BY <1>1 DEF Return, Goto
<1> HIDE DEF m
<1>4. /\ pc'[c] = "done" /\ loc'[c] = m /\ result'[c] = "ok"
      /\ \A d \in Calls \ {c} : /\ pc'[d] = pc[d] /\ loc'[d] = loc[d]
                                /\ result'[d] = result[d]
  BY <1>2, <1>3 DEF Goto
<1>5. /\ linkLocks' \in [Ids -> Calls \cup {Free}]
      /\ updateLocks' \in [Stripes -> Calls \cup {Free}]
      /\ global' \in Calls \cup {Free}
      /\ \A s \in Stripes : updateLocks[s] # c => updateLocks'[s] = updateLocks[s]
      /\ \A d \in Calls \ {c} : global' = d <=> global = d
  <2>1. /\ linkLocks \in [Ids -> Calls \cup {Free}]
        /\ updateLocks \in [Stripes -> Calls \cup {Free}]
        /\ global \in Calls \cup {Free}
    BY DEF IInv, TypeOK
  <2>2. /\ linkLocks' = Unlocked(linkLocks, c)
        /\ updateLocks' = Unlocked(updateLocks, c)
        /\ global' = IF global = c THEN Free ELSE global
    BY <1>1 DEF Return
  <2> QED
    BY <2>1, <2>2, UnlockedType, CallsType
<1>6. IF Raises(c) THEN enterpoint' = loc[c].elem /\ maxlevel' = loc[c].level
                   ELSE UNCHANGED entry
  BY DEF Finish
<1>7. TypeOK'
  <2>1. enterpoint' \in Ids \cup {None} /\ maxlevel' \in Levels \cup {None}
    BY <1>1, <1>6 DEF IInv, TypeOK, entry
  <2> QED
    BY <1>1, <1>2, <1>3, <1>5, <1>m, <2>1 DEF IInv, TypeOK, store, graph, Places, Goto
<1>8. CallsOK'
  <2>1. CallOK(c)'
    BY <1>1, <1>4, <1>m DEF CallOK, store, Ids, None
  <2>2. enterpoint' # None \/ UNCHANGED entry
    BY <1>1, <1>6 DEF Ids, None
  <2>3. \A d \in Calls \ {c} : CallOK(d)'
    BY <1>1, <1>4, <2>2 DEF IInv, CallsOK, CallOK, store, entry
  <2> QED
    BY <2>1, <2>3 DEF CallsOK
<1>9. LabelsOK'
  BY <1>1 DEF IInv, LabelsOK, store
<1>10. StripesHeld'
  <2> SUFFICES ASSUME NEW d \in Calls, Working(d)'
               PROVE  updateLocks'[Stripe(loc'[d].elem)] = d
    BY DEF StripesHeld, Stripe
  <2>1. d # c /\ Working(d) /\ loc'[d] = loc[d]
    BY <1>4 DEF Working
  <2>2. loc[d].elem \in Ids
    BY <2>1, BeforeType DEF Working
  <2> QED
    BY <2>1, <2>2, <1>5, StripeType DEF IInv, StripesHeld
<1>11. OwnElements'
  BY <1>4, <1>m DEF IInv, OwnElements
<1>12. \A d \in Calls : /\ Linking(d)' <=> Linking(d) /\ d # c
                        /\ Provisional(d)' <=> Provisional(d) /\ d # c
  BY <1>4 DEF Linking, Provisional
<1>13. LevelsDrawn'
  BY <1>1, <1>4, <1>12 DEF IInv, LevelsDrawn, graph
<1>14. ASSUME GlobalGuards', FirstAlone', EntryPointOnTop' PROVE IInv'
  BY <1>7, <1>8, <1>9, <1>10, <1>11, <1>13, <1>14 DEF IInv
<1>15. CASE loc[c].isUpdate
  <2>1. UNCHANGED entry
    BY <1>6, <1>15 DEF Raises
  <2>2. \A d \in Calls : Provisional(d)' <=> Provisional(d)
    BY <1>12, <1>15 DEF Provisional
  <2>3. Inserted' = Inserted
    <3>1. m.isUpdate
      BY <1>15, <1>m
    <3> QED
      BY <1>1, <1>4, <1>15, <3>1 DEF Inserted
  <2>4. GlobalGuards'
    BY <1>4, <1>5, <1>12, <2>1, <2>2 DEF IInv, GlobalGuards, entry
  <2>5. FirstAlone'
    BY <1>4, <1>12, <2>1, <2>3 DEF IInv, FirstAlone, entry
  <2>6. EntryPointOnTop'
    BY <1>1, <2>1, <2>2, <2>3
       DEF IInv, EntryPointOnTop, EntryProvisional, Provisional, entry, graph
  <2> QED
    BY <1>14, <2>4, <2>5, <2>6
<1>16. CASE ~loc[c].isUpdate
  <2>1. Linking(c) /\ elementLevels[loc[c].elem] = loc[c].level
        /\ loc[c].maxlevelcopy <= maxlevel
    BY <1>1, <1>16 DEF Linking, IInv, LevelsDrawn, GlobalGuards
  <2>2. Inserted' = Inserted \cup {loc[c].elem}
    <3>1. ~m.isUpdate
      BY <1>16, <1>m
    <3>2. \A d \in Calls : (result'[d] = "ok" /\ ~loc'[d].isUpdate)
                              <=> (d = c \/ (result[d] = "ok" /\ ~loc[d].isUpdate))
      BY <1>1, <1>4, <3>1
    <3>3. \A d \in Calls : loc'[d].elem = loc[d].elem
      BY <1>4, <1>m
    <3> QED
      BY <3>2, <3>3 DEF Inserted
  <2>3. CASE loc[c].level > loc[c].maxlevelcopy
    <3>1. enterpoint' = loc[c].elem /\ maxlevel' = loc[c].level
      BY <1>6, <1>16, <2>3 DEF Raises
    <3>2. global = c /\ (maxlevel = loc[c].maxlevelcopy \/ Provisional(c))
      BY <2>1, <2>3 DEF IInv, GlobalGuards
    <3>3. \A d \in Calls : Provisional(d) => d = c
      BY <3>2, ProvisionalHolds
    <3>4. \A d \in Calls : ~Provisional(d)'
      BY <1>12, <3>3
    <3>5. maxlevel <= maxlevel'
      BY <1>1, <2>3, <3>1, <3>2 DEF IInv, FirstAlone, Levels, None
    <3>6. GlobalGuards'
      <4> SUFFICES ASSUME NEW d \in Calls, Linking(d)'
                   PROVE  /\ loc'[d].level > loc'[d].maxlevelcopy => global' = d
                          /\ global' = d => /\ loc'[d].level > loc'[d].maxlevelcopy
                                            /\ maxlevel' = loc'[d].maxlevelcopy \/ Provisional(d)'
                          /\ loc'[d].maxlevelcopy <= maxlevel'
        BY DEF GlobalGuards
      <4>1. d # c /\ Linking(d) /\ loc'[d] = loc[d] /\ global # d /\ global' # d
        BY <1>4, <1>5, <1>12, <3>2
      <4>2. loc[d].maxlevelcopy \in Levels \cup {None}
        BY <1>2 DEF Locals
      <4>3. loc[d].maxlevelcopy <= maxlevel'
        BY <1>1, <1>2, <3>1, <3>5, <4>1, <4>2 DEF IInv, GlobalGuards, Levels, None
      <4> QED
        BY <4>1, <4>3 DEF IInv, GlobalGuards
    <3>7. FirstAlone'
      BY <3>4 DEF FirstAlone
    <3>8. \A i \in Inserted : elementLevels[i] <= maxlevel'
      <4>1. CASE Provisional(c)
        BY <4>1 DEF IInv, FirstAlone
      <4>2. CASE ~Provisional(c)
        <5>1. \A i \in Inserted : elementLevels[i] <= maxlevel /\ elementLevels[i] \in Levels
          BY <1>2, <3>3, <4>2, InsertedType
             DEF IInv, EntryPointOnTop, EntryProvisional, Provisional
        <5> QED
          BY <1>1, <1>2, <3>1, <3>5, <5>1 DEF Levels, None
      <4> QED
        BY <4>1, <4>2
    <3>9. loc[c].elem # None /\ loc[c].level # None /\ loc[c].level <= maxlevel'
      BY <1>1, <3>1 DEF Ids, Levels, None
    <3>10. EntryPointOnTop'
      BY <1>1, <2>1, <2>2, <3>1, <3>8, <3>9 DEF EntryPointOnTop, graph
    <3> QED
      BY <1>14, <3>6, <3>7, <3>10
  <2>4. CASE ~(loc[c].level > loc[c].maxlevelcopy)
    <3>1. UNCHANGED entry /\ ~Provisional(c)
      BY <1>1, <1>6, <2>4 DEF Raises, Provisional, Levels, None
    <3>2. \A d \in Calls : ~Provisional(d)
      BY <2>1, <3>1 DEF IInv, FirstAlone
    <3>3. \A d \in Calls : Provisional(d)' <=> Provisional(d)
      BY <1>12, <3>2
    <3>4. GlobalGuards'
      BY <1>4, <1>5, <1>12, <3>1, <3>3 DEF IInv, GlobalGuards, entry
    <3>5. FirstAlone'
      BY <3>2, <3>3 DEF FirstAlone
    <3>6. loc[c].level <= maxlevel /\ maxlevel # None
      BY <1>1, <1>2, <2>1, <2>4 DEF Levels, None
    <3>7. EntryPointOnTop'
      BY <1>1, <2>1, <2>2, <3>1, <3>2, <3>3, <3>6
         DEF IInv, EntryPointOnTop, EntryProvisional, Provisional, entry, graph
    <3> QED
      BY <1>14, <3>4, <3>5, <3>7
  <2> QED
    BY <2>3, <2>4
<1> QED
  BY <1>15, <1>16

------------------------------------------------------------------------------
(* The invariant holds at first, and every step preserves it.              *)

LEMMA InitIInv == Init => IInv
<1> SUFFICES ASSUME Init PROVE IInv
  OBVIOUS
<1>1. \A c \in Calls : pc[c] = "ready" /\ loc[c] = NoLocals /\ result[c] = "none"
  BY DEF Init
<1>2. NoLocals.elem = None /\ ~NoLocals.isUpdate
  BY DEF NoLocals
<1>3. DOMAIN labelLookup = {}
  BY DEF Init
<1>4. TypeOK
  <2>1. labelLookup \in [DOMAIN labelLookup -> Ids]
    BY <1>3 DEF Init
  <2>2. /\ 0 \in Levels /\ 0 \in 0 .. MaxElements
        /\ Garbage \in Points
    BY SizesAssumption, PointsAssumption DEF Levels
  <2> QED
    BY <1>3, <2>1, <2>2, NoLocalsType DEF Init, TypeOK, Places
<1>5. CallsOK
  BY <1>1, <1>2 DEF CallsOK, CallOK, Init, None
<1>6. LabelsOK
  BY <1>3 DEF LabelsOK
<1>7. \A c \in Calls : ~Working(c) /\ ~Linking(c) /\ ~Provisional(c)
  BY <1>1 DEF Working, Linking, Provisional
<1>8. StripesHeld /\ GlobalGuards /\ FirstAlone
  BY <1>7 DEF StripesHeld, GlobalGuards, FirstAlone
<1>9. OwnElements /\ LevelsDrawn
  BY <1>1, <1>2, <1>7 DEF OwnElements, LevelsDrawn
<1>10. Inserted = {}
  BY <1>1 DEF Inserted
<1>11. EntryPointOnTop
  BY <1>10 DEF EntryPointOnTop, Init
<1> QED
  BY <1>4, <1>5, <1>6, <1>8, <1>9, <1>11 DEF IInv

(* A step that leaves the calls, the locks, the entry point, the levels    *)
(* and the labels alone.                                                   *)
LEMMA QuietStep ==
    ASSUME IInv, TypeOK',
           UNCHANGED <<curElementCount, labelLookup, elementLevels, entry, locks, calls>>
    PROVE  IInv'
<1> USE DEF entry, locks, calls
<1>1. UNCHANGED <<pc, loc, result>>
  OBVIOUS
<1>2. CallsOK' /\ LabelsOK'
  BY DEF IInv, CallsOK, CallOK, LabelsOK
<1>3. StripesHeld' /\ OwnElements'
  BY DEF IInv, StripesHeld, OwnElements, Working, Stripe
<1>4. /\ \A d \in Calls : Linking(d)' <=> Linking(d)
      /\ \A d \in Calls : Provisional(d)' <=> Provisional(d)
      /\ Inserted' = Inserted
  BY DEF Linking, Provisional, Inserted
<1>5. GlobalGuards' /\ LevelsDrawn' /\ FirstAlone'
  BY <1>4 DEF IInv, GlobalGuards, LevelsDrawn, FirstAlone
<1>6. EntryPointOnTop'
  BY <1>4 DEF IInv, EntryPointOnTop, EntryProvisional
<1> QED
  BY <1>2, <1>3, <1>5, <1>6 DEF IInv

LEMMA MarkDeleteStep == ASSUME IInv, NEW label, MarkDelete(label) PROVE IInv'
<1>1. labelLookup[label] \in Ids
  BY DEF IInv, TypeOK, MarkDelete
<1>2. deleted' \subseteq Ids
  BY <1>1 DEF IInv, TypeOK, MarkDelete
<1>3. TypeOK'
  BY <1>2 DEF IInv, TypeOK, MarkDelete, store, entry, locks, calls
<1> QED
  BY <1>3, QuietStep DEF MarkDelete, store

LEMMA NextIInv == IInv /\ [Next]_vars => IInv'
<1> SUFFICES ASSUME IInv, [Next]_vars PROVE IInv'
  OBVIOUS
<1>1. CASE UNCHANGED vars
  <2>1. TypeOK'
    BY <1>1 DEF IInv, TypeOK, vars, store, graph, entry, locks, calls
  <2> QED
    BY <1>1, <2>1, QuietStep DEF vars, store, graph
<1>2. ASSUME NEW c \in Calls, Step(c) PROVE IInv'
  BY <1>2, AddItemStep, ReserveStep, LockForInsertStep, LockElementStep, LockGlobalStep,
     ReadEntryStep, FirstElementStep, FinishStep, DescendStep, ExpandStep,
     SelectNeighborsStep, TearOwnListStep, WriteOwnListStep, ConnectStep,
     LockForUpdateStep, ReadEntryUpdateStep, OneHopStep, TwoHopStep, RelinkStep DEF Step
<1>3. ASSUME NEW label \in DeleteLabels, MarkDelete(label) PROVE IInv'
  BY <1>3, MarkDeleteStep
<1> QED
  BY <1>1, <1>2, <1>3 DEF Next, Stopped

LEMMA Invariance == Spec => []IInv
BY InitIInv, NextIInv, PTL DEF Spec

------------------------------------------------------------------------------
(* The theorems.                                                           *)

(* The store, the graph, the locks and the calls keep their types: every   *)
(* id a call computes with names an element the index has room for         *)
(* (hnswalg.h:960-967), every layer is one of an element's.                *)
THEOREM TypeCorrect == Spec => []TypeOK
<1>1. IInv => TypeOK
  BY DEF IInv
<1> QED
  BY <1>1, Invariance, PTL

(* Whatever calls race, and however few stripes the update locks have, a   *)
(* call that is past its update lock is alone with its element until it    *)
(* returns or throws (hnswalg.h:992, 1008-1009).                           *)
THEOREM ElementsExclusive == Spec => []AloneWithElement
<1>1. IInv => AloneWithElement
  BY DEF IInv, StripesHeld, AloneWithElement
<1> QED
  BY <1>1, Invariance, PTL

(* Except between the two writes of the first insertion, the entry point   *)
(* is an element whose insertion has ended, of the top level, and no       *)
(* inserted element is above it: "global" is enough, although most calls   *)
(* release it before they read the entry point (hnswalg.h:1018-1027,       *)
(* 1088-1099).                                                             *)
THEOREM EntryPointCorrect == Spec => []EntryPointOnTop
<1>1. IInv => EntryPointOnTop
  BY DEF IInv
<1> QED
  BY <1>1, Invariance, PTL

LEMMA EntryStep ==
    ASSUME IInv, IInv', Next
    PROVE  /\ maxlevel' >= maxlevel
           /\ enterpoint' # enterpoint => maxlevel' > maxlevel \/ EntryProvisional
<1>1. maxlevel \in Int /\ maxlevel' \in Int
  BY DEF IInv, TypeOK, Levels, None
<1>2. CASE UNCHANGED entry
  BY <1>1, <1>2 DEF entry
<1>3. ASSUME NEW c \in Calls, FirstElement(c)
      PROVE  maxlevel' > maxlevel
  <2>1. /\ pc[c] = "firstElement" /\ ~loc[c].isUpdate /\ loc[c].maxlevelcopy = None
        /\ loc[c].level \in Levels /\ maxlevel' = loc[c].level
    BY <1>3 DEF IInv, TypeOK, CallsOK, CallOK, FirstElement, Locals
  <2>2. loc[c].level > loc[c].maxlevelcopy /\ Linking(c) /\ ~Provisional(c)
    BY <2>1 DEF Levels, None, Linking, Provisional
  <2>3. maxlevel = None
    BY <2>1, <2>2 DEF IInv, GlobalGuards
  <2> QED
    BY <2>1, <2>3 DEF Levels, None
<1>4. ASSUME NEW c \in Calls, Finish(c), Raises(c)
      PROVE  maxlevel' > maxlevel \/ (EntryProvisional /\ maxlevel' = maxlevel)
  <2>1. /\ pc[c] = "finish" /\ ~loc[c].isUpdate /\ loc[c].level > loc[c].maxlevelcopy
        /\ maxlevel' = loc[c].level
    BY <1>4 DEF Finish, Raises
  <2>2. Linking(c)
    BY <2>1 DEF Linking
  <2>3. CASE Provisional(c)
    BY <2>1, <2>3 DEF IInv, FirstAlone, EntryProvisional, Provisional
  <2>4. CASE ~Provisional(c)
    BY <2>1, <2>2, <2>4 DEF IInv, GlobalGuards
  <2> QED
    BY <2>3, <2>4
<1>5. ASSUME NEW c \in Calls, Step(c)
      PROVE  UNCHANGED entry \/ FirstElement(c) \/ (Finish(c) /\ Raises(c))
  BY <1>5 DEF Step, AddItem, Reserve, LockForInsert, LockElement, LockGlobal, ReadEntry,
     Finish, Descend, Expand, SelectNeighbors, TearOwnList, WriteOwnList, Connect,
     LockForUpdate, ReadEntryUpdate, OneHop, TwoHop, Relink, Crash
<1>6. ASSUME NEW label \in DeleteLabels, MarkDelete(label) PROVE UNCHANGED entry
  BY <1>6 DEF MarkDelete
<1>7. Stopped => UNCHANGED entry
  BY DEF Stopped, vars, entry
<1>8. \/ UNCHANGED entry
      \/ \E c \in Calls : FirstElement(c) \/ (Finish(c) /\ Raises(c))
  BY <1>5, <1>6, <1>7 DEF Next
<1> QED
  BY <1>1, <1>2, <1>3, <1>4, <1>8

(* The top level never drops, and the entry point moves only to raise it   *)
(* (hnswalg.h:1088-1099), but for the correction the first insertion makes. *)
THEOREM EntryMonotone == Spec => EntryOnlyRises
<1>1. IInv /\ IInv' /\ [Next]_vars =>
        [/\ maxlevel' >= maxlevel
         /\ enterpoint' # enterpoint => maxlevel' > maxlevel \/ EntryProvisional]_vars
  BY EntryStep
<1> QED
  BY <1>1, Invariance, PTL DEF Spec, EntryOnlyRises
==============================================================================
