--------------------------- MODULE Insertions_proofs ---------------------------
(***************************************************************************)
(* Proofs about HierarchicalNSW, for any number of calls, any levels,      *)
(* metric and size.  First, when every call inserts a new element, as in   *)
(* an index that is filled by parallel threads: for any interleaving of    *)
(* their locks, and with deletions between the calls.  Then, when          *)
(* insertions and updates take turns, as under ConcurrentIndex's write     *)
(* lock, and nothing is deleted.                                           *)
(***************************************************************************)
EXTENDS HierarchicalNSW_proofs, FiniteSetTheorems, WellFoundedInduction

(* Every item has an id of its own: no call updates what another inserts.  *)
InsertionsOnly ==
    \A b, c \in Calls : Label(c) # NoId /\ (Label(b) = Label(c) => b = c)

------------------------------------------------------------------------------
(* The inductive invariant.                                                *)

(* No call finds its label in use. *)
Fresh ==
    /\ \A c \in Calls : ~loc[c].isUpdate /\ (pc[c] = "reserve" => loc[c].label = Label(c))
    /\ \A label \in DOMAIN labelLookup :
         \E c \in Calls : Label(c) = label /\ pc[c] \notin {"ready", "reserve"}

(* Places where the memory of a call's element is set up, and those where  *)
(* the call holds the lock of the element's list.                          *)
Filled == {"firstElement", "descend", "search", "writeOwnList", "connect", "finish",
           "crashed"}
AtWork == Filled \cup {"lockGlobal", "readEntry"}

(* A link lock is held between two steps by the insertion of its element,  *)
(* and by no other call.                                                   *)
OwnLocks ==
    /\ \A c \in Calls : pc[c] \in AtWork => linkLocks[loc[c].elem] = c
    /\ \A i \in Ids : linkLocks[i] # Free =>
           pc[linkLocks[i]] \in AtWork /\ loc[linkLocks[i]].elem = i

MemoryFilled ==
    /\ \A i \in initialised : \E c \in Calls : loc[c].elem = i /\ pc[c] \in Filled \cup {"done"}
    /\ \A c \in Calls : pc[c] \in Filled \/ (pc[c] = "done" /\ loc[c].elem # None)
                           => loc[c].elem \in initialised

(* Only a call that was given no element throws. *)
NoLateException == \A c \in Calls : pc[c] = "done" /\ loc[c].elem # None => result[c] = "ok"

Finished == {i \in initialised : linkLocks[i] = Free}
Members(l) == {i \in initialised : l <= elementLevels[i]}

LinksOK ==
    /\ \A i \in Ids \ initialised, l \in Levels : links[i][l] = {}
    /\ \A i \in initialised, l \in Levels :
         /\ links[i][l] # {} => l <= elementLevels[i]
         /\ Cardinality(links[i][l]) <= MaxLinks(l)
         /\ links[i][l] \subseteq Members(l) \ {i}

(* What a call has gathered: elements of its layer, and what it has done   *)
(* with or chosen, elements whose insertion is over.                       *)
SearchOK(c) ==
    LET m == loc[c]
    IN  /\ pc[c] = "descend" => m.obj \in Members(m.layer) \ {m.elem}
        /\ pc[c] = "search" =>
              /\ m.top \cup m.cand \subseteq Members(m.layer) \ {m.elem}
              /\ m.top \ m.cand \subseteq Finished
        /\ pc[c] \in {"writeOwnList", "connect"} =>
              /\ m.selected \cup {m.next} \subseteq Members(m.layer) \cap Finished
              /\ Cardinality(m.selected) <= M
        /\ pc[c] \in {"search", "writeOwnList", "connect"} => m.layer <= m.level
        /\ pc[c] \in {"descend", "search", "writeOwnList", "connect"} =>
              m.layer <= m.maxlevelcopy /\ m.ep \in Members(m.maxlevelcopy) \cap Finished

(* No list of layer l leads to element e or starts from it. *)
Unlinked(e, l) == links[e][l] = {} /\ \A i \in Ids : e \notin links[i][l]

(* The element of a call is not linked yet where the call has not been.    *)
UnlinkedBelow(c) ==
    LET m == loc[c]
    IN  /\ pc[c] \in {"descend", "search", "writeOwnList"} =>
              \A l \in Levels : l <= m.layer => Unlinked(m.elem, l)
        /\ pc[c] = "connect" =>
              /\ \A l \in Levels : l < m.layer => Unlinked(m.elem, l)
              /\ \A n \in m.selected : m.elem \notin links[n][m.layer]

Graph ==
    /\ LinksOK
    /\ \A c \in Calls : SearchOK(c) /\ UnlinkedBelow(c)

JInv == Fresh /\ OwnLocks /\ MemoryFilled /\ NoLateException /\ Graph

------------------------------------------------------------------------------
(* Facts about the order of the distances.                                 *)

LEMMA IdsFinite == IsFiniteSet(Ids) /\ Cardinality(Ids) = MaxElements
<1>1. MaxElements \in Nat \ {0}
  BY SizesAssumption
<1>2. IsFiniteSet(0 .. MaxElements - 1)
      /\ Cardinality(0 .. MaxElements - 1)
           = IF 0 > MaxElements - 1 THEN 0 ELSE (MaxElements - 1) - 0 + 1
  BY <1>1, FS_Interval
<1> QED
  BY <1>1, <1>2 DEF Ids

LEMMA CloserIrreflexive ==
    ASSUME TypeOK, NEW p \in Points, NEW x \in Ids PROVE ~Closer(p, x, x)
<1>1. Dist(p, vec[x]) \in Nat /\ x \in Nat
  BY DistAssumption DEF TypeOK, Ids
<1> QED
  BY <1>1 DEF Closer

(* A queue with room for all of a set keeps all of it. *)
LEMMA NearestAll ==
    ASSUME TypeOK, NEW p \in Points, NEW S \in SUBSET Ids, NEW n \in Nat,
           n >= MaxElements
    PROVE  Nearest(p, S, n) = S
<1> SUFFICES ASSUME NEW x \in S PROVE Cardinality({y \in S : Closer(p, y, x)}) < n
  BY DEF Nearest
<1> DEFINE T == {y \in S : Closer(p, y, x)}
<1>1. T \subseteq Ids /\ T # Ids
  BY CloserIrreflexive
<1>2. IsFiniteSet(T) /\ Cardinality(T) <= Cardinality(Ids)
      /\ (Cardinality(Ids) = Cardinality(T) => Ids = T)
  BY <1>1, IdsFinite, FS_Subset
<1>3. Cardinality(T) \in Nat
  BY <1>2, FS_CardinalityType
<1> HIDE DEF T
<1>4. Cardinality(T) < n
  BY <1>1, <1>2, <1>3, IdsFinite, SizesAssumption
<1> QED
  BY <1>4 DEF T

LEMMA SmallestMember ==
    ASSUME NEW S \in SUBSET Nat, S # {} PROVE \E x \in S : \A y \in S : x <= y
<1>1. \E x \in S : \A y \in S : <<y, x>> \notin OpToRel(<, Nat)
  BY NatLessThanWellFounded, WFMin
<1>2. PICK x \in S : \A y \in S : <<y, x>> \notin OpToRel(<, Nat)
  BY <1>1
<1>3. \A y \in S : ~(y < x)
  BY <1>2 DEF OpToRel
<1> QED
  BY <1>3

(* Of any elements one is the closest. *)
LEMMA ClosestExists ==
    ASSUME TypeOK, NEW p \in Points, NEW S \in SUBSET Ids, S # {}
    PROVE  \E x \in S : \A y \in S : ~Closer(p, y, x)
<1> DEFINE d(x) == Dist(p, vec[x])
<1>1. \A x \in S : d(x) \in Nat /\ x \in Nat
  BY DistAssumption DEF TypeOK, Ids
<1>2. PICK m \in {d(x) : x \in S} : \A e \in {d(x) : x \in S} : m <= e
  <2>1. {d(x) : x \in S} \in SUBSET Nat /\ {d(x) : x \in S} # {}
    BY <1>1
  <2> QED
    BY <2>1, SmallestMember
<1>3. PICK x \in {y \in S : d(y) = m} : \A z \in {y \in S : d(y) = m} : x <= z
  <2>1. {y \in S : d(y) = m} \in SUBSET Nat /\ {y \in S : d(y) = m} # {}
    BY <1>1, <1>2
  <2> QED
    BY <2>1, SmallestMember
<1>4. ASSUME NEW y \in S PROVE ~Closer(p, y, x)
  <2>1. m <= d(y) /\ d(x) = m /\ (d(y) = m => x <= y)
    BY <1>2, <1>3
  <2> QED
    BY <1>1, <1>3, <2>1 DEF Closer
<1> QED
  BY <1>3, <1>4

(* A queue with room for one keeps at least one. *)
LEMMA NearestSome ==
    ASSUME TypeOK, NEW p \in Points, NEW S \in SUBSET Ids, S # {}, NEW n \in Nat \ {0}
    PROVE  Nearest(p, S, n) # {}
<1>1. PICK x \in S : \A y \in S : ~Closer(p, y, x)
  BY ClosestExists
<1>2. {y \in S : Closer(p, y, x)} = {}
  BY <1>1
<1>3. Cardinality({}) = 0
  BY FS_EmptySet
<1> QED
  BY <1>2, <1>3 DEF Nearest

(* No two elements are equally far. *)
LEMMA CloserTotal ==
    ASSUME TypeOK, NEW p \in Points, NEW x \in Ids, NEW y \in Ids, x # y
    PROVE  Closer(p, x, y) <=> ~Closer(p, y, x)
<1>1. Dist(p, vec[x]) \in Nat /\ Dist(p, vec[y]) \in Nat /\ x \in Nat /\ y \in Nat
  BY DistAssumption DEF TypeOK, Ids
<1> QED
  BY <1>1 DEF Closer

LEMMA CloserTransitive ==
    ASSUME TypeOK, NEW p \in Points, NEW x \in Ids, NEW y \in Ids, NEW z \in Ids,
           Closer(p, x, y), Closer(p, y, z)
    PROVE  Closer(p, x, z)
<1>1. /\ Dist(p, vec[x]) \in Nat /\ Dist(p, vec[y]) \in Nat /\ Dist(p, vec[z]) \in Nat
      /\ x \in Nat /\ y \in Nat /\ z \in Nat
  BY DistAssumption DEF TypeOK, Ids
<1> QED
  BY <1>1 DEF Closer

LEMMA IdSetsFinite ==
    ASSUME NEW S \in SUBSET Ids PROVE IsFiniteSet(S) /\ Cardinality(S) \in Nat
BY IdsFinite, FS_Subset, FS_CardinalityType

(* Of any elements one is the farthest: the one with the fewest behind it. *)
LEMMA FarthestExists ==
    ASSUME TypeOK, NEW p \in Points, NEW S \in SUBSET Ids, S # {}
    PROVE  \E x \in S : IsFarthest(p, x, S)
<1> DEFINE Behind(x) == {y \in S : Closer(p, x, y)}
           n(x) == Cardinality(Behind(x))
<1>1. \A x \in S : IsFiniteSet(Behind(x)) /\ n(x) \in Nat
  <2>1. \A x \in S : Behind(x) \in SUBSET Ids
    OBVIOUS
  <2> QED
    BY <2>1, IdSetsFinite
<1>2. PICK m \in {n(x) : x \in S} : \A k \in {n(x) : x \in S} : m <= k
  <2>1. {n(x) : x \in S} \in SUBSET Nat /\ {n(x) : x \in S} # {}
    BY <1>1
  <2> HIDE DEF n
  <2> QED
    BY <2>1, SmallestMember
<1>3. PICK x \in S : n(x) = m
  BY <1>2
<1>4. ASSUME NEW y \in S \ {x}, ~Closer(p, y, x) PROVE FALSE
  <2>1. Closer(p, x, y)
    BY <1>4, CloserTotal
  <2>2. Behind(y) \subseteq Behind(x) /\ y \in Behind(x) /\ y \notin Behind(y)
    BY <2>1, CloserTransitive, CloserIrreflexive
  <2> HIDE DEF Behind
  <2>3. Cardinality(Behind(y)) <= Cardinality(Behind(x))
        /\ Cardinality(Behind(y)) # Cardinality(Behind(x))
    BY <1>1, <2>2, FS_Subset
  <2>4. m <= n(y)
    BY <1>2
  <2> QED
    BY <1>1, <1>3, <2>3, <2>4
<1> QED
  BY <1>4 DEF IsFarthest

(* A queue cut to n members has no more. *)
LEMMA NearestBounded ==
    ASSUME TypeOK, NEW p \in Points, NEW S \in SUBSET Ids, NEW n \in Nat
    PROVE  Cardinality(Nearest(p, S, n)) <= n
<1> DEFINE N == Nearest(p, S, n)
<1>1. N \in SUBSET Ids /\ N \subseteq S
  BY NearestSubset
<1>2. CASE N = {}
  BY <1>2, FS_EmptySet
<1>3. CASE N # {}
  <2>1. PICK x \in N : IsFarthest(p, x, N)
    BY <1>1, <1>3, FarthestExists
  <2> DEFINE T == {y \in S : Closer(p, y, x)}
  <2>2. Cardinality(T) < n
    BY <2>1 DEF Nearest
  <2>3. N \ {x} \subseteq T
    BY <1>1, <2>1 DEF IsFarthest
  <2>4. T \in SUBSET Ids /\ IsFiniteSet(N)
    BY <1>1, IdSetsFinite
  <2> HIDE DEF N, T
  <2>5. Cardinality(N \ {x}) <= Cardinality(T)
    BY <2>3, <2>4, IdSetsFinite, FS_Subset
  <2>6. Cardinality(N \ {x}) = Cardinality(N) - 1
    BY <2>1, <2>4, FS_RemoveElement
  <2> QED
    BY <1>1, <2>2, <2>4, <2>5, <2>6, IdSetsFinite DEF N
<1> QED
  BY <1>2, <1>3

(* No choice of neighbours exceeds its bound. *)
LEMMA HeuristicBounded ==
    ASSUME TypeOK, NEW p \in Points, NEW S \in SUBSET Ids, NEW m \in Nat
    PROVE  Cardinality(Heuristic(p, S, m)) <= m
<1>1. Diverse(p, S) \in SUBSET Ids
  BY DEF Diverse
<1>2. Cardinality(Nearest(p, Diverse(p, S), m)) <= m
  BY <1>1, NearestBounded
<1> QED
  BY <1>2, IdSetsFinite DEF Heuristic

(* An element closer than another has fewer closer ones. *)
LEMMA CloserRank ==
    ASSUME TypeOK, NEW p \in Points, NEW S \in SUBSET Ids, NEW x \in S, NEW y \in S,
           Closer(p, y, x)
    PROVE  /\ Cardinality({z \in S : Closer(p, z, x)}) \in Nat
           /\ Cardinality({z \in S : Closer(p, z, y)}) \in Nat
           /\ Cardinality({z \in S : Closer(p, z, y)}) < Cardinality({z \in S : Closer(p, z, x)})
<1>1. PICK X, Y : X = {z \in S : Closer(p, z, x)} /\ Y = {z \in S : Closer(p, z, y)}
  OBVIOUS
<1>2. Y \subseteq X /\ y \in X /\ y \notin Y
  BY <1>1, CloserTransitive, CloserIrreflexive
<1>3. X \in SUBSET Ids /\ Y \in SUBSET Ids
  BY <1>1
<1>4. IsFiniteSet(X) /\ Cardinality(X) \in Nat /\ Cardinality(Y) \in Nat
  BY <1>3, IdSetsFinite
<1>5. Cardinality(Y) <= Cardinality(X) /\ Cardinality(X) # Cardinality(Y)
  BY <1>2, <1>4, FS_Subset
<1> QED
  BY <1>1, <1>4, <1>5

(* x is at least as close to p as to every member of K that comes before.  *)
Spread(p, x, K) == \A y \in K : Closer(p, y, x) => Dist(vec[y], vec[x]) >= Dist(p, vec[x])

(* The recursion of the heuristic has a solution: the choice grows with    *)
(* the number of closest elements looked at.                               *)
LEMMA DiverseExists ==
    ASSUME TypeOK, NEW p \in Points, NEW S \in SUBSET Ids
    PROVE  \E K \in SUBSET S : \A x \in S : x \in K <=> Spread(p, x, K)
<1> DEFINE rank(x) == Cardinality({y \in S : Closer(p, y, x)})
           A(n) == Nearest(p, S, n)
           Solves(K, T) == \A x \in T : x \in K <=> Spread(p, x, K)
           G == {n \in Nat : ~ \E K \in SUBSET A(n) : Solves(K, A(n))}
<1>1. \A x \in S : rank(x) \in Nat
  <2>1. \A x \in S : {y \in S : Closer(p, y, x)} \in SUBSET Ids
    OBVIOUS
  <2> QED
    BY <2>1, IdSetsFinite
<1>2. \A x \in S, y \in S : Closer(p, y, x) => rank(y) < rank(x)
  BY CloserRank
<1>3. \A x, n : x \in A(n) <=> x \in S /\ rank(x) < n
  BY DEF Nearest
<1>4. A(MaxElements) = S /\ MaxElements \in Nat
  BY NearestAll, SizesAssumption
<1> HIDE DEF rank, A
<1>5. ASSUME G # {} PROVE FALSE
  <2>1. PICK m \in G : \A k \in G : m <= k
    BY <1>5, SmallestMember
  <2>2. CASE m = 0
    <3>1. A(0) = {}
      BY <1>1, <1>3
    <3> QED
      BY <2>1, <2>2, <3>1
  <2>3. CASE m # 0
    <3>1. m - 1 \in Nat /\ m - 1 \notin G /\ m \in Nat
      BY <2>1, <2>3
    <3>2. PICK K \in SUBSET A(m - 1) : Solves(K, A(m - 1))
      BY <3>1
    <3> DEFINE L == K \cup {x \in A(m) \ A(m - 1) : Spread(p, x, K)}
    <3>3. A(m - 1) \subseteq A(m)
      BY <1>1, <1>3, <3>1
    <3>4. ASSUME NEW x \in A(m), NEW y \in L, Closer(p, y, x) PROVE y \in K
      <4>1. y \in S /\ x \in S /\ rank(y) < rank(x) /\ rank(x) < m
        BY <1>2, <1>3, <3>3, <3>4
      <4>2. y \in A(m - 1)
        BY <1>1, <1>3, <3>1, <4>1
      <4> QED
        BY <3>2, <4>2
    <3>5. \A x \in A(m) : Spread(p, x, L) <=> Spread(p, x, K)
      BY <3>4 DEF Spread
    <3>6. L \in SUBSET A(m)
      BY <3>2, <3>3
    <3>7. Solves(L, A(m))
      BY <3>2, <3>5
    <3> QED
      BY <2>1, <3>6, <3>7
  <2> QED
    BY <2>2, <2>3
<1> QED
  BY <1>4, <1>5

(* What the recursion of Diverse chooses. *)
LEMMA DiverseMeaning ==
    ASSUME TypeOK, NEW p \in Points, NEW S \in SUBSET Ids
    PROVE  \A x \in S : x \in Diverse(p, S) <=> Spread(p, x, Diverse(p, S))
<1> DEFINE body(f) == [x \in S |-> \A y \in S : Closer(p, y, x) /\ f[y]
                                        => Dist(vec[y], vec[x]) >= Dist(p, vec[x])]
           kept == CHOOSE f : f = body(f)
<1>1. Diverse(p, S) = {x \in S : kept[x]}
  BY DEF Diverse
<1>2. PICK K \in SUBSET S : \A x \in S : x \in K <=> Spread(p, x, K)
  BY DiverseExists
<1>3. \E f : f = body(f)
  <2>1. PICK f : f = [x \in S |-> x \in K]
    OBVIOUS
  <2>2. \A x \in S : f[x] = (x \in K)
    BY <2>1
  <2>3. \A x \in S : body(f)[x] = (x \in K)
    <3> SUFFICES ASSUME NEW x \in S PROVE body(f)[x] = (x \in K)
      OBVIOUS
    <3> DEFINE near == \A y \in S : Closer(p, y, x) /\ f[y]
                                    => Dist(vec[y], vec[x]) >= Dist(p, vec[x])
    <3>1. body(f)[x] = near
      OBVIOUS
    <3>2. \A y \in S : f[y] <=> y \in K
      BY <2>2
    <3>3. near <=> x \in K
      BY <1>2, <3>2 DEF Spread
    <3> HIDE DEF near, body
    <3>4. near \in BOOLEAN
      BY DEF near
    <3> QED
      BY <3>1, <3>3, <3>4
  <2>4. body(f) = [x \in S |-> body(f)[x]]
    OBVIOUS
  <2>5. f = [x \in S |-> body(f)[x]]
    BY <2>1, <2>3
  <2> QED
    BY <2>4, <2>5
<1>4. kept = body(kept)
  BY <1>3
<1>5. \A x \in S : kept[x] = body(kept)[x]
  BY <1>4
<1>6. \A x \in S : kept[x] <=> \A y \in S : Closer(p, y, x) /\ kept[y]
                                  => Dist(vec[y], vec[x]) >= Dist(p, vec[x])
  BY <1>5
<1> HIDE DEF kept
<1> QED
  BY <1>1, <1>6 DEF Spread

(* Something is chosen where there is something to choose from: the        *)
(* closest element always is.                                              *)
LEMMA HeuristicSome ==
    ASSUME TypeOK, NEW p \in Points, NEW S \in SUBSET Ids, S # {}, NEW m \in Nat \ {0}
    PROVE  Heuristic(p, S, m) # {}
<1>1. PICK x \in S : \A y \in S : ~Closer(p, y, x)
  BY ClosestExists
<1>2. Diverse(p, S) \subseteq S
  BY DEF Diverse
<1>3. Spread(p, x, Diverse(p, S))
  BY <1>1, <1>2 DEF Spread
<1>4. x \in Diverse(p, S)
  BY <1>3, DiverseMeaning
<1>5. Nearest(p, Diverse(p, S), m) # {}
  <2>1. Diverse(p, S) \in SUBSET Ids /\ Diverse(p, S) # {}
    BY <1>2, <1>4
  <2> QED
    BY <2>1, NearestSome
<1> QED
  BY <1>5 DEF Heuristic

------------------------------------------------------------------------------
(* What a step keeps.                                                      *)

Gathering == {"descend", "search", "writeOwnList", "connect"}

(* What the invariant of a call rests on in the rest of the state. *)
Grow ==
    /\ initialised \subseteq initialised' /\ Finished \subseteq Finished'
    /\ \A i \in initialised : elementLevels'[i] = elementLevels[i]

(* No list gets to lead to element e, or from it. *)
Apart(e) ==
    \A l \in Levels :
        /\ links'[e][l] = links[e][l]
        /\ \A i \in Ids : e \notin links[i][l] => e \notin links'[i][l]

Still(c) ==
    \A d \in Calls \ {c} : pc'[d] = pc[d] /\ loc'[d] = loc[d] /\ result'[d] = result[d]

LEMMA GrowMembers == ASSUME Grow, NEW l PROVE Members(l) \subseteq Members(l)'
BY DEF Grow, Members

LEMMA SearchStays ==
    ASSUME NEW d \in Calls, pc'[d] = pc[d], loc'[d] = loc[d], Grow, SearchOK(d)
    PROVE  SearchOK(d)'
<1>1. \A l : Members(l) \subseteq {i \in initialised' : l <= elementLevels'[i]}
  BY DEF Grow, Members
<1>2. Finished \subseteq Finished'
  BY DEF Grow
<1> QED
  BY <1>1, <1>2 DEF SearchOK, Members

LEMMA UnlinkedStays ==
    ASSUME IInv, NEW d \in Calls, pc'[d] = pc[d], loc'[d] = loc[d],
           pc[d] \in Gathering => Apart(loc[d].elem), UnlinkedBelow(d)
    PROVE  UnlinkedBelow(d)'
<1>1. loc[d].layer \in Levels /\ loc[d].selected \subseteq Ids
  BY LocalsType DEF Locals
<1>2. CASE pc[d] \in {"descend", "search", "writeOwnList"}
  BY <1>1, <1>2 DEF UnlinkedBelow, Unlinked, Apart, Gathering
<1>3. CASE pc[d] = "connect"
  BY <1>1, <1>3 DEF UnlinkedBelow, Unlinked, Apart, Gathering
<1>4. CASE pc[d] \notin Gathering
  BY <1>4 DEF UnlinkedBelow, Gathering
<1> QED
  BY <1>2, <1>3, <1>4 DEF Gathering

LEMMA FreshStays ==
    ASSUME IInv, Fresh, NEW c \in Calls, Still(c), UNCHANGED labelLookup,
           ~loc'[c].isUpdate, pc'[c] \notin {"ready", "reserve"}
    PROVE  Fresh'
BY DEF Fresh, Still, Label

LEMMA LocksStay ==
    ASSUME IInv, OwnLocks, NEW c \in Calls, Still(c), UNCHANGED linkLocks,
           pc[c] \in AtWork <=> pc'[c] \in AtWork,
           loc'[c].elem = loc[c].elem \/ pc[c] \notin AtWork
    PROVE  OwnLocks'
<1>1. \A i \in Ids : linkLocks[i] \in Calls \cup {Free}
  BY DEF IInv, TypeOK
<1> QED
  BY <1>1 DEF OwnLocks, Still

LEMMA MemoryStays ==
    ASSUME MemoryFilled, NEW c \in Calls, Still(c), UNCHANGED initialised,
           loc'[c].elem = loc[c].elem \/ pc[c] \notin Filled \cup {"done"},
           pc[c] \in Filled \cup {"done"} => pc'[c] \in Filled \cup {"done"},
           pc'[c] \in Filled \/ (pc'[c] = "done" /\ loc'[c].elem # None)
               => pc[c] \in Filled \/ (pc[c] = "done" /\ loc[c].elem # None)
    PROVE  MemoryFilled'
BY DEF MemoryFilled, Still

LEMMA ExceptionsStay ==
    ASSUME NoLateException, NEW c \in Calls, Still(c),
           pc'[c] = "done" /\ loc'[c].elem # None => result'[c] = "ok"
    PROVE  NoLateException'
BY DEF NoLateException, Still

(* The element of a call at work is not finished, and those of two calls   *)
(* differ.                                                                 *)
LEMMA OwnElement ==
    ASSUME IInv, JInv, NEW c \in Calls, pc[c] \in AtWork
    PROVE  /\ loc[c].elem \in Ids /\ loc[c].elem \notin Finished
           /\ linkLocks[loc[c].elem] = c
           /\ pc[c] \in Filled => loc[c].elem \in initialised
           /\ \A d \in Calls \ {c} : loc[d].elem # loc[c].elem
<1>1. loc[c].elem \in Ids
  BY DEF IInv, TypeOK, CallsOK, CallOK, Locals, AtWork, Filled
<1>2. linkLocks[loc[c].elem] = c /\ c # Free
  BY CallsType DEF JInv, OwnLocks
<1>3. \A d \in Calls \ {c} : loc[d].elem # loc[c].elem
  BY <1>1 DEF IInv, OwnElements, JInv, Fresh, Ids, None
<1> QED
  BY <1>1, <1>2, <1>3 DEF JInv, MemoryFilled, Finished

(* An element whose memory is not set up yet is in no list. *)
LEMMA EarlyUnlinked ==
    ASSUME IInv, JInv, NEW c \in Calls,
           pc[c] \in {"lockForInsert", "lockElement", "lockGlobal", "readEntry"}
    PROVE  /\ loc[c].elem \in Ids \ initialised
           /\ \A l \in Levels : Unlinked(loc[c].elem, l)
           /\ \A d \in Calls \ {c} : loc[d].elem # loc[c].elem
<1>1. loc[c].elem \in Ids
  BY DEF IInv, TypeOK, CallsOK, CallOK, Locals
<1>2. \A d \in Calls \ {c} : loc[d].elem # loc[c].elem
  BY <1>1 DEF IInv, OwnElements, JInv, Fresh, Ids, None
<1>3. loc[c].elem \notin initialised
  BY <1>2 DEF JInv, MemoryFilled, Filled
<1>4. \A l \in Levels : Unlinked(loc[c].elem, l)
  BY <1>1, <1>3 DEF JInv, Graph, LinksOK, Unlinked, Members
<1> QED
  BY <1>1, <1>2, <1>3, <1>4

(* The elements that are in and unlocked stay so, unless a lock is taken.  *)
LEMMA GrowSame ==
    ASSUME UNCHANGED <<initialised, elementLevels, linkLocks>> PROVE Grow
BY DEF Grow, Finished

LEMMA ApartSame == ASSUME UNCHANGED links, NEW e PROVE Apart(e)
BY DEF Apart

LEMMA LinksStay ==
    ASSUME LinksOK, UNCHANGED <<initialised, elementLevels, links>> PROVE LinksOK'
BY DEF LinksOK, Members, MaxLinks

(* The entry point, once a second insertion may read it, is finished. *)
LEMMA InsertedFinished == ASSUME IInv, JInv PROVE Inserted \subseteq Finished
<1> SUFFICES ASSUME NEW c \in Calls, result[c] = "ok" PROVE loc[c].elem \in Finished
  BY DEF Inserted
<1>1. pc[c] = "done" /\ loc[c].elem # None /\ loc[c].elem \in Ids
  BY DEF IInv, CallsOK, CallOK, TypeOK, Locals
<1>2. loc[c].elem \in initialised
  BY <1>1 DEF JInv, MemoryFilled
<1>3. ASSUME linkLocks[loc[c].elem] # Free PROVE FALSE
  <2>1. PICK d \in Calls : linkLocks[loc[c].elem] = d
    BY <1>1, <1>3 DEF IInv, TypeOK
  <2>2. pc[d] \in AtWork /\ loc[d].elem = loc[c].elem
    BY <1>1, <1>3, <2>1 DEF JInv, OwnLocks
  <2> QED
    BY <1>1, <2>2, OwnElement DEF AtWork, Filled
<1> QED
  BY <1>2, <1>3 DEF Finished

------------------------------------------------------------------------------
(* Before the search.                                                      *)

(* A call that is not in the graph yet moves, and the graph stays. *)
LEMMA Early ==
    ASSUME IInv, JInv, NEW c \in Calls, Still(c), Fresh', OwnLocks', MemoryFilled',
           NoLateException', pc'[c] \notin Gathering,
           UNCHANGED <<initialised, links>>, Grow, LinksOK'
    PROVE  JInv'
<1>1. \A d \in Calls \ {c} : SearchOK(d)'
  BY SearchStays DEF Still, JInv, Graph
<1>2. \A d \in Calls \ {c} : UnlinkedBelow(d)'
  BY UnlinkedStays, ApartSame DEF Still, JInv, Graph
<1>3. SearchOK(c)' /\ UnlinkedBelow(c)'
  BY DEF SearchOK, UnlinkedBelow, Gathering
<1> QED
  BY <1>1, <1>2, <1>3 DEF JInv, Graph

LEMMA UnlockNothing ==
    ASSUME IInv, JInv, NEW c \in Calls, pc[c] \notin AtWork
    PROVE  Unlocked(linkLocks, c) = linkLocks
<1>1. linkLocks \in [Ids -> Calls \cup {Free}]
  BY DEF IInv, TypeOK
<1>2. \A i \in Ids : linkLocks[i] # c
  BY CallsType DEF JInv, OwnLocks
<1> QED
  BY <1>1, <1>2 DEF Unlocked

LEMMA ReturnAt ==
    ASSUME IInv, NEW c \in Calls, NEW code, Return(c, code)
    PROVE  /\ Still(c) /\ pc'[c] = "done" /\ result'[c] = code
           /\ loc'[c].elem = loc[c].elem /\ loc'[c].isUpdate = loc[c].isUpdate
           /\ linkLocks' = Unlocked(linkLocks, c)
BY DEF IInv, TypeOK, Return, Still, NoLocals

LEMMA GotoAt ==
    ASSUME IInv, NEW c \in Calls, NEW p, NEW m, Goto(c, p, m), UNCHANGED result
    PROVE  Still(c) /\ pc'[c] = p /\ loc'[c] = m
BY DEF IInv, TypeOK, Goto, Still

(* A call that was not given an element returns. *)
LEMMA ReturnEarly ==
    ASSUME IInv, JInv, NEW c \in Calls, pc[c] \in {"ready", "reserve"}, NEW code,
           Return(c, code), UNCHANGED <<labelLookup, initialised, elementLevels, links>>
    PROVE  JInv'
<1>1. /\ Still(c) /\ pc'[c] = "done" /\ loc'[c].elem = None /\ ~loc'[c].isUpdate
      /\ pc[c] \notin AtWork
  BY ReturnAt DEF IInv, CallsOK, CallOK, JInv, Fresh, AtWork, Filled
<1>2. UNCHANGED linkLocks
  BY <1>1, UnlockNothing, ReturnAt
<1>3. Grow /\ LinksOK'
  BY <1>2, GrowSame, LinksStay DEF JInv, Graph
<1>4. Fresh' /\ NoLateException'
  BY <1>1, FreshStays, ExceptionsStay DEF JInv
<1>5. OwnLocks'
  BY <1>1, <1>2, LocksStay DEF JInv, AtWork, Filled
<1>6. MemoryFilled'
  BY <1>1 DEF JInv, MemoryFilled, Still, Filled
<1> QED
  BY <1>1, <1>3, <1>4, <1>5, <1>6, Early DEF Gathering

LEMMA AddItemInserts ==
    ASSUME IInv, JInv, InsertionsOnly, NEW c \in Calls, AddItem(c) PROVE JInv'
<1>1. /\ pc[c] = "ready" /\ Label(c) # NoId
      /\ UNCHANGED <<labelLookup, initialised, elementLevels, links>>
  BY DEF AddItem, InsertionsOnly, graph
<1>2. CASE Full
  BY <1>1, <1>2, ReturnEarly DEF AddItem
<1>3. CASE ~Full
  <2> DEFINE m == [NoLocals EXCEPT !.label = Label(c)]
  <2>1. Goto(c, "reserve", m) /\ UNCHANGED <<result, locks>>
    BY <1>1, <1>3 DEF AddItem
  <2>2. m.elem = None /\ ~m.isUpdate /\ m.label = Label(c)
    BY DEF NoLocals
  <2> HIDE DEF m
  <2>3. Still(c) /\ pc'[c] = "reserve" /\ loc'[c] = m /\ UNCHANGED linkLocks
    BY <2>1, GotoAt DEF locks
  <2>4. Grow /\ LinksOK'
    BY <1>1, <2>3, GrowSame, LinksStay DEF JInv, Graph
  <2>5. Fresh'
    BY <1>1, <2>2, <2>3 DEF JInv, Fresh, Still, Label
  <2>6. OwnLocks' /\ NoLateException'
    BY <1>1, <2>2, <2>3, LocksStay, ExceptionsStay DEF JInv, AtWork, Filled
  <2>7. MemoryFilled'
    BY <1>1, <2>2, <2>3, MemoryStays DEF JInv, Filled
  <2> QED
    BY <1>1, <2>3, <2>4, <2>5, <2>6, <2>7, Early DEF Gathering
<1> QED
  BY <1>2, <1>3

LEMMA ReserveInserts ==
    ASSUME IInv, JInv, InsertionsOnly, NEW c \in Calls, Reserve(c) PROVE JInv'
<1> DEFINE label == loc[c].label
<1>1. /\ pc[c] = "reserve" /\ label = Label(c) /\ ~loc[c].isUpdate /\ loc[c].elem = None
      /\ UNCHANGED <<initialised, elementLevels, links>>
      /\ loc[c] \in Locals
  BY DEF Reserve, JInv, Fresh, graph, IInv, TypeOK, CallsOK, CallOK
<1>2. label \notin DOMAIN labelLookup
  BY <1>1 DEF JInv, Fresh, InsertionsOnly
<1>3. CASE Throw(c) /\ UNCHANGED <<curElementCount, labelLookup>>
  BY <1>1, <1>3, ReturnEarly DEF Throw
<1>4. CASE /\ labelLookup' = [l \in DOMAIN labelLookup \cup {label} |->
                                 IF l = label THEN curElementCount ELSE labelLookup[l]]
           /\ Goto(c, "lockForInsert", [loc[c] EXCEPT !.elem = curElementCount])
           /\ UNCHANGED <<locks, result>>
  <2> DEFINE m == [loc[c] EXCEPT !.elem = curElementCount]
  <2>2. ~m.isUpdate /\ m.label = label
    BY <1>1 DEF Locals
  <2>3. Still(c) /\ pc'[c] = "lockForInsert" /\ loc'[c] = m /\ UNCHANGED linkLocks
    BY <1>4, GotoAt DEF locks
  <2> HIDE DEF m
  <2>4. Grow /\ LinksOK'
    BY <1>1, <2>3, GrowSame, LinksStay DEF JInv, Graph
  <2>5. Fresh'
    <3>1. DOMAIN labelLookup' = DOMAIN labelLookup \cup {label}
      BY <1>4
    <3>2. \A l \in DOMAIN labelLookup \cup {label} :
             \E b \in Calls : Label(b) = l /\ pc'[b] \notin {"ready", "reserve"}
      BY <1>1, <2>3 DEF JInv, Fresh, Still
    <3>3. \A d \in Calls : ~loc'[d].isUpdate /\ (pc'[d] = "reserve" => loc'[d].label = Label(d))
      BY <2>2, <2>3 DEF JInv, Fresh, Still
    <3> QED
      BY <3>1, <3>2, <3>3 DEF Fresh, Label
  <2>6. OwnLocks' /\ NoLateException'
    BY <1>1, <2>3, LocksStay, ExceptionsStay DEF JInv, AtWork, Filled
  <2>7. MemoryFilled'
    BY <1>1, <2>3, MemoryStays DEF JInv, Filled
  <2> QED
    BY <1>1, <2>3, <2>4, <2>5, <2>6, <2>7, Early DEF Gathering
<1> QED
  BY <1>2, <1>3, <1>4 DEF Reserve

LEMMA LockForInsertInserts ==
    ASSUME IInv, JInv, NEW c \in Calls, LockForInsert(c) PROVE JInv'
<1>1. /\ pc[c] = "lockForInsert" /\ Still(c) /\ pc'[c] = "lockElement" /\ loc'[c] = loc[c]
      /\ UNCHANGED <<labelLookup, initialised, elementLevels, links, linkLocks>>
  BY GotoAt DEF LockForInsert, store, graph
<1>2. Grow /\ LinksOK'
  BY <1>1, GrowSame, LinksStay DEF JInv, Graph
<1>3. Fresh' /\ OwnLocks' /\ MemoryFilled' /\ NoLateException'
  BY <1>1, FreshStays, LocksStay, MemoryStays, ExceptionsStay
     DEF JInv, Fresh, AtWork, Filled
<1> QED
  BY <1>1, <1>2, <1>3, Early DEF Gathering

LEMMA LockElementInserts ==
    ASSUME IInv, JInv, NEW c \in Calls, LockElement(c) PROVE JInv'
<1> DEFINE e == loc[c].elem
<1>0. PICK level \in Levels :
        /\ elementLevels' = [elementLevels EXCEPT ![e] = level]
        /\ Goto(c, "lockGlobal", [loc[c] EXCEPT !.level = level])
  BY DEF LockElement
<1> DEFINE m == [loc[c] EXCEPT !.level = level]
<1>1. /\ pc[c] = "lockElement" /\ linkLocks[e] = Free
      /\ linkLocks' = [linkLocks EXCEPT ![e] = c]
      /\ UNCHANGED <<labelLookup, initialised, links, result>>
  BY DEF LockElement, Hold, store
<1>2. m.elem = e /\ m.isUpdate = loc[c].isUpdate /\ loc[c] \in Locals
  BY DEF IInv, TypeOK, Locals
<1>3. Still(c) /\ pc'[c] = "lockGlobal" /\ loc'[c] = m
  BY <1>0, <1>1, GotoAt
<1> HIDE DEF m
<1>4. e \in Ids \ initialised /\ \A d \in Calls \ {c} : loc[d].elem # e
  BY <1>1, EarlyUnlinked
<1>5. /\ linkLocks'[e] = c /\ \A i \in Ids \ {e} : linkLocks'[i] = linkLocks[i]
      /\ \A i \in initialised : elementLevels'[i] = elementLevels[i]
      /\ \A i \in Ids : linkLocks[i] \in Calls \cup {Free}
      /\ initialised \subseteq Ids
  BY <1>0, <1>1, <1>4 DEF IInv, TypeOK
<1>6. Grow
  BY <1>1, <1>4, <1>5 DEF Grow, Finished
<1>7. LinksOK'
  <2>1. \A l : Members(l)' = Members(l)
    BY <1>1, <1>5 DEF Members
  <2> QED
    BY <1>1, <1>5, <2>1 DEF JInv, Graph, LinksOK, MaxLinks
<1>8. Fresh' /\ MemoryFilled' /\ NoLateException'
  BY <1>1, <1>2, <1>3, FreshStays, MemoryStays, ExceptionsStay DEF JInv, Fresh, Filled
<1>9. OwnLocks'
  <2>1. \A d \in Calls : pc'[d] \in AtWork => linkLocks'[loc'[d].elem] = d
    <3> SUFFICES ASSUME NEW d \in Calls, pc'[d] \in AtWork PROVE linkLocks'[loc'[d].elem] = d
      OBVIOUS
    <3>1. CASE d = c
      BY <1>2, <1>3, <1>5, <3>1
    <3>2. CASE d # c
      <4>1. pc[d] \in AtWork /\ loc'[d] = loc[d]
        BY <1>3, <3>2 DEF Still
      <4> QED
        BY <1>4, <1>5, <3>2, <4>1, OwnElement
    <3> QED
      BY <3>1, <3>2
  <2>2. \A i \in Ids : linkLocks'[i] # Free =>
            pc'[linkLocks'[i]] \in AtWork /\ loc'[linkLocks'[i]].elem = i
    <3> SUFFICES ASSUME NEW i \in Ids, linkLocks'[i] # Free
                 PROVE  pc'[linkLocks'[i]] \in AtWork /\ loc'[linkLocks'[i]].elem = i
      OBVIOUS
    <3>1. CASE i = e
      BY <1>2, <1>3, <1>5, <3>1 DEF AtWork
    <3>2. CASE i # e
      <4>1. PICK d \in Calls : linkLocks'[i] = d /\ linkLocks[i] = d
        BY <1>5, <3>2
      <4>2. pc[d] \in AtWork /\ loc[d].elem = i
        BY <1>5, <3>2, <4>1 DEF JInv, OwnLocks
      <4>3. d # c
        BY <1>1, <4>2 DEF AtWork, Filled
      <4> QED
        BY <1>3, <4>1, <4>2, <4>3 DEF Still
    <3> QED
      BY <3>1, <3>2
  <2> QED
    BY <2>1, <2>2 DEF OwnLocks
<1> QED
  BY <1>1, <1>3, <1>6, <1>7, <1>8, <1>9, Early DEF Gathering

LEMMA LockGlobalInserts ==
    ASSUME IInv, JInv, NEW c \in Calls, LockGlobal(c) PROVE JInv'
<1> DEFINE m == [loc[c] EXCEPT !.maxlevelcopy = maxlevel]
<1>1. /\ pc[c] = "lockGlobal" /\ Still(c) /\ pc'[c] = "readEntry" /\ loc'[c] = m
      /\ UNCHANGED <<labelLookup, initialised, elementLevels, links, linkLocks>>
  BY GotoAt DEF LockGlobal, store, graph
<1>2. m.elem = loc[c].elem /\ m.isUpdate = loc[c].isUpdate
  BY DEF IInv, TypeOK, Locals
<1> HIDE DEF m
<1>3. Grow /\ LinksOK'
  BY <1>1, GrowSame, LinksStay DEF JInv, Graph
<1>4. Fresh' /\ OwnLocks' /\ MemoryFilled' /\ NoLateException'
  BY <1>1, <1>2, FreshStays, LocksStay, MemoryStays, ExceptionsStay
     DEF JInv, Fresh, AtWork, Filled
<1> QED
  BY <1>1, <1>3, <1>4, Early DEF Gathering

LEMMA FirstElementInserts ==
    ASSUME IInv, JInv, NEW c \in Calls, FirstElement(c) PROVE JInv'
<1>1. /\ pc[c] = "firstElement" /\ Still(c) /\ pc'[c] = "finish" /\ loc'[c] = loc[c]
      /\ UNCHANGED <<labelLookup, initialised, elementLevels, links, linkLocks>>
  BY GotoAt DEF FirstElement, store, graph, locks
<1>2. Grow /\ LinksOK'
  BY <1>1, GrowSame, LinksStay DEF JInv, Graph
<1>3. Fresh' /\ OwnLocks' /\ MemoryFilled' /\ NoLateException'
  BY <1>1, FreshStays, LocksStay, MemoryStays, ExceptionsStay
     DEF JInv, Fresh, AtWork, Filled
<1> QED
  BY <1>1, <1>2, <1>3, Early DEF Gathering

------------------------------------------------------------------------------
(* The search.                                                             *)

(* Where a search may begin. *)
LEMMA SearchBegins ==
    ASSUME NEW c \in Calls, NEW l \in Locals, NEW from, NEW layer \in Levels,
           pc'[c] = "search", loc'[c] = SearchFrom(l, from, layer),
           from \in Members(layer)' \ {l.elem}, layer <= l.level, layer <= l.maxlevelcopy,
           l.ep \in Members(l.maxlevelcopy)' \cap Finished',
           \A k \in Levels : k <= layer => Unlinked(l.elem, k)'
    PROVE  SearchOK(c)' /\ UnlinkedBelow(c)'
<1> DEFINE m == SearchFrom(l, from, layer)
<1>1. /\ m.elem = l.elem /\ m.level = l.level /\ m.maxlevelcopy = l.maxlevelcopy /\ m.ep = l.ep
      /\ m.layer = layer /\ m.top \subseteq {from} /\ m.cand = {from}
  BY DEF SearchFrom, Locals
<1>2. loc'[c] = m
  OBVIOUS
<1> HIDE DEF m
<1>3. m.top \cup m.cand \subseteq Members(layer)' \ {l.elem} /\ m.top \ m.cand = {}
  BY <1>1
<1>4. SearchOK(c)'
  BY <1>1, <1>2, <1>3 DEF SearchOK, Members
<1>5. UnlinkedBelow(c)'
  BY <1>1, <1>2 DEF UnlinkedBelow, Unlinked
<1> QED
  BY <1>4, <1>5

(* A layer's members belong to the layers below. *)
LEMMA MembersBelow ==
    ASSUME TypeOK, NEW l \in Levels, NEW k \in Levels, k <= l
    PROVE  Members(l) \subseteq Members(k)
BY DEF Members, Levels, TypeOK

LEMMA ReadEntryInserts == ASSUME IInv, IInv', JInv, NEW c \in Calls, ReadEntry(c) PROVE JInv'
<1>0. PICK e, level, top, read :
        /\ e = loc[c].elem /\ level = loc[c].level /\ top = loc[c].maxlevelcopy
        /\ read = [loc[c] EXCEPT !.ep = enterpoint, !.obj = enterpoint]
  OBVIOUS
<1>1. /\ pc[c] = "readEntry" /\ initialised' = initialised \cup {e}
      /\ links' = [links EXCEPT ![e] = [l \in Levels |-> {}]]
      /\ UNCHANGED <<labelLookup, elementLevels, linkLocks, result, entry>>
      /\ \/ enterpoint = None /\ Goto(c, "firstElement", read)
         \/ /\ enterpoint # None /\ level < top
            /\ Goto(c, "descend", [read EXCEPT !.layer = top])
         \/ /\ enterpoint # None /\ level >= top
            /\ Goto(c, "search", SearchFrom(read, enterpoint, top))
  BY <1>0 DEF ReadEntry, store, entry, locks
<1>2. /\ e \in Ids \ initialised /\ \A l \in Levels : Unlinked(e, l)
      /\ \A d \in Calls \ {c} : loc[d].elem # e
  BY <1>0, <1>1, EarlyUnlinked
<1>3. PICK p, m : /\ Goto(c, p, m) /\ p \in {"firstElement", "descend", "search"}
                  /\ m.elem = e /\ ~m.isUpdate
  <2>1. loc[c] \in Locals /\ ~loc[c].isUpdate
    BY DEF IInv, TypeOK, JInv, Fresh
  <2>2. /\ read.elem = e /\ ~read.isUpdate
        /\ [read EXCEPT !.layer = top].elem = e /\ ~[read EXCEPT !.layer = top].isUpdate
        /\ SearchFrom(read, enterpoint, top).elem = e
        /\ ~SearchFrom(read, enterpoint, top).isUpdate
    BY <1>0, <2>1 DEF Locals, SearchFrom
  <2> QED
    BY <1>1, <2>2
<1>4. Still(c) /\ pc'[c] = p /\ loc'[c] = m
  BY <1>1, <1>3, GotoAt
<1>5. /\ linkLocks[e] = c /\ c # Free
      /\ \A i \in Ids \ {e}, l \in Levels : links'[i][l] = links[i][l]
      /\ \A l \in Levels : links'[e][l] = {}
  BY <1>0, <1>1, <1>2, CallsType DEF JInv, OwnLocks, AtWork, IInv, TypeOK
<1>6. Grow /\ Finished' = Finished
  BY <1>1, <1>5 DEF Grow, Finished
<1>7. LinksOK'
  <2>1. \A l : Members(l) \subseteq Members(l)'
    BY <1>6, GrowMembers
  <2>2. \A l \in Levels : links[e][l] = {} /\ Cardinality({}) <= MaxLinks(l)
    BY <1>2, FS_EmptySet, SizesAssumption DEF Unlinked, MaxLinks
  <2>3. \A i \in Ids \ initialised', l \in Levels : links'[i][l] = {}
    BY <1>1, <1>2, <1>5 DEF JInv, Graph, LinksOK
  <2>4. ASSUME NEW i \in initialised, NEW l \in Levels
        PROVE  /\ links'[i][l] = links[i][l] /\ elementLevels'[i] = elementLevels[i]
               /\ links[i][l] # {} => l <= elementLevels[i]
               /\ Cardinality(links[i][l]) <= MaxLinks(l)
               /\ links[i][l] \subseteq Members(l) \ {i}
    BY <1>1, <1>2, <1>5 DEF JInv, Graph, LinksOK, IInv, TypeOK
  <2> QED
    <3>1. ASSUME NEW i \in initialised', NEW l \in Levels
          PROVE  /\ links'[i][l] # {} => l <= elementLevels'[i]
                 /\ Cardinality(links'[i][l]) <= MaxLinks(l)
                 /\ links'[i][l] \subseteq Members(l)' \ {i}
      <4>1. CASE i = e
        BY <1>2, <1>5, <2>2, <4>1 DEF Unlinked
      <4>2. CASE i # e
        BY <1>1, <2>1, <2>4, <4>2
      <4> QED
        BY <4>1, <4>2
    <3> QED
      BY <2>3, <3>1 DEF LinksOK, MaxLinks
<1>8. Fresh' /\ OwnLocks' /\ NoLateException'
  BY <1>0, <1>1, <1>3, <1>4, FreshStays, LocksStay, ExceptionsStay
     DEF JInv, AtWork, Filled
<1>9. MemoryFilled'
  BY <1>0, <1>1, <1>2, <1>3, <1>4 DEF JInv, MemoryFilled, Still, Filled
<1>10. \A d \in Calls \ {c} : SearchOK(d)'
  BY <1>4, <1>6, SearchStays DEF Still, JInv, Graph
<1>11. \A d \in Calls \ {c} : UnlinkedBelow(d)'
  <2>1. ASSUME NEW d \in Calls \ {c} PROVE Apart(loc[d].elem)
    <3>1. \A l \in Levels : links'[loc[d].elem][l] = links[loc[d].elem][l]
      BY <1>1, <1>2 DEF IInv, TypeOK
    <3> QED
      BY <1>5, <3>1 DEF Apart
  <2> QED
    BY <1>4, <2>1, UnlinkedStays DEF Still, JInv, Graph
<1>12. \A l \in Levels : Unlinked(e, l)'
  BY <1>2, <1>3, <1>5 DEF Unlinked
<1>13. CASE enterpoint = None
  <2>1. Goto(c, "firstElement", read)
    BY <1>1, <1>13
  <2>2. pc'[c] = "firstElement"
    BY <1>1, <2>1, GotoAt
  <2>3. SearchOK(c)' /\ UnlinkedBelow(c)'
    BY <2>2 DEF SearchOK, UnlinkedBelow
  <2> QED
    BY <1>7, <1>8, <1>9, <1>10, <1>11, <2>3 DEF JInv, Graph
<1>14. CASE enterpoint # None
  <2>1. Linking(c) /\ ~EntryProvisional
    <3>1. Linking(c)
      BY <1>1 DEF Linking, JInv, Fresh
    <3>2. \A d \in Calls : Provisional(d) => d = c
      BY <3>1 DEF IInv, FirstAlone
    <3> QED
      BY <1>1, <3>1, <3>2 DEF EntryProvisional, Provisional
  <2>2. /\ enterpoint \in Finished /\ elementLevels[enterpoint] = maxlevel
        /\ top <= maxlevel /\ maxlevel # None /\ level = elementLevels[e]
    <3>1. enterpoint \in Inserted /\ elementLevels[enterpoint] = maxlevel /\ maxlevel # None
      BY <1>14, <2>1 DEF IInv, EntryPointOnTop
    <3>2. top <= maxlevel /\ level = elementLevels[e]
      BY <1>0, <2>1 DEF IInv, GlobalGuards, LevelsDrawn
    <3> QED
      BY <3>1, <3>2, InsertedFinished
  <2>3. /\ loc[c] \in Locals /\ read \in Locals /\ read.elem = e /\ read.ep = enterpoint
        /\ read.obj = enterpoint /\ read.level = level /\ read.maxlevelcopy = top
        /\ level \in Levels
    <3>1. loc[c] \in Locals /\ enterpoint \in Ids \cup {None}
      BY DEF IInv, TypeOK
    <3>2. read \in Locals
      BY <1>0, <3>1 DEF Locals
    <3> QED
      BY <1>0, <3>1, <3>2 DEF Locals
  <2>4. top \in Levels
    <3>1. pc'[c] \in {"descend", "search"} /\ ~loc'[c].isUpdate
      BY <1>1, <1>3, <1>4, <1>14, GotoAt
    <3>2. loc'[c].maxlevelcopy # None
      BY <3>1 DEF IInv, CallsOK, CallOK
    <3>3. loc'[c].maxlevelcopy = top
      <4>1. CASE Goto(c, "descend", [read EXCEPT !.layer = top])
        BY <1>1, <4>1, <2>3, GotoAt DEF Locals
      <4>2. CASE Goto(c, "search", SearchFrom(read, enterpoint, top))
        <5>1. SearchFrom(read, enterpoint, top).maxlevelcopy = top
          BY <2>3 DEF SearchFrom, Locals
        <5> QED
          BY <1>1, <4>2, <5>1, GotoAt
      <4> QED
        BY <1>1, <1>14, <4>1, <4>2
    <3> QED
      BY <2>3, <3>2, <3>3 DEF Locals
  <2>5. enterpoint \in Members(top)' \ {e} /\ enterpoint \in Finished'
    BY <1>1, <1>2, <1>6, <2>2 DEF Members, Finished
  <2>6. CASE level < top /\ Goto(c, "descend", [read EXCEPT !.layer = top])
    <3> DEFINE n == [read EXCEPT !.layer = top]
    <3>1. /\ n.elem = e /\ n.obj = enterpoint /\ n.layer = top /\ n.maxlevelcopy = top
          /\ n.ep = enterpoint
      BY <2>3 DEF Locals
    <3>2. pc'[c] = "descend" /\ loc'[c] = n
      BY <1>1, <2>6, GotoAt
    <3> HIDE DEF n
    <3>3. SearchOK(c)'
      BY <2>4, <2>5, <3>1, <3>2 DEF SearchOK, Members, Levels
    <3>4. UnlinkedBelow(c)'
      BY <1>12, <3>1, <3>2 DEF UnlinkedBelow, Unlinked
    <3> QED
      BY <1>7, <1>8, <1>9, <1>10, <1>11, <3>3, <3>4 DEF JInv, Graph
  <2>7. CASE level >= top /\ Goto(c, "search", SearchFrom(read, enterpoint, top))
    <3>1. pc'[c] = "search" /\ loc'[c] = SearchFrom(read, enterpoint, top)
      BY <1>1, <2>7, GotoAt
    <3>2. SearchOK(c)' /\ UnlinkedBelow(c)'
      BY <1>12, <2>3, <2>4, <2>5, <2>7, <3>1, SearchBegins DEF Levels, Unlinked
    <3> QED
      BY <1>7, <1>8, <1>9, <1>10, <1>11, <3>2 DEF JInv, Graph
  <2> QED
    BY <1>1, <1>14, <2>6, <2>7
<1> QED
  BY <1>13, <1>14

(* A call that gathers neighbours moves; no other call's element is        *)
(* touched.                                                                *)
LEMMA Onward ==
    ASSUME IInv, JInv, NEW c \in Calls, pc[c] \in Gathering, Still(c),
           pc'[c] \in Gathering \cup {"finish", "crashed"},
           loc'[c].elem = loc[c].elem, ~loc'[c].isUpdate,
           UNCHANGED <<labelLookup, initialised, elementLevels, linkLocks>>,
           \A d \in Calls \ {c} : pc[d] \in Gathering => Apart(loc[d].elem),
           LinksOK', SearchOK(c)', UnlinkedBelow(c)'
    PROVE  JInv'
<1>1. Grow
  BY GrowSame
<1>2. Fresh' /\ OwnLocks' /\ MemoryFilled' /\ NoLateException'
  BY FreshStays, LocksStay, MemoryStays, ExceptionsStay
     DEF JInv, AtWork, Filled, Gathering
<1>3. \A d \in Calls \ {c} : SearchOK(d)'
  BY <1>1, SearchStays DEF Still, JInv, Graph
<1>4. \A d \in Calls \ {c} : UnlinkedBelow(d)'
  BY UnlinkedStays DEF Still, JInv, Graph
<1> QED
  BY <1>2, <1>3, <1>4 DEF JInv, Graph

(* A call that only reads moves. *)
LEMMA ReadsOnward ==
    ASSUME IInv, JInv, NEW c \in Calls, pc[c] \in Gathering,
           NEW p \in Gathering \cup {"finish", "crashed"}, NEW m,
           m.elem = loc[c].elem, ~m.isUpdate,
           Goto(c, p, m), UNCHANGED <<store, graph, entry, locks, result>>,
           SearchOK(c)', UnlinkedBelow(c)'
    PROVE  JInv'
<1>1. /\ UNCHANGED <<labelLookup, initialised, elementLevels, linkLocks, links, result>>
      /\ Still(c) /\ pc'[c] = p /\ loc'[c] = m
  BY GotoAt DEF store, graph, locks
<1>2. LinksOK'
  BY <1>1, LinksStay DEF JInv, Graph
<1> QED
  BY <1>1, <1>2, Onward, ApartSame

LEMMA CrashInserts ==
    ASSUME IInv, JInv, NEW c \in Calls, pc[c] \in Gathering, Crash(c) PROVE JInv'
<1>1. Goto(c, "crashed", loc[c]) /\ UNCHANGED <<store, graph, entry, locks, result>>
      /\ ~loc[c].isUpdate
  BY DEF Crash, JInv, Fresh
<1>2. pc'[c] = "crashed"
  BY <1>1, GotoAt
<1>3. SearchOK(c)' /\ UnlinkedBelow(c)'
  BY <1>2 DEF SearchOK, UnlinkedBelow
<1> QED
  BY <1>1, <1>3, ReadsOnward

(* The last layer is done. *)
LEMMA FinishBegins ==
    ASSUME NEW c \in Calls, pc'[c] = "finish" PROVE SearchOK(c)' /\ UnlinkedBelow(c)'
BY DEF SearchOK, UnlinkedBelow

(* The search of the layer below begins where the one above has led. *)
LEMMA SearchBelow ==
    ASSUME IInv', NEW c \in Calls, NEW m \in Locals, NEW from, m.layer # 0,
           pc'[c] = "search", loc'[c] = SearchFrom(m, from, Below(m.layer)),
           from \in Members(m.layer)' \ {m.elem}, m.layer <= m.level,
           m.layer <= m.maxlevelcopy, m.ep \in Members(m.maxlevelcopy)' \cap Finished',
           \A k \in Levels : k < m.layer => Unlinked(m.elem, k)'
    PROVE  SearchOK(c)' /\ UnlinkedBelow(c)'
<1>1. /\ m.layer \in Levels /\ m.level \in Levels /\ m.maxlevelcopy \in Levels \cup {None}
      /\ Below(m.layer) \in Levels /\ Below(m.layer) < m.layer
  BY SizesAssumption DEF Locals, Levels, Below
<1>2. TypeOK'
  BY DEF IInv
<1>3. Members(m.layer)' \subseteq Members(Below(m.layer))'
  BY <1>1, <1>2 DEF Members, Levels, TypeOK
<1>4. from \in Members(Below(m.layer))' \ {m.elem}
  BY <1>3
<1>5. Below(m.layer) <= m.level /\ Below(m.layer) <= m.maxlevelcopy
  BY <1>1 DEF Levels, None
<1>6. \A k \in Levels : k <= Below(m.layer) => Unlinked(m.elem, k)'
  BY <1>1 DEF Levels
<1> QED
  BY <1>1, <1>4, <1>5, <1>6, SearchBegins

LEMMA DescendInserts == ASSUME IInv, IInv', JInv, NEW c \in Calls, Descend(c) PROVE JInv'
<1>1. PICK m, obj, layer, e :
        m = loc[c] /\ obj = m.obj /\ layer = m.layer /\ e = m.elem
  OBVIOUS
<1>2. /\ pc[c] = "descend" /\ pc[c] \in Gathering /\ ~m.isUpdate /\ m \in Locals
      /\ layer \in Levels /\ m.level \in Levels /\ layer > m.level
  BY <1>1, LocalsType DEF Descend, Gathering, JInv, Fresh, IInv, CallsOK, CallOK, Locals
<1>3. /\ obj \in Members(layer) \ {e} /\ layer <= m.maxlevelcopy
      /\ m.ep \in Members(m.maxlevelcopy) \cap Finished
      /\ \A l \in Levels : l <= layer => Unlinked(e, l)
  BY <1>1, <1>2 DEF JInv, Graph, SearchOK, UnlinkedBelow
<1>4. links[obj][layer] \subseteq Members(layer) \ {e}
  <2>1. obj \in initialised /\ initialised \subseteq Ids /\ Unlinked(e, layer)
    BY <1>2, <1>3, SizesAssumption DEF Members, Levels, IInv, TypeOK
  <2>2. links[obj][layer] \subseteq Members(layer) /\ e \notin links[obj][layer]
    BY <1>2, <2>1 DEF JInv, Graph, LinksOK, Unlinked
  <2> QED
    BY <2>2
<1>5. CASE Crash(c)
  BY <1>2, <1>5, CrashInserts
<1>6. CASE UNCHANGED <<store, graph, entry, locks, result>>
  <2>1. /\ \A l : Members(l)' = Members(l)
        /\ Finished' = Finished /\ \A i, l : Unlinked(i, l)' = Unlinked(i, l)
    BY <1>6 DEF Members, Finished, Unlinked, graph, locks
  <2>2. ASSUME NEW best \in {obj} \cup links[obj][layer],
               Goto(c, "descend", [loc[c] EXCEPT !.obj = best])
        PROVE  JInv'
    <3>1. PICK n : n = [loc[c] EXCEPT !.obj = best]
      OBVIOUS
    <3>2. /\ n.obj = best /\ n.elem = e /\ n.layer = layer /\ n.maxlevelcopy = m.maxlevelcopy
          /\ n.ep = m.ep /\ ~n.isUpdate
      BY <1>1, <1>2, <3>1 DEF Locals
    <3>3. pc'[c] = "descend" /\ loc'[c] = n
      BY <1>6, <2>2, <3>1, GotoAt
    <3>4. best \in Members(layer) \ {e}
      BY <1>3, <1>4
    <3>5. SearchOK(c)' /\ UnlinkedBelow(c)'
      BY <1>3, <2>1, <3>2, <3>3, <3>4 DEF SearchOK, UnlinkedBelow
    <3> QED
      BY <1>1, <1>2, <1>6, <2>2, <3>1, <3>2, <3>5, ReadsOnward DEF Gathering
  <2>3. ASSUME Goto(c, "descend", [loc[c] EXCEPT !.layer = Below(layer)]),
               Below(layer) > m.level
        PROVE  JInv'
    <3>1. PICK n : n = [loc[c] EXCEPT !.layer = Below(layer)]
      OBVIOUS
    <3>2. /\ n.obj = obj /\ n.elem = e /\ n.layer = Below(layer)
          /\ n.maxlevelcopy = m.maxlevelcopy /\ n.ep = m.ep /\ ~n.isUpdate
      BY <1>1, <1>2, <3>1 DEF Locals
    <3>3. pc'[c] = "descend" /\ loc'[c] = n
      BY <1>6, <2>3, <3>1, GotoAt
    <3>4. Below(layer) \in Levels /\ Below(layer) <= layer
      BY <1>2, <2>3, SizesAssumption DEF Levels, Below
    <3>5. obj \in Members(Below(layer)) \ {e}
      BY <1>2, <1>3, <3>4, MembersBelow DEF IInv
    <3>6. Below(layer) <= m.maxlevelcopy /\ \A l \in Levels : l <= Below(layer) => l <= layer
      BY <1>2, <1>3, <3>4 DEF Levels, Locals, None
    <3>7. SearchOK(c)' /\ UnlinkedBelow(c)'
      BY <1>3, <2>1, <3>2, <3>3, <3>5, <3>6 DEF SearchOK, UnlinkedBelow
    <3> QED
      BY <1>1, <1>2, <1>6, <2>3, <3>1, <3>2, <3>7, ReadsOnward DEF Gathering
  <2>4. ASSUME Goto(c, "search", SearchFrom(m, obj, m.level)) PROVE JInv'
    <3>1. PICK n : n = SearchFrom(m, obj, m.level)
      OBVIOUS
    <3>2. n.elem = e /\ ~n.isUpdate
      BY <1>1, <1>2, <3>1 DEF SearchFrom, Locals
    <3>3. pc'[c] = "search" /\ loc'[c] = SearchFrom(m, obj, m.level)
      BY <1>6, <2>4, GotoAt
    <3>4. m.level <= layer /\ m.level <= m.maxlevelcopy
          /\ \A l \in Levels : l <= m.level => l <= layer
      BY <1>2, <1>3 DEF Levels, Locals, None
    <3>5. obj \in Members(m.level)' \ {e}
      BY <1>2, <1>3, <2>1, <3>4, MembersBelow DEF IInv
    <3>6. SearchOK(c)' /\ UnlinkedBelow(c)'
      <4>1. m.ep \in Members(m.maxlevelcopy)' \cap Finished' /\ m.level <= m.level
        BY <1>2, <1>3, <2>1 DEF Levels
      <4>2. \A k \in Levels : k <= m.level => Unlinked(m.elem, k)'
        BY <1>1, <1>3, <2>1, <3>4
      <4> QED
        BY <1>1, <1>2, <3>3, <3>4, <3>5, <4>1, <4>2, SearchBegins
    <3> QED
      BY <1>1, <1>2, <1>6, <2>4, <3>1, <3>2, <3>6, ReadsOnward DEF Gathering
  <2> QED
    BY <1>1, <1>2, <1>5, <2>2, <2>3, <2>4 DEF Descend
<1> QED
  BY <1>5, <1>6 DEF Descend

LEMMA ExpandInserts == ASSUME IInv, IInv', JInv, NEW c \in Calls, Expand(c) PROVE JInv'
<1>1. PICK m, layer, e : m = loc[c] /\ layer = m.layer /\ e = m.elem
  OBVIOUS
<1>2. /\ pc[c] = "search" /\ pc[c] \in Gathering /\ ~m.isUpdate /\ m \in Locals
      /\ layer \in Levels /\ Point(c) \in Points
  BY <1>1, LocalsType, WorkloadType DEF Expand, Gathering, JInv, Fresh, Locals
<1>3. /\ m.top \cup m.cand \subseteq Members(layer) \ {e} /\ m.top \ m.cand \subseteq Finished
      /\ layer <= m.level /\ layer <= m.maxlevelcopy
      /\ m.ep \in Members(m.maxlevelcopy) \cap Finished
      /\ \A l \in Levels : l <= layer => Unlinked(e, l)
  BY <1>1, <1>2 DEF JInv, Graph, SearchOK, UnlinkedBelow
<1>4. CASE Crash(c)
  BY <1>2, <1>4, CrashInserts
<1>5. CASE UNCHANGED <<store, graph, entry, locks, result>>
           /\ pc'[c] = "search"
  <2>1. /\ \A l : Members(l)' = Members(l)
        /\ Finished' = Finished /\ \A i, l : Unlinked(i, l)' = Unlinked(i, l)
    BY <1>5 DEF Members, Finished, Unlinked, graph, locks
  <2>2. SUFFICES ASSUME NEW node \in m.cand, linkLocks[node] = Free,
                        NEW new, new = links[node][layer] \ m.visited,
                        NEW top, top = Nearest(Point(c), m.top \cup (new \ deleted), EfConstruction),
                        NEW cand, cand = {x \in (m.cand \ {node}) \cup new :
                                            \/ Cardinality(top) < EfConstruction
                                            \/ \E r \in top : ~Closer(Point(c), r, x)},
                        Goto(c, "search", [m EXCEPT !.top = top, !.cand = cand,
                                                    !.visited = @ \cup new])
                 PROVE  JInv'
    BY <1>1, <1>2, <1>5, CrashInserts DEF Expand
  <2>3. node \in Finished /\ node \in initialised /\ node \in Ids
    BY <1>3, <2>2 DEF Members, Finished, IInv, TypeOK
  <2>4. new \subseteq Members(layer) \ {e}
    <3>1. links[node][layer] \subseteq Members(layer)
      BY <1>2, <2>3 DEF JInv, Graph, LinksOK
    <3>2. e \notin links[node][layer]
      BY <1>2, <1>3, <2>3 DEF Unlinked, Levels
    <3> QED
      BY <2>2, <3>1, <3>2
  <2>5. top \subseteq m.top \cup new
    BY <2>2, NearestSubset
  <2>6. top \cup cand \subseteq Members(layer) \ {e}
    BY <1>3, <2>2, <2>4, <2>5
  <2>7. ASSUME NEW x \in top PROVE x \in cand \/ x \in Finished
    <3>1. x \in Ids
      BY <2>6 DEF Members, IInv, TypeOK
    <3>2. ~Closer(Point(c), x, x)
      BY <1>2, <3>1, CloserIrreflexive DEF IInv
    <3> QED
      BY <1>3, <2>2, <2>3, <2>5, <2>7, <3>2
  <2>8. PICK n : n = [m EXCEPT !.top = top, !.cand = cand, !.visited = @ \cup new]
    OBVIOUS
  <2>9. /\ n.top = top /\ n.cand = cand /\ n.elem = e /\ n.layer = layer /\ n.level = m.level
        /\ n.maxlevelcopy = m.maxlevelcopy /\ n.ep = m.ep /\ ~n.isUpdate
    BY <1>1, <1>2, <2>8 DEF Locals
  <2>10. loc'[c] = n
    BY <1>5, <2>2, <2>8, GotoAt
  <2>11. SearchOK(c)'
    BY <1>3, <1>5, <2>1, <2>6, <2>7, <2>9, <2>10 DEF SearchOK
  <2>12. UnlinkedBelow(c)'
    BY <1>3, <1>5, <2>1, <2>9, <2>10 DEF UnlinkedBelow
  <2> QED
    BY <1>1, <1>2, <1>5, <2>2, <2>8, <2>9, <2>11, <2>12, ReadsOnward DEF Gathering
<1> QED
  <2>1. CASE \E n : Goto(c, "search", n) /\ UNCHANGED <<store, graph, entry, locks, result>>
    BY <1>5, <2>1, GotoAt
  <2> QED
    BY <1>4, <2>1 DEF Expand

LEMMA SelectNeighborsInserts ==
    ASSUME IInv, IInv', JInv, NEW c \in Calls, SelectNeighbors(c) PROVE JInv'
<1>1. PICK m, layer, e : m = loc[c] /\ layer = m.layer /\ e = m.elem
  OBVIOUS
<1>2. /\ pc[c] = "search" /\ pc[c] \in Gathering /\ ~m.isUpdate /\ m \in Locals
      /\ layer \in Levels /\ Point(c) \in Points /\ SearchOver(c)
  BY <1>1, LocalsType, WorkloadType DEF SelectNeighbors, Gathering, JInv, Fresh, Locals
<1>3. /\ m.top \cup m.cand \subseteq Members(layer) \ {e} /\ m.top \ m.cand \subseteq Finished
      /\ layer <= m.level /\ layer <= m.maxlevelcopy
      /\ m.ep \in Members(m.maxlevelcopy) \cap Finished
      /\ \A l \in Levels : l <= layer => Unlinked(e, l)
  BY <1>1, <1>2 DEF JInv, Graph, SearchOK, UnlinkedBelow
<1>4. m.top \subseteq Finished
  <2>1. ASSUME NEW x \in m.top, x \in m.cand PROVE FALSE
    <3>1. x \in Ids
      BY <1>2, <2>1 DEF Locals
    <3>2. Closer(Point(c), x, x)
      BY <1>1, <1>2, <2>1 DEF SearchOver
    <3> QED
      BY <1>2, <3>1, <3>2, CloserIrreflexive DEF IInv
  <2> QED
    BY <1>3, <2>1
<1>5. m.ep \in Members(layer) \cap Finished
  <2>1. m.maxlevelcopy \in Levels
    BY <1>2, <1>3 DEF Locals, Levels, None
  <2> QED
    BY <1>2, <1>3, <2>1, MembersBelow DEF IInv
<1>6. Candidates(c) \subseteq Members(layer) \cap Finished
  BY <1>1, <1>2, <1>3, <1>4, <1>5, NearestSubset DEF Candidates
<1>7. PICK chosen : chosen = Heuristic(Point(c), Candidates(c), M)
  OBVIOUS
<1>8. chosen \subseteq Members(layer) \cap Finished /\ Cardinality(chosen) <= M
  BY <1>2, <1>6, <1>7, HeuristicSubset, HeuristicBounded, CandidatesType, SizesAssumption
     DEF IInv
<1>9. CASE Crash(c)
  BY <1>2, <1>9, CrashInserts
<1>10. CASE Goto(c, "finish", loc[c]) /\ UNCHANGED <<store, graph, entry, locks, result>>
  <2>1. pc'[c] = "finish"
    BY <1>10, GotoAt
  <2> QED
    BY <1>1, <1>2, <1>10, <2>1, FinishBegins, ReadsOnward
<1>11. ASSUME NEW next \in chosen, UNCHANGED <<store, graph, entry, locks, result>>,
              Goto(c, "writeOwnList",
                   [m EXCEPT !.selected = chosen, !.next = next, !.top = {}, !.cand = {},
                             !.visited = {}])
       PROVE  JInv'
  <2>1. /\ \A l : Members(l)' = Members(l)
        /\ Finished' = Finished /\ \A i, l : Unlinked(i, l)' = Unlinked(i, l)
    BY <1>11 DEF Members, Finished, Unlinked, graph, locks
  <2>2. PICK n : n = [m EXCEPT !.selected = chosen, !.next = next, !.top = {}, !.cand = {},
                               !.visited = {}]
    OBVIOUS
  <2>3. /\ n.selected = chosen /\ n.next = next /\ n.elem = e /\ n.layer = layer
        /\ n.level = m.level /\ n.maxlevelcopy = m.maxlevelcopy /\ n.ep = m.ep /\ ~n.isUpdate
    BY <1>1, <1>2, <2>2 DEF Locals
  <2>4. pc'[c] = "writeOwnList" /\ loc'[c] = n
    BY <1>11, <2>2, GotoAt
  <2>5. SearchOK(c)'
    BY <1>3, <1>8, <1>11, <2>1, <2>3, <2>4 DEF SearchOK
  <2>6. UnlinkedBelow(c)'
    BY <1>3, <2>1, <2>3, <2>4 DEF UnlinkedBelow
  <2> QED
    BY <1>1, <1>2, <1>11, <2>2, <2>3, <2>5, <2>6, ReadsOnward DEF Gathering
<1> QED
  BY <1>1, <1>2, <1>7, <1>9, <1>10, <1>11 DEF SelectNeighbors

------------------------------------------------------------------------------
(* The links.                                                              *)

(* What a call at work knows of its element. *)
LEMMA LinkingElement ==
    ASSUME IInv, JInv, NEW c \in Calls, pc[c] \in Gathering
    PROVE  /\ loc[c] \in Locals /\ loc[c].layer \in Levels /\ loc[c].elem \in Ids
           /\ ~loc[c].isUpdate
           /\ loc[c].elem \in initialised /\ loc[c].elem \notin Finished
           /\ elementLevels[loc[c].elem] = loc[c].level
           /\ \A d \in Calls : pc[d] \in Gathering =>
                 /\ loc[d].elem \in Ids /\ loc[d].elem \notin Finished
                 /\ d # c => loc[d].elem # loc[c].elem
<1>1. /\ loc[c] \in Locals /\ ~loc[c].isUpdate
      /\ \A d \in Calls : pc[d] \in Gathering => pc[d] \in AtWork \cap Filled
  BY LocalsType DEF JInv, Fresh, Gathering, AtWork, Filled
<1>2. Linking(c)
  BY <1>1 DEF Linking, Gathering
<1>3. elementLevels[loc[c].elem] = loc[c].level
  BY <1>2 DEF IInv, LevelsDrawn
<1> QED
  BY <1>1, <1>3, OwnElement DEF Locals

(* One list of a layer that the element of the call reaches is replaced:   *)
(* by finished elements, the element of the call and what was there.       *)
LEMMA OneList ==
    ASSUME IInv, JInv, NEW c \in Calls, pc[c] \in Gathering,
           NEW i \in initialised, NEW layer \in Levels, layer <= elementLevels[i],
           i \in Finished \/ i = loc[c].elem,
           NEW S, S \subseteq Members(layer) \ {i}, Cardinality(S) <= MaxLinks(layer),
           S \subseteq Finished \cup {loc[c].elem} \cup links[i][layer],
           links'[i][layer] = S,
           \A k \in Ids, l \in Levels : k # i \/ l # layer => links'[k][l] = links[k][l],
           UNCHANGED <<initialised, elementLevels, linkLocks>>
    PROVE  /\ LinksOK'
           /\ \A d \in Calls \ {c} : pc[d] \in Gathering => Apart(loc[d].elem)
           /\ \A l : Members(l)' = Members(l)
           /\ Finished' = Finished
<1>1. i \in Ids /\ initialised \subseteq Ids
  BY DEF IInv, TypeOK
<1>2. /\ links'[i][layer] = S
      /\ \A k \in Ids, l \in Levels : k # i \/ l # layer => links'[k][l] = links[k][l]
  OBVIOUS
<1>3. (\A l : Members(l)' = Members(l)) /\ Finished' = Finished
  BY DEF Members, Finished
<1>4. LinksOK'
  <2>1. \A k \in Ids \ initialised, l \in Levels : links'[k][l] = {}
    BY <1>2 DEF JInv, Graph, LinksOK
  <2>2. ASSUME NEW k \in initialised, NEW l \in Levels
        PROVE  /\ links'[k][l] # {} => l <= elementLevels[k]
               /\ Cardinality(links'[k][l]) <= MaxLinks(l)
               /\ links'[k][l] \subseteq Members(l) \ {k}
    <3>1. CASE k = i /\ l = layer
      BY <1>2, <3>1
    <3>2. CASE k # i \/ l # layer
      BY <1>1, <1>2, <3>2 DEF JInv, Graph, LinksOK
    <3> QED
      BY <3>1, <3>2
  <2> QED
    BY <1>3, <2>1, <2>2 DEF LinksOK, MaxLinks
<1>5. ASSUME NEW d \in Calls \ {c}, pc[d] \in Gathering PROVE Apart(loc[d].elem)
  <2>1. loc[d].elem \in Ids /\ loc[d].elem \notin Finished /\ loc[d].elem # loc[c].elem
    BY <1>5, LinkingElement
  <2>2. \A l \in Levels : links'[loc[d].elem][l] = links[loc[d].elem][l]
    BY <1>2, <2>1
  <2>3. ASSUME NEW l \in Levels, NEW k \in Ids, loc[d].elem \notin links[k][l]
        PROVE  loc[d].elem \notin links'[k][l]
    <3>1. CASE k = i /\ l = layer
      BY <1>2, <2>1, <2>3, <3>1
    <3>2. CASE k # i \/ l # layer
      BY <1>2, <2>3, <3>2
    <3> QED
      BY <3>1, <3>2
  <2> QED
    BY <2>2, <2>3 DEF Apart
<1> QED
  BY <1>2, <1>3, <1>4, <1>5

(* Two states of a call's local variables that differ at most in its half- *)
(* written list.                                                           *)
HalfApart(m, n) ==
    /\ n.label = m.label /\ n.elem = m.elem /\ n.isUpdate = m.isUpdate
    /\ n.level = m.level /\ n.maxlevelcopy = m.maxlevelcopy /\ n.ep = m.ep
    /\ n.obj = m.obj /\ n.layer = m.layer /\ n.top = m.top /\ n.cand = m.cand
    /\ n.visited = m.visited /\ n.selected = m.selected /\ n.next = m.next
    /\ n.hops = m.hops /\ n.sCand = m.sCand /\ n.sNeigh = m.sNeigh

(* The last write of its own list leaves the choice in it, and the call goes *)
(* on with what it had.                                                    *)
LEMMA OwnListWritten ==
    ASSUME IInv, NEW c \in Calls, WriteOwnList(c),
           ~loc[c].isUpdate => links[loc[c].elem][loc[c].layer] = {},
           loc[c].isUpdate => links[loc[c].elem][loc[c].layer] = loc[c].half,
           \A n \in loc[c].selected : loc[c].layer <= elementLevels[n]
    PROVE  /\ links' = [links EXCEPT ![loc[c].elem][loc[c].layer] = loc[c].selected]
           /\ UNCHANGED <<store, initialised, elementLevels, vec, deleted, entry, locks,
                          result>>
           /\ \E m : Goto(c, "connect", m) /\ HalfApart(loc[c], m)
<1>1. loc[c] \in Locals
  BY LocalsType
<1>2. Written(c) = {loc[c].selected}
  BY DEF Written
<1>3. \E list \in Written(c) : links' = [links EXCEPT ![loc[c].elem][loc[c].layer] = list]
  BY DEF WriteOwnList
<1>4. links' = [links EXCEPT ![loc[c].elem][loc[c].layer] = loc[c].selected]
  BY <1>2, <1>3
<1>5. /\ UNCHANGED <<store, initialised, elementLevels, vec, deleted, entry, locks, result>>
      /\ Goto(c, "connect", [loc[c] EXCEPT !.half = {}])
  BY DEF WriteOwnList
<1>6. HalfApart(loc[c], [loc[c] EXCEPT !.half = {}])
  BY <1>1 DEF HalfApart, Locals
<1> QED
  BY <1>4, <1>5, <1>6

(* An insertion that gets past the write has written its choice.           *)
LEMMA InsertionWrites ==
    ASSUME IInv, NEW c \in Calls, WriteOwnList(c), ~loc[c].isUpdate, pc'[c] = "connect"
    PROVE  /\ links' = [links EXCEPT ![loc[c].elem][loc[c].layer] = loc[c].selected]
           /\ HalfApart(loc[c], loc'[c]) /\ UNCHANGED result
<1>1. Written(c) = {loc[c].selected} /\ loc[c] \in Locals
  BY LocalsType DEF Written
<1>2. ~Throw(c)
  BY DEF Throw, Return, IInv, TypeOK
<1>3. /\ \E list \in Written(c) :
            links' = [links EXCEPT ![loc[c].elem][loc[c].layer] = list]
      /\ Goto(c, "connect", [loc[c] EXCEPT !.half = {}]) /\ UNCHANGED result
  BY <1>2 DEF WriteOwnList
<1>4. loc'[c] = [loc[c] EXCEPT !.half = {}]
  BY <1>3, GotoAt
<1> QED
  BY <1>1, <1>3, <1>4 DEF HalfApart, Locals

LEMMA WriteOwnListInserts ==
    ASSUME IInv, IInv', JInv, NEW c \in Calls, WriteOwnList(c) PROVE JInv'
<1>1. PICK m, layer, e : m = loc[c] /\ layer = m.layer /\ e = m.elem
  OBVIOUS
<1>2. /\ pc[c] = "writeOwnList" /\ pc[c] \in Gathering /\ ~m.isUpdate /\ m \in Locals
      /\ layer \in Levels /\ e \in Ids /\ e \in initialised /\ e \notin Finished
      /\ elementLevels[e] = m.level
  BY <1>1, LinkingElement DEF WriteOwnList, Gathering
<1>3. /\ m.selected \subseteq Members(layer) \cap Finished /\ Cardinality(m.selected) <= M
      /\ m.next \in Members(layer) \cap Finished
      /\ layer <= m.level /\ layer <= m.maxlevelcopy
      /\ m.ep \in Members(m.maxlevelcopy) \cap Finished
      /\ \A l \in Levels : l <= layer => Unlinked(e, l)
  BY <1>1, <1>2 DEF JInv, Graph, SearchOK, UnlinkedBelow
<1>4. links[e][layer] = {} /\ \A n \in m.selected : layer <= elementLevels[n]
  BY <1>2, <1>3 DEF Unlinked, Levels, Members
<1>5. /\ links' = [links EXCEPT ![e][layer] = m.selected]
      /\ UNCHANGED <<labelLookup, initialised, elementLevels, linkLocks, result>>
      /\ \E n : Goto(c, "connect", n) /\ HalfApart(m, n)
  BY <1>1, <1>2, <1>4, OwnListWritten DEF store, locks
<1>6. Cardinality(m.selected) \in Nat /\ M <= MaxLinks(layer) /\ MaxLinks(layer) \in Nat
      /\ M \in Nat
  <2>1. m.selected \in SUBSET Ids
    BY <1>2 DEF Locals
  <2>2. M <= MaxLinks(layer) /\ MaxLinks(layer) \in Nat /\ M \in Nat
    BY SizesAssumption DEF MaxLinks
  <2> QED
    BY <2>1, <2>2, IdSetsFinite
<1>7. /\ LinksOK'
      /\ \A d \in Calls \ {c} : pc[d] \in Gathering => Apart(loc[d].elem)
      /\ \A k \in Ids, l \in Levels : k # e \/ l # layer => links'[k][l] = links[k][l]
      /\ \A l : Members(l)' = Members(l)
      /\ Finished' = Finished
  <2>1. m.selected \subseteq Members(layer) \ {e} /\ Cardinality(m.selected) <= MaxLinks(layer)
    BY <1>2, <1>3, <1>6
  <2>2. links'[e][layer] = m.selected
        /\ \A k \in Ids, l \in Levels : k # e \/ l # layer => links'[k][l] = links[k][l]
    BY <1>2, <1>5, LinksType DEF IInv, TypeOK
  <2> QED
    BY <1>1, <1>2, <1>3, <1>5, <2>1, <2>2, OneList
<1>8. Still(c) /\ pc'[c] = "connect" /\ HalfApart(m, loc'[c])
  BY <1>5, GotoAt
<1>9. SearchOK(c)'
  BY <1>1, <1>3, <1>7, <1>8 DEF SearchOK, HalfApart
<1>10. UnlinkedBelow(c)'
  <2>1. \A l \in Levels : l < layer => Unlinked(e, l)'
    BY <1>2, <1>3, <1>7 DEF Unlinked, Levels
  <2>2. \A n \in m.selected : e \notin links'[n][layer]
    BY <1>2, <1>3, <1>7 DEF Unlinked, Levels, Locals
  <2> QED
    BY <1>1, <1>8, <2>1, <2>2 DEF UnlinkedBelow, HalfApart
<1> QED
  BY <1>1, <1>2, <1>5, <1>7, <1>8, <1>9, <1>10, Onward DEF Gathering, HalfApart

LEMMA ConnectInserts == ASSUME IInv, IInv', JInv, NEW c \in Calls, Connect(c) PROVE JInv'
<1>1. PICK m, layer, e : m = loc[c] /\ layer = m.layer /\ e = m.elem
  OBVIOUS
<1>2. /\ pc[c] = "connect" /\ pc[c] \in Gathering /\ ~m.isUpdate /\ m \in Locals
      /\ layer \in Levels /\ e \in Ids /\ e \in initialised /\ e \notin Finished
      /\ elementLevels[e] = m.level
  BY <1>1, LinkingElement DEF Connect, Gathering
<1>3. /\ m.selected \subseteq Members(layer) \cap Finished /\ Cardinality(m.selected) <= M
      /\ m.next \in Members(layer) \cap Finished
      /\ layer <= m.level /\ layer <= m.maxlevelcopy
      /\ m.ep \in Members(m.maxlevelcopy) \cap Finished
      /\ \A l \in Levels : l < layer => Unlinked(e, l)
      /\ \A n \in m.selected : e \notin links[n][layer]
  BY <1>1, <1>2 DEF JInv, Graph, SearchOK, UnlinkedBelow
<1>40. PICK n \in m.selected : \E joined :
        /\ joined = IF HasRoom(links[n][layer], layer)
                    THEN links[n][layer] \cup {e}
                    ELSE Heuristic(vec[n], links[n][layer] \cup {e}, MaxLinks(layer))
        /\ links' = [links EXCEPT ![n][layer] = joined]
        /\ IF Rest(m.selected, n) # {}
           THEN Goto(c, "connect", [m EXCEPT !.selected = Rest(m.selected, n)])
           ELSE NextLayer(c, m.next)
        /\ UNCHANGED <<labelLookup, initialised, elementLevels, linkLocks, result>>
  <2>1. \A n \in m.selected : /\ Cardinality(links[n][layer]) <= MaxLinks(layer)
                              /\ n # e /\ layer <= elementLevels[n]
                              /\ ~(Cardinality(links[n][layer]) > MaxLinks(layer))
                              /\ ~(layer > elementLevels[n])
    <3> SUFFICES ASSUME NEW n \in m.selected
                 PROVE  /\ Cardinality(links[n][layer]) <= MaxLinks(layer)
                        /\ n # e /\ layer <= elementLevels[n]
                        /\ ~(Cardinality(links[n][layer]) > MaxLinks(layer))
                        /\ ~(layer > elementLevels[n])
      OBVIOUS
    <3>1. n \in initialised /\ n \in Ids /\ n # e /\ layer <= elementLevels[n]
          /\ elementLevels[n] \in Nat /\ layer \in Nat
      BY <1>2, <1>3, SizesAssumption DEF Members, Locals, IInv, TypeOK, Levels
    <3>2. Cardinality(links[n][layer]) <= MaxLinks(layer)
      BY <1>2, <3>1 DEF JInv, Graph, LinksOK
    <3>3. Cardinality(links[n][layer]) \in Nat /\ MaxLinks(layer) \in Nat
      BY <1>2, <3>1, LinksType, IdSetsFinite, SizesAssumption DEF MaxLinks
    <3> QED
      BY <3>1, <3>2, <3>3
  <2> QED
    BY <1>1, <1>2, <2>1 DEF Connect, store, locks
<1>4. PICK joined :
        /\ joined = IF HasRoom(links[n][layer], layer)
                    THEN links[n][layer] \cup {e}
                    ELSE Heuristic(vec[n], links[n][layer] \cup {e}, MaxLinks(layer))
        /\ links' = [links EXCEPT ![n][layer] = joined]
        /\ IF Rest(m.selected, n) # {}
           THEN Goto(c, "connect", [m EXCEPT !.selected = Rest(m.selected, n)])
           ELSE NextLayer(c, m.next)
        /\ UNCHANGED <<labelLookup, initialised, elementLevels, linkLocks, result>>
  BY <1>40
<1>5. n \in Finished /\ n \in initialised /\ n \in Ids /\ n # e /\ layer <= elementLevels[n]
      /\ n \in Members(layer)
  BY <1>2, <1>3 DEF Members, Locals
<1>6. joined \subseteq links[n][layer] \cup {e}
  BY <1>4, HeuristicSubset
<1>7. joined \subseteq Members(layer) \ {n}
  <2>1. links[n][layer] \subseteq Members(layer) \ {n}
    BY <1>2, <1>5 DEF JInv, Graph, LinksOK
  <2>2. e \in Members(layer)
    BY <1>2, <1>3 DEF Members
  <2> QED
    BY <1>5, <1>6, <2>1, <2>2
<1>8. Cardinality(joined) <= MaxLinks(layer)
  <2>1. links[n][layer] \in SUBSET Ids /\ vec[n] \in Points /\ MaxLinks(layer) \in Nat
    BY <1>2, <1>5, LinksType, SizesAssumption DEF IInv, TypeOK, MaxLinks
  <2>2. IsFiniteSet(links[n][layer]) /\ Cardinality(links[n][layer]) \in Nat
    BY <2>1, IdSetsFinite
  <2>3. Cardinality(links[n][layer] \cup {e}) <= Cardinality(links[n][layer]) + 1
    <3>1. Cardinality(links[n][layer] \cup {e})
            = IF e \in links[n][layer] THEN Cardinality(links[n][layer])
                                       ELSE Cardinality(links[n][layer]) + 1
      BY <2>2, FS_AddElement
    <3> QED
      BY <2>2, <3>1
  <2>4. links[n][layer] \cup {e} \in SUBSET Ids
    BY <1>2, <2>1
  <2>5. CASE HasRoom(links[n][layer], layer)
    <3>1. Cardinality(links[n][layer] \cup {e}) \in Nat
      BY <2>4, IdSetsFinite
    <3> QED
      BY <1>4, <2>1, <2>2, <2>3, <2>5, <3>1 DEF HasRoom
  <2>6. CASE ~HasRoom(links[n][layer], layer)
    BY <1>4, <2>1, <2>4, <2>6, HeuristicBounded DEF IInv
  <2> QED
    BY <2>5, <2>6
<1>9. /\ LinksOK'
      /\ \A d \in Calls \ {c} : pc[d] \in Gathering => Apart(loc[d].elem)
      /\ \A k \in Ids, l \in Levels : k # n \/ l # layer => links'[k][l] = links[k][l]
      /\ \A l : Members(l)' = Members(l)
      /\ Finished' = Finished
  <2>1. joined \subseteq Finished \cup {loc[c].elem} \cup links[n][layer]
    BY <1>1, <1>6
  <2> QED
    <3>1. UNCHANGED <<initialised, elementLevels, linkLocks>>
      BY <1>4
    <3>2. links'[n][layer] = joined
          /\ \A k \in Ids, l \in Levels : k # n \/ l # layer => links'[k][l] = links[k][l]
      BY <1>2, <1>4, <1>5, LinksType DEF IInv, TypeOK
    <3> QED
      BY <1>2, <1>5, <1>7, <1>8, <2>1, <3>1, <3>2, OneList
<1>10. \A l \in Levels : l < layer => Unlinked(e, l)'
  BY <1>2, <1>3, <1>5, <1>9 DEF Unlinked, Levels
<1>11. CASE Rest(m.selected, n) # {}
  <2>1. PICK k : k = [m EXCEPT !.selected = Rest(m.selected, n)]
    OBVIOUS
  <2>2. /\ k.selected = m.selected \ {n} /\ k.next = m.next /\ k.elem = e /\ k.layer = layer
        /\ k.level = m.level /\ k.maxlevelcopy = m.maxlevelcopy /\ k.ep = m.ep /\ ~k.isUpdate
    BY <1>1, <1>2, <2>1 DEF Locals, Rest
  <2>3. Still(c) /\ pc'[c] = "connect" /\ loc'[c] = k
    BY <1>4, <1>11, <2>1, GotoAt
  <2>4. Cardinality(k.selected) <= M
    <3>1. IsFiniteSet(m.selected) /\ Cardinality(m.selected) \in Nat
      BY <1>2, IdSetsFinite DEF Locals
    <3>2. Cardinality(k.selected) <= Cardinality(m.selected) /\ IsFiniteSet(k.selected)
      BY <2>2, <3>1, FS_Subset
    <3> QED
      BY <1>3, <3>1, <3>2, FS_CardinalityType, SizesAssumption
  <2>5. SearchOK(c)'
    BY <1>3, <1>9, <2>2, <2>3, <2>4 DEF SearchOK
  <2>6. \A j \in k.selected : e \notin links'[j][layer]
    BY <1>2, <1>3, <1>9, <2>2 DEF Locals
  <2>7. UnlinkedBelow(c)'
    BY <1>10, <2>2, <2>3, <2>6 DEF UnlinkedBelow
  <2> QED
    BY <1>1, <1>2, <1>4, <1>9, <2>2, <2>3, <2>5, <2>7, Onward DEF Gathering
<1>12. CASE Rest(m.selected, n) = {} /\ layer = 0
  <2>1. Still(c) /\ pc'[c] = "finish" /\ loc'[c] = m
    BY <1>1, <1>4, <1>12, GotoAt DEF NextLayer
  <2> QED
    BY <1>1, <1>2, <1>4, <1>9, <2>1, FinishBegins, Onward
<1>13. CASE Rest(m.selected, n) = {} /\ layer # 0
  <2>1. PICK k : k = SearchFrom(m, m.next, Below(layer))
    OBVIOUS
  <2>2. Goto(c, "search", k)
    BY <1>1, <1>4, <1>13, <2>1 DEF NextLayer
  <2>3. Still(c) /\ pc'[c] = "search" /\ loc'[c] = k
    BY <1>4, <2>2, GotoAt
  <2>4. k.elem = e /\ ~k.isUpdate
    BY <1>1, <1>2, <2>1 DEF SearchFrom, Locals
  <2>5. /\ m.next \in Members(layer)' \ {e}
        /\ m.ep \in Members(m.maxlevelcopy)' \cap Finished'
    BY <1>2, <1>3, <1>9
  <2>6. SearchOK(c)' /\ UnlinkedBelow(c)'
    BY <1>1, <1>2, <1>3, <1>10, <1>13, <2>1, <2>3, <2>5, SearchBelow
  <2> QED
    BY <1>1, <1>2, <1>4, <1>9, <2>3, <2>4, <2>6, Onward DEF Gathering
<1> QED
  BY <1>11, <1>12, <1>13

(* The call returns, and its element counts as finished. *)
LEMMA FinishInserts == ASSUME IInv, JInv, NEW c \in Calls, Finish(c) PROVE JInv'
<1>1. /\ pc[c] = "finish" /\ UNCHANGED <<labelLookup, initialised, elementLevels, links>>
      /\ ~loc[c].isUpdate
  BY DEF Finish, store, graph, JInv, Fresh
<1>2. /\ Still(c) /\ pc'[c] = "done" /\ result'[c] = "ok" /\ loc'[c].elem = loc[c].elem
      /\ ~loc'[c].isUpdate /\ linkLocks' = Unlocked(linkLocks, c)
  BY <1>1, ReturnAt DEF Finish
<1>3. /\ linkLocks \in [Ids -> Calls \cup {Free}] /\ c # Free
      /\ \A i \in Ids : linkLocks'[i] = IF linkLocks[i] = c THEN Free ELSE linkLocks[i]
  BY <1>2, CallsType DEF IInv, TypeOK, Unlocked
<1>4. Fresh' /\ MemoryFilled' /\ NoLateException'
  BY <1>1, <1>2, FreshStays, MemoryStays, ExceptionsStay DEF JInv, Filled
<1>5. OwnLocks'
  <2>1. ASSUME NEW d \in Calls, pc'[d] \in AtWork PROVE linkLocks'[loc'[d].elem] = d
    <3>1. d # c /\ pc[d] \in AtWork /\ loc'[d] = loc[d]
      BY <1>2, <2>1 DEF Still, AtWork, Filled
    <3> QED
      BY <1>3, <3>1, OwnElement
  <2>2. ASSUME NEW i \in Ids, linkLocks'[i] # Free
        PROVE  pc'[linkLocks'[i]] \in AtWork /\ loc'[linkLocks'[i]].elem = i
    <3>1. linkLocks'[i] = linkLocks[i] /\ linkLocks[i] \in Calls \ {c}
      BY <1>3, <2>2
    <3> QED
      BY <1>2, <1>3, <2>2, <3>1 DEF JInv, OwnLocks, Still
  <2> QED
    BY <2>1, <2>2 DEF OwnLocks
<1>6. Grow
  BY <1>1, <1>3 DEF Grow, Finished, IInv, TypeOK
<1>7. LinksOK'
  BY <1>1, LinksStay DEF JInv, Graph
<1> QED
  BY <1>1, <1>2, <1>4, <1>5, <1>6, <1>7, Early DEF Gathering

------------------------------------------------------------------------------
(* The invariant holds.                                                    *)

(* A step that changes nothing the invariant is about. *)
LEMMA InsertsStay ==
    ASSUME JInv,
           UNCHANGED <<labelLookup, initialised, elementLevels, links, linkLocks, pc, loc,
                       result>>
    PROVE  JInv'
<1>1. Fresh' /\ OwnLocks' /\ MemoryFilled' /\ NoLateException'
  BY DEF JInv, Fresh, OwnLocks, MemoryFilled, NoLateException, Label
<1>2. LinksOK'
  BY LinksStay DEF JInv, Graph
<1>3. ASSUME NEW c \in Calls PROVE SearchOK(c)' /\ UnlinkedBelow(c)'
  BY DEF JInv, Graph, SearchOK, UnlinkedBelow, Unlinked, Members, Finished
<1> QED
  BY <1>1, <1>2, <1>3 DEF JInv, Graph

LEMMA InitInserts == Init => JInv
<1> SUFFICES ASSUME Init PROVE JInv
  OBVIOUS
<1>1. \A c \in Calls : pc[c] = "ready" /\ loc[c] = NoLocals /\ result[c] = "none"
  BY DEF Init
<1>2. NoLocals.elem = None /\ ~NoLocals.isUpdate
  BY DEF NoLocals
<1>3. DOMAIN labelLookup = {}
  BY DEF Init
<1>4. Fresh /\ MemoryFilled /\ NoLateException
  BY <1>1, <1>2, <1>3 DEF Init, Fresh, MemoryFilled, NoLateException, Filled
<1>5. OwnLocks
  BY <1>1 DEF Init, OwnLocks, AtWork, Filled
<1>6. LinksOK
  BY DEF Init, LinksOK
<1>7. \A c \in Calls : SearchOK(c) /\ UnlinkedBelow(c)
  BY <1>1 DEF SearchOK, UnlinkedBelow
<1> QED
  BY <1>4, <1>5, <1>6, <1>7 DEF JInv, Graph

(* No call takes the steps of an update. *)
LEMMA NoUpdateSteps ==
    ASSUME IInv, JInv, NEW c \in Calls
    PROVE  pc[c] \notin {"lockForUpdate", "readEntryUpdate", "oneHop", "twoHop", "relink",
                         "tearOwnList"}
BY DEF IInv, CallsOK, CallOK, JInv, Fresh

LEMMA NextInserts ==
    ASSUME InsertionsOnly, IInv, IInv', JInv, [Next]_vars PROVE JInv'
<1>1. CASE UNCHANGED vars
  BY <1>1, InsertsStay DEF vars, store, graph, locks, calls
<1>2. ASSUME NEW c \in Calls, Step(c) PROVE JInv'
  <2>1. ~(\/ LockForUpdate(c) \/ ReadEntryUpdate(c) \/ OneHop(c) \/ TwoHop(c) \/ Relink(c)
          \/ TearOwnList(c))
    BY NoUpdateSteps DEF LockForUpdate, ReadEntryUpdate, OneHop, TwoHop, Relink, TearOwnList
  <2> QED
    BY <1>2, <2>1, AddItemInserts, ReserveInserts, LockForInsertInserts,
       LockElementInserts, LockGlobalInserts, ReadEntryInserts, FirstElementInserts,
       FinishInserts, DescendInserts, ExpandInserts, SelectNeighborsInserts,
       WriteOwnListInserts, ConnectInserts DEF Step
<1>3. ASSUME NEW label \in DeleteLabels, MarkDelete(label) PROVE JInv'
  BY <1>3, InsertsStay DEF MarkDelete, store, locks, calls
<1> QED
  BY <1>1, <1>2, <1>3 DEF Next, Stopped

LEMMA InsertionInvariance == ASSUME InsertionsOnly PROVE Spec => []JInv
<1>1. IInv /\ IInv' /\ JInv /\ [Next]_vars => JInv'
  BY NextInserts
<1> QED
  BY <1>1, InitInserts, Invariance, PTL DEF Spec

------------------------------------------------------------------------------
(* The theorems.                                                           *)

(* Insertions that run beside each other leave a well-formed graph after   *)
(* every step: each link leads to another element of the layer, and no     *)
(* list exceeds its capacity (hnswalg.h:436-505).                          *)
THEOREM GraphStaysWellFormed == ASSUME InsertionsOnly PROVE Spec => []GraphWellFormed
<1>1. JInv => GraphWellFormed
  BY DEF JInv, Graph, LinksOK, GraphWellFormed, HasList, Members
<1> QED
  BY <1>1, InsertionInvariance, PTL

(* An insertion that appends itself to a neighbour's list without looking  *)
(* is never in it already (hnswalg.h:454-467).                             *)
THEOREM NothingLinkedTwice == ASSUME InsertionsOnly PROVE Spec => []NoDuplicateLink
<1>1. JInv => NoDuplicateLink
  BY DEF JInv, Graph, UnlinkedBelow, NoDuplicateLink
<1> QED
  BY <1>1, InsertionInvariance, PTL

(* The neighbours an insertion chooses are elements whose own insertion is *)
(* over: it has waited for the lock of each element it expanded.           *)
THEOREM NeighborsAreFinished == ASSUME InsertionsOnly PROVE Spec => []NeighborsFinished
<1>1. ASSUME IInv, JInv, NEW c \in Calls, pc[c] \in {"writeOwnList", "connect"},
             NEW d \in Calls, Inserting(d)
      PROVE  loc[d].elem \notin loc[c].selected
  <2>1. loc[c].selected \subseteq Finished
    BY <1>1 DEF JInv, Graph, SearchOK
  <2>2. CASE pc[d] \in {"lockForInsert", "lockElement", "lockGlobal", "readEntry"}
    BY <1>1, <2>1, <2>2, EarlyUnlinked DEF Finished
  <2>3. CASE pc[d] \in Filled
    BY <1>1, <2>1, <2>3, OwnElement DEF AtWork
  <2> QED
    BY <1>1, <2>2, <2>3 DEF Inserting, Filled
<1>2. IInv /\ JInv => NeighborsFinished
  BY <1>1 DEF NeighborsFinished, Unfinished
<1> QED
  BY <1>2, Invariance, InsertionInvariance, PTL

(* An insertion, which keeps its element's link lock to the end, never     *)
(* comes to wait for that lock itself (hnswalg.h:192, 436, 1010).          *)
THEOREM NoSelfDeadlock == ASSUME InsertionsOnly PROVE Spec => []NoRelock
<1>1. ASSUME IInv, JInv, NEW c \in Calls, NEW n, linkLocks[n] = c,
             \/ pc[c] = "descend" /\ n = loc[c].obj
             \/ pc[c] = "search" /\ n \in loc[c].cand
             \/ pc[c] = "connect" /\ n \in loc[c].selected
      PROVE  FALSE
  <2>1. c # Free
    BY CallsType
  <2>2. CASE pc[c] = "connect"
    BY <1>1, <2>1, <2>2 DEF JInv, Graph, SearchOK, Finished
  <2>3. CASE pc[c] \in {"descend", "search"}
    <3>1. n \in initialised /\ n # loc[c].elem
      BY <1>1, <2>3 DEF JInv, Graph, SearchOK, Members
    <3>2. n \in Ids
      BY <1>1, <3>1 DEF IInv, TypeOK
    <3> QED
      BY <1>1, <2>1, <3>1, <3>2 DEF JInv, OwnLocks
  <2> QED
    BY <1>1, <2>2, <2>3
<1>2. IInv /\ JInv => NoRelock
  <2> SUFFICES ASSUME IInv, JInv, NEW c \in Calls,
                      NEW n \in CASE pc[c] = "descend" -> {loc[c].obj}
                                  [] pc[c] = "search" -> loc[c].cand
                                  [] pc[c] = "connect" -> loc[c].selected
                                  [] OTHER -> {},
                      linkLocks[n] = c
               PROVE  FALSE
    BY DEF NoRelock
  <2> QED
    BY <1>1
<1> QED
  BY <1>2, Invariance, InsertionInvariance, PTL

(* What a step does to the element of a call, and to the neighbours it has *)
(* chosen.                                                                 *)
Chooses(c) ==
    /\ loc'[c].elem = loc[c].elem \/ loc[c].elem = None
    /\ \/ loc'[c].selected \in {{}, loc[c].selected}
       \/ pc'[c] \in {"writeOwnList", "connect"}

LEMMA LocalsChoose ==
    ASSUME IInv, NEW c \in Calls, NEW p, NEW m, Goto(c, p, m),
           m.elem = loc[c].elem \/ loc[c].elem = None,
           m.selected \in {{}, loc[c].selected} \/ p \in {"writeOwnList", "connect"}
    PROVE  Chooses(c) /\ \A d \in Calls \ {c} : loc'[d] = loc[d]
<1>1. pc'[c] = p /\ loc'[c] = m /\ \A d \in Calls \ {c} : loc'[d] = loc[d]
  BY DEF IInv, TypeOK, Goto
<1> QED
  BY <1>1 DEF Chooses

LEMMA ReturnChooses ==
    ASSUME IInv, NEW c \in Calls, NEW code, Return(c, code)
    PROVE  Chooses(c) /\ \A d \in Calls \ {c} : loc'[d] = loc[d]
<1>1. loc'[c].selected = {} /\ loc'[c].elem = loc[c].elem
  BY DEF IInv, TypeOK, Return, NoLocals
<1> QED
  BY <1>1 DEF Chooses, Return, IInv, TypeOK

(* Every step of a call that inserts. *)
LEMMA StepChooses ==
    ASSUME InsertionsOnly, IInv, JInv, NEW c \in Calls, Step(c)
    PROVE  Chooses(c) /\ \A d \in Calls \ {c} : loc'[d] = loc[d]
<1>1. /\ loc[c] \in Locals /\ ~loc[c].isUpdate /\ NoLocals.selected = {}
      /\ NoLocals \in Locals
  BY NoLocalsType DEF IInv, TypeOK, JInv, Fresh, NoLocals
<1>2. ASSUME NEW m \in Locals, NEW from, NEW layer
      PROVE  /\ SearchFrom(m, from, layer).selected = {}
             /\ SearchFrom(m, from, layer).elem = m.elem
  BY DEF SearchFrom, Locals
<1> DEFINE Moved == Chooses(c) /\ \A d \in Calls \ {c} : loc'[d] = loc[d]
<1>a. ASSUME NEW p, NEW m, m.elem = loc[c].elem, m.selected \in {{}, loc[c].selected},
              Goto(c, p, m)
       PROVE  Moved
  BY <1>a, LocalsChoose
<1>b. ASSUME NEW p, NEW m \in Locals, m.elem = loc[c].elem, NEW from, NEW layer,
              Goto(c, p, SearchFrom(m, from, layer))
       PROVE  Moved
  <2>1. PICK n : n = SearchFrom(m, from, layer)
    OBVIOUS
  <2> QED
    BY <1>2, <1>a, <1>b, <2>1
<1>3. ASSUME NEW from, NextLayer(c, from)
      PROVE  Chooses(c) /\ \A d \in Calls \ {c} : loc'[d] = loc[d]
  BY <1>1, <1>3, <1>a, <1>b DEF NextLayer
<1>4. ASSUME Crash(c) PROVE Chooses(c) /\ \A d \in Calls \ {c} : loc'[d] = loc[d]
  BY <1>4, LocalsChoose DEF Crash
<1>5. CASE AddItem(c)
  <2>1. /\ \A label : [NoLocals EXCEPT !.label = label].selected = {}
        /\ loc[c].elem = None
    BY <1>5 DEF NoLocals, AddItem, IInv, CallsOK, CallOK
  <2> QED
    BY <1>5, <2>1, ReturnChooses, LocalsChoose DEF AddItem
<1>6. CASE Reserve(c)
  <2>1. loc[c].elem = None
    BY <1>6 DEF Reserve, IInv, CallsOK, CallOK
  <2>2. \A i : [loc[c] EXCEPT !.elem = i].selected = loc[c].selected
    BY <1>1 DEF Locals
  <2>3. loc[c].label \notin DOMAIN labelLookup
    BY <1>6 DEF Reserve, JInv, Fresh, InsertionsOnly
  <2> QED
    BY <1>6, <2>1, <2>2, <2>3, ReturnChooses, LocalsChoose DEF Reserve, Throw
<1>7. CASE LockForInsert(c) \/ FirstElement(c)
  BY <1>7, LocalsChoose DEF LockForInsert, FirstElement
<1>8. CASE LockElement(c)
  <2>1. PICK level : Goto(c, "lockGlobal", [loc[c] EXCEPT !.level = level])
    BY <1>8 DEF LockElement
  <2> QED
    BY <1>1, <2>1, LocalsChoose DEF Locals
<1>9. CASE LockGlobal(c)
  BY <1>1, <1>9, LocalsChoose DEF Locals, LockGlobal
<1>10. CASE ReadEntry(c)
  <2>1. PICK read, top : /\ read = [loc[c] EXCEPT !.ep = enterpoint, !.obj = enterpoint]
                         /\ top = loc[c].maxlevelcopy
    OBVIOUS
  <2>2. /\ read \in Locals /\ read.selected = loc[c].selected /\ read.elem = loc[c].elem
    <3>1. enterpoint \in Ids \cup {None}
      BY DEF IInv, TypeOK
    <3>2. read \in Locals
      BY <1>1, <2>1, <3>1 DEF Locals
    <3> QED
      BY <1>1, <2>1, <3>2 DEF Locals
  <2>3. [read EXCEPT !.layer = top].selected = loc[c].selected
        /\ [read EXCEPT !.layer = top].elem = loc[c].elem
    BY <2>2 DEF Locals
  <2>4. CASE Goto(c, "search", SearchFrom(read, enterpoint, top))
    BY <1>b, <2>2, <2>4
  <2>5. CASE Goto(c, "descend", [read EXCEPT !.layer = top])
    BY <1>a, <2>3, <2>5
  <2>6. CASE Goto(c, "firstElement", read)
    BY <1>a, <2>2, <2>6
  <2> QED
    BY <1>10, <2>1, <2>4, <2>5, <2>6 DEF ReadEntry
<1>11. CASE Finish(c)
  BY <1>11, ReturnChooses DEF Finish
<1>12. CASE Descend(c)
  <2>1. \A best : /\ [loc[c] EXCEPT !.obj = best].selected = loc[c].selected
                  /\ [loc[c] EXCEPT !.obj = best].elem = loc[c].elem
                  /\ [loc[c] EXCEPT !.layer = best].selected = loc[c].selected
                  /\ [loc[c] EXCEPT !.layer = best].elem = loc[c].elem
    BY <1>1 DEF Locals
  <2>2. ASSUME NEW best, \/ Goto(c, "descend", [loc[c] EXCEPT !.obj = best])
                         \/ Goto(c, "descend", [loc[c] EXCEPT !.layer = best])
        PROVE  Moved
    BY <1>a, <2>1, <2>2
  <2>3. ASSUME NEW from, NEW layer, Goto(c, "search", SearchFrom(loc[c], from, layer))
        PROVE  Moved
    BY <1>1, <1>b, <2>3
  <2> QED
    BY <1>4, <1>12, <2>2, <2>3 DEF Descend
<1>13. CASE Expand(c)
  <2>1. ASSUME NEW top, NEW cand, NEW new,
               Goto(c, "search", [loc[c] EXCEPT !.top = top, !.cand = cand,
                                                !.visited = @ \cup new])
        PROVE  Chooses(c) /\ \A d \in Calls \ {c} : loc'[d] = loc[d]
    <3>1. PICK m : m = [loc[c] EXCEPT !.top = top, !.cand = cand, !.visited = @ \cup new]
      OBVIOUS
    <3>2. m.selected = loc[c].selected /\ m.elem = loc[c].elem
      BY <1>1, <3>1 DEF Locals
    <3> QED
      BY <2>1, <3>1, <3>2, LocalsChoose
  <2> QED
    BY <1>4, <1>13, <2>1 DEF Expand
<1>14. CASE SelectNeighbors(c)
  <2>1. ASSUME NEW chosen, NEW next,
               Goto(c, "writeOwnList",
                    [loc[c] EXCEPT !.selected = chosen, !.next = next, !.top = {},
                                   !.cand = {}, !.visited = {}])
        PROVE  Chooses(c) /\ \A d \in Calls \ {c} : loc'[d] = loc[d]
    <3>1. PICK m : m = [loc[c] EXCEPT !.selected = chosen, !.next = next, !.top = {},
                                      !.cand = {}, !.visited = {}]
      OBVIOUS
    <3>2. m.elem = loc[c].elem
      BY <1>1, <3>1 DEF Locals
    <3> QED
      BY <2>1, <3>1, <3>2, LocalsChoose
  <2> QED
    BY <1>1, <1>4, <1>14, <2>1, LocalsChoose DEF SelectNeighbors
<1>15. CASE WriteOwnList(c)
  <2>1. CASE Throw(c)
    BY <2>1, ReturnChooses DEF Throw
  <2>2. ASSUME NEW m, m = [loc[c] EXCEPT !.half = {}], Goto(c, "connect", m)
        PROVE  Chooses(c) /\ \A d \in Calls \ {c} : loc'[d] = loc[d]
    <3>1. m.selected = loc[c].selected /\ m.elem = loc[c].elem
      BY <1>1, <2>2 DEF Locals
    <3> QED
      BY <2>2, <3>1, LocalsChoose
  <2> QED
    BY <1>15, <2>1, <2>2 DEF WriteOwnList
<1>16. CASE Connect(c)
  <2>1. ASSUME NEW S, Goto(c, "connect", [loc[c] EXCEPT !.selected = S])
        PROVE  Chooses(c) /\ \A d \in Calls \ {c} : loc'[d] = loc[d]
    <3>1. [loc[c] EXCEPT !.selected = S].elem = loc[c].elem
      BY <1>1 DEF Locals
    <3> QED
      BY <2>1, <3>1, LocalsChoose
  <2> QED
    BY <1>3, <1>16, <2>1, ReturnChooses DEF Connect, Throw
<1>17. ~(\/ LockForUpdate(c) \/ ReadEntryUpdate(c) \/ OneHop(c) \/ TwoHop(c) \/ Relink(c)
         \/ TearOwnList(c))
  BY NoUpdateSteps DEF LockForUpdate, ReadEntryUpdate, OneHop, TwoHop, Relink, TearOwnList
<1> QED
  BY <1>5, <1>6, <1>7, <1>8, <1>9, <1>10, <1>11, <1>12, <1>13, <1>14, <1>15, <1>16, <1>17
     DEF Step

(* No call has chosen its own element, or anything before it had one. *)
Choosy ==
    \A c \in Calls : /\ loc[c].elem \notin loc[c].selected
                     /\ loc[c].elem = None => loc[c].selected = {}

LEMMA NextChoosy ==
    ASSUME InsertionsOnly, IInv, IInv', JInv, JInv', Choosy, [Next]_vars PROVE Choosy'
<1>1. CASE UNCHANGED loc
  BY <1>1 DEF Choosy
<1>2. ASSUME NEW c \in Calls, Step(c) PROVE Choosy'
  <2>1. Chooses(c) /\ \A d \in Calls \ {c} : loc'[d] = loc[d]
    BY <1>2, StepChooses
  <2>2. CASE pc'[c] \in {"writeOwnList", "connect"}
    <3>1. linkLocks'[loc'[c].elem] # Free /\ loc'[c].elem # None
      BY <2>2, CallsType DEF JInv, OwnLocks, AtWork, Filled, IInv, CallsOK, CallOK
    <3>2. loc'[c].selected \subseteq {i \in initialised' : linkLocks'[i] = Free}
      BY <2>2 DEF JInv, Graph, SearchOK, Finished
    <3> QED
      BY <2>1, <3>1, <3>2 DEF Choosy
  <2>3. CASE pc'[c] \notin {"writeOwnList", "connect"}
    BY <2>1, <2>3 DEF Choosy, Chooses
  <2> QED
    BY <2>2, <2>3
<1>3. ASSUME NEW label \in DeleteLabels, MarkDelete(label) PROVE Choosy'
  BY <1>1, <1>3 DEF MarkDelete, calls
<1> QED
  BY <1>1, <1>2, <1>3 DEF Next, Stopped, vars, calls

(* No insertion ever has its own element among its neighbours, what the    *)
(* comment on the filter promises (hnswalg.h:956-957).                     *)
THEOREM NeverItsOwnNeighbor == ASSUME InsertionsOnly PROVE Spec => []NoSelfNeighbor
<1>1. Init => Choosy
  BY DEF Init, Choosy, NoLocals
<1>2. IInv /\ IInv' /\ JInv /\ JInv' /\ Choosy /\ [Next]_vars => Choosy'
  BY NextChoosy
<1>3. Choosy => NoSelfNeighbor
  BY DEF Choosy, NoSelfNeighbor
<1> QED
  BY <1>1, <1>2, <1>3, Invariance, InsertionInvariance, PTL DEF Spec

(* Every id that was given out is the element of some call.                *)
Given == \A i \in 0 .. curElementCount - 1 : \E c \in Calls : loc[c].elem = i

LEMMA NextGiven ==
    ASSUME InsertionsOnly, IInv, JInv, Given, [Next]_vars PROVE Given'
<1>1. curElementCount \in Nat
  BY SizesAssumption DEF IInv, TypeOK
<1>2. CASE UNCHANGED <<curElementCount, loc>>
  BY <1>2 DEF Given
<1>3. ASSUME NEW c \in Calls, Step(c) PROVE Given'
  <2>1. \A d \in Calls : loc'[d].elem = loc[d].elem \/ loc[d].elem = None
    BY <1>3, StepChooses DEF Chooses
  <2>2. \A i \in 0 .. curElementCount - 1 : \E d \in Calls : loc'[d].elem = i
    <3> SUFFICES ASSUME NEW i \in 0 .. curElementCount - 1
                 PROVE  \E d \in Calls : loc'[d].elem = i
      OBVIOUS
    <3>1. PICK d \in Calls : loc[d].elem = i
      BY DEF Given
    <3>2. loc[d].elem # None
      BY <1>1, <3>1 DEF None
    <3> QED
      BY <2>1, <3>1, <3>2
  <2>3. CASE UNCHANGED curElementCount
    BY <2>2, <2>3 DEF Given
  <2>4. CASE curElementCount' = curElementCount + 1 /\ loc'[c].elem = curElementCount
    BY <1>1, <2>2, <2>4 DEF Given
  <2>5. CASE Reserve(c)
    <3>1. CASE /\ Goto(c, "lockForInsert", [loc[c] EXCEPT !.elem = curElementCount])
               /\ curElementCount' = curElementCount + 1
      BY <2>4, <3>1 DEF Goto, IInv, TypeOK, Locals
    <3> QED
      BY <2>3, <2>5, <3>1 DEF Reserve
  <2> QED
    BY <1>3, <2>3, <2>5
       DEF Step, AddItem, LockForInsert, LockElement, LockGlobal, ReadEntry,
           FirstElement, Finish, Descend, Expand, SelectNeighbors, TearOwnList,
           WriteOwnList, Connect, LockForUpdate, ReadEntryUpdate, OneHop, TwoHop, Relink,
           Crash, store
<1>4. ASSUME NEW label \in DeleteLabels, MarkDelete(label) PROVE Given'
  BY <1>2, <1>4 DEF MarkDelete, store, calls
<1> QED
  BY <1>2, <1>3, <1>4 DEF Next, Stopped, vars, store, calls

LEMMA GivenInvariance == ASSUME InsertionsOnly PROVE Spec => []Given
<1>1. Init => Given
  BY DEF Init, Given
<1>2. IInv /\ JInv /\ Given /\ [Next]_vars => Given'
  BY NextGiven
<1> QED
  BY <1>1, <1>2, Invariance, InsertionInvariance, PTL DEF Spec

------------------------------------------------------------------------------
(* Without deletions every search finds something.                         *)

SomethingFound(c) ==
    LET m == loc[c]
    IN  /\ pc[c] = "search" => m.top # {}
        /\ pc[c] = "writeOwnList" => m.selected # {}
        /\ (pc[c] = "connect" /\ m.layer = 0) \/ (pc[c] = "finish" /\ m.maxlevelcopy # None)
              => links[m.elem][0] # {}

KInv == deleted = {} /\ NoUndefinedRead /\ \A c \in Calls : SomethingFound(c)

(* Only the call that inserts an element writes into its list before the   *)
(* element is finished.                                                    *)
LEMMA OwnListStays ==
    ASSUME IInv, JInv, NEW c \in Calls, Step(c), NEW d \in Calls \ {c}, pc[d] \in AtWork
    PROVE  \A l \in Levels : links'[loc[d].elem][l] = links[loc[d].elem][l]
<1>1. /\ loc[d].elem \in Ids /\ linkLocks[loc[d].elem] # Free
      /\ loc[d].elem # loc[c].elem
  BY OwnElement, CallsType
<1>2. ~(Relink(c) \/ TearOwnList(c))
  BY NoUpdateSteps DEF Relink, TearOwnList
<1>3. CASE UNCHANGED links
  BY <1>3
<1>6. CASE ReadEntry(c)
  <2>1. links' = [links EXCEPT ![loc[c].elem] = [l \in Levels |-> {}]]
    BY <1>6 DEF ReadEntry
  <2> QED
    BY <1>1, <2>1, LinksType
<1>7. CASE WriteOwnList(c)
  <2>1. \/ UNCHANGED links
        \/ \E S : links' = [links EXCEPT ![loc[c].elem][loc[c].layer] = S]
    BY <1>7 DEF WriteOwnList
  <2> QED
    BY <1>1, <2>1, LinksType
<1>8. CASE Connect(c)
  <2>1. \/ UNCHANGED links
        \/ \E n, S : linkLocks[n] = Free /\ links' = [links EXCEPT ![n][loc[c].layer] = S]
    BY <1>8 DEF Connect
  <2> QED
    BY <1>1, <2>1, LinksType
<1> QED
  BY <1>2, <1>3, <1>6, <1>7, <1>8
     DEF Step, AddItem, Reserve, LockForInsert, LockElement, LockGlobal, FirstElement,
         Finish, Descend, Expand, SelectNeighbors, LockForUpdate, ReadEntryUpdate, OneHop,
         TwoHop, NextLayer, Crash, graph

(* A call moves, and has found what it needs at its next place. *)
LEMMA FoundStays ==
    ASSUME IInv, JInv, KInv, NEW c \in Calls, Step(c), Still(c), deleted' = {},
           pc'[c] # "crashed", SomethingFound(c)'
    PROVE  KInv'
<1>1. ASSUME NEW d \in Calls \ {c} PROVE SomethingFound(d)'
  <2>1. pc'[d] = pc[d] /\ loc'[d] = loc[d]
    BY DEF Still
  <2>2. pc[d] \in {"connect", "finish"} => links'[loc[d].elem][0] = links[loc[d].elem][0]
    BY OwnListStays, SizesAssumption DEF AtWork, Filled, Levels
  <2> QED
    BY <2>1, <2>2 DEF KInv, SomethingFound
<1>2. NoUndefinedRead'
  BY DEF KInv, NoUndefinedRead, Still
<1> QED
  BY <1>1, <1>2 DEF KInv

(* Where nothing has to be found. *)
LEMMA FoundElsewhere ==
    ASSUME NEW c \in Calls, pc'[c] \notin {"search", "writeOwnList", "connect", "finish"}
    PROVE  SomethingFound(c)'
BY DEF SomethingFound

(* A search begins with a result. *)
LEMMA FoundFirst ==
    ASSUME KInv, NEW c \in Calls, NEW m \in Locals, NEW from, NEW layer,
           pc'[c] = "search", loc'[c] = SearchFrom(m, from, layer)
    PROVE  SomethingFound(c)'
<1>1. SearchFrom(m, from, layer).top = {from} \ deleted /\ deleted = {}
  BY DEF SearchFrom, Locals, KInv
<1> QED
  BY <1>1 DEF SomethingFound

LEMMA EarlyFound ==
    ASSUME IInv, JInv, KInv, NEW c \in Calls, Step(c),
           \/ AddItem(c) \/ Reserve(c) \/ LockForInsert(c) \/ LockElement(c)
           \/ LockGlobal(c) \/ FirstElement(c) \/ Finish(c)
    PROVE  KInv'
<1>1. deleted' = {}
  BY DEF AddItem, Reserve, LockForInsert, LockElement, LockGlobal, FirstElement, Finish,
         graph, KInv
<1>2. CASE FirstElement(c)
  <2>1. Still(c) /\ pc'[c] = "finish" /\ loc'[c] = loc[c] /\ loc[c].maxlevelcopy = None
    BY <1>2, GotoAt DEF FirstElement, IInv, CallsOK, CallOK
  <2>2. SomethingFound(c)'
    BY <2>1 DEF SomethingFound
  <2> QED
    BY <1>1, <2>1, <2>2, FoundStays
<1>3. CASE \/ \E code : Return(c, code)
           \/ \E p \in {"reserve", "lockForInsert", "lockForUpdate", "lockElement", "lockGlobal",
                        "readEntry"} : \E m : Goto(c, p, m) /\ UNCHANGED result
  <2>1. Still(c) /\ pc'[c] \notin {"search", "writeOwnList", "connect", "finish", "crashed"}
    BY <1>3, ReturnAt, GotoAt
  <2> QED
    BY <1>1, <2>1, FoundElsewhere, FoundStays
<1> QED
  BY <1>2, <1>3 DEF AddItem, Reserve, Throw, LockForInsert, LockElement, LockGlobal, Finish

LEMMA ReadEntryFound ==
    ASSUME IInv, JInv, KInv, NEW c \in Calls, Step(c), ReadEntry(c) PROVE KInv'
<1>1. deleted' = {} /\ UNCHANGED result
  BY DEF ReadEntry, KInv
<1>2. PICK read : read = [loc[c] EXCEPT !.ep = enterpoint, !.obj = enterpoint]
  OBVIOUS
<1>3. read \in Locals
  <2>1. loc[c] \in Locals /\ enterpoint \in Ids \cup {None}
    BY DEF IInv, TypeOK
  <2> QED
    BY <1>2, <2>1 DEF Locals
<1>4. CASE \E p \in {"firstElement", "descend"} : \E m : Goto(c, p, m)
  <2>1. Still(c) /\ pc'[c] \in {"firstElement", "descend"}
    BY <1>1, <1>4, GotoAt
  <2> QED
    BY <1>1, <2>1, FoundElsewhere, FoundStays
<1>5. CASE Goto(c, "search", SearchFrom(read, enterpoint, loc[c].maxlevelcopy))
  <2>1. /\ Still(c) /\ pc'[c] = "search"
        /\ loc'[c] = SearchFrom(read, enterpoint, loc[c].maxlevelcopy)
    BY <1>1, <1>5, GotoAt
  <2> QED
    BY <1>1, <1>3, <2>1, FoundFirst, FoundStays
<1> QED
  BY <1>2, <1>4, <1>5 DEF ReadEntry

LEMMA DescendFound ==
    ASSUME IInv, JInv, KInv, NEW c \in Calls, Step(c), Descend(c) PROVE KInv'
<1>1. HasList(loc[c].obj, loc[c].layer) /\ loc[c] \in Locals
  BY DEF Descend, JInv, Graph, SearchOK, Members, HasList, IInv, TypeOK
<1>2. UNCHANGED <<deleted, result>> /\ deleted = {}
      /\ \/ \E m : Goto(c, "descend", m)
         \/ Goto(c, "search", SearchFrom(loc[c], loc[c].obj, loc[c].level))
  BY <1>1 DEF Descend, graph, KInv
<1>3. Still(c)
  BY <1>2, GotoAt
<1>4. CASE \E m : Goto(c, "descend", m)
  <2>1. pc'[c] = "descend"
    BY <1>2, <1>4, GotoAt
  <2> QED
    BY <1>2, <1>3, <2>1, FoundElsewhere, FoundStays
<1>5. CASE Goto(c, "search", SearchFrom(loc[c], loc[c].obj, loc[c].level))
  <2>1. pc'[c] = "search" /\ loc'[c] = SearchFrom(loc[c], loc[c].obj, loc[c].level)
    BY <1>2, <1>5, GotoAt
  <2> QED
    BY <1>1, <1>2, <1>3, <2>1, FoundFirst, FoundStays
<1> QED
  BY <1>2, <1>4, <1>5

LEMMA ExpandFound ==
    ASSUME IInv, JInv, KInv, NEW c \in Calls, Step(c), Expand(c) PROVE KInv'
<1>1. /\ pc[c] = "search" /\ loc[c] \in Locals /\ loc[c].cand \subseteq Members(loc[c].layer)
      /\ loc[c].top # {} /\ deleted = {} /\ loc[c].layer \in Levels
  BY DEF Expand, JInv, Graph, SearchOK, IInv, TypeOK, KInv, SomethingFound, Locals
<1>2. \A node \in loc[c].cand : HasList(node, loc[c].layer)
  BY <1>1 DEF Members, HasList
<1>3. PICK node, new, top, cand, m :
        /\ node \in loc[c].cand
        /\ new = links[node][loc[c].layer] \ loc[c].visited
        /\ top = Nearest(Point(c), loc[c].top \cup (new \ deleted), EfConstruction)
        /\ m = [loc[c] EXCEPT !.top = top, !.cand = cand, !.visited = @ \cup new]
        /\ Goto(c, "search", m)
        /\ UNCHANGED <<store, graph, entry, locks, result>>
  BY <1>2 DEF Expand
<1>4. Still(c) /\ pc'[c] = "search" /\ loc'[c] = m /\ deleted' = {}
  BY <1>1, <1>3, GotoAt DEF graph
<1>5. top # {}
  <2>1. links[node][loc[c].layer] \subseteq Ids
    BY <1>1, <1>3, LinksType DEF Locals
  <2>2. loc[c].top \cup (new \ deleted) \in SUBSET Ids /\ loc[c].top \cup (new \ deleted) # {}
    BY <1>1, <1>3, <2>1 DEF Locals
  <2> QED
    BY <1>3, <2>2, NearestSome, WorkloadType, SizesAssumption DEF IInv
<1>6. m.top = top
  BY <1>1, <1>3 DEF Locals
<1>7. SomethingFound(c)'
  BY <1>4, <1>5, <1>6 DEF SomethingFound
<1> QED
  BY <1>4, <1>7, FoundStays

LEMMA SelectNeighborsFound ==
    ASSUME IInv, JInv, KInv, NEW c \in Calls, Step(c), SelectNeighbors(c) PROVE KInv'
<1>1. /\ pc[c] = "search" /\ loc[c] \in Locals /\ ~loc[c].isUpdate
      /\ loc[c].top # {} /\ deleted = {}
  BY DEF SelectNeighbors, JInv, Fresh, IInv, TypeOK, KInv, SomethingFound
<1>2. Candidates(c) = loc[c].top
  BY <1>1 DEF Candidates
<1>3. PICK chosen : chosen = Heuristic(Point(c), Candidates(c), M)
  OBVIOUS
<1>4. chosen # {}
  BY <1>1, <1>2, <1>3, HeuristicSome, WorkloadType, SizesAssumption DEF IInv, Locals
<1>5. PICK next, m :
        /\ next \in chosen
        /\ m = [loc[c] EXCEPT !.selected = chosen, !.next = next,
                              !.top = {}, !.cand = {}, !.visited = {}]
        /\ Goto(c, "writeOwnList", m)
        /\ UNCHANGED <<store, graph, entry, locks, result>>
  BY <1>1, <1>3, <1>4 DEF SelectNeighbors
<1>6. Still(c) /\ pc'[c] = "writeOwnList" /\ loc'[c] = m /\ deleted' = {}
  BY <1>1, <1>5, GotoAt DEF graph
<1>7. m.selected = chosen
  BY <1>1, <1>5 DEF Locals
<1>8. SomethingFound(c)'
  BY <1>4, <1>6, <1>7 DEF SomethingFound
<1> QED
  BY <1>6, <1>8, FoundStays

LEMMA WriteOwnListFound ==
    ASSUME IInv, JInv, KInv, NEW c \in Calls, Step(c), WriteOwnList(c) PROVE KInv'
<1>1. PICK m, layer, e : m = loc[c] /\ layer = m.layer /\ e = m.elem
  OBVIOUS
<1>2. /\ pc[c] = "writeOwnList" /\ m \in Locals /\ ~m.isUpdate /\ layer \in Levels
      /\ e \in Ids /\ m.selected # {} /\ deleted = {}
      /\ m.selected \subseteq Members(layer) /\ Unlinked(e, layer)
  <2>1. /\ pc[c] = "writeOwnList" /\ m \in Locals /\ ~m.isUpdate /\ layer \in Levels
        /\ e \in Ids /\ m.selected # {} /\ deleted = {}
    BY <1>1, LocalsType DEF WriteOwnList, JInv, Fresh, KInv, SomethingFound, Locals, Midway
  <2>2. layer <= layer
    BY <2>1 DEF Levels
  <2> QED
    BY <1>1, <2>1, <2>2 DEF JInv, Graph, SearchOK, UnlinkedBelow
<1>3. links[e][layer] = {} /\ \A n \in m.selected : layer <= elementLevels[n]
  BY <1>2 DEF Unlinked, Members
<1>4. /\ links' = [links EXCEPT ![e][layer] = m.selected]
      /\ UNCHANGED <<result, deleted>>
      /\ \E n : Goto(c, "connect", n) /\ HalfApart(m, n)
  <2>1. IInv
    OBVIOUS
  <2> QED
    BY <1>1, <1>2, <1>3, <2>1, OwnListWritten
<1>5. Still(c) /\ pc'[c] = "connect" /\ HalfApart(m, loc'[c])
  BY <1>4, GotoAt
<1>6. links'[e][layer] # {}
  BY <1>2, <1>4, LinksType DEF IInv, TypeOK
<1>7. SomethingFound(c)'
  BY <1>1, <1>5, <1>6 DEF SomethingFound, HalfApart
<1> QED
  BY <1>2, <1>4, <1>5, <1>7, FoundStays DEF HalfApart

LEMMA ConnectFound ==
    ASSUME IInv, JInv, KInv, NEW c \in Calls, Step(c), Connect(c) PROVE KInv'
<1>1. PICK m, layer, e : m = loc[c] /\ layer = m.layer /\ e = m.elem
  OBVIOUS
<1>2. /\ pc[c] = "connect" /\ m \in Locals /\ ~m.isUpdate /\ layer \in Levels
      /\ e \in Ids /\ deleted' = {} /\ m.selected \subseteq Ids
      /\ layer = 0 => links[e][0] # {}
  <2>1. /\ pc[c] = "connect" /\ m \in Locals /\ ~m.isUpdate /\ e \in Ids /\ deleted' = {}
    BY <1>1, LocalsType DEF Connect, JInv, Fresh, KInv, Midway
  <2>2. layer = 0 => links[e][0] # {}
    BY <1>1, <2>1 DEF KInv, SomethingFound
  <2> QED
    BY <1>1, <2>1, <2>2 DEF Locals
<1>3. CASE Throw(c)
  <2>1. Still(c) /\ pc'[c] = "done"
    BY <1>3, ReturnAt DEF Throw
  <2> QED
    BY <1>2, <2>1, FoundElsewhere, FoundStays
<1>4. CASE ~Throw(c)
  <2>1. PICK n, joined :
          /\ n \in m.selected
          /\ n # e /\ links' = [links EXCEPT ![n][layer] = joined]
          /\ IF Rest(m.selected, n) # {}
             THEN Goto(c, "connect", [m EXCEPT !.selected = Rest(m.selected, n)])
             ELSE NextLayer(c, m.next)
          /\ UNCHANGED result
    BY <1>1, <1>2, <1>4 DEF Connect
  <2>2. links'[e][0] = links[e][0]
    BY <1>2, <2>1, LinksType, SizesAssumption DEF Levels
  <2>3. CASE Rest(m.selected, n) # {}
    <3>1. PICK k : k = [m EXCEPT !.selected = Rest(m.selected, n)]
      OBVIOUS
    <3>2. k.elem = e /\ k.layer = layer
      BY <1>1, <1>2, <3>1 DEF Locals
    <3>3. Still(c) /\ pc'[c] = "connect" /\ loc'[c] = k
      BY <2>1, <2>3, <3>1, GotoAt
    <3>4. SomethingFound(c)'
      BY <1>2, <2>2, <3>2, <3>3 DEF SomethingFound
    <3> QED
      BY <1>2, <3>3, <3>4, FoundStays
  <2>4. CASE Rest(m.selected, n) = {} /\ layer = 0
    <3>1. Still(c) /\ pc'[c] = "finish" /\ loc'[c] = m
      BY <1>1, <2>1, <2>4, GotoAt DEF NextLayer
    <3>2. SomethingFound(c)'
      BY <1>1, <1>2, <2>2, <2>4, <3>1 DEF SomethingFound
    <3> QED
      BY <1>2, <3>1, <3>2, FoundStays
  <2>5. CASE Rest(m.selected, n) = {} /\ layer # 0
    <3>1. Goto(c, "search", SearchFrom(m, m.next, Below(layer)))
      BY <1>1, <2>1, <2>5 DEF NextLayer
    <3>2. Still(c) /\ pc'[c] = "search" /\ loc'[c] = SearchFrom(m, m.next, Below(layer))
      BY <2>1, <3>1, GotoAt
    <3> QED
      BY <1>2, <3>2, FoundFirst, FoundStays
  <2> QED
    BY <2>3, <2>4, <2>5
<1> QED
  BY <1>3, <1>4

LEMMA FoundSame == ASSUME KInv, UNCHANGED <<deleted, links, pc, loc>> PROVE KInv'
BY DEF KInv, NoUndefinedRead, SomethingFound

LEMMA NextFound ==
    ASSUME DeleteLabels = {}, IInv, JInv, KInv, [Next]_vars PROVE KInv'
<1>1. CASE UNCHANGED vars
  BY <1>1, FoundSame DEF vars, graph, calls
<1>2. ASSUME NEW c \in Calls, Step(c) PROVE KInv'
  <2>1. ~(\/ LockForUpdate(c) \/ ReadEntryUpdate(c) \/ OneHop(c) \/ TwoHop(c) \/ Relink(c)
          \/ TearOwnList(c))
    BY NoUpdateSteps DEF LockForUpdate, ReadEntryUpdate, OneHop, TwoHop, Relink, TearOwnList
  <2> QED
    BY <1>2, <2>1, EarlyFound, ReadEntryFound, DescendFound, ExpandFound,
       SelectNeighborsFound, WriteOwnListFound, ConnectFound DEF Step
<1> QED
  BY <1>1, <1>2 DEF Next, Stopped

LEMMA FoundInvariance ==
    ASSUME InsertionsOnly, DeleteLabels = {} PROVE Spec => [](IInv /\ JInv /\ KInv)
<1>1. Init => KInv
  BY DEF Init, KInv, NoUndefinedRead, SomethingFound
<1>2. IInv /\ JInv /\ KInv /\ [Next]_vars => KInv'
  BY NextFound
<1> QED
  BY <1>1, <1>2, Invariance, InsertionInvariance, PTL DEF Spec

(* While nothing is deleted, no insertion reads memory that nobody wrote   *)
(* or the first of no neighbours, and none of the sanity checks of the     *)
(* code throws (hnswalg.h:409-451, 1053-1060, 1075).                       *)
THEOREM NoSanityCheckFails ==
    ASSUME InsertionsOnly, DeleteLabels = {} PROVE Spec => []SanityChecksHold
<1>1. IInv /\ JInv /\ KInv => SanityChecksHold
  BY DEF IInv, CallsOK, CallOK, JInv, NoLateException, KInv, SanityChecksHold
<1> QED
  BY <1>1, FoundInvariance, PTL

(* While nothing is deleted, every insertion after the first ends with     *)
(* neighbours (hnswalg.h:1072-1085).                                       *)
THEOREM EveryInsertionLinks ==
    ASSUME InsertionsOnly, DeleteLabels = {} PROVE Spec => []InsertionsLink
<1>1. KInv => InsertionsLink
  BY DEF KInv, SomethingFound, InsertionsLink
<1> QED
  BY <1>1, FoundInvariance, PTL

------------------------------------------------------------------------------
(* No calls wait for each other in a circle.                               *)

(* A call that is at work on element n is below layer l, or about to leave *)
(* it for good.                                                            *)
Passed(n, l) ==
    \A d \in Calls : loc[d].elem = n =>
        /\ pc[d] \in {"descend", "search", "writeOwnList"} => loc[d].layer < l
        /\ pc[d] = "connect" => loc[d].layer <= l

(* The elements whose lists a call is still to read.                       *)
MeetsPassed(c) ==
    /\ pc[c] = "descend" => Passed(loc[c].obj, loc[c].layer)
    /\ pc[c] = "search" => \A n \in loc[c].cand : Passed(n, loc[c].layer)

(* A stripe is held by a call that has taken it, "global" by one that is   *)
(* past it, and what a search meets has passed the layer of the search.    *)
WInv ==
    /\ \A s \in Stripes : updateLocks[s] # Free => Working(updateLocks[s])
    /\ global # Free => pc[global] \in Filled \cup {"readEntry"}
    /\ \A c \in Calls : MeetsPassed(c)

(* An element that some list of a layer leads to, or that has a list there, *)
(* has passed that layer.                                                   *)
LEMMA LinkedPassed ==
    ASSUME IInv, JInv, NEW n \in Ids, NEW l \in Levels, ~Unlinked(n, l) PROVE Passed(n, l)
<1> SUFFICES ASSUME NEW d \in Calls, loc[d].elem = n
             PROVE  /\ pc[d] \in {"descend", "search", "writeOwnList"} => loc[d].layer < l
                    /\ pc[d] = "connect" => loc[d].layer <= l
  BY DEF Passed
<1>1. loc[d].layer \in Levels
  BY LocalsType DEF Locals
<1>2. UnlinkedBelow(d)
  BY DEF JInv, Graph
<1> QED
  BY <1>1, <1>2 DEF UnlinkedBelow, Levels

LEMMA FinishedPassed ==
    ASSUME IInv, JInv, NEW n \in Finished, NEW l PROVE Passed(n, l)
BY OwnElement DEF Passed, AtWork, Filled

(* A call never goes back to a layer that it has passed. *)
Falls(d) ==
    pc'[d] \in Gathering =>
        /\ loc'[d].elem = loc[d].elem
        /\ \/ pc[d] = "readEntry"
           \/ /\ pc[d] \in Gathering /\ loc'[d].layer <= loc[d].layer
              /\ pc[d] = "connect" /\ pc'[d] # "connect" => loc'[d].layer < loc[d].layer

(* What a step does to the mutexes, besides the link locks. *)
Beyond == Filled \cup {"readEntry"}

Mutexes(c) ==
    /\ \/ UNCHANGED updateLocks /\ (Working(c) => Working(c)')
       \/ \E s \in Stripes : updateLocks' = Hold(updateLocks, s, c) /\ Working(c)'
       \/ updateLocks' = Unlocked(updateLocks, c)
    /\ \/ UNCHANGED global /\ (pc[c] \in Beyond => pc'[c] \in Beyond)
       \/ global' \in {c, Free} /\ pc'[c] \in Beyond
       \/ global' = IF global = c THEN Free ELSE global

LEMMA ReturnMoves ==
    ASSUME IInv, NEW c \in Calls, NEW code, Return(c, code)
    PROVE  Still(c) /\ Falls(c) /\ Mutexes(c)
<1>1. Still(c) /\ pc'[c] = "done"
  BY ReturnAt
<1> QED
  BY <1>1 DEF Return, Falls, Gathering, Mutexes

(* A call moves with the mutexes it has. *)
LEMMA GotoMoves ==
    ASSUME IInv, NEW c \in Calls, NEW p, NEW m, Goto(c, p, m), UNCHANGED result,
           UNCHANGED <<updateLocks, global>>, p \notin {"ready", "done"},
           Working(c) => p \notin {"reserve", "lockForInsert", "lockForUpdate"},
           pc[c] \in Beyond => p \in Beyond,
           p \in Gathering =>
               /\ m.elem = loc[c].elem
               /\ \/ pc[c] = "readEntry"
                  \/ /\ pc[c] \in Gathering /\ m.layer <= loc[c].layer
                     /\ pc[c] = "connect" /\ p # "connect" => m.layer < loc[c].layer
    PROVE  Still(c) /\ Falls(c) /\ Mutexes(c)
<1>1. Still(c) /\ pc'[c] = p /\ loc'[c] = m
  BY GotoAt
<1>2. Falls(c)
  BY <1>1 DEF Falls
<1>3. Working(c) => Working(c)'
  BY <1>1 DEF Working
<1> QED
  BY <1>1, <1>2, <1>3 DEF Mutexes

(* The next layer of an insertion is searched, or the call finishes. *)
LEMMA NextLayerMoves ==
    ASSUME IInv, JInv, NEW c \in Calls, pc[c] = "connect", NEW from, NextLayer(c, from),
           UNCHANGED result, UNCHANGED <<updateLocks, global>>
    PROVE  Still(c) /\ Falls(c) /\ Mutexes(c)
<1>1. loc[c] \in Locals /\ loc[c].layer \in Levels
  BY LocalsType DEF Locals
<1>2. PICK m : m = SearchFrom(loc[c], from, Below(loc[c].layer))
  OBVIOUS
<1>3. m.elem = loc[c].elem /\ m.layer = Below(loc[c].layer)
  BY <1>1, <1>2 DEF SearchFrom, Locals
<1>4. m.layer < loc[c].layer /\ m.layer <= loc[c].layer
  BY <1>1, <1>3 DEF Below, Levels
<1>5. CASE Goto(c, "finish", loc[c])
  BY <1>5, GotoMoves DEF Beyond, Filled, Gathering
<1>6. CASE Goto(c, "search", m)
  BY <1>3, <1>4, <1>6, GotoMoves DEF Beyond, Filled, Gathering
<1> QED
  BY <1>2, <1>5, <1>6 DEF NextLayer

LEMMA StepMoves ==
    ASSUME IInv, JInv, NEW c \in Calls, Step(c)
    PROVE  Still(c) /\ Falls(c) /\ Mutexes(c)
<1>1. /\ loc[c] \in Locals /\ ~loc[c].isUpdate /\ loc[c].layer \in Levels
      /\ loc[c].level \in Levels
  BY LocalsType DEF IInv, TypeOK, JInv, Fresh, Locals
<1>2. ASSUME NEW m \in Locals, NEW from, NEW layer
      PROVE  /\ SearchFrom(m, from, layer).layer = layer
             /\ SearchFrom(m, from, layer).elem = m.elem
  BY DEF SearchFrom, Locals
<1>3. ASSUME NEW code, Return(c, code) PROVE Still(c) /\ Falls(c) /\ Mutexes(c)
  BY <1>3, ReturnMoves
<1>4. CASE Crash(c) /\ pc[c] \in Gathering
  BY <1>4, GotoMoves DEF Crash, locks, Beyond, Filled, Gathering, Working
<1>5. CASE AddItem(c)
  <2>1. CASE \E m : Goto(c, "reserve", m) /\ UNCHANGED <<result, locks>>
    BY <1>5, <2>1, GotoMoves DEF AddItem, locks, Beyond, Filled, Gathering, Working
  <2> QED
    BY <1>3, <1>5, <2>1 DEF AddItem
<1>6. CASE Reserve(c)
  <2>1. CASE \E p \in {"lockForInsert", "lockForUpdate"} : \E m :
                Goto(c, p, m) /\ UNCHANGED <<result, locks>>
    BY <1>6, <2>1, GotoMoves DEF Reserve, locks, Beyond, Filled, Gathering, Working
  <2> QED
    BY <1>3, <1>6, <2>1 DEF Reserve, Throw
<1>7. CASE LockForInsert(c)
  <2>1. /\ Still(c) /\ pc'[c] = "lockElement" /\ UNCHANGED global /\ pc[c] = "lockForInsert"
        /\ updateLocks' = Hold(updateLocks, Stripe(loc[c].elem), c)
    BY <1>7, GotoAt DEF LockForInsert
  <2>2. loc[c].elem \in Ids
    BY <2>1, EarlyUnlinked
  <2>3. Stripe(loc[c].elem) \in Stripes
    BY <2>2, StripeType
  <2> QED
    BY <2>1, <2>3 DEF Falls, Mutexes, Gathering, Working, Beyond, Filled
<1>8. CASE LockElement(c)
  <2>1. PICK m : Goto(c, "lockGlobal", m)
    BY <1>8 DEF LockElement
  <2> QED
    BY <1>8, <2>1, GotoMoves DEF LockElement, Beyond, Filled, Gathering, Working
<1>9. CASE LockGlobal(c)
  <2>1. /\ Still(c) /\ pc'[c] = "readEntry" /\ UNCHANGED updateLocks /\ global' \in {c, Free}
    BY <1>9, GotoAt DEF LockGlobal
  <2> QED
    BY <2>1 DEF Falls, Mutexes, Gathering, Working, Beyond
<1>10. CASE ReadEntry(c)
  <2>1. PICK read : read = [loc[c] EXCEPT !.ep = enterpoint, !.obj = enterpoint]
    OBVIOUS
  <2>2. read \in Locals /\ read.elem = loc[c].elem
    <3>1. enterpoint \in Ids \cup {None}
      BY DEF IInv, TypeOK
    <3> QED
      BY <1>1, <2>1, <3>1 DEF Locals
  <2>3. PICK p, m : /\ Goto(c, p, m) /\ p \in {"firstElement", "descend", "search"}
                    /\ m.elem = loc[c].elem
    <3>1. /\ [read EXCEPT !.layer = loc[c].maxlevelcopy].elem = loc[c].elem
          /\ SearchFrom(read, enterpoint, loc[c].maxlevelcopy).elem = loc[c].elem
      BY <1>2, <2>2 DEF Locals
    <3> QED
      BY <1>10, <2>1, <2>2, <3>1 DEF ReadEntry
  <2> QED
    BY <1>10, <2>3, GotoMoves DEF ReadEntry, locks, Beyond, Filled, Gathering, Working
<1>11. CASE FirstElement(c)
  BY <1>11, GotoMoves DEF FirstElement, locks, Beyond, Filled, Gathering, Working
<1>12. CASE Finish(c)
  BY <1>3, <1>12 DEF Finish
<1>13. CASE Descend(c) /\ ~Crash(c)
  <2>1. PICK p, m : /\ Goto(c, p, m) /\ p \in {"descend", "search"}
                    /\ m.elem = loc[c].elem /\ m.layer <= loc[c].layer
    <3>1. \A best : /\ [loc[c] EXCEPT !.obj = best].elem = loc[c].elem
                    /\ [loc[c] EXCEPT !.obj = best].layer = loc[c].layer
      BY <1>1 DEF Locals
    <3>2. /\ [loc[c] EXCEPT !.layer = Below(loc[c].layer)].elem = loc[c].elem
          /\ [loc[c] EXCEPT !.layer = Below(loc[c].layer)].layer = Below(loc[c].layer)
      BY <1>1 DEF Locals
    <3>3. Below(loc[c].layer) <= loc[c].layer /\ loc[c].layer <= loc[c].layer
          /\ (Below(loc[c].layer) = loc[c].level => loc[c].level <= loc[c].layer)
      BY <1>1 DEF Below, Levels
    <3>4. \/ \E best : Goto(c, "descend", [loc[c] EXCEPT !.obj = best])
          \/ Goto(c, "descend", [loc[c] EXCEPT !.layer = Below(loc[c].layer)])
          \/ /\ Below(loc[c].layer) = loc[c].level
             /\ Goto(c, "search", SearchFrom(loc[c], loc[c].obj, loc[c].level))
      BY <1>13 DEF Descend
    <3>5. CASE \E best : Goto(c, "descend", [loc[c] EXCEPT !.obj = best])
      BY <3>1, <3>3, <3>5
    <3>6. CASE Goto(c, "descend", [loc[c] EXCEPT !.layer = Below(loc[c].layer)])
      BY <3>2, <3>3, <3>6
    <3>7. CASE /\ Below(loc[c].layer) = loc[c].level
                /\ Goto(c, "search", SearchFrom(loc[c], loc[c].obj, loc[c].level))
      <4>1. PICK m : m = SearchFrom(loc[c], loc[c].obj, loc[c].level)
        OBVIOUS
      <4>2. m.elem = loc[c].elem /\ m.layer = loc[c].level
        BY <1>1, <1>2, <4>1
      <4> QED
        BY <3>3, <3>7, <4>1, <4>2
    <3> QED
      BY <3>4, <3>5, <3>6, <3>7
  <2> QED
    BY <1>13, <2>1, GotoMoves DEF Descend, locks, Beyond, Filled, Gathering, Working
<1>14. CASE Expand(c) /\ ~Crash(c)
  <2>1. PICK top, cand, new, m : 
           /\ m = [loc[c] EXCEPT !.top = top, !.cand = cand, !.visited = @ \cup new]
           /\ Goto(c, "search", m)
    BY <1>14 DEF Expand
  <2>2. m.elem = loc[c].elem /\ m.layer = loc[c].layer /\ loc[c].layer <= loc[c].layer
    BY <1>1, <2>1 DEF Locals, Levels
  <2> QED
    BY <1>14, <2>1, <2>2, GotoMoves DEF Expand, locks, Beyond, Filled, Gathering, Working
<1>15. CASE SelectNeighbors(c) /\ ~Crash(c)
  <2>1. PICK chosen, next :
          \/ Goto(c, "finish", loc[c])
          \/ Goto(c, "writeOwnList",
                  [loc[c] EXCEPT !.selected = chosen, !.next = next, !.top = {},
                                 !.cand = {}, !.visited = {}])
    BY <1>1, <1>15 DEF SelectNeighbors
  <2>2. pc[c] = "search" /\ UNCHANGED <<result, updateLocks, global>>
    BY <1>1, <1>15 DEF SelectNeighbors, locks
  <2>3. CASE Goto(c, "finish", loc[c])
    BY <2>2, <2>3, GotoMoves DEF Beyond, Filled, Gathering
  <2>4. ASSUME NEW m, Goto(c, "writeOwnList", m),
               m = [loc[c] EXCEPT !.selected = chosen, !.next = next, !.top = {},
                                  !.cand = {}, !.visited = {}]
        PROVE  Still(c) /\ Falls(c) /\ Mutexes(c)
    <3>1. m.elem = loc[c].elem /\ m.layer = loc[c].layer /\ loc[c].layer <= loc[c].layer
      BY <1>1, <2>4 DEF Locals, Levels
    <3>2. Goto(c, "writeOwnList", m)
      BY <2>4
    <3> QED
      BY <2>2, <3>1, <3>2, GotoMoves DEF Beyond, Filled, Gathering
  <2> QED
    BY <2>1, <2>3, <2>4
<1>16. CASE WriteOwnList(c)
  <2>1. ASSUME NEW m, m = [loc[c] EXCEPT !.half = {}], Goto(c, "connect", m),
               UNCHANGED <<result, locks>>
        PROVE  Still(c) /\ Falls(c) /\ Mutexes(c)
    <3>1. m.elem = loc[c].elem /\ m.layer = loc[c].layer /\ loc[c].layer <= loc[c].layer
      BY <1>1, <2>1 DEF Locals, Levels
    <3>2. /\ pc[c] = "writeOwnList" /\ UNCHANGED result /\ Goto(c, "connect", m)
          /\ UNCHANGED <<updateLocks, global>>
      BY <1>16, <2>1 DEF WriteOwnList, locks
    <3>3. pc[c] \in Gathering /\ "connect" \in Beyond
      BY <3>2 DEF Gathering, Beyond, Filled
    <3> QED
      BY <3>1, <3>2, <3>3, GotoMoves
  <2> QED
    BY <1>3, <1>16, <2>1 DEF WriteOwnList, Throw
<1>17. CASE Connect(c)
  <2>1. CASE \E n : NextLayer(c, n) /\ UNCHANGED <<result, locks>>
    BY <1>17, <2>1, NextLayerMoves DEF Connect, locks
  <2>2. CASE \E S, m : /\ m = [loc[c] EXCEPT !.selected = S]
                       /\ Goto(c, "connect", m) /\ UNCHANGED <<result, locks>>
    <3>1. PICK S, m : /\ m = [loc[c] EXCEPT !.selected = S]
                      /\ Goto(c, "connect", m) /\ UNCHANGED <<result, locks>>
      BY <2>2
    <3>2. m.elem = loc[c].elem /\ m.layer = loc[c].layer /\ loc[c].layer <= loc[c].layer
      BY <1>1, <3>1 DEF Locals, Levels
    <3> QED
      BY <1>17, <3>1, <3>2, GotoMoves DEF Connect, locks, Beyond, Filled, Gathering, Working
  <2> QED
    BY <1>3, <1>17, <2>1, <2>2 DEF Connect, Throw
<1> QED
  <2>1. ~(\/ LockForUpdate(c) \/ ReadEntryUpdate(c) \/ OneHop(c) \/ TwoHop(c) \/ Relink(c)
          \/ TearOwnList(c))
    BY NoUpdateSteps DEF LockForUpdate, ReadEntryUpdate, OneHop, TwoHop, Relink, TearOwnList
  <2>2. Descend(c) \/ Expand(c) \/ SelectNeighbors(c) => pc[c] \in Gathering
    BY DEF Descend, Expand, SelectNeighbors, Gathering
  <2> QED
    BY <2>1, <2>2, <1>4, <1>5, <1>6, <1>7, <1>8, <1>9, <1>10, <1>11, <1>12, <1>13, <1>14,
       <1>15, <1>16, <1>17 DEF Step

LEMMA PassedStays ==
    ASSUME IInv, IInv', JInv, NEW c \in Calls, Step(c), NEW n \in initialised,
           NEW l \in Levels, Passed(n, l)
    PROVE  Passed(n, l)'
<1> SUFFICES ASSUME NEW d \in Calls, loc'[d].elem = n, pc'[d] \in Gathering
             PROVE  /\ pc'[d] \in {"descend", "search", "writeOwnList"} => loc'[d].layer < l
                    /\ pc'[d] = "connect" => loc'[d].layer <= l
  BY DEF Passed, Gathering
<1>1. CASE d # c
  BY <1>1, StepMoves DEF Still, Passed
<1>2. CASE d = c
  <2>1. loc[c].elem = n /\ loc[c].layer \in Levels /\ loc'[c].layer \in Levels
    BY <1>2, StepMoves DEF Falls, IInv, TypeOK, Locals
  <2>2. pc[c] # "readEntry"
    BY <2>1, EarlyUnlinked
  <2>3. /\ pc[c] \in Gathering /\ loc'[c].layer <= loc[c].layer
        /\ pc[c] = "connect" /\ pc'[c] # "connect" => loc'[c].layer < loc[c].layer
    BY <1>2, <2>2, StepMoves DEF Falls
  <2>4. /\ pc[c] \in {"descend", "search", "writeOwnList"} => loc[c].layer < l
        /\ pc[c] = "connect" => loc[c].layer <= l
    BY <2>1 DEF Passed
  <2>5. loc[c].layer \in Int /\ loc'[c].layer \in Int /\ l \in Int
    BY <2>1 DEF Levels
  <2>6. CASE pc[c] = "connect"
    BY <1>2, <2>3, <2>4, <2>5, <2>6
  <2>7. CASE pc[c] # "connect"
    BY <1>2, <2>3, <2>4, <2>5, <2>7 DEF Gathering
  <2> QED
    BY <2>6, <2>7
<1> QED
  BY <1>1, <1>2

(* The call that takes a step still meets what has passed its layer.       *)
LEMMA MeetsFinished ==
    ASSUME IInv', JInv', NEW c \in Calls,
           pc'[c] = "descend" => loc'[c].obj \in Finished',
           pc'[c] = "search" => loc'[c].cand \subseteq Finished'
    PROVE  MeetsPassed(c)'
<1>1. ASSUME NEW n \in Finished', NEW l PROVE Passed(n, l)'
  BY CallsType DEF JInv, OwnLocks, Finished, Passed, AtWork, Filled
<1> QED
  BY <1>1 DEF MeetsPassed

LEMMA DescendMeets ==
    ASSUME IInv, IInv', JInv, JInv', NEW c \in Calls, MeetsPassed(c), Step(c), Descend(c)
    PROVE  MeetsPassed(c)'
<1>1. PICK m, obj, layer : m = loc[c] /\ obj = m.obj /\ layer = m.layer
  OBVIOUS
<1>2. /\ pc[c] = "descend" /\ m \in Locals /\ layer \in Levels /\ obj \in Finished
      /\ obj \in Ids /\ HasList(obj, layer) /\ Passed(obj, layer)
  BY <1>1, LocalsType
     DEF Descend, JInv, Graph, SearchOK, Members, Finished, HasList, MeetsPassed, Locals,
         Midway, IInv, TypeOK
<1>3. UNCHANGED <<initialised, linkLocks, result>>
      /\ \/ \E best \in {obj} \cup links[obj][layer] :
               Goto(c, "descend", [m EXCEPT !.obj = best])
         \/ Goto(c, "descend", [m EXCEPT !.layer = Below(layer)])
         \/ Goto(c, "search", SearchFrom(m, obj, m.level))
  BY <1>1, <1>2 DEF Descend, graph, locks
<1>4. obj \in Finished'
  BY <1>2, <1>3 DEF Finished
<1>5. ASSUME NEW best \in {obj} \cup links[obj][layer],
             Goto(c, "descend", [m EXCEPT !.obj = best])
      PROVE  MeetsPassed(c)'
  <2>1. best \in initialised /\ Passed(best, layer)
    <3>1. CASE best = obj
      BY <1>2, <3>1 DEF HasList
    <3>2. CASE best \in links[obj][layer]
      <4>1. best \in initialised /\ best \in Ids
        BY <1>2, <3>2 DEF JInv, Graph, LinksOK, HasList, Members, IInv, TypeOK
      <4>2. ~Unlinked(best, layer)
        BY <1>2, <3>2 DEF Unlinked
      <4> QED
        BY <1>2, <4>1, <4>2, LinkedPassed
    <3> QED
      BY <3>1, <3>2
  <2>2. Passed(best, layer)'
    BY <1>2, <2>1, PassedStays
  <2>3. PICK k : k = [m EXCEPT !.obj = best]
    OBVIOUS
  <2>4. pc'[c] = "descend" /\ loc'[c] = k /\ k.obj = best /\ k.layer = layer
    BY <1>1, <1>2, <1>3, <1>5, <2>3, GotoAt DEF Locals
  <2> QED
    BY <2>2, <2>4 DEF MeetsPassed, Passed
<1>6. CASE Goto(c, "descend", [m EXCEPT !.layer = Below(layer)])
  <2>1. pc'[c] = "descend" /\ loc'[c] = [m EXCEPT !.layer = Below(layer)]
    BY <1>3, <1>6, GotoAt
  <2>2. loc'[c].obj = obj
    BY <1>1, <1>2, <2>1 DEF Locals
  <2> QED
    BY <1>4, <2>1, <2>2, MeetsFinished
<1>7. CASE Goto(c, "search", SearchFrom(m, obj, m.level))
  <2>1. pc'[c] = "search" /\ loc'[c] = SearchFrom(m, obj, m.level)
    BY <1>3, <1>7, GotoAt
  <2>2. loc'[c].cand = {obj}
    BY <1>2, <2>1 DEF SearchFrom, Locals
  <2> QED
    BY <1>4, <2>1, <2>2, MeetsFinished
<1> QED
  BY <1>3, <1>5, <1>6, <1>7

LEMMA ExpandMeets ==
    ASSUME IInv, IInv', JInv, JInv', NEW c \in Calls, MeetsPassed(c), Step(c), Expand(c)
    PROVE  MeetsPassed(c)'
<1>1. PICK m, layer : m = loc[c] /\ layer = m.layer
  OBVIOUS
<1>2. /\ pc[c] = "search" /\ m \in Locals /\ layer \in Levels
      /\ m.cand \subseteq Members(layer) /\ \A n \in m.cand : Passed(n, layer)
  BY <1>1, LocalsType DEF Expand, JInv, Graph, SearchOK, MeetsPassed, Locals, Midway
<1>3. PICK node, new, top, cand, k :
        /\ node \in m.cand
        /\ new = links[node][layer] \ m.visited
        /\ cand = {x \in (m.cand \ {node}) \cup new :
                      \/ Cardinality(top) < EfConstruction
                      \/ \E r \in top : ~Closer(Point(c), r, x)}
        /\ k = [m EXCEPT !.top = top, !.cand = cand, !.visited = @ \cup new]
        /\ Goto(c, "search", k)
        /\ UNCHANGED result
  <2>1. \A node \in m.cand : HasList(node, layer)
    BY <1>2 DEF Members, HasList
  <2> QED
    BY <1>1, <2>1 DEF Expand
<1>4. ASSUME NEW n \in cand PROVE Passed(n, layer)'
  <2>1. n \in initialised /\ Passed(n, layer)
    <3>1. CASE n \in m.cand
      BY <1>2, <3>1 DEF Members
    <3>2. CASE n \in links[node][layer]
      <4>1. n \in initialised /\ n \in Ids /\ node \in Ids
        BY <1>2, <1>3, <3>2 DEF JInv, Graph, LinksOK, Members, IInv, TypeOK
      <4>2. ~Unlinked(n, layer)
        BY <3>2, <4>1 DEF Unlinked
      <4> QED
        BY <1>2, <4>1, <4>2, LinkedPassed
    <3> QED
      BY <1>3, <3>1, <3>2
  <2> QED
    BY <1>2, <2>1, PassedStays
<1>5. pc'[c] = "search" /\ loc'[c] = k
  BY <1>3, GotoAt
<1>6. k.cand = cand /\ k.layer = layer
  BY <1>1, <1>2, <1>3 DEF Locals
<1> QED
  BY <1>4, <1>5, <1>6 DEF MeetsPassed, Passed

LEMMA ReadEntryMeets ==
    ASSUME IInv, IInv', JInv, JInv', NEW c \in Calls, ReadEntry(c)
    PROVE  MeetsPassed(c)'
<1>1. PICK read : read = [loc[c] EXCEPT !.ep = enterpoint, !.obj = enterpoint]
  OBVIOUS
<1>2. /\ UNCHANGED result
      /\ \/ Goto(c, "firstElement", read)
         \/ Goto(c, "descend", [read EXCEPT !.layer = loc[c].maxlevelcopy])
         \/ Goto(c, "search", SearchFrom(read, enterpoint, loc[c].maxlevelcopy))
  BY <1>1 DEF ReadEntry
<1>3. read \in Locals /\ read.ep = enterpoint /\ read.obj = enterpoint
  <2>1. loc[c] \in Locals /\ enterpoint \in Ids \cup {None}
    BY DEF IInv, TypeOK
  <2> QED
    BY <1>1, <2>1 DEF Locals
<1>4. pc'[c] \in Gathering => loc'[c].ep \in Finished'
  BY DEF JInv, Graph, SearchOK, Gathering
<1>5. CASE Goto(c, "firstElement", read)
  <2>1. pc'[c] = "firstElement"
    BY <1>2, <1>5, GotoAt
  <2> QED
    BY <2>1 DEF MeetsPassed
<1>6. CASE Goto(c, "descend", [read EXCEPT !.layer = loc[c].maxlevelcopy])
  <2>1. pc'[c] = "descend" /\ loc'[c] = [read EXCEPT !.layer = loc[c].maxlevelcopy]
    BY <1>2, <1>6, GotoAt
  <2>2. loc'[c].obj = loc'[c].ep
    BY <1>3, <2>1 DEF Locals
  <2> QED
    BY <1>4, <2>1, <2>2, MeetsFinished DEF Gathering
<1>7. CASE Goto(c, "search", SearchFrom(read, enterpoint, loc[c].maxlevelcopy))
  <2>1. pc'[c] = "search" /\ loc'[c] = SearchFrom(read, enterpoint, loc[c].maxlevelcopy)
    BY <1>2, <1>7, GotoAt
  <2>2. loc'[c].cand = {loc'[c].ep}
    BY <1>3, <2>1 DEF SearchFrom, Locals
  <2> QED
    BY <1>4, <2>1, <2>2, MeetsFinished DEF Gathering
<1> QED
  BY <1>2, <1>5, <1>6, <1>7

LEMMA ConnectMeets ==
    ASSUME IInv, IInv', JInv, JInv', NEW c \in Calls, Connect(c)
    PROVE  MeetsPassed(c)'
<1>1. CASE pc'[c] \in {"done", "connect", "finish"}
  BY <1>1 DEF MeetsPassed
<1>2. CASE pc'[c] \notin {"done", "connect", "finish"}
  <2>1. loc[c] \in Locals /\ loc[c].next \in initialised /\ loc[c].next \in Finished
    BY LocalsType DEF Connect, JInv, Graph, SearchOK, Members, Midway
  <2>2. /\ Goto(c, "search", SearchFrom(loc[c], loc[c].next, Below(loc[c].layer)))
        /\ UNCHANGED <<result, initialised, linkLocks>>
    <3>1. \A code : ~Return(c, code)
      BY <1>2, ReturnAt
    <3>2. ASSUME NEW p \in {"connect", "finish"}, NEW m, Goto(c, p, m), UNCHANGED result
          PROVE  FALSE
      BY <1>2, <3>2, GotoAt
    <3> QED
      BY <3>1, <3>2 DEF Connect, NextLayer, Throw, locks
  <2>3. /\ pc'[c] = "search"
        /\ loc'[c] = SearchFrom(loc[c], loc[c].next, Below(loc[c].layer))
    BY <2>2, GotoAt
  <2>4. loc'[c].cand = {loc[c].next}
    BY <2>1, <2>3 DEF SearchFrom, Locals
  <2> QED
    BY <2>1, <2>2, <2>3, <2>4, MeetsFinished DEF Finished
<1> QED
  BY <1>1, <1>2

LEMMA StepMeets ==
    ASSUME IInv, IInv', JInv, JInv', NEW c \in Calls, MeetsPassed(c), Step(c)
    PROVE  MeetsPassed(c)'
<1>1. CASE pc'[c] \notin {"descend", "search"}
  BY <1>1 DEF MeetsPassed
<1>2. CASE pc'[c] \in {"descend", "search"}
  <2>1. \A code : ~Return(c, code)
    BY <1>2, ReturnAt
  <2>2. ASSUME NEW p, NEW m, Goto(c, p, m), UNCHANGED result PROVE p \in {"descend", "search"}
    BY <1>2, <2>2, GotoAt
  <2>3. ~loc[c].isUpdate
    BY DEF JInv, Fresh
  <2>4. ~(\/ AddItem(c) \/ Reserve(c) \/ LockForInsert(c) \/ LockElement(c) \/ LockGlobal(c)
          \/ FirstElement(c) \/ Finish(c) \/ SelectNeighbors(c) \/ WriteOwnList(c))
    <3>1. ~AddItem(c) /\ ~Reserve(c)
      BY <2>1, <2>2 DEF AddItem, Reserve, Throw
    <3>2. ~LockForInsert(c) /\ ~LockElement(c) /\ ~LockGlobal(c)
      <4>1. ~LockForInsert(c)
        BY <2>2 DEF LockForInsert
      <4>2. ~LockElement(c)
        <5>1. LockElement(c) => \E m : Goto(c, "lockGlobal", m) /\ UNCHANGED result
          BY DEF LockElement
        <5> QED
          BY <2>2, <5>1
      <4>3. ~LockGlobal(c)
        BY <2>2 DEF LockGlobal
      <4> QED
        BY <4>1, <4>2, <4>3
    <3>3. ~FirstElement(c) /\ ~Finish(c)
      BY <2>1, <2>2 DEF FirstElement, Finish
    <3>4. ~SelectNeighbors(c)
      <4>1. SelectNeighbors(c) => \E p \in {"writeOwnList", "finish", "crashed"} : \E m :
                                     Goto(c, p, m) /\ UNCHANGED result
        BY <2>3 DEF SelectNeighbors, Crash
      <4> QED
        BY <2>2, <4>1
    <3>5. ~WriteOwnList(c)
      BY <2>1, <2>2 DEF WriteOwnList, Throw
    <3> QED
      BY <3>1, <3>2, <3>3, <3>4, <3>5
  <2>5. ~(\/ LockForUpdate(c) \/ ReadEntryUpdate(c) \/ OneHop(c) \/ TwoHop(c) \/ Relink(c)
          \/ TearOwnList(c))
    BY NoUpdateSteps DEF LockForUpdate, ReadEntryUpdate, OneHop, TwoHop, Relink, TearOwnList
  <2> QED
    BY <2>4, <2>5, ReadEntryMeets, DescendMeets, ExpandMeets, ConnectMeets DEF Step
<1> QED
  BY <1>1, <1>2

LEMMA MutexesKeep ==
    ASSUME IInv, NEW c \in Calls, Still(c), Mutexes(c),
           \A s \in Stripes : updateLocks[s] # Free => Working(updateLocks[s]),
           global # Free => pc[global] \in Beyond
    PROVE  /\ \A s \in Stripes : updateLocks'[s] # Free => Working(updateLocks[s])'
           /\ global' # Free => pc'[global'] \in Beyond
<1>1. /\ updateLocks \in [Stripes -> Calls \cup {Free}] /\ global \in Calls \cup {Free}
      /\ \A d \in Calls \ {c} : pc'[d] = pc[d]
  BY DEF IInv, TypeOK, Still
<1>2. ASSUME NEW s \in Stripes, updateLocks'[s] # Free
      PROVE  Working(updateLocks[s])'
  <2>1. CASE updateLocks'[s] = c /\ Working(c)'
    BY <2>1 DEF Working
  <2>2. CASE updateLocks'[s] = updateLocks[s] /\ (updateLocks[s] = c => Working(c)')
    BY <1>1, <1>2, <2>2 DEF Working
  <2>3. CASE UNCHANGED updateLocks /\ (Working(c) => Working(c)')
    BY <1>2, <2>2, <2>3
  <2>4. ASSUME NEW t \in Stripes, updateLocks' = Hold(updateLocks, t, c), Working(c)'
        PROVE  Working(updateLocks[s])'
    <3>1. t = s => updateLocks'[s] = c
      BY <1>1, <2>4 DEF Hold
    <3>2. t # s => updateLocks'[s] = updateLocks[s]
      BY <1>1, <2>4 DEF Hold
    <3> QED
      BY <2>1, <2>2, <2>4, <3>1, <3>2
  <2>5. CASE updateLocks' = Unlocked(updateLocks, c)
    <3>1. updateLocks'[s] = updateLocks[s] /\ updateLocks[s] # c
      BY <1>1, <1>2, <2>5, UnlockedType
    <3> QED
      BY <2>2, <3>1
  <2> QED
    BY <2>3, <2>4, <2>5 DEF Mutexes
<1>3. ASSUME global' # Free PROVE pc'[global'] \in Beyond
  BY <1>1, <1>3 DEF Mutexes
<1> QED
  BY <1>2, <1>3

LEMMA WaitsStay == ASSUME WInv, UNCHANGED <<locks, pc, loc>> PROVE WInv'
BY DEF WInv, MeetsPassed, Passed, Working, locks

LEMMA NextWaits ==
    ASSUME IInv, IInv', JInv, JInv', WInv, [Next]_vars PROVE WInv'
<1>1. CASE UNCHANGED <<locks, pc, loc>>
  BY <1>1, WaitsStay
<1>2. ASSUME NEW c \in Calls, Step(c) PROVE WInv'
  <2>1. Still(c) /\ Mutexes(c)
    BY <1>2, StepMoves
  <2>2. /\ \A s \in Stripes : updateLocks'[s] # Free => Working(updateLocks[s])'
        /\ global' # Free => pc'[global'] \in Beyond
    BY <2>1, MutexesKeep DEF WInv, Beyond
  <2>3. MeetsPassed(c)'
    BY <1>2, StepMeets DEF WInv
  <2>4. ASSUME NEW d \in Calls \ {c} PROVE MeetsPassed(d)'
    <3>1. pc'[d] = pc[d] /\ loc'[d] = loc[d] /\ loc[d].layer \in Levels
      BY <2>1, LocalsType DEF Still, Locals
    <3>2. CASE pc[d] = "descend"
      <4>1. loc[d].obj \in initialised /\ Passed(loc[d].obj, loc[d].layer)
        BY <3>2 DEF WInv, MeetsPassed, JInv, Graph, SearchOK, Members
      <4>2. Passed(loc[d].obj, loc[d].layer)'
        BY <1>2, <3>1, <4>1, PassedStays DEF Passed
      <4> QED
        BY <3>1, <3>2, <4>2 DEF MeetsPassed
    <3>3. CASE pc[d] = "search"
      <4>1. ASSUME NEW n \in loc[d].cand PROVE Passed(n, loc[d].layer)'
        <5>1. n \in initialised /\ Passed(n, loc[d].layer)
          BY <3>3 DEF WInv, MeetsPassed, JInv, Graph, SearchOK, Members
        <5> QED
          BY <1>2, <3>1, <5>1, PassedStays DEF Passed
      <4> QED
        BY <3>1, <3>3, <4>1 DEF MeetsPassed, Passed
    <3> QED
      BY <3>1, <3>2, <3>3 DEF MeetsPassed
  <2> QED
    BY <2>2, <2>3, <2>4 DEF WInv, Beyond
<1>3. ASSUME NEW label \in DeleteLabels, MarkDelete(label) PROVE WInv'
  BY <1>1, <1>3 DEF MarkDelete, calls
<1> QED
  BY <1>1, <1>2, <1>3 DEF Next, Stopped, vars, calls

LEMMA WaitInvariance == ASSUME InsertionsOnly PROVE Spec => [](IInv /\ JInv /\ WInv)
<1>1. Init => WInv
  BY DEF Init, WInv, MeetsPassed
<1>2. IInv /\ IInv' /\ JInv /\ JInv' /\ WInv /\ [Next]_vars => WInv'
  BY NextWaits
<1> QED
  BY <1>1, <1>2, Invariance, InsertionInvariance, PTL DEF Spec

(* How far a call is from the point where it waits for nobody. *)
Rank(c) ==
    CASE pc[c] = "lockForInsert" -> TopLevel + 3
      [] pc[c] = "lockGlobal" -> TopLevel + 2
      [] pc[c] \in {"descend", "search"} -> loc[c].layer + 1
      [] OTHER -> 0

(* Whom a call waits for is nearer to that point. *)
LEMMA AwaitsLower ==
    ASSUME IInv, JInv, WInv, NEW c \in Calls, NEW d \in Calls, Awaits(c, d)
    PROVE  Rank(d) < Rank(c)
<1>1. loc[c].layer \in Levels /\ loc[d].layer \in Levels /\ TopLevel \in Nat
  BY LocalsType, SizesAssumption DEF Locals
<1>2. d # Free /\ Rank(d) \in 0 .. TopLevel + 3
  BY <1>1, CallsType DEF Rank, Levels
<1>3. CASE pc[c] = "lockForInsert" /\ Working(d)
  BY <1>1, <1>3 DEF Rank, Working, Levels
<1>4. CASE pc[c] = "lockGlobal" /\ pc[d] \in Beyond
  BY <1>1, <1>4 DEF Rank, Beyond, Filled, Levels
<1>5. ASSUME pc[c] \in {"descend", "search"}, NEW n \in Members(loc[c].layer) \ {loc[c].elem},
             Passed(n, loc[c].layer), linkLocks[n] = d
      PROVE  Rank(d) < Rank(c)
  <2>1. n \in Ids /\ pc[d] \in AtWork /\ loc[d].elem = n /\ n \in initialised
    BY <1>2, <1>5 DEF JInv, OwnLocks, Members, IInv, TypeOK
  <2>2. pc[d] \in Filled
    BY <2>1, EarlyUnlinked DEF AtWork
  <2>3. pc[d] \in {"descend", "search"} => loc[d].layer < loc[c].layer
    BY <1>5, <2>1 DEF Passed
  <2> QED
    BY <1>1, <1>5, <2>2, <2>3 DEF Rank, Filled, Levels
<1>6. CASE pc[c] \in {"lockForInsert", "lockForUpdate"} 
           /\ updateLocks[Stripe(loc[c].elem)] = d
  <2>1. pc[c] = "lockForInsert"
    BY <1>6, NoUpdateSteps
  <2>2. Stripe(loc[c].elem) \in Stripes
    BY <2>1, EarlyUnlinked, StripeType
  <2> QED
    BY <1>2, <1>3, <1>6, <2>1, <2>2 DEF WInv
<1>7. CASE pc[c] = "lockGlobal" /\ global = d
  BY <1>2, <1>4, <1>7 DEF WInv, Beyond
<1>8. ASSUME NEW n \in Wanted(c), linkLocks[n] = d PROVE Rank(d) < Rank(c)
  <2>1. CASE pc[c] = "descend"
    BY <1>5, <1>8, <2>1 DEF Wanted, WInv, MeetsPassed, JInv, Graph, SearchOK
  <2>2. CASE pc[c] = "search"
    BY <1>5, <1>8, <2>2 DEF Wanted, WInv, MeetsPassed, JInv, Graph, SearchOK
  <2>3. CASE pc[c] = "connect"
    BY <1>2, <1>8, <2>3 DEF Wanted, JInv, Graph, SearchOK, Finished
  <2>4. CASE pc[c] = "lockElement"
    <3>1. n = loc[c].elem /\ n \in Ids \ initialised
          /\ \A e \in Calls \ {c} : loc[e].elem # n
      BY <1>8, <2>4, EarlyUnlinked DEF Wanted
    <3>2. pc[d] \in AtWork /\ loc[d].elem = n
      BY <1>2, <1>8, <3>1 DEF JInv, OwnLocks
    <3> QED
      BY <2>4, <3>1, <3>2 DEF AtWork, Filled
  <2> QED
    BY <1>8, <2>1, <2>2, <2>3, <2>4, NoUpdateSteps DEF Wanted
<1> QED
  BY <1>6, <1>7, <1>8 DEF Awaits

LEMMA SomeoneRuns == ASSUME IInv, JInv, WInv PROVE NoWaitCycle
<1> SUFFICES ASSUME NEW S \in SUBSET Calls, S # {}
             PROVE  \E c \in S : \A d \in S : ~Awaits(c, d)
  BY DEF NoWaitCycle
<1>1. ASSUME NEW c \in Calls PROVE Rank(c) \in Nat
  <2>1. loc[c].layer \in Levels
    BY LocalsType DEF Locals
  <2> QED
    BY <2>1, SizesAssumption DEF Rank, Levels
<1>2. PICK k \in {Rank(c) : c \in S} : \A j \in {Rank(c) : c \in S} : k <= j
  BY <1>1, SmallestMember
<1>3. PICK c \in S : k = Rank(c)
  BY <1>2
<1>4. \A d \in S : ~(Rank(d) < Rank(c))
  BY <1>1, <1>2, <1>3
<1> QED
  BY <1>4, AwaitsLower

(* Insertions that run beside each other never come to wait for each other *)
(* in a circle: a call that waits for another is held up, in the end, only *)
(* by calls that run (hnswalg.h:175, 192, 436, 1008-1020, 1050).           *)
THEOREM NoDeadlock == ASSUME InsertionsOnly PROVE Spec => []NoWaitCycle
<1> QED
  BY SomeoneRuns, WaitInvariance, PTL

------------------------------------------------------------------------------
(* Insertions and updates, one at a time, as ConcurrentIndex runs them.    *)

(* One call in flight; once something is deleted, an update may choose its *)
(* own element and an insertion find nothing, and throw or read past an    *)
(* empty list.                                                             *)
InTurn == MaxParallel = 1 /\ DeleteLabels = {}

Busy(c) == pc[c] \notin {"ready", "done"}
OneBusy == \A b, c \in Calls : Busy(b) /\ Busy(c) => b = c

(* Nothing went wrong so far. *)
AllWell == deleted = {} /\ NoUndefinedRead /\ NoLateException

(* The elements are those that were given out, but for one whose insertion *)
(* has not come to its memory; and all but one in progress are inserted.   *)
Unwritten == {"lockForInsert", "lockElement", "lockGlobal", "readEntry"}
Allotted ==
    /\ initialised = {i \in Ids : /\ i < curElementCount
                                  /\ \A c \in Calls : pc[c] \in Unwritten => loc[c].elem # i}
    /\ \A i \in initialised : \/ i \in Inserted
                              \/ \E c \in Calls : Linking(c) /\ loc[c].elem = i

(* The links of one list; an update that has torn a list has not yet       *)
(* written it whole.                                                       *)
Proper(i, l) ==
    /\ links[i][l] # {} => l <= elementLevels[i]
    /\ Cardinality(links[i][l]) <= MaxLinks(l)
    /\ links[i][l] \subseteq Members(l) \ {i}
LinksInTurn ==
    /\ \A i \in Ids \ initialised, l \in Levels : links[i][l] = {}
    /\ \A i \in initialised, l \in Levels : ~Rewriting(i, l) => Proper(i, l)

(* What a call knows of its element and of the entry point.                *)
Hops == {"oneHop", "twoHop", "relink"}
Home(c) ==
    LET m == loc[c]
    IN  /\ pc[c] \in Midway => /\ m.elem \in initialised /\ m.level = elementLevels[m.elem]
                               /\ m.maxlevelcopy \in Levels /\ m.ep \in Members(m.maxlevelcopy)
        /\ pc[c] \in {"lockForUpdate", "readEntryUpdate"} => m.elem \in initialised
        /\ pc[c] \in Hops \cup {"readEntryUpdate"} => m.maxlevelcopy = maxlevel
        /\ pc[c] \in Midway \ {"descend"} => m.layer <= m.level

(* What it has gathered lies in its layer; the element of an insertion is  *)
(* not among it.                                                           *)
Open(c) == IF loc[c].isUpdate THEN {} ELSE {loc[c].elem}
GatheredOK(c) ==
    LET m == loc[c]
        others == Members(m.layer) \ {m.elem}
    IN  /\ pc[c] = "twoHop" => m.hops \subseteq others
        /\ pc[c] \in {"twoHop", "relink"} =>
              m.sNeigh \subseteq others /\ m.sCand \subseteq Members(m.layer)
        /\ pc[c] \in {"descend", "search"} => m.obj \in Members(m.layer) \ Open(c)
        /\ pc[c] = "search" => m.top \cup m.cand \subseteq Members(m.layer) \ Open(c)
        /\ pc[c] \in {"tearOwnList", "writeOwnList", "connect"} =>
              m.selected \cup {m.next} \subseteq others /\ Cardinality(m.selected) <= M

InsertOK(c) == ~loc[c].isUpdate => UnlinkedBelow(c) /\ SomethingFound(c)

TInv ==
    /\ OneBusy /\ AllWell /\ Allotted /\ LinksInTurn /\ Choosy
    /\ \A c \in Calls : Home(c) /\ GatheredOK(c) /\ InsertOK(c)

(* Nobody else has written to the list an update has half written. *)
HalfOK ==
    \A c \in Calls : pc[c] = "writeOwnList" /\ loc[c].isUpdate =>
        links[loc[c].elem][loc[c].layer] = loc[c].half

(* What holds of a call that has not begun, or has returned. *)
LEMMA NotBusy ==
    ASSUME NEW c \in Calls, ~Busy(c)
    PROVE  Home(c) /\ GatheredOK(c) /\ InsertOK(c) /\ ~Linking(c) /\ pc[c] # "crashed"
           /\ \A i, l : ~(pc[c] = "writeOwnList" /\ loc[c].isUpdate /\ loc[c].elem = i
                          /\ loc[c].layer = l)
BY DEF Busy, Home, GatheredOK, InsertOK, UnlinkedBelow, SomethingFound, Linking, Midway, Hops

(* The same after a step of another call. *)
LEMMA StillNotBusy ==
    ASSUME OneBusy, NEW c \in Calls, Busy(c), Still(c), NEW d \in Calls \ {c}
    PROVE  /\ pc'[d] \in {"ready", "done"} /\ pc[d] \in {"ready", "done"}
           /\ loc'[d] = loc[d] /\ result'[d] = result[d] /\ pc'[d] = pc[d]
           /\ Home(d)' /\ GatheredOK(d)' /\ InsertOK(d)'
<1>1. /\ pc'[d] \in {"ready", "done"} /\ pc[d] \in {"ready", "done"}
      /\ loc'[d] = loc[d] /\ result'[d] = result[d] /\ pc'[d] = pc[d]
  BY DEF OneBusy, Busy, Still
<1> QED
  BY <1>1 DEF Home, GatheredOK, InsertOK, UnlinkedBelow, SomethingFound, Midway, Hops

(* Between two steps of a busy call every list is whole, but for the one   *)
(* the call itself has torn.                                               *)
LEMMA ListsProper ==
    ASSUME TInv, NEW c \in Calls, Busy(c), pc[c] # "writeOwnList" \/ ~loc[c].isUpdate,
           NEW i \in initialised, NEW l \in Levels
    PROVE  Proper(i, l)
BY DEF TInv, LinksInTurn, Rewriting, OneBusy, Busy

(* A call in the middle of its work takes a step. *)
LEMMA TurnGoes ==
    ASSUME IInv, IInv', TInv, NEW c \in Calls, pc[c] \in Midway, Still(c),
           pc'[c] \in Midway \cup {"finish"}, loc'[c].elem = loc[c].elem,
           loc'[c].isUpdate = loc[c].isUpdate, loc'[c].elem \notin loc'[c].selected,
           UNCHANGED <<curElementCount, initialised, elementLevels, deleted>>,
           LinksInTurn', Home(c)', GatheredOK(c)', InsertOK(c)'
    PROVE  TInv'
<1>1. Busy(c) /\ OneBusy
  BY DEF Busy, Midway, TInv
<1>2. \A d \in Calls \ {c} : /\ pc'[d] \in {"ready", "done"} /\ pc[d] \in {"ready", "done"}
                             /\ loc'[d] = loc[d] /\ result'[d] = result[d] /\ pc'[d] = pc[d]
                             /\ Home(d)' /\ GatheredOK(d)' /\ InsertOK(d)'
  BY <1>1, StillNotBusy
<1>3. OneBusy'
  BY <1>2 DEF OneBusy, Busy
<1>4. AllWell'
  BY <1>2 DEF TInv, AllWell, NoUndefinedRead, NoLateException, Midway
<1>5. Allotted'
  <2>1. initialised = {i \in Ids : /\ i < curElementCount
                                   /\ \A d \in Calls : pc[d] \in Unwritten => loc[d].elem # i}
    BY DEF TInv, Allotted
  <2>2. \A d \in Calls : pc'[d] \in Unwritten <=> pc[d] \in Unwritten
    BY <1>2 DEF Unwritten, Midway
  <2>3. \A d \in Calls : pc[d] \in Unwritten => loc'[d].elem = loc[d].elem
    BY <1>2
  <2>4. initialised' = {i \in Ids : /\ i < curElementCount'
                                    /\ \A d \in Calls : pc'[d] \in Unwritten => loc'[d].elem # i}
    BY <2>1, <2>2, <2>3
  <2>5. ASSUME NEW i \in initialised
        PROVE  i \in Inserted' \/ \E d \in Calls : Linking(d)' /\ loc'[d].elem = i
    <3>1. CASE i \in Inserted
      <4>1. PICK d \in Calls : result[d] = "ok" /\ ~loc[d].isUpdate /\ loc[d].elem = i
        BY <3>1 DEF Inserted
      <4>2. d # c
        BY <4>1 DEF IInv, CallsOK, CallOK, Midway
      <4> QED
        BY <1>2, <4>1, <4>2 DEF Inserted
    <3>2. CASE \E d \in Calls : Linking(d) /\ loc[d].elem = i
      <4>1. PICK d \in Calls : Linking(d) /\ loc[d].elem = i
        BY <3>2
      <4>2. d = c
        BY <1>2, <4>1 DEF Linking
      <4>3. Linking(c)'
        BY <4>1, <4>2 DEF Linking, IInv, CallsOK, CallOK, Midway
      <4> QED
        BY <4>1, <4>2, <4>3
    <3> QED
      BY <3>1, <3>2 DEF TInv, Allotted
  <2> QED
    BY <2>4, <2>5 DEF Allotted
<1>6. Choosy'
  BY <1>2 DEF TInv, Choosy, IInv, CallsOK, CallOK, Midway
<1> QED
  BY <1>2, <1>3, <1>4, <1>5, <1>6 DEF TInv

(* ... and only reads. *)
LEMMA ReadsProper ==
    ASSUME TInv, NEW c \in Calls, Busy(c), pc[c] # "writeOwnList" \/ ~loc[c].isUpdate,
           Still(c), UNCHANGED <<initialised, elementLevels, links>>
    PROVE  LinksInTurn'
<1>1. \A i \in initialised, l \in Levels : Proper(i, l)
  BY ListsProper
<1> QED
  BY <1>1 DEF TInv, LinksInTurn, Proper, Members, MaxLinks

------------------------------------------------------------------------------
(* Before a call meets the graph.                                          *)

Alone(c) == \A d \in Calls \ {c} : ~Busy(d)

LEMMA BusyAlone == ASSUME TInv, NEW c \in Calls, Busy(c) PROVE Alone(c)
BY DEF TInv, OneBusy, Alone

(* A call that is alone takes a step. *)
LEMMA TurnMoves ==
    ASSUME TInv, NEW c \in Calls, Alone(c), Still(c), pc'[c] # "crashed", deleted' = {},
           pc'[c] = "done" /\ loc'[c].elem # None => result'[c] = "ok",
           loc'[c].elem \notin loc'[c].selected,
           loc'[c].elem = None => loc'[c].selected = {},
           Allotted', LinksInTurn', Home(c)', GatheredOK(c)', InsertOK(c)'
    PROVE  TInv'
<1>1. \A d \in Calls \ {c} : /\ pc'[d] \in {"ready", "done"}
                             /\ loc'[d] = loc[d] /\ result'[d] = result[d] /\ pc'[d] = pc[d]
  BY DEF Alone, Busy, Still
<1>2. \A d \in Calls \ {c} : Home(d)' /\ GatheredOK(d)' /\ InsertOK(d)'
  BY <1>1 DEF Home, GatheredOK, InsertOK, UnlinkedBelow, SomethingFound, Midway, Hops
<1>3. OneBusy' /\ AllWell' /\ Choosy'
  BY <1>1 DEF TInv, OneBusy, Busy, AllWell, NoUndefinedRead, NoLateException, Choosy
<1> QED
  BY <1>2, <1>3 DEF TInv

LEMMA LinksProper ==
    ASSUME TInv, NEW c \in Calls, Alone(c), pc[c] # "writeOwnList" \/ ~loc[c].isUpdate,
           NEW i \in initialised, NEW l \in Levels
    PROVE  Proper(i, l)
BY DEF TInv, LinksInTurn, Rewriting, Alone, Busy

LEMMA LinksUnchanged ==
    ASSUME TInv, NEW c \in Calls, Alone(c), pc[c] # "writeOwnList" \/ ~loc[c].isUpdate,
           UNCHANGED <<initialised, links>>,
           \A i \in initialised : elementLevels'[i] = elementLevels[i]
    PROVE  LinksInTurn'
<1>1. \A i \in initialised, l \in Levels : Proper(i, l)
  BY LinksProper
<1>2. \A l : Members(l)' = Members(l)
  BY DEF Members
<1> QED
  BY <1>1, <1>2 DEF TInv, LinksInTurn, Proper, MaxLinks

(* Nothing is given out or written. *)
LEMMA AllottedStays ==
    ASSUME IInv, TInv, NEW c \in Calls, Alone(c), Still(c),
           UNCHANGED <<curElementCount, initialised>>,
           pc[c] \in Unwritten <=> pc'[c] \in Unwritten,
           pc[c] \in Unwritten => loc'[c].elem = loc[c].elem,
           Linking(c) => Linking(c)' /\ loc'[c].elem = loc[c].elem,
           result[c] = "none"
    PROVE  Allotted'
<1>1. \A d \in Calls \ {c} : pc'[d] = pc[d] /\ loc'[d] = loc[d] /\ result'[d] = result[d]
  BY DEF Still
<1>2. initialised = {i \in Ids : /\ i < curElementCount
                                 /\ \A d \in Calls : pc[d] \in Unwritten => loc[d].elem # i}
  BY DEF TInv, Allotted
<1>3. \A d \in Calls : /\ pc'[d] \in Unwritten <=> pc[d] \in Unwritten
                       /\ pc[d] \in Unwritten => loc'[d].elem = loc[d].elem
  BY <1>1
<1>4. initialised' = {i \in Ids : /\ i < curElementCount'
                                  /\ \A d \in Calls : pc'[d] \in Unwritten => loc'[d].elem # i}
  BY <1>2, <1>3
<1>5. Inserted \subseteq Inserted'
  BY <1>1 DEF Inserted
<1>6. \A d \in Calls : Linking(d) => Linking(d)' /\ loc'[d].elem = loc[d].elem
  BY <1>1 DEF Linking
<1> QED
  BY <1>4, <1>5, <1>6 DEF TInv, Allotted

(* One call in flight at most. *)
LEMMA NobodyElse ==
    ASSUME MaxParallel = 1, NEW c \in Calls, AddItem(c)
    PROVE  \A d \in Calls : ~Busy(d)
<1>1. IsFiniteSet(Calls)
  BY FS_Interval, WorkloadAssumption DEF Calls
<1>2. IsFiniteSet(InFlight) /\ Cardinality(InFlight) < 1
  BY <1>1, FS_Subset DEF InFlight, AddItem
<1>3. Cardinality(InFlight) = 0
  BY <1>2, FS_CardinalityType
<1>4. InFlight = {}
  BY <1>2, <1>3, FS_EmptySet
<1> QED
  BY <1>4 DEF InFlight, Busy

LEMMA AddItemTurns ==
    ASSUME InTurn, IInv, TInv, NEW c \in Calls, AddItem(c) PROVE TInv'
<1>1. pc[c] = "ready" /\ result[c] = "none" /\ loc[c].elem = None /\ ~loc[c].isUpdate
  BY DEF AddItem, IInv, CallsOK, CallOK
<1>2. Alone(c) /\ UNCHANGED <<curElementCount, initialised, elementLevels, links, deleted>>
  BY NobodyElse DEF Alone, AddItem, graph, InTurn
<1>3. /\ Still(c) /\ pc'[c] \in {"reserve", "done"}
      /\ loc'[c].elem = None /\ loc'[c].selected = {} /\ ~loc'[c].isUpdate
  <2>1. CASE Return(c, "full")
    <3>1. loc'[c].selected = {}
      BY <2>1 DEF Return, NoLocals, IInv, TypeOK
    <3> QED
      BY <1>1, <2>1, <3>1, ReturnAt
  <2>2. CASE \E n : Goto(c, "reserve", [NoLocals EXCEPT !.label = n]) /\ UNCHANGED result
    <3>1. PICK n, m : /\ m = [NoLocals EXCEPT !.label = n] /\ Goto(c, "reserve", m)
                      /\ UNCHANGED result
      BY <2>2
    <3>2. m.elem = None /\ m.selected = {} /\ ~m.isUpdate
      BY <3>1 DEF NoLocals
    <3> QED
      BY <3>1, <3>2, GotoAt
  <2> QED
    BY <2>1, <2>2 DEF AddItem
<1>4. Allotted' /\ LinksInTurn'
  BY <1>1, <1>2, <1>3, AllottedStays, LinksUnchanged DEF Unwritten, Linking
<1>5. Home(c)' /\ GatheredOK(c)' /\ InsertOK(c)'
  BY <1>3 DEF Home, GatheredOK, InsertOK, UnlinkedBelow, SomethingFound, Midway, Hops
<1> QED
  BY <1>2, <1>3, <1>4, <1>5, TurnMoves DEF TInv, AllWell

LEMMA ReserveTurns ==
    ASSUME IInv, IInv', TInv, NEW c \in Calls, Reserve(c) PROVE TInv'
<1>1. /\ pc[c] = "reserve" /\ result[c] = "none" /\ loc[c].elem = None /\ ~loc[c].isUpdate
      /\ loc[c].selected = {} /\ loc[c] \in Locals
      /\ UNCHANGED <<initialised, elementLevels, links, deleted>> /\ deleted = {}
  BY DEF Reserve, IInv, TypeOK, CallsOK, CallOK, TInv, Choosy, AllWell, graph
<1>2. Alone(c) /\ \A d \in Calls : pc[d] \notin Unwritten
  <2>1. Alone(c)
    BY <1>1, BusyAlone DEF Busy
  <2> QED
    BY <1>1, <2>1 DEF Alone, Busy, Unwritten
<1>3. initialised = {i \in Ids : i < curElementCount}
  BY <1>2 DEF TInv, Allotted
<1>4. LinksInTurn'
  BY <1>1, <1>2, LinksUnchanged
<1>5. CASE Throw(c) /\ UNCHANGED curElementCount
  <2>1. /\ Still(c) /\ pc'[c] = "done" /\ loc'[c].elem = None /\ ~loc'[c].isUpdate
    BY <1>1, <1>5, ReturnAt DEF Throw
  <2>2. loc'[c].selected = {}
    BY <1>5 DEF Throw, Return, NoLocals, IInv, TypeOK
  <2>3. Allotted'
    BY <1>1, <1>2, <1>5, <2>1, AllottedStays DEF Unwritten, Linking
  <2>4. Home(c)' /\ GatheredOK(c)' /\ InsertOK(c)'
    BY <2>1 DEF Home, GatheredOK, InsertOK, UnlinkedBelow, SomethingFound, Midway, Hops
  <2> QED
    BY <1>1, <1>2, <1>4, <2>1, <2>2, <2>3, <2>4, TurnMoves
<1>6. ASSUME loc[c].label \in DOMAIN labelLookup, UNCHANGED <<curElementCount, result>>,
             Goto(c, "lockForUpdate",
                  [loc[c] EXCEPT !.elem = labelLookup[loc[c].label], !.isUpdate = TRUE])
      PROVE  TInv'
  <2>1. PICK m : m = [loc[c] EXCEPT !.elem = labelLookup[loc[c].label], !.isUpdate = TRUE]
    OBVIOUS
  <2>2. m.elem = labelLookup[loc[c].label] /\ m.isUpdate /\ m.selected = {}
    BY <1>1, <2>1 DEF Locals
  <2>3. m.elem \in initialised
    BY <1>3, <1>6, <2>2 DEF IInv, TypeOK, LabelsOK
  <2>4. Still(c) /\ pc'[c] = "lockForUpdate" /\ loc'[c] = m
    BY <1>6, <2>1, GotoAt
  <2>5. Allotted'
    BY <1>1, <1>2, <1>6, <2>4, AllottedStays DEF Unwritten, Linking
  <2>6. Home(c)' /\ GatheredOK(c)' /\ InsertOK(c)'
    BY <1>1, <2>2, <2>3, <2>4
       DEF Home, GatheredOK, InsertOK, UnlinkedBelow, SomethingFound, Midway, Hops
  <2> QED
    BY <1>1, <1>2, <1>4, <2>2, <2>4, <2>5, <2>6, TurnMoves
<1>7. ASSUME ~Full, curElementCount' = curElementCount + 1, UNCHANGED result,
             Goto(c, "lockForInsert", [loc[c] EXCEPT !.elem = curElementCount])
      PROVE  TInv'
  <2>1. PICK m : m = [loc[c] EXCEPT !.elem = curElementCount]
    OBVIOUS
  <2>2. m.elem = curElementCount /\ ~m.isUpdate /\ m.selected = {}
    BY <1>1, <2>1 DEF Locals
  <2>3. Still(c) /\ pc'[c] = "lockForInsert" /\ loc'[c] = m
    BY <1>7, <2>1, GotoAt
  <2>4. curElementCount \in Nat
    BY SizesAssumption DEF IInv, TypeOK
  <2>5. \A d \in Calls : pc'[d] \in Unwritten <=> d = c
    BY <1>2, <2>3 DEF Still, Unwritten
  <2>6. initialised' = {i \in Ids : /\ i < curElementCount'
                                    /\ \A d \in Calls : pc'[d] \in Unwritten => loc'[d].elem # i}
    BY <1>1, <1>3, <1>7, <2>2, <2>3, <2>4, <2>5 DEF Ids
  <2>7. Inserted \subseteq Inserted' /\ \A d \in Calls : ~Linking(d)
    BY <1>1, <1>2, <2>3 DEF Inserted, Still, Linking, Alone, Busy
  <2>8. Allotted'
    BY <1>1, <2>6, <2>7 DEF TInv, Allotted
  <2>9. Home(c)' /\ GatheredOK(c)' /\ InsertOK(c)'
    BY <2>3 DEF Home, GatheredOK, InsertOK, UnlinkedBelow, SomethingFound, Midway, Hops
  <2> QED
    BY <1>1, <1>2, <1>4, <2>2, <2>3, <2>8, <2>9, TurnMoves
<1> QED
  BY <1>5, <1>6, <1>7 DEF Reserve

(* An insertion takes its locks. *)
LEMMA LocksTurn ==
    ASSUME IInv, TInv, NEW c \in Calls, LockForInsert(c) \/ LockElement(c) \/ LockGlobal(c)
    PROVE  TInv'
<1>1. /\ pc[c] \in Unwritten /\ result[c] = "none" /\ ~loc[c].isUpdate /\ loc[c].elem # None
      /\ loc[c] \in Locals /\ deleted = {} /\ loc[c].elem \notin loc[c].selected
      /\ UNCHANGED <<curElementCount, initialised, deleted, links>>
  <2>1. pc[c] \in Unwritten \ {"readEntry"}
    BY DEF LockForInsert, LockElement, LockGlobal, Unwritten
  <2>2. UNCHANGED <<curElementCount, initialised, deleted, links>>
    BY DEF LockForInsert, LockElement, LockGlobal, store, graph
  <2> QED
    BY <2>1, <2>2 DEF IInv, TypeOK, CallsOK, CallOK, TInv, AllWell, Choosy, Unwritten
<1>2. Alone(c)
  BY <1>1, BusyAlone DEF Busy, Unwritten
<1>3. /\ Still(c) /\ pc'[c] \in Unwritten /\ loc'[c].elem = loc[c].elem /\ ~loc'[c].isUpdate
      /\ loc'[c].selected = loc[c].selected
  <2>1. CASE LockForInsert(c)
    BY <1>1, <2>1, GotoAt DEF LockForInsert, Unwritten
  <2>2. CASE LockElement(c)
    <3>1. PICK level, m : m = [loc[c] EXCEPT !.level = level] /\ Goto(c, "lockGlobal", m)
                          /\ UNCHANGED result
      BY <2>2 DEF LockElement
    <3>2. m.elem = loc[c].elem /\ ~m.isUpdate /\ m.selected = loc[c].selected
      BY <1>1, <3>1 DEF Locals
    <3> QED
      BY <3>1, <3>2, GotoAt DEF Unwritten
  <2>3. CASE LockGlobal(c)
    <3>1. PICK m : m = [loc[c] EXCEPT !.maxlevelcopy = maxlevel] /\ Goto(c, "readEntry", m)
                   /\ UNCHANGED result
      BY <2>3 DEF LockGlobal
    <3>2. m.elem = loc[c].elem /\ ~m.isUpdate /\ m.selected = loc[c].selected
      BY <1>1, <3>1 DEF Locals
    <3> QED
      BY <3>1, <3>2, GotoAt DEF Unwritten
  <2> QED
    BY <2>1, <2>2, <2>3
<1>4. loc[c].elem \notin initialised
  BY <1>1 DEF TInv, Allotted
<1>5. \A i \in initialised : elementLevels'[i] = elementLevels[i]
  <2>1. \/ UNCHANGED elementLevels
        \/ \E level : elementLevels' = [elementLevels EXCEPT ![loc[c].elem] = level]
    BY DEF LockForInsert, LockElement, LockGlobal, graph
  <2> QED
    BY <1>4, <2>1 DEF IInv, TypeOK
<1>6. LinksInTurn'
  BY <1>1, <1>2, <1>5, LinksUnchanged
<1>7. Allotted'
  <2>1. Linking(c) => Linking(c)'
    BY DEF LockForInsert, LockElement, LockGlobal, Linking
  <2> QED
    BY <1>1, <1>2, <1>3, <2>1, AllottedStays
<1>8. Home(c)' /\ GatheredOK(c)' /\ InsertOK(c)'
  BY <1>3 DEF Home, GatheredOK, InsertOK, UnlinkedBelow, SomethingFound, Midway, Hops, Unwritten
<1> QED
  BY <1>1, <1>2, <1>3, <1>6, <1>7, <1>8, TurnMoves DEF Unwritten

(* What has been inserted is in the graph, and an index with an entry      *)
(* point has it there, at the top.                                         *)
LEMMA InsertedIn ==
    ASSUME IInv, TInv PROVE Inserted \subseteq initialised
<1> SUFFICES ASSUME NEW d \in Calls, result[d] = "ok", ~loc[d].isUpdate
             PROVE  loc[d].elem \in initialised
  BY DEF Inserted
<1>1. /\ pc[d] = "done" /\ loc[d].elem # None /\ loc[d].elem \in Ids
      /\ loc[d].elem < curElementCount
  BY DEF IInv, CallsOK, CallOK, TypeOK, Locals
<1>2. ASSUME NEW b \in Calls, pc[b] \in Unwritten PROVE loc[b].elem # loc[d].elem
  BY <1>1, <1>2 DEF IInv, OwnElements, CallsOK, CallOK, Unwritten
<1> QED
  BY <1>1, <1>2 DEF TInv, Allotted

LEMMA EntryIn ==
    ASSUME IInv, TInv, NEW c \in Calls, Alone(c), pc[c] # "finish", enterpoint # None
    PROVE  /\ enterpoint \in Inserted /\ enterpoint \in initialised
           /\ elementLevels[enterpoint] = maxlevel /\ maxlevel \in Levels
<1>1. ~EntryProvisional
  BY DEF EntryProvisional, Alone, Busy
<1>2. enterpoint \in Inserted /\ elementLevels[enterpoint] = maxlevel
  BY <1>1 DEF IInv, EntryPointOnTop
<1> QED
  BY <1>2, InsertedIn DEF IInv, TypeOK

(* The call begins to search a layer. *)
LEMMA SearchTurns ==
    ASSUME NEW c \in Calls, NEW m \in Locals, NEW from, NEW layer \in Levels, deleted = {},
           pc'[c] = "search", loc'[c] = SearchFrom(m, from, layer),
           from \in Members(layer)', ~m.isUpdate => from # m.elem,
           m.elem \in initialised', m.level = elementLevels'[m.elem], layer <= m.level,
           m.maxlevelcopy \in Levels, m.ep \in Members(m.maxlevelcopy)',
           ~m.isUpdate => \A k \in Levels : k <= layer => Unlinked(m.elem, k)'
    PROVE  /\ Home(c)' /\ GatheredOK(c)' /\ InsertOK(c)'
           /\ loc'[c].elem = m.elem /\ loc'[c].isUpdate = m.isUpdate /\ loc'[c].selected = {}
<1>1. PICK n : n = SearchFrom(m, from, layer)
  OBVIOUS
<1>2. /\ n.elem = m.elem /\ n.isUpdate = m.isUpdate /\ n.level = m.level
      /\ n.maxlevelcopy = m.maxlevelcopy /\ n.ep = m.ep /\ n.selected = {}
      /\ n.layer = layer /\ n.obj = from /\ n.top = {from} /\ n.cand = {from}
  BY <1>1 DEF SearchFrom, Locals
<1>3. loc'[c] = n
  BY <1>1
<1>4. Home(c)'
  BY <1>2, <1>3 DEF Home, Members, Hops
<1>5. GatheredOK(c)'
  BY <1>2, <1>3 DEF GatheredOK, Open, Members
<1>6. InsertOK(c)'
  BY <1>2, <1>3 DEF InsertOK, UnlinkedBelow, SomethingFound
<1> QED
  BY <1>2, <1>3, <1>4, <1>5, <1>6

LEMMA ReadEntryTurns == ASSUME IInv, IInv', TInv, NEW c \in Calls, ReadEntry(c) PROVE TInv'
<1>1. PICK e, level, top, read :
        /\ e = loc[c].elem /\ level = loc[c].level /\ top = loc[c].maxlevelcopy
        /\ read = [loc[c] EXCEPT !.ep = enterpoint, !.obj = enterpoint]
  OBVIOUS
<1>2. /\ pc[c] = "readEntry" /\ loc[c] \in Locals /\ ~loc[c].isUpdate /\ result[c] = "none"
      /\ e \in Ids /\ e # None /\ e < curElementCount /\ level = elementLevels[e]
      /\ deleted = {} /\ e \notin loc[c].selected /\ level \in Levels
  BY <1>1 DEF ReadEntry, IInv, TypeOK, CallsOK, CallOK, Locals, LevelsDrawn, Linking, TInv,
              AllWell, Choosy
<1>3. /\ initialised' = initialised \cup {e} /\ deleted' = {}
      /\ links' = [links EXCEPT ![e] = [l \in Levels |-> {}]]
      /\ UNCHANGED <<curElementCount, elementLevels, result, entry>>
      /\ \/ enterpoint = None /\ Goto(c, "firstElement", read)
         \/ /\ enterpoint # None /\ level < top
            /\ Goto(c, "descend", [read EXCEPT !.layer = top])
         \/ /\ enterpoint # None /\ level >= top
            /\ Goto(c, "search", SearchFrom(read, enterpoint, top))
  BY <1>1, <1>2 DEF ReadEntry, store, entry
<1>4. Alone(c) /\ e \notin initialised
  BY <1>1, <1>2, BusyAlone DEF Busy, TInv, Allotted, Unwritten
<1>5. \A i \in initialised, l \in Levels : Proper(i, l)
  BY <1>2, <1>4, LinksProper
<1>6. \A i \in Ids, l \in Levels : links'[i][l] = links[i][l]
  <2>1. \A l \in Levels : links[e][l] = {}
    BY <1>2, <1>4 DEF TInv, LinksInTurn
  <2> QED
    BY <1>2, <1>3, <2>1, LinksType
<1>7. \A l \in Levels : Unlinked(e, l)'
  <2>1. initialised \subseteq Ids
    BY DEF IInv, TypeOK
  <2>2. \A i \in Ids, l \in Levels : e \notin links[i][l] /\ links[e][l] = {}
    BY <1>2, <1>4, <1>5, <2>1 DEF TInv, LinksInTurn, Proper, Members
  <2> QED
    BY <1>2, <1>6, <2>2 DEF Unlinked
<1>8. LinksInTurn'
  <2>1. \A l : Members(l) \subseteq Members(l)'
    BY <1>3 DEF Members
  <2>2. ASSUME NEW i \in initialised, NEW l \in Levels PROVE Proper(i, l)'
    <3>1. Proper(i, l) /\ i \in Ids
      BY <1>5 DEF IInv, TypeOK
    <3> QED
      BY <1>3, <1>6, <2>1, <3>1 DEF Proper, MaxLinks
  <2>3. ASSUME NEW l \in Levels PROVE Proper(e, l)'
    <3>1. links'[e][l] = {} /\ Cardinality({}) <= MaxLinks(l)
      BY <1>7, FS_EmptySet, SizesAssumption DEF Unlinked, MaxLinks
    <3> QED
      BY <3>1 DEF Proper, MaxLinks
  <2>4. \A i \in Ids \ initialised', l \in Levels : links'[i][l] = {}
    BY <1>3, <1>6 DEF TInv, LinksInTurn
  <2> QED
    BY <1>3, <2>2, <2>3, <2>4 DEF LinksInTurn
<1>9. read \in Locals /\ read.elem = e /\ ~read.isUpdate /\ read.level = level
      /\ read.maxlevelcopy = top /\ read.ep = enterpoint /\ read.obj = enterpoint
      /\ read.selected = loc[c].selected
  <2>1. enterpoint \in Ids \cup {None}
    BY DEF IInv, TypeOK
  <2> QED
    BY <1>1, <1>2, <2>1 DEF Locals
<1>10. /\ Still(c) /\ pc'[c] \in {"firstElement", "descend", "search"}
       /\ loc'[c].elem = e /\ ~loc'[c].isUpdate /\ loc'[c].maxlevelcopy = top
       /\ loc'[c].selected \in {{}, loc[c].selected}
  <2>1. CASE Goto(c, "firstElement", read)
    BY <1>3, <1>9, <2>1, GotoAt
  <2>2. CASE Goto(c, "descend", [read EXCEPT !.layer = top])
    <3>1. Still(c) /\ pc'[c] = "descend" /\ loc'[c] = [read EXCEPT !.layer = top]
      BY <1>3, <2>2, GotoAt
    <3> QED
      BY <1>9, <3>1 DEF Locals
  <2>3. CASE Goto(c, "search", SearchFrom(read, enterpoint, top))
    <3>1. Still(c) /\ pc'[c] = "search" /\ loc'[c] = SearchFrom(read, enterpoint, top)
      BY <1>3, <2>3, GotoAt
    <3> QED
      BY <1>9, <3>1 DEF Locals, SearchFrom
  <2> QED
    BY <1>3, <2>1, <2>2, <2>3
<1>11. Allotted'
  <2>1. \A d \in Calls : pc'[d] \notin Unwritten
    BY <1>4, <1>10 DEF Unwritten, Alone, Busy, Still
  <2>2. initialised = {i \in Ids : i < curElementCount /\ i # e}
    BY <1>1, <1>2, <1>4 DEF TInv, Allotted, Unwritten, Alone, Busy
  <2>3. Inserted \subseteq Inserted' /\ Linking(c)' /\ loc'[c].elem = e
    BY <1>2, <1>3, <1>10 DEF Inserted, Still, Linking
  <2>4. \A d \in Calls : Linking(d) => d = c
    BY <1>4 DEF Linking, Alone, Busy
  <2>5. ASSUME NEW i \in initialised'
        PROVE  i \in Inserted' \/ \E d \in Calls : Linking(d)' /\ loc'[d].elem = i
    <3>1. CASE i = e
      BY <2>3, <3>1
    <3>2. CASE i \in initialised
      BY <1>1, <2>3, <2>4, <3>2 DEF TInv, Allotted
    <3> QED
      BY <1>3, <3>1, <3>2
  <2> QED
    BY <1>2, <1>3, <2>1, <2>2, <2>5 DEF Allotted
<1>12. Home(c)' /\ GatheredOK(c)' /\ InsertOK(c)'
  <2>1. CASE pc'[c] = "firstElement"
    BY <2>1 DEF Home, GatheredOK, InsertOK, UnlinkedBelow, SomethingFound, Midway, Hops
  <2>2. CASE pc'[c] # "firstElement"
    <3>1. enterpoint # None
      <4>1. ASSUME Goto(c, "firstElement", read) PROVE FALSE
        BY <1>3, <2>2, <4>1, GotoAt
      <4> QED
        BY <1>3, <4>1
    <3>2. enterpoint \in initialised /\ elementLevels[enterpoint] = maxlevel /\ maxlevel \in Levels
      BY <1>2, <1>4, <3>1, EntryIn
    <3>3. top \in Levels /\ top <= maxlevel
      <4>1. top # None /\ top \in Levels \cup {None}
        BY <1>1, <1>2, <1>10, <2>2 DEF IInv, CallsOK, CallOK, Locals
      <4> QED
        BY <1>1, <1>2, <4>1 DEF IInv, GlobalGuards, Linking
    <3>4. enterpoint \in Members(top)' /\ enterpoint # e /\ e \in initialised'
          /\ level = elementLevels'[e]
      BY <1>2, <1>3, <1>4, <3>2, <3>3 DEF Members
    <3>5. CASE level < top /\ Goto(c, "descend", [read EXCEPT !.layer = top])
      <4>1. PICK n : n = [read EXCEPT !.layer = top]
        OBVIOUS
      <4>2. /\ n.elem = e /\ n.obj = enterpoint /\ n.layer = top /\ n.maxlevelcopy = top
            /\ n.ep = enterpoint /\ n.level = level /\ ~n.isUpdate
        BY <1>9, <4>1 DEF Locals
      <4>3. pc'[c] = "descend" /\ loc'[c] = n
        BY <1>3, <3>5, <4>1, GotoAt
      <4>4. Home(c)'
        BY <3>3, <3>4, <4>2, <4>3 DEF Home, Midway, Hops, Members
      <4>5. GatheredOK(c)'
        BY <3>4, <4>2, <4>3 DEF GatheredOK, Open, Members
      <4>6. InsertOK(c)'
        BY <1>7, <4>2, <4>3 DEF InsertOK, UnlinkedBelow, SomethingFound
      <4> QED
        BY <4>4, <4>5, <4>6
    <3>6. CASE level >= top /\ Goto(c, "search", SearchFrom(read, enterpoint, top))
      <4>1. pc'[c] = "search" /\ loc'[c] = SearchFrom(read, enterpoint, top)
        BY <1>3, <3>6, GotoAt
      <4>2. top <= level
        BY <1>2, <3>3, <3>6 DEF Levels
      <4> QED
        BY <1>2, <1>7, <1>9, <3>3, <3>4, <4>1, <4>2, SearchTurns
    <3> QED
      BY <1>3, <3>1, <3>5, <3>6
  <2> QED
    BY <2>1, <2>2
<1> QED
  BY <1>1, <1>2, <1>3, <1>4, <1>8, <1>10, <1>11, <1>12, TurnMoves

LEMMA FirstElementTurns ==
    ASSUME IInv, TInv, NEW c \in Calls, FirstElement(c) PROVE TInv'
<1>1. /\ pc[c] = "firstElement" /\ ~loc[c].isUpdate /\ result[c] = "none" /\ loc[c].elem # None
      /\ loc[c].maxlevelcopy = None /\ deleted = {} /\ loc[c].elem \notin loc[c].selected
      /\ UNCHANGED <<curElementCount, initialised, elementLevels, links, deleted>>
  BY DEF FirstElement, IInv, CallsOK, CallOK, TInv, AllWell, Choosy, store, graph
<1>2. Alone(c) /\ Still(c) /\ pc'[c] = "finish" /\ loc'[c] = loc[c]
  BY <1>1, BusyAlone, GotoAt DEF Busy, FirstElement
<1>3. Allotted' /\ LinksInTurn'
  BY <1>1, <1>2, AllottedStays, LinksUnchanged DEF Unwritten, Linking
<1>4. Home(c)' /\ GatheredOK(c)' /\ InsertOK(c)'
  BY <1>1, <1>2 DEF Home, GatheredOK, InsertOK, UnlinkedBelow, SomethingFound, Midway, Hops
<1> QED
  BY <1>1, <1>2, <1>3, <1>4, TurnMoves

LEMMA FinishTurns == ASSUME IInv, TInv, NEW c \in Calls, Finish(c) PROVE TInv'
<1>1. /\ pc[c] = "finish" /\ deleted = {} /\ Return(c, "ok") /\ result[c] = "none"
      /\ UNCHANGED <<curElementCount, initialised, elementLevels, links, deleted>>
  BY DEF Finish, TInv, AllWell, store, graph, IInv, CallsOK, CallOK
<1>2. /\ Still(c) /\ pc'[c] = "done" /\ result'[c] = "ok" /\ loc'[c].elem = loc[c].elem
      /\ loc'[c].isUpdate = loc[c].isUpdate
  BY <1>1, ReturnAt
<1>3. Alone(c) /\ loc'[c].selected = {}
  BY <1>1, BusyAlone DEF Busy, Return, NoLocals, IInv, TypeOK
<1>4. Allotted'
  <2>1. \A d \in Calls : pc[d] \notin Unwritten /\ pc'[d] \notin Unwritten
    BY <1>1, <1>2, <1>3 DEF Unwritten, Alone, Busy, Still
  <2>2. Inserted \subseteq Inserted'
    BY <1>1, <1>2 DEF Inserted, Still
  <2>3. \A d \in Calls : Linking(d) => loc[d].elem \in Inserted'
    BY <1>2, <1>3 DEF Linking, Alone, Busy, Inserted
  <2> QED
    BY <1>1, <2>1, <2>2, <2>3 DEF TInv, Allotted
<1>5. LinksInTurn'
  BY <1>1, <1>3, LinksUnchanged
<1>6. Home(c)' /\ GatheredOK(c)' /\ InsertOK(c)'
  BY <1>2 DEF Home, GatheredOK, InsertOK, UnlinkedBelow, SomethingFound, Midway, Hops
<1> QED
  BY <1>1, <1>2, <1>3, <1>4, <1>5, <1>6, TurnMoves

LEMMA LockForUpdateTurns ==
    ASSUME IInv, TInv, NEW c \in Calls, LockForUpdate(c) PROVE TInv'
<1>1. /\ pc[c] = "lockForUpdate" /\ loc[c].isUpdate /\ result[c] = "none" /\ loc[c] \in Locals
      /\ loc[c].elem # None /\ deleted = {} /\ loc[c].elem \notin loc[c].selected
      /\ loc[c].elem \in initialised
      /\ UNCHANGED <<curElementCount, initialised, elementLevels, links, deleted, maxlevel, result>>
  BY DEF LockForUpdate, IInv, TypeOK, CallsOK, CallOK, TInv, AllWell, Choosy, store, entry, Home
<1>2. PICK m : m = [loc[c] EXCEPT !.maxlevelcopy = maxlevel] /\ Goto(c, "readEntryUpdate", m)
  BY DEF LockForUpdate
<1>3. /\ m.elem = loc[c].elem /\ m.isUpdate /\ m.selected = loc[c].selected
      /\ m.maxlevelcopy = maxlevel
  BY <1>1, <1>2 DEF Locals
<1>4. Alone(c) /\ Still(c) /\ pc'[c] = "readEntryUpdate" /\ loc'[c] = m
  BY <1>1, <1>2, BusyAlone, GotoAt DEF Busy
<1>5. Allotted' /\ LinksInTurn'
  BY <1>1, <1>3, <1>4, AllottedStays, LinksUnchanged DEF Unwritten, Linking
<1>6. Home(c)' /\ GatheredOK(c)' /\ InsertOK(c)'
  BY <1>1, <1>3, <1>4
     DEF Home, GatheredOK, InsertOK, UnlinkedBelow, SomethingFound, Midway, Hops
<1> QED
  BY <1>1, <1>3, <1>4, <1>5, <1>6, TurnMoves

(* An element that is updated lies at the top level or below. *)
LEMMA UpdatedBelowTop ==
    ASSUME IInv, TInv, NEW c \in Calls, Alone(c), loc[c].isUpdate, loc[c].elem \in initialised
    PROVE  /\ enterpoint \in initialised /\ elementLevels[enterpoint] = maxlevel
           /\ maxlevel \in Levels /\ elementLevels[loc[c].elem] <= maxlevel
<1>1. \A d \in Calls : ~Linking(d)
  BY DEF Alone, Busy, Linking
<1>2. loc[c].elem \in Inserted /\ loc[c].elem \in Ids
  BY <1>1 DEF TInv, Allotted, IInv, TypeOK
<1>3. ~EntryProvisional
  BY DEF EntryProvisional, Alone, Busy
<1>4. elementLevels[loc[c].elem] <= maxlevel
  BY <1>2, <1>3 DEF IInv, EntryPointOnTop
<1>5. elementLevels[loc[c].elem] \in Levels /\ maxlevel \in Levels \cup {None}
  BY <1>2 DEF IInv, TypeOK
<1>6. maxlevel # None
  BY <1>4, <1>5 DEF Levels, None
<1>7. enterpoint # None /\ enterpoint \in Inserted /\ elementLevels[enterpoint] = maxlevel
  BY <1>3, <1>6 DEF IInv, EntryPointOnTop
<1> QED
  BY <1>4, <1>5, <1>6, <1>7, InsertedIn

LEMMA ReadEntryUpdateTurns ==
    ASSUME IInv, TInv, NEW c \in Calls, ReadEntryUpdate(c) PROVE TInv'
<1>1. /\ pc[c] = "readEntryUpdate" /\ loc[c].isUpdate /\ result[c] = "none" /\ loc[c] \in Locals
      /\ loc[c].elem # None /\ deleted = {} /\ loc[c].elem \notin loc[c].selected
      /\ loc[c].elem \in initialised /\ loc[c].maxlevelcopy = maxlevel
      /\ UNCHANGED <<curElementCount, initialised, elementLevels, links, deleted, maxlevel, result>>
  BY DEF ReadEntryUpdate, IInv, TypeOK, CallsOK, CallOK, TInv, AllWell, Choosy, store, graph,
         entry, Home
<1>2. PICK m : /\ m = [loc[c] EXCEPT !.ep = enterpoint, !.layer = 0,
                                     !.level = elementLevels[loc[c].elem]]
               /\ Goto(c, "finish", m) \/ Goto(c, "oneHop", m)
  BY DEF ReadEntryUpdate
<1>3. /\ m.elem = loc[c].elem /\ m.isUpdate /\ m.selected = loc[c].selected
      /\ m.maxlevelcopy = maxlevel /\ m.ep = enterpoint /\ m.layer = 0
      /\ m.level = elementLevels[loc[c].elem]
  BY <1>1, <1>2 DEF Locals
<1>4. Alone(c) /\ Still(c) /\ pc'[c] \in {"finish", "oneHop"} /\ loc'[c] = m
  BY <1>1, <1>2, BusyAlone, GotoAt DEF Busy
<1>5. Allotted' /\ LinksInTurn'
  BY <1>1, <1>3, <1>4, AllottedStays, LinksUnchanged DEF Unwritten, Linking
<1>6. /\ enterpoint \in initialised /\ elementLevels[enterpoint] = maxlevel
      /\ maxlevel \in Levels /\ 0 <= elementLevels[loc[c].elem]
  BY <1>1, <1>4, UpdatedBelowTop DEF IInv, TypeOK, Levels
<1>7. Home(c)'
  BY <1>1, <1>3, <1>4, <1>6 DEF Home, Midway, Hops, Members, Levels
<1>8. GatheredOK(c)' /\ InsertOK(c)'
  BY <1>3, <1>4 DEF GatheredOK, InsertOK
<1> QED
  BY <1>1, <1>3, <1>4, <1>5, <1>7, <1>8, TurnMoves

------------------------------------------------------------------------------
(* Midway.                                                                 *)

(* What a call in the middle of its work knows. *)
LEMMA MidwayKnows ==
    ASSUME IInv, TInv, NEW c \in Calls, pc[c] \in Midway
    PROVE  /\ loc[c] \in Locals /\ loc[c].layer \in Levels /\ loc[c].level \in Levels
           /\ loc[c].elem \in Ids /\ loc[c].elem \in initialised
           /\ loc[c].level = elementLevels[loc[c].elem]
           /\ loc[c].maxlevelcopy \in Levels /\ loc[c].ep \in Members(loc[c].maxlevelcopy)
           /\ deleted = {} /\ Busy(c) /\ loc[c].elem \notin loc[c].selected
           /\ Home(c) /\ GatheredOK(c) /\ InsertOK(c) /\ Point(c) \in Points
<1>1. loc[c] \in Locals /\ loc[c].elem \in Ids /\ Point(c) \in Points
  BY LocalsType, WorkloadType
<1>2. Home(c) /\ GatheredOK(c) /\ InsertOK(c) /\ deleted = {} /\ Busy(c)
      /\ loc[c].elem \notin loc[c].selected
  BY DEF TInv, AllWell, Busy, Midway, Choosy
<1> QED
  BY <1>1, <1>2 DEF Home, Locals

(* It only reads. *)
LEMMA ReadTurn ==
    ASSUME IInv, IInv', TInv, NEW c \in Calls, pc[c] \in Midway \ {"writeOwnList"},
           UNCHANGED <<store, graph, entry, locks, result>>,
           NEW p \in Midway \cup {"finish"}, NEW m, Goto(c, p, m), m.elem = loc[c].elem,
           m.isUpdate = loc[c].isUpdate, m.elem \notin m.selected,
           Home(c)', GatheredOK(c)', InsertOK(c)'
    PROVE  TInv'
<1>1. Still(c) /\ pc'[c] = p /\ loc'[c] = m
  BY GotoAt
<1>2. UNCHANGED <<curElementCount, initialised, elementLevels, deleted, links>>
  BY DEF store, graph
<1>3. LinksInTurn'
  BY <1>1, <1>2, ReadsProper DEF Busy, Midway
<1> QED
  BY <1>1, <1>2, <1>3, TurnGoes

(* The layer is done: the call searches the one below, or is finished. *)
LEMMA NextLayerTurns ==
    ASSUME IInv, IInv', TInv, NEW c \in Calls, pc[c] \in {"search", "connect"}, NEW from,
           from \in Members(loc[c].layer) \ Open(c), NextLayer(c, from),
           UNCHANGED <<curElementCount, initialised, elementLevels, deleted, result>>,
           LinksInTurn', NEW e, e = loc[c].elem,
           ~loc[c].isUpdate =>
              /\ \A k \in Levels : k < loc[c].layer => Unlinked(e, k)'
              /\ loc[c].layer = 0 => links'[e][0] # {}
    PROVE  TInv'
<1>1. PICK m, layer : m = loc[c] /\ layer = m.layer /\ e = m.elem
  OBVIOUS
<1>2. /\ m \in Locals /\ layer \in Levels /\ m.level \in Levels /\ e \in Ids
      /\ e \in initialised /\ m.level = elementLevels[e] /\ m.maxlevelcopy \in Levels
      /\ m.ep \in Members(m.maxlevelcopy) /\ deleted = {} /\ e \notin m.selected
      /\ layer <= m.level /\ pc[c] \in Midway
  BY <1>1, MidwayKnows DEF Midway, Home
<1>3. CASE layer = 0
  <2>1. Still(c) /\ pc'[c] = "finish" /\ loc'[c] = m
    BY <1>1, <1>3, GotoAt DEF NextLayer
  <2>2. Home(c)' /\ GatheredOK(c)'
    BY <2>1 DEF Home, GatheredOK, Midway, Hops
  <2>3. InsertOK(c)'
    BY <1>1, <1>3, <2>1 DEF InsertOK, UnlinkedBelow, SomethingFound
  <2> QED
    BY <1>1, <1>2, <2>1, <2>2, <2>3, TurnGoes
<1>4. CASE layer # 0
  <2>1. Goto(c, "search", SearchFrom(m, from, Below(layer)))
    BY <1>1, <1>4 DEF NextLayer
  <2>2. Still(c) /\ pc'[c] = "search" /\ loc'[c] = SearchFrom(m, from, Below(layer))
    BY <2>1, GotoAt
  <2>3. Below(layer) \in Levels /\ Below(layer) <= layer /\ Below(layer) <= m.level
        /\ \A k \in Levels : k <= Below(layer) => k < layer
    BY <1>2, <1>4, SizesAssumption DEF Below, Levels
  <2>4. \A l : Members(l)' = Members(l)
    BY DEF Members
  <2>5. from \in Members(Below(layer))'
    BY <1>1, <1>2, <2>3, <2>4, MembersBelow DEF IInv
  <2>6. ~m.isUpdate => from # e
    BY <1>1 DEF Open
  <2>7. ~m.isUpdate => \A k \in Levels : k <= Below(layer) => Unlinked(e, k)'
    BY <1>1, <2>3
  <2>8. /\ Home(c)' /\ GatheredOK(c)' /\ InsertOK(c)'
        /\ loc'[c].elem = e /\ loc'[c].isUpdate = m.isUpdate /\ loc'[c].selected = {}
    BY <1>1, <1>2, <2>2, <2>3, <2>4, <2>5, <2>6, <2>7, SearchTurns
  <2> QED
    BY <1>1, <1>2, <2>2, <2>8, TurnGoes DEF Midway
<1> QED
  BY <1>3, <1>4

LEMMA DescendTurns == ASSUME IInv, IInv', TInv, NEW c \in Calls, Descend(c) PROVE TInv'
<1>1. PICK m, obj, layer, e :
        m = loc[c] /\ obj = m.obj /\ layer = m.layer /\ e = m.elem
  OBVIOUS
<1>2. /\ pc[c] = "descend" /\ pc[c] \in Midway /\ m \in Locals /\ layer \in Levels
      /\ m.level \in Levels /\ e \in Ids /\ e \in initialised /\ m.level = elementLevels[e]
      /\ m.maxlevelcopy \in Levels /\ m.ep \in Members(m.maxlevelcopy) /\ deleted = {}
      /\ Busy(c) /\ e \notin m.selected /\ layer > m.level
  <2>1. pc[c] = "descend" /\ pc[c] \in Midway
    BY DEF Descend, Midway
  <2> QED
    BY <1>1, <2>1, MidwayKnows DEF IInv, CallsOK, CallOK
<1>3. /\ obj \in Members(layer) \ Open(c)
      /\ ~m.isUpdate => \A l \in Levels : l <= layer => Unlinked(e, l)
  BY <1>1, <1>2, MidwayKnows DEF GatheredOK, InsertOK, UnlinkedBelow
<1>4. links[obj][layer] \subseteq Members(layer) \ Open(c)
  <2>1. obj \in initialised /\ initialised \subseteq Ids
    BY <1>3 DEF Members, IInv, TypeOK
  <2>2. links[obj][layer] \subseteq Members(layer)
    BY <1>2, <2>1, ListsProper DEF Proper
  <2>3. ~m.isUpdate => e \notin links[obj][layer]
    BY <1>2, <1>3, <2>1 DEF Unlinked, Levels
  <2> QED
    BY <1>1, <2>2, <2>3 DEF Open
<1>5. PICK best \in {obj} \cup links[obj][layer] :
        /\ \/ Goto(c, "descend", [loc[c] EXCEPT !.obj = best])
           \/ /\ Below(layer) > m.level
              /\ Goto(c, "descend", [loc[c] EXCEPT !.layer = Below(layer)])
           \/ /\ Goto(c, "search", SearchFrom(m, obj, m.level))
        /\ UNCHANGED <<store, graph, entry, locks, result>>
  <2>1. HasList(obj, layer)
    BY <1>3 DEF Members, HasList
  <2> QED
    BY <1>1, <2>1 DEF Descend
<1>6. (\A l : Members(l)' = Members(l)) /\ \A i, l : Unlinked(i, l)' = Unlinked(i, l)
  BY <1>5 DEF Members, Unlinked, graph
<1>7. CASE Goto(c, "descend", [loc[c] EXCEPT !.obj = best])
  <2>1. PICK n : n = [loc[c] EXCEPT !.obj = best]
    OBVIOUS
  <2>2. /\ n.obj = best /\ n.elem = e /\ n.layer = layer /\ n.maxlevelcopy = m.maxlevelcopy
        /\ n.ep = m.ep /\ n.isUpdate = m.isUpdate /\ n.level = m.level /\ n.selected = m.selected
    BY <1>1, <1>2, <2>1 DEF Locals
  <2>3. pc'[c] = "descend" /\ loc'[c] = n
    BY <1>5, <1>7, <2>1, GotoAt
  <2>4. best \in Members(layer) \ Open(c)
    BY <1>3, <1>4
  <2>5. Home(c)'
    BY <1>2, <1>5, <1>6, <2>2, <2>3 DEF Home, Hops, graph
  <2>6. GatheredOK(c)'
    BY <1>1, <1>6, <2>2, <2>3, <2>4 DEF GatheredOK, Open
  <2>7. InsertOK(c)'
    BY <1>3, <1>6, <2>2, <2>3 DEF InsertOK, UnlinkedBelow, SomethingFound
  <2> QED
    BY <1>1, <1>2, <1>5, <1>7, <2>1, <2>2, <2>5, <2>6, <2>7, ReadTurn
<1>8. CASE Below(layer) > m.level /\ Goto(c, "descend", [loc[c] EXCEPT !.layer = Below(layer)])
  <2>1. PICK n : n = [loc[c] EXCEPT !.layer = Below(layer)]
    OBVIOUS
  <2>2. /\ n.obj = obj /\ n.elem = e /\ n.layer = Below(layer) /\ n.maxlevelcopy = m.maxlevelcopy
        /\ n.ep = m.ep /\ n.isUpdate = m.isUpdate /\ n.level = m.level /\ n.selected = m.selected
    BY <1>1, <1>2, <2>1 DEF Locals
  <2>3. pc'[c] = "descend" /\ loc'[c] = n
    BY <1>5, <1>8, <2>1, GotoAt
  <2>4. Below(layer) \in Levels /\ Below(layer) <= layer
        /\ \A l \in Levels : l <= Below(layer) => l <= layer
    BY <1>2, <1>8, SizesAssumption DEF Levels, Below
  <2>5. obj \in Members(Below(layer)) \ Open(c)
    BY <1>2, <1>3, <2>4, MembersBelow DEF IInv
  <2>6. Home(c)'
    BY <1>2, <1>5, <1>6, <2>2, <2>3 DEF Home, Hops, graph
  <2>7. GatheredOK(c)'
    BY <1>1, <1>6, <2>2, <2>3, <2>5 DEF GatheredOK, Open
  <2>8. InsertOK(c)'
    BY <1>3, <1>6, <2>2, <2>3, <2>4 DEF InsertOK, UnlinkedBelow, SomethingFound
  <2> QED
    BY <1>1, <1>2, <1>5, <1>8, <2>1, <2>2, <2>6, <2>7, <2>8, ReadTurn
<1>9. CASE Goto(c, "search", SearchFrom(m, obj, m.level))
  <2>1. pc'[c] = "search" /\ loc'[c] = SearchFrom(m, obj, m.level)
    BY <1>5, <1>9, GotoAt
  <2>2. m.level <= layer /\ m.level <= m.level /\ \A l \in Levels : l <= m.level => l <= layer
    BY <1>2 DEF Levels
  <2>3. obj \in Members(m.level)' /\ (~m.isUpdate => obj # e)
    BY <1>1, <1>2, <1>3, <1>6, <2>2, MembersBelow DEF IInv, Open
  <2>4. e \in initialised' /\ m.level = elementLevels'[e] /\ m.ep \in Members(m.maxlevelcopy)'
    BY <1>2, <1>5, <1>6 DEF graph
  <2>5. ~m.isUpdate => \A k \in Levels : k <= m.level => Unlinked(e, k)'
    BY <1>3, <1>6, <2>2
  <2>6. /\ Home(c)' /\ GatheredOK(c)' /\ InsertOK(c)'
        /\ loc'[c].elem = e /\ loc'[c].isUpdate = m.isUpdate /\ loc'[c].selected = {}
    BY <1>1, <1>2, <2>1, <2>2, <2>3, <2>4, <2>5, SearchTurns
  <2> QED
    BY <1>1, <1>2, <1>5, <1>9, <2>1, <2>6, ReadTurn DEF Midway
<1> QED
  BY <1>5, <1>7, <1>8, <1>9

LEMMA ExpandTurns == ASSUME IInv, IInv', TInv, NEW c \in Calls, Expand(c) PROVE TInv'
<1>1. PICK m, layer, e : m = loc[c] /\ layer = m.layer /\ e = m.elem
  OBVIOUS
<1>2. /\ pc[c] = "search" /\ pc[c] \in Midway /\ m \in Locals /\ layer \in Levels
      /\ e \in Ids /\ e \in initialised /\ m.level = elementLevels[e]
      /\ m.maxlevelcopy \in Levels /\ m.ep \in Members(m.maxlevelcopy) /\ deleted = {}
      /\ Busy(c) /\ e \notin m.selected /\ layer <= m.level /\ Point(c) \in Points
  <2>1. pc[c] = "search" /\ pc[c] \in Midway
    BY DEF Expand, Midway
  <2> QED
    BY <1>1, <2>1, MidwayKnows DEF Home
<1>3. /\ m.top \cup m.cand \subseteq Members(layer) \ Open(c) /\ m.obj \in Members(layer) \ Open(c)
      /\ ~m.isUpdate => m.top # {} /\ \A l \in Levels : l <= layer => Unlinked(e, l)
  BY <1>1, <1>2, MidwayKnows DEF GatheredOK, InsertOK, UnlinkedBelow, SomethingFound
<1>4. \A node \in m.cand : HasList(node, layer) /\ node \in initialised
  BY <1>3 DEF Members, HasList
<1>5. PICK node, new, top, cand, n :
        /\ node \in m.cand
        /\ new = links[node][layer] \ m.visited
        /\ top = Nearest(Point(c), m.top \cup (new \ deleted), EfConstruction)
        /\ cand \subseteq m.cand \cup new
        /\ n = [m EXCEPT !.top = top, !.cand = cand, !.visited = @ \cup new]
        /\ Goto(c, "search", n)
        /\ UNCHANGED <<store, graph, entry, locks, result>>
  <2>1. PICK node \in m.cand :
          LET new == links[node][layer] \ m.visited
              top == Nearest(Point(c), m.top \cup (new \ deleted), EfConstruction)
              near(x) == \/ Cardinality(top) < EfConstruction
                         \/ \E r \in top : ~Closer(Point(c), r, x)
          IN  /\ Goto(c, "search",
                     [m EXCEPT !.top = top,
                               !.cand = {x \in (@ \ {node}) \cup new : near(x)},
                               !.visited = @ \cup new])
              /\ UNCHANGED <<store, graph, entry, locks, result>>
    BY <1>1, <1>4 DEF Expand
  <2>2. PICK new, top, cand :
          /\ new = links[node][layer] \ m.visited
          /\ top = Nearest(Point(c), m.top \cup (new \ deleted), EfConstruction)
          /\ cand = {x \in (m.cand \ {node}) \cup new :
                        \/ Cardinality(top) < EfConstruction
                        \/ \E r \in top : ~Closer(Point(c), r, x)}
    OBVIOUS
  <2>3. Goto(c, "search", [m EXCEPT !.top = top, !.cand = cand, !.visited = @ \cup new])
        /\ UNCHANGED <<store, graph, entry, locks, result>>
    BY <2>1, <2>2
  <2>4. cand \subseteq m.cand \cup new
    BY <2>2
  <2> QED
    BY <2>2, <2>3, <2>4
<1>6. new \subseteq Members(layer) \ Open(c)
  <2>1. node \in initialised /\ node \in Ids
    BY <1>4, <1>5 DEF IInv, TypeOK
  <2>2. links[node][layer] \subseteq Members(layer)
    BY <1>2, <2>1, ListsProper DEF Proper
  <2>3. ~m.isUpdate => e \notin links[node][layer]
    BY <1>2, <1>3, <2>1 DEF Unlinked, Levels
  <2> QED
    BY <1>1, <1>5, <2>2, <2>3 DEF Open
<1>7. top \cup cand \subseteq Members(layer) \ Open(c)
  <2>1. top \subseteq m.top \cup new
    BY <1>5, NearestSubset
  <2> QED
    BY <1>3, <1>5, <1>6, <2>1
<1>8. ~m.isUpdate => top # {}
  <2>1. m.top \cup (new \ deleted) \in SUBSET Ids
    BY <1>2, <1>6 DEF Locals, Members, IInv, TypeOK
  <2> QED
    BY <1>2, <1>3, <1>5, <2>1, NearestSome, SizesAssumption DEF IInv
<1>9. /\ n.top = top /\ n.cand = cand /\ n.elem = e /\ n.layer = layer /\ n.level = m.level
      /\ n.maxlevelcopy = m.maxlevelcopy /\ n.ep = m.ep /\ n.isUpdate = m.isUpdate
      /\ n.obj = m.obj /\ n.selected = m.selected
  BY <1>1, <1>2, <1>5 DEF Locals
<1>10. pc'[c] = "search" /\ loc'[c] = n
  BY <1>5, GotoAt
<1>11. /\ \A l : Members(l)' = Members(l)
       /\ \A i, l : Unlinked(i, l)' = Unlinked(i, l)
       /\ initialised' = initialised /\ elementLevels' = elementLevels
  BY <1>5 DEF Members, Unlinked, graph
<1>12. Home(c)'
  BY <1>2, <1>9, <1>10, <1>11 DEF Home, Hops
<1>13. GatheredOK(c)'
  BY <1>1, <1>3, <1>7, <1>9, <1>10, <1>11 DEF GatheredOK, Open
<1>14. InsertOK(c)'
  BY <1>3, <1>8, <1>9, <1>10, <1>11 DEF InsertOK, UnlinkedBelow, SomethingFound
<1> QED
  BY <1>1, <1>2, <1>5, <1>9, <1>12, <1>13, <1>14, ReadTurn

LEMMA SelectNeighborsTurns ==
    ASSUME IInv, IInv', TInv, NEW c \in Calls, SelectNeighbors(c) PROVE TInv'
<1>1. PICK m, layer, e : m = loc[c] /\ layer = m.layer /\ e = m.elem
  OBVIOUS
<1>2. /\ pc[c] = "search" /\ pc[c] \in Midway /\ m \in Locals /\ layer \in Levels
      /\ e \in Ids /\ e \in initialised /\ m.level = elementLevels[e]
      /\ m.maxlevelcopy \in Levels /\ m.ep \in Members(m.maxlevelcopy) /\ deleted = {}
      /\ Busy(c) /\ e \notin m.selected /\ layer <= m.level /\ Point(c) \in Points
  <2>1. pc[c] = "search" /\ pc[c] \in Midway
    BY DEF SelectNeighbors, Midway
  <2> QED
    BY <1>1, <2>1, MidwayKnows DEF Home
<1>3. /\ m.top \subseteq Members(layer) \ Open(c) /\ m.obj \in Members(layer) \ Open(c)
      /\ ~m.isUpdate => m.top # {} /\ \A l \in Levels : l <= layer => Unlinked(e, l)
  BY <1>1, <1>2, MidwayKnows DEF GatheredOK, InsertOK, UnlinkedBelow, SomethingFound
<1>4. /\ Candidates(c) = m.top \ {e} /\ (~m.isUpdate => Candidates(c) # {})
      /\ Candidates(c) \subseteq Members(layer) \ {e} /\ Candidates(c) \in SUBSET Ids
  <2>1. Candidates(c) = IF m.isUpdate THEN m.top \ {e} ELSE m.top
    BY <1>1, <1>2 DEF Candidates
  <2> QED
    BY <1>1, <1>2, <1>3, <2>1 DEF Open, Locals
<1>5. PICK chosen : chosen = Heuristic(Point(c), Candidates(c), M)
  OBVIOUS
<1>6. /\ chosen \subseteq Members(layer) \ {e} /\ Cardinality(chosen) <= M
      /\ ~m.isUpdate => chosen # {}
  BY <1>2, <1>4, <1>5, HeuristicSubset, HeuristicBounded, HeuristicSome, SizesAssumption DEF IInv
<1>7. UNCHANGED <<store, graph, entry, locks, result>>
      /\ \/ m.isUpdate /\ NextLayer(c, m.obj)
         \/ \E next \in chosen :
              Goto(c, IF m.isUpdate THEN "tearOwnList" ELSE "writeOwnList",
                   [m EXCEPT !.selected = chosen, !.next = next,
                             !.top = {}, !.cand = {}, !.visited = {}])
  BY <1>1, <1>5, <1>6 DEF SelectNeighbors
<1>8. /\ \A l : Members(l)' = Members(l)
      /\ \A i, l : Unlinked(i, l)' = Unlinked(i, l)
      /\ UNCHANGED <<curElementCount, initialised, elementLevels, deleted, links, result>>
  BY <1>7 DEF Members, Unlinked, graph, store
<1>9. CASE m.isUpdate /\ NextLayer(c, m.obj)
  <2>1. Still(c)
    <3>1. \E p, k : Goto(c, p, k)
      BY <1>9 DEF NextLayer
    <3> QED
      BY <1>8, <3>1, GotoAt
  <2>2. LinksInTurn'
    BY <1>2, <1>8, <2>1, ReadsProper
  <2> QED
    BY <1>1, <1>2, <1>3, <1>8, <1>9, <2>2, NextLayerTurns
<1>10. ASSUME NEW next \in chosen, NEW p, p = (IF m.isUpdate THEN "tearOwnList" ELSE "writeOwnList"),
              Goto(c, p, [m EXCEPT !.selected = chosen, !.next = next,
                                   !.top = {}, !.cand = {}, !.visited = {}])
       PROVE  TInv'
  <2>1. PICK n : n = [m EXCEPT !.selected = chosen, !.next = next, !.top = {}, !.cand = {},
                               !.visited = {}]
    OBVIOUS
  <2>2. /\ n.selected = chosen /\ n.next = next /\ n.elem = e /\ n.layer = layer
        /\ n.level = m.level /\ n.maxlevelcopy = m.maxlevelcopy /\ n.ep = m.ep
        /\ n.isUpdate = m.isUpdate
    BY <1>1, <1>2, <2>1 DEF Locals
  <2>3. pc'[c] = p /\ loc'[c] = n /\ p \in {"tearOwnList", "writeOwnList"}
    BY <1>8, <1>10, <2>1, GotoAt
  <2>4. Home(c)'
    BY <1>2, <1>8, <2>2, <2>3 DEF Home, Hops
  <2>5. GatheredOK(c)'
    BY <1>6, <1>8, <1>10, <2>2, <2>3 DEF GatheredOK
  <2>6. InsertOK(c)'
    BY <1>3, <1>6, <1>8, <1>10, <2>2, <2>3 DEF InsertOK, UnlinkedBelow, SomethingFound
  <2> QED
    BY <1>1, <1>2, <1>6, <1>7, <1>10, <2>1, <2>2, <2>3, <2>4, <2>5, <2>6, ReadTurn DEF Midway
<1> QED
  BY <1>7, <1>9, <1>10

(* One list of the layer is replaced by a proper one.                      *)
LEMMA OneProperList ==
    ASSUME IInv, TInv, NEW c \in Calls, Busy(c), NEW i \in initialised, NEW layer \in Levels,
           layer <= elementLevels[i],
           pc[c] = "writeOwnList" /\ loc[c].isUpdate => i = loc[c].elem /\ layer = loc[c].layer,
           NEW S, S \subseteq Members(layer) \ {i}, Cardinality(S) <= MaxLinks(layer),
           links'[i][layer] = S,
           \A k \in Ids, l \in Levels : k # i \/ l # layer => links'[k][l] = links[k][l],
           UNCHANGED <<initialised, elementLevels>>
    PROVE  LinksInTurn'
<1>1. i \in Ids /\ initialised \subseteq Ids
  BY DEF IInv, TypeOK
<1>2. /\ links'[i][layer] = S
      /\ \A k \in Ids, l \in Levels : k # i \/ l # layer => links'[k][l] = links[k][l]
  OBVIOUS
<1>3. \A l : Members(l)' = Members(l)
  BY DEF Members
<1>4. ASSUME NEW k \in initialised, NEW l \in Levels PROVE Proper(k, l)'
  <2>1. CASE k = i /\ l = layer
    BY <1>2, <1>3, <2>1 DEF Proper, MaxLinks
  <2>2. CASE k # i \/ l # layer
    <3>1. Proper(k, l)
      BY <2>2 DEF TInv, LinksInTurn, Rewriting, OneBusy, Busy
    <3> QED
      BY <1>1, <1>2, <1>3, <2>2, <3>1 DEF Proper, MaxLinks
  <2> QED
    BY <2>1, <2>2
<1>5. \A k \in Ids \ initialised', l \in Levels : links'[k][l] = {}
  BY <1>2 DEF TInv, LinksInTurn
<1> QED
  BY <1>1, <1>2, <1>4, <1>5 DEF LinksInTurn

LEMMA TearOwnListTurns ==
    ASSUME IInv, IInv', TInv, NEW c \in Calls, TearOwnList(c) PROVE TInv'
<1>1. PICK m, layer, e : m = loc[c] /\ layer = m.layer /\ e = m.elem
  OBVIOUS
<1>2. /\ pc[c] = "tearOwnList" /\ pc[c] \in Midway /\ m \in Locals /\ layer \in Levels
      /\ e \in Ids /\ e \in initialised /\ m.level = elementLevels[e]
      /\ m.maxlevelcopy \in Levels /\ m.ep \in Members(m.maxlevelcopy)
      /\ Busy(c) /\ e \notin m.selected /\ layer <= m.level /\ m.isUpdate
  <2>1. pc[c] = "tearOwnList" /\ pc[c] \in Midway
    BY DEF TearOwnList, Midway
  <2> QED
    BY <1>1, <2>1, MidwayKnows DEF Home, IInv, CallsOK, CallOK
<1>3. m.selected \cup {m.next} \subseteq Members(layer) \ {e} /\ Cardinality(m.selected) <= M
  BY <1>1, <1>2, MidwayKnows DEF GatheredOK
<1>4. PICK torn : /\ links' = [links EXCEPT ![e][layer] = torn]
                  /\ Goto(c, "writeOwnList", [m EXCEPT !.half = torn])
  BY <1>1 DEF TearOwnList
<1>5. UNCHANGED <<curElementCount, initialised, elementLevels, deleted, result>>
  BY <1>1 DEF TearOwnList, store
<1>6. Still(c) /\ pc'[c] = "writeOwnList" /\ HalfApart(m, loc'[c])
  <2>1. Still(c) /\ pc'[c] = "writeOwnList" /\ loc'[c] = [m EXCEPT !.half = torn]
    BY <1>4, <1>5, GotoAt
  <2>2. HalfApart(m, [m EXCEPT !.half = torn])
    BY <1>2 DEF HalfApart, Locals
  <2> QED
    BY <2>1, <2>2
<1>7. \A l : Members(l)' = Members(l)
  BY <1>5 DEF Members
<1>8. LinksInTurn'
  <2>1. \A k \in Ids, l \in Levels : k # e \/ l # layer => links'[k][l] = links[k][l]
    BY <1>2, <1>4, LinksType
  <2>2. Rewriting(e, layer)'
    BY <1>1, <1>2, <1>6 DEF Rewriting, HalfApart
  <2>3. ASSUME NEW k \in initialised, NEW l \in Levels, k # e \/ l # layer PROVE Proper(k, l)'
    <3>1. Proper(k, l) /\ k \in Ids
      BY <1>2, ListsProper DEF IInv, TypeOK
    <3> QED
      BY <1>5, <1>7, <2>1, <2>3, <3>1 DEF Proper, MaxLinks
  <2>4. \A k \in Ids \ initialised', l \in Levels : links'[k][l] = {}
    BY <1>2, <1>5, <2>1 DEF TInv, LinksInTurn
  <2> QED
    BY <1>5, <2>2, <2>3, <2>4 DEF LinksInTurn
<1>9. Home(c)'
  BY <1>1, <1>2, <1>5, <1>6, <1>7 DEF Home, Hops, HalfApart
<1>10. GatheredOK(c)'
  BY <1>1, <1>3, <1>6, <1>7 DEF GatheredOK, HalfApart
<1>11. InsertOK(c)'
  BY <1>2, <1>6 DEF InsertOK, HalfApart
<1> QED
  BY <1>1, <1>2, <1>5, <1>6, <1>8, <1>9, <1>10, <1>11, TurnGoes DEF Midway, HalfApart

LEMMA WriteOwnListTurns ==
    ASSUME IInv, IInv', TInv, HalfOK, NEW c \in Calls, WriteOwnList(c) PROVE TInv'
<1>1. PICK m, layer, e : m = loc[c] /\ layer = m.layer /\ e = m.elem
  OBVIOUS
<1>2. /\ pc[c] = "writeOwnList" /\ pc[c] \in Midway /\ m \in Locals /\ layer \in Levels
      /\ e \in Ids /\ e \in initialised /\ m.level = elementLevels[e]
      /\ m.maxlevelcopy \in Levels /\ m.ep \in Members(m.maxlevelcopy)
      /\ Busy(c) /\ e \notin m.selected /\ layer <= m.level
  <2>1. pc[c] = "writeOwnList" /\ pc[c] \in Midway
    BY DEF WriteOwnList, Midway
  <2> QED
    BY <1>1, <2>1, MidwayKnows DEF Home
<1>3. /\ m.selected \cup {m.next} \subseteq Members(layer) \ {e} /\ Cardinality(m.selected) <= M
      /\ ~m.isUpdate => m.selected # {} /\ \A l \in Levels : l <= layer => Unlinked(e, l)
  BY <1>1, <1>2, MidwayKnows DEF GatheredOK, InsertOK, UnlinkedBelow, SomethingFound
<1>4. /\ m.isUpdate \/ links[e][layer] = {}
      /\ \A n \in m.selected : layer <= elementLevels[n]
  BY <1>2, <1>3 DEF Unlinked, Levels, Members
<1>5. /\ links' = [links EXCEPT ![e][layer] = m.selected]
      /\ UNCHANGED <<curElementCount, initialised, elementLevels, deleted, result>>
      /\ \E n : Goto(c, "connect", n) /\ HalfApart(m, n)
  BY <1>1, <1>2, <1>4, OwnListWritten DEF HalfOK, store
<1>6. Still(c) /\ pc'[c] = "connect" /\ HalfApart(m, loc'[c])
  BY <1>5, GotoAt
<1>7. Cardinality(m.selected) <= MaxLinks(layer)
  <2>1. Cardinality(m.selected) \in Nat
    BY <1>2, IdSetsFinite DEF Locals
  <2>2. M <= MaxLinks(layer) /\ MaxLinks(layer) \in Nat /\ M \in Nat
    BY SizesAssumption DEF MaxLinks
  <2> QED
    BY <1>3, <2>1, <2>2
<1>8. /\ LinksInTurn' /\ links'[e][layer] = m.selected
      /\ \A k \in Ids, l \in Levels : k # e \/ l # layer => links'[k][l] = links[k][l]
  <2>1. UNCHANGED <<initialised, elementLevels>>
    BY <1>5
  <2>2. layer <= elementLevels[e] /\ m.selected \subseteq Members(layer) \ {e}
    BY <1>2, <1>3
  <2>3. /\ links'[e][layer] = m.selected
        /\ \A k \in Ids, l \in Levels : k # e \/ l # layer => links'[k][l] = links[k][l]
    BY <1>2, <1>5, LinksType
  <2> QED
    BY <1>1, <1>2, <1>7, <2>1, <2>2, <2>3, OneProperList
<1>9. \A l : Members(l)' = Members(l)
  BY <1>5 DEF Members
<1>10. Home(c)'
  BY <1>1, <1>2, <1>5, <1>6, <1>9 DEF Home, Hops, HalfApart
<1>11. GatheredOK(c)'
  BY <1>1, <1>3, <1>6, <1>9 DEF GatheredOK, HalfApart
<1>12. InsertOK(c)'
  <2> SUFFICES ASSUME ~m.isUpdate PROVE UnlinkedBelow(c)' /\ SomethingFound(c)'
    BY <1>6 DEF InsertOK, HalfApart
  <2>1. \A l \in Levels : l < layer => Unlinked(e, l)'
    BY <1>2, <1>3, <1>8 DEF Unlinked, Levels
  <2>2. \A n \in m.selected : e \notin links'[n][layer]
    BY <1>2, <1>3, <1>8 DEF Unlinked, Levels, Locals
  <2>3. UnlinkedBelow(c)'
    BY <1>1, <1>6, <2>1, <2>2 DEF UnlinkedBelow, HalfApart
  <2>4. SomethingFound(c)'
    BY <1>1, <1>3, <1>6, <1>8 DEF SomethingFound, HalfApart
  <2> QED
    BY <2>3, <2>4
<1> QED
  BY <1>1, <1>2, <1>5, <1>6, <1>8, <1>10, <1>11, <1>12, TurnGoes DEF Midway, HalfApart

LEMMA ConnectTurns == ASSUME IInv, IInv', TInv, NEW c \in Calls, Connect(c) PROVE TInv'
<1>1. PICK m, layer, e : m = loc[c] /\ layer = m.layer /\ e = m.elem
  OBVIOUS
<1>2. /\ pc[c] = "connect" /\ pc[c] \in Midway /\ m \in Locals /\ layer \in Levels
      /\ e \in Ids /\ e \in initialised /\ m.level = elementLevels[e]
      /\ m.maxlevelcopy \in Levels /\ m.ep \in Members(m.maxlevelcopy)
      /\ Busy(c) /\ e \notin m.selected /\ layer <= m.level
  <2>1. pc[c] = "connect" /\ pc[c] \in Midway
    BY DEF Connect, Midway
  <2> QED
    BY <1>1, <2>1, MidwayKnows DEF Home
<1>3. /\ m.selected \cup {m.next} \subseteq Members(layer) \ {e} /\ Cardinality(m.selected) <= M
      /\ ~m.isUpdate =>
            /\ \A l \in Levels : l < layer => Unlinked(e, l)
            /\ \A n \in m.selected : e \notin links[n][layer]
            /\ layer = 0 => links[e][0] # {}
  BY <1>1, <1>2, MidwayKnows DEF GatheredOK, InsertOK, UnlinkedBelow, SomethingFound
<1>4. ASSUME NEW n \in m.selected
      PROVE  /\ n \in Ids /\ n \in initialised /\ n # e /\ layer <= elementLevels[n]
             /\ ~(layer > elementLevels[n]) /\ links[n][layer] \subseteq Members(layer) \ {n}
             /\ Cardinality(links[n][layer]) <= MaxLinks(layer)
             /\ ~(Cardinality(links[n][layer]) > MaxLinks(layer))
  <2>1. n \in initialised /\ n \in Ids /\ n # e /\ layer <= elementLevels[n]
        /\ elementLevels[n] \in Nat /\ layer \in Nat
    BY <1>2, <1>3, SizesAssumption DEF Members, Locals, IInv, TypeOK, Levels
  <2>2. Proper(n, layer)
    BY <1>2, <2>1, ListsProper
  <2>3. Cardinality(links[n][layer]) \in Nat /\ MaxLinks(layer) \in Nat
    BY <1>2, <2>1, LinksType, IdSetsFinite, SizesAssumption DEF MaxLinks
  <2> QED
    BY <2>1, <2>2, <2>3 DEF Proper
<1>5. PICK n \in m.selected : \E joined :
        /\ joined = IF HasRoom(links[n][layer], layer)
                    THEN links[n][layer] \cup {e}
                    ELSE Heuristic(vec[n], links[n][layer] \cup {e}, MaxLinks(layer))
        /\ links' = IF m.isUpdate /\ e \in links[n][layer]
                    THEN links
                    ELSE [links EXCEPT ![n][layer] = joined]
        /\ IF Rest(m.selected, n) # {}
           THEN Goto(c, "connect", [m EXCEPT !.selected = Rest(m.selected, n)])
           ELSE NextLayer(c, m.next)
        /\ UNCHANGED <<curElementCount, initialised, elementLevels, deleted, result>>
  BY <1>1, <1>2, <1>4 DEF Connect, store
<1>6. PICK joined :
        /\ joined = IF HasRoom(links[n][layer], layer)
                    THEN links[n][layer] \cup {e}
                    ELSE Heuristic(vec[n], links[n][layer] \cup {e}, MaxLinks(layer))
        /\ links' = IF m.isUpdate /\ e \in links[n][layer]
                    THEN links
                    ELSE [links EXCEPT ![n][layer] = joined]
        /\ IF Rest(m.selected, n) # {}
           THEN Goto(c, "connect", [m EXCEPT !.selected = Rest(m.selected, n)])
           ELSE NextLayer(c, m.next)
        /\ UNCHANGED <<curElementCount, initialised, elementLevels, deleted, result>>
  BY <1>5
<1>7. joined \subseteq Members(layer) \ {n}
  <2>1. joined \subseteq links[n][layer] \cup {e} /\ n # e
    BY <1>4, <1>6, HeuristicSubset
  <2>2. e \in Members(layer)
    BY <1>2 DEF Members
  <2> QED
    BY <1>4, <2>1, <2>2
<1>8. Cardinality(joined) <= MaxLinks(layer)
  <2>1. links[n][layer] \in SUBSET Ids /\ vec[n] \in Points /\ MaxLinks(layer) \in Nat
    BY <1>2, <1>4, LinksType, SizesAssumption DEF IInv, TypeOK, MaxLinks
  <2>2. IsFiniteSet(links[n][layer]) /\ Cardinality(links[n][layer]) \in Nat
    BY <2>1, IdSetsFinite
  <2>3. Cardinality(links[n][layer] \cup {e})
            = IF e \in links[n][layer] THEN Cardinality(links[n][layer])
                                       ELSE Cardinality(links[n][layer]) + 1
    BY <2>2, FS_AddElement
  <2>4. links[n][layer] \cup {e} \in SUBSET Ids
    BY <1>2, <2>1
  <2>5. CASE HasRoom(links[n][layer], layer)
    BY <1>6, <2>1, <2>2, <2>3, <2>5 DEF HasRoom
  <2>6. CASE ~HasRoom(links[n][layer], layer)
    BY <1>6, <2>1, <2>4, <2>6, HeuristicBounded DEF IInv
  <2> QED
    BY <2>5, <2>6
<1>9. Still(c)
  <2>1. \E p, k : Goto(c, p, k)
    BY <1>6 DEF NextLayer
  <2> QED
    BY <1>6, <2>1, GotoAt
<1>10. /\ LinksInTurn'
       /\ \A k \in Ids, l \in Levels : k # n \/ l # layer => links'[k][l] = links[k][l]
  <2>1. CASE links' = links
    BY <1>2, <1>6, <1>9, <2>1, ReadsProper
  <2>2. CASE links' = [links EXCEPT ![n][layer] = joined]
    <3>1. UNCHANGED <<initialised, elementLevels>>
      BY <1>6
    <3>2. n \in initialised /\ layer <= elementLevels[n] /\ pc[c] = "connect"
      BY <1>2, <1>4
    <3>3. /\ links'[n][layer] = joined
          /\ \A k \in Ids, l \in Levels : k # n \/ l # layer => links'[k][l] = links[k][l]
      BY <1>2, <1>4, <2>2, LinksType
    <3> QED
      BY <1>2, <1>7, <1>8, <3>1, <3>2, <3>3, OneProperList
  <2> QED
    BY <1>6, <2>1, <2>2
<1>11. \A l : Members(l)' = Members(l)
  BY <1>6 DEF Members
<1>12. ~m.isUpdate => /\ \A l \in Levels : l < layer => Unlinked(e, l)'
                      /\ layer = 0 => links'[e][0] # {}
  BY <1>2, <1>3, <1>4, <1>10 DEF Unlinked, Levels
<1>13. CASE Rest(m.selected, n) # {}
  <2>1. PICK k : k = [m EXCEPT !.selected = Rest(m.selected, n)]
    OBVIOUS
  <2>2. /\ k.selected = m.selected \ {n} /\ k.next = m.next /\ k.elem = e /\ k.layer = layer
        /\ k.level = m.level /\ k.maxlevelcopy = m.maxlevelcopy /\ k.ep = m.ep
        /\ k.isUpdate = m.isUpdate
    BY <1>1, <1>2, <2>1 DEF Locals, Rest
  <2>3. Still(c) /\ pc'[c] = "connect" /\ loc'[c] = k
    BY <1>6, <1>13, <2>1, GotoAt
  <2>4. Cardinality(k.selected) <= M
    <3>1. IsFiniteSet(m.selected) /\ Cardinality(m.selected) \in Nat
      BY <1>2, IdSetsFinite DEF Locals
    <3>2. Cardinality(k.selected) <= Cardinality(m.selected) /\ IsFiniteSet(k.selected)
      BY <2>2, <3>1, FS_Subset
    <3> QED
      BY <1>3, <3>1, <3>2, FS_CardinalityType, SizesAssumption
  <2>5. Home(c)'
    BY <1>2, <1>6, <1>11, <2>2, <2>3 DEF Home, Hops
  <2>6. GatheredOK(c)'
    BY <1>3, <1>11, <2>2, <2>3, <2>4 DEF GatheredOK
  <2>7. ~m.isUpdate => \A j \in k.selected : e \notin links'[j][layer]
    BY <1>2, <1>3, <1>10, <2>2 DEF Locals
  <2>8. InsertOK(c)'
    BY <1>12, <2>2, <2>3, <2>7 DEF InsertOK, UnlinkedBelow, SomethingFound
  <2> QED
    BY <1>1, <1>2, <1>6, <1>10, <2>2, <2>3, <2>5, <2>6, <2>8, TurnGoes DEF Midway
<1>14. CASE Rest(m.selected, n) = {}
  <2>1. m.next \in Members(layer) \ Open(c)
    BY <1>1, <1>3 DEF Open
  <2>2. NextLayer(c, m.next)
    BY <1>6, <1>14
  <2> QED
    BY <1>1, <1>2, <1>6, <1>10, <1>12, <2>1, <2>2, NextLayerTurns
<1> QED
  BY <1>13, <1>14

(* The repair begins: the entry point leads down to the element's level.   *)
LEMMA NextUpdateLayerTurns ==
    ASSUME IInv, IInv', TInv, NEW c \in Calls, pc[c] \in {"oneHop", "relink"},
           NextUpdateLayer(c), LinksInTurn',
           UNCHANGED <<curElementCount, initialised, elementLevels, deleted, maxlevel>>
    PROVE  TInv'
<1>1. PICK m, layer, e, top :
        m = loc[c] /\ layer = m.layer /\ e = m.elem /\ top = m.maxlevelcopy
  OBVIOUS
<1>2. /\ pc[c] \in Midway /\ m \in Locals /\ layer \in Levels /\ m.level \in Levels
      /\ e \in Ids /\ e \in initialised /\ m.level = elementLevels[e]
      /\ top \in Levels /\ m.ep \in Members(top) /\ deleted = {}
      /\ Busy(c) /\ e \notin m.selected /\ layer <= m.level /\ m.isUpdate /\ top = maxlevel
  <2>1. pc[c] \in Midway /\ pc[c] \in Hops
    BY DEF Midway, Hops
  <2> QED
    BY <1>1, <2>1, MidwayKnows DEF Home, Hops, IInv, CallsOK, CallOK
<1>3. m.level <= top /\ ~(m.level > top)
  <2>1. m.level <= top
    BY <1>1, <1>2, BusyAlone, UpdatedBelowTop
  <2> QED
    BY <1>2, <2>1, SizesAssumption DEF Levels
<1>4. \A l : Members(l)' = Members(l)
  BY DEF Members
<1>5. CASE layer < m.level
  <2>1. PICK n : n = [m EXCEPT !.layer = @ + 1, !.hops = {}, !.sCand = {}, !.sNeigh = {}]
    OBVIOUS
  <2>2. /\ n.elem = e /\ n.isUpdate /\ n.level = m.level /\ n.maxlevelcopy = top
        /\ n.ep = m.ep /\ n.layer = layer + 1 /\ n.selected = m.selected
    BY <1>1, <1>2, <2>1 DEF Locals
  <2>3. Goto(c, "oneHop", n) /\ UNCHANGED <<result, locks>>
    BY <1>1, <1>5, <2>1 DEF NextUpdateLayer
  <2>4. Still(c) /\ pc'[c] = "oneHop" /\ loc'[c] = n
    BY <2>3, GotoAt
  <2>5. layer + 1 <= m.level
    BY <1>2, <1>5, SizesAssumption DEF Levels
  <2>6. Home(c)'
    BY <1>2, <1>4, <2>2, <2>4, <2>5 DEF Home
  <2> QED
    <3>1. GatheredOK(c)' /\ InsertOK(c)'
      BY <2>2, <2>4 DEF GatheredOK, InsertOK
    <3> QED
      BY <1>1, <1>2, <2>2, <2>4, <2>6, <3>1, TurnGoes DEF Midway
<1>6. CASE ~(layer < m.level)
  <2>1. PICK k : k = [m EXCEPT !.obj = m.ep, !.hops = {}, !.sCand = {}, !.sNeigh = {}]
    OBVIOUS
  <2>2. /\ k.elem = e /\ k.isUpdate /\ k.level = m.level /\ k.maxlevelcopy = top
        /\ k.ep = m.ep /\ k.obj = m.ep /\ k.selected = m.selected /\ k \in Locals
    BY <1>1, <1>2, <2>1 DEF Locals, Members, IInv, TypeOK
  <2>3. /\ \/ m.level < top /\ Goto(c, "descend", [k EXCEPT !.layer = top])
           \/ m.level = top /\ Goto(c, "search", SearchFrom(k, m.ep, m.level))
        /\ UNCHANGED <<result, locks>>
    BY <1>1, <1>3, <1>6, <2>1 DEF NextUpdateLayer, Repair
  <2>4. CASE m.level < top /\ Goto(c, "descend", [k EXCEPT !.layer = top])
    <3>1. PICK n : n = [k EXCEPT !.layer = top]
      OBVIOUS
    <3>2. /\ n.elem = e /\ n.isUpdate /\ n.level = m.level /\ n.maxlevelcopy = top
          /\ n.ep = m.ep /\ n.obj = m.ep /\ n.layer = top /\ n.selected = m.selected
      BY <2>2, <3>1 DEF Locals
    <3>3. Still(c) /\ pc'[c] = "descend" /\ loc'[c] = n
      BY <2>3, <2>4, <3>1, GotoAt
    <3>4. Home(c)'
      BY <1>2, <1>4, <3>2, <3>3 DEF Home, Hops
    <3>5. GatheredOK(c)' /\ InsertOK(c)'
      BY <1>2, <1>4, <3>2, <3>3 DEF GatheredOK, InsertOK, Open
    <3> QED
      BY <1>1, <1>2, <3>2, <3>3, <3>4, <3>5, TurnGoes DEF Midway
  <2>5. CASE m.level = top /\ Goto(c, "search", SearchFrom(k, m.ep, m.level))
    <3>1. Still(c) /\ pc'[c] = "search" /\ loc'[c] = SearchFrom(k, m.ep, m.level)
      BY <2>3, <2>5, GotoAt
    <3>2. m.level <= m.level
      BY <1>2 DEF Levels
    <3>3. /\ Home(c)' /\ GatheredOK(c)' /\ InsertOK(c)'
          /\ loc'[c].elem = e /\ loc'[c].isUpdate = m.isUpdate /\ loc'[c].selected = {}
      BY <1>2, <1>4, <2>2, <2>5, <3>1, <3>2, SearchTurns
    <3> QED
      BY <1>1, <1>2, <3>1, <3>3, TurnGoes DEF Midway
  <2> QED
    BY <2>3, <2>4, <2>5
<1> QED
  BY <1>5, <1>6

(* What a call knows between two of its hops. *)
LEMMA HopKnows ==
    ASSUME IInv, TInv, NEW c \in Calls, pc[c] \in Hops
    PROVE  /\ pc[c] \in Midway /\ loc[c] \in Locals /\ loc[c].layer \in Levels
           /\ loc[c].elem \in Ids /\ loc[c].elem \in initialised
           /\ loc[c].level = elementLevels[loc[c].elem]
           /\ loc[c].maxlevelcopy \in Levels /\ loc[c].ep \in Members(loc[c].maxlevelcopy)
           /\ loc[c].maxlevelcopy = maxlevel /\ loc[c].layer <= loc[c].level
           /\ Busy(c) /\ loc[c].elem \notin loc[c].selected /\ loc[c].isUpdate
           /\ deleted = {} /\ loc[c].elem \in Members(loc[c].layer)
<1>1. pc[c] \in Midway \ {"descend"}
  BY DEF Midway, Hops
<1>2. loc[c].isUpdate
  BY DEF Hops, IInv, CallsOK, CallOK
<1>3. loc[c].maxlevelcopy = maxlevel /\ loc[c].layer <= loc[c].level
  BY <1>1, MidwayKnows DEF Home
<1>4. loc[c].elem \in Members(loc[c].layer)
  BY <1>1, <1>3, MidwayKnows DEF Members
<1> QED
  BY <1>1, <1>2, <1>3, <1>4, MidwayKnows

LEMMA OneHopTurns == ASSUME IInv, IInv', TInv, NEW c \in Calls, OneHop(c) PROVE TInv'
<1>1. PICK m, layer, e : m = loc[c] /\ layer = m.layer /\ e = m.elem
  OBVIOUS
<1>2. /\ pc[c] = "oneHop" /\ pc[c] \in Midway /\ m \in Locals /\ layer \in Levels
      /\ e \in Ids /\ e \in initialised /\ m.level = elementLevels[e]
      /\ m.maxlevelcopy \in Levels /\ m.ep \in Members(m.maxlevelcopy)
      /\ m.maxlevelcopy = maxlevel /\ layer <= m.level /\ Busy(c) /\ e \notin m.selected
      /\ m.isUpdate /\ e \in Members(layer)
  <2>1. pc[c] = "oneHop" /\ pc[c] \in Hops
    BY DEF OneHop, Hops
  <2> QED
    BY <1>1, <2>1, HopKnows
<1>3. PICK near : near = links[e][layer]
  OBVIOUS
<1>4. near \subseteq Members(layer) \ {e}
  BY <1>2, <1>3, ListsProper DEF Proper
<1>5. /\ UNCHANGED <<store, graph, entry>>
      /\ \/ NextUpdateLayer(c)
         \/ /\ Goto(c, "twoHop", [m EXCEPT !.hops = near, !.sNeigh = near,
                                           !.sCand = {e} \cup near])
            /\ UNCHANGED <<result, locks>>
  <2>1. HasList(e, layer)
    BY <1>2 DEF HasList
  <2> QED
    BY <1>1, <1>3, <2>1 DEF OneHop
<1>6. /\ \A l : Members(l)' = Members(l)
      /\ UNCHANGED <<curElementCount, initialised, elementLevels, deleted, links, maxlevel>>
  BY <1>5 DEF Members, graph, store, entry
<1>7. CASE NextUpdateLayer(c)
  <2>1. LinksInTurn'
    BY <1>2, <1>6, LinksUnchanged, BusyAlone
  <2> QED
    BY <1>2, <1>6, <1>7, <2>1, NextUpdateLayerTurns
<1>8. CASE /\ Goto(c, "twoHop", [m EXCEPT !.hops = near, !.sNeigh = near,
                                          !.sCand = {e} \cup near])
           /\ UNCHANGED <<result, locks>>
  <2>1. PICK n : n = [m EXCEPT !.hops = near, !.sNeigh = near, !.sCand = {e} \cup near]
    OBVIOUS
  <2>2. /\ n.elem = e /\ n.isUpdate /\ n.level = m.level /\ n.maxlevelcopy = m.maxlevelcopy
        /\ n.ep = m.ep /\ n.layer = layer /\ n.selected = m.selected
        /\ n.hops = near /\ n.sNeigh = near /\ n.sCand = {e} \cup near
    BY <1>1, <1>2, <2>1 DEF Locals
  <2>3. pc'[c] = "twoHop" /\ loc'[c] = n
    BY <1>8, <2>1, GotoAt
  <2>4. Home(c)'
    BY <1>2, <1>6, <2>2, <2>3 DEF Home
  <2>5. GatheredOK(c)'
    BY <1>2, <1>4, <1>6, <2>2, <2>3 DEF GatheredOK
  <2>6. InsertOK(c)'
    BY <2>2, <2>3 DEF InsertOK
  <2> QED
    BY <1>1, <1>2, <1>5, <1>8, <2>1, <2>2, <2>4, <2>5, <2>6, ReadTurn DEF Midway
<1> QED
  BY <1>5, <1>7, <1>8

LEMMA TwoHopTurns == ASSUME IInv, IInv', TInv, NEW c \in Calls, TwoHop(c) PROVE TInv'
<1>1. PICK m, layer, e : m = loc[c] /\ layer = m.layer /\ e = m.elem
  OBVIOUS
<1>2. /\ pc[c] = "twoHop" /\ pc[c] \in Midway /\ m \in Locals /\ layer \in Levels
      /\ e \in Ids /\ e \in initialised /\ m.level = elementLevels[e]
      /\ m.maxlevelcopy \in Levels /\ m.ep \in Members(m.maxlevelcopy)
      /\ m.maxlevelcopy = maxlevel /\ layer <= m.level /\ Busy(c) /\ e \notin m.selected
      /\ m.isUpdate /\ e \in Members(layer)
  <2>1. pc[c] = "twoHop" /\ pc[c] \in Hops
    BY DEF TwoHop, Hops
  <2> QED
    BY <1>1, <2>1, HopKnows
<1>3. m.hops \cup m.sNeigh \subseteq Members(layer) \ {e} /\ m.sCand \subseteq Members(layer)
  BY <1>1, <1>2, MidwayKnows DEF GatheredOK
<1>4. PICK hop \in m.hops, p \in {"relink", "twoHop"} :
        /\ Goto(c, p, [m EXCEPT !.hops = @ \ {hop}, !.sCand = @ \cup links[hop][layer]])
        /\ UNCHANGED <<store, graph, entry, locks, result>>
  <2>1. \A hop \in m.hops : HasList(hop, layer)
    BY <1>3 DEF Members, HasList
  <2> QED
    BY <1>1, <2>1 DEF TwoHop
<1>5. links[hop][layer] \subseteq Members(layer)
  <2>1. hop \in initialised
    BY <1>3, <1>4 DEF Members
  <2> QED
    BY <1>2, <2>1, ListsProper DEF Proper
<1>6. /\ \A l : Members(l)' = Members(l)
      /\ UNCHANGED <<initialised, elementLevels, maxlevel>>
  BY <1>4 DEF Members, graph, entry
<1>7. PICK n : n = [m EXCEPT !.hops = @ \ {hop}, !.sCand = @ \cup links[hop][layer]]
  OBVIOUS
<1>8. /\ n.elem = e /\ n.isUpdate /\ n.level = m.level /\ n.maxlevelcopy = m.maxlevelcopy
      /\ n.ep = m.ep /\ n.layer = layer /\ n.selected = m.selected
      /\ n.hops \subseteq m.hops /\ n.sNeigh = m.sNeigh
      /\ n.sCand = m.sCand \cup links[hop][layer]
  BY <1>1, <1>2, <1>7 DEF Locals
<1>9. pc'[c] = p /\ loc'[c] = n
  BY <1>4, <1>7, GotoAt
<1>10. Home(c)'
  BY <1>2, <1>4, <1>6, <1>8, <1>9 DEF Home
<1>11. GatheredOK(c)'
  BY <1>3, <1>4, <1>5, <1>6, <1>8, <1>9 DEF GatheredOK
<1>12. InsertOK(c)'
  BY <1>8, <1>9 DEF InsertOK
<1> QED
  BY <1>1, <1>2, <1>4, <1>7, <1>8, <1>10, <1>11, <1>12, ReadTurn DEF Midway

LEMMA RelinkTurns == ASSUME IInv, IInv', TInv, NEW c \in Calls, Relink(c) PROVE TInv'
<1>1. PICK m, layer, e : m = loc[c] /\ layer = m.layer /\ e = m.elem
  OBVIOUS
<1>2. /\ pc[c] = "relink" /\ pc[c] \in Midway /\ m \in Locals /\ layer \in Levels
      /\ e \in Ids /\ e \in initialised /\ m.level = elementLevels[e]
      /\ m.maxlevelcopy \in Levels /\ m.ep \in Members(m.maxlevelcopy)
      /\ m.maxlevelcopy = maxlevel /\ layer <= m.level /\ Busy(c) /\ e \notin m.selected
      /\ m.isUpdate /\ e \in Members(layer)
  <2>1. pc[c] = "relink" /\ pc[c] \in Hops
    BY DEF Relink, Hops
  <2> QED
    BY <1>1, <2>1, HopKnows
<1>3. m.sNeigh \subseteq Members(layer) \ {e} /\ m.sCand \subseteq Members(layer)
  BY <1>1, <1>2, MidwayKnows DEF GatheredOK
<1>4. PICK neigh \in m.sNeigh : \E near, left :
        /\ near = Nearest(vec[neigh], m.sCand \ {neigh}, EfConstruction)
        /\ left = m.sNeigh \ {neigh}
        /\ links' = [links EXCEPT ![neigh][layer] =
                        Heuristic(vec[neigh], near, MaxLinks(layer))]
        /\ \/ Goto(c, "relink", [m EXCEPT !.sNeigh = left]) /\ UNCHANGED <<result, locks>>
           \/ NextUpdateLayer(c)
        /\ UNCHANGED <<store, initialised, elementLevels, deleted, entry>>
  BY <1>1 DEF Relink
<1>5. PICK near, left :
        /\ near = Nearest(vec[neigh], m.sCand \ {neigh}, EfConstruction)
        /\ left = m.sNeigh \ {neigh}
        /\ links' = [links EXCEPT ![neigh][layer] =
                        Heuristic(vec[neigh], near, MaxLinks(layer))]
        /\ \/ Goto(c, "relink", [m EXCEPT !.sNeigh = left]) /\ UNCHANGED <<result, locks>>
           \/ NextUpdateLayer(c)
        /\ UNCHANGED <<store, initialised, elementLevels, deleted, entry>>
  BY <1>4
<1>6. PICK chosen : chosen = Heuristic(vec[neigh], near, MaxLinks(layer))
  OBVIOUS
<1>7. neigh \in Ids /\ neigh \in initialised /\ layer <= elementLevels[neigh]
      /\ vec[neigh] \in Points
  BY <1>3 DEF Members, IInv, TypeOK
<1>8. chosen \subseteq Members(layer) \ {neigh} /\ Cardinality(chosen) <= MaxLinks(layer)
  <2>1. near \subseteq m.sCand \ {neigh} /\ near \in SUBSET Ids
    BY <1>2, <1>5, NearestSubset DEF Locals
  <2>2. MaxLinks(layer) \in Nat
    BY SizesAssumption DEF MaxLinks
  <2>3. chosen \subseteq near /\ Cardinality(chosen) <= MaxLinks(layer)
    BY <1>6, <1>7, <2>1, <2>2, HeuristicSubset, HeuristicBounded DEF IInv
  <2> QED
    BY <1>3, <2>1, <2>3
<1>9. LinksInTurn'
  <2>1. UNCHANGED <<initialised, elementLevels>> /\ pc[c] # "writeOwnList"
    BY <1>2, <1>5
  <2>2. /\ links'[neigh][layer] = chosen
        /\ \A k \in Ids, l \in Levels : k # neigh \/ l # layer => links'[k][l] = links[k][l]
    BY <1>2, <1>5, <1>6, <1>7, LinksType
  <2> QED
    BY <1>2, <1>7, <1>8, <2>1, <2>2, OneProperList
<1>10. /\ \A l : Members(l)' = Members(l)
       /\ UNCHANGED <<curElementCount, initialised, elementLevels, deleted, maxlevel>>
  BY <1>5 DEF Members, store, entry
<1>11. CASE NextUpdateLayer(c)
  BY <1>2, <1>9, <1>10, <1>11, NextUpdateLayerTurns
<1>12. CASE Goto(c, "relink", [m EXCEPT !.sNeigh = left]) /\ UNCHANGED <<result, locks>>
  <2>1. PICK n : n = [m EXCEPT !.sNeigh = left]
    OBVIOUS
  <2>2. /\ n.elem = e /\ n.isUpdate /\ n.level = m.level /\ n.maxlevelcopy = m.maxlevelcopy
        /\ n.ep = m.ep /\ n.layer = layer /\ n.selected = m.selected
        /\ n.sNeigh \subseteq m.sNeigh /\ n.sCand = m.sCand
    BY <1>1, <1>2, <1>5, <2>1 DEF Locals
  <2>3. Still(c) /\ pc'[c] = "relink" /\ loc'[c] = n
    BY <1>12, <2>1, GotoAt
  <2>4. Home(c)'
    BY <1>2, <1>10, <2>2, <2>3 DEF Home
  <2>5. GatheredOK(c)'
    BY <1>3, <1>10, <2>2, <2>3 DEF GatheredOK
  <2>6. InsertOK(c)'
    BY <2>2, <2>3 DEF InsertOK
  <2> QED
    BY <1>1, <1>2, <1>9, <1>10, <2>2, <2>3, <2>4, <2>5, <2>6, TurnGoes DEF Midway
<1> QED
  BY <1>5, <1>11, <1>12

------------------------------------------------------------------------------
(* A call comes to write its own list a second time only from the first.   *)
LEMMA WritesAfterTearing ==
    ASSUME IInv, NEW c \in Calls, Step(c)
    PROVE  /\ \A d \in Calls \ {c} : pc'[d] = pc[d]
           /\ pc'[c] = "writeOwnList" /\ loc'[c].isUpdate => TearOwnList(c)
<1> DEFINE Elsewhere == /\ \A d \in Calls \ {c} : pc'[d] = pc[d]
                        /\ ~(pc'[c] = "writeOwnList" /\ loc'[c].isUpdate)
<1>1. loc[c] \in Locals /\ c \in DOMAIN pc /\ c \in DOMAIN loc
  BY LocalsType DEF IInv, TypeOK
<1>2. ASSUME NEW code, Return(c, code) PROVE Elsewhere
  BY <1>1, <1>2 DEF Return, IInv, TypeOK
<1>3. ASSUME NEW p, NEW m, Goto(c, p, m), p # "writeOwnList" \/ ~m.isUpdate PROVE Elsewhere
  BY <1>1, <1>3 DEF Goto, IInv, TypeOK
<1>4. ASSUME Crash(c) PROVE Elsewhere
  BY <1>3, <1>4 DEF Crash
<1>5. CASE AddItem(c) \/ Reserve(c)
  BY <1>2, <1>3, <1>5 DEF AddItem, Reserve, Throw
<1>6. CASE LockForInsert(c) \/ LockElement(c) \/ LockGlobal(c) \/ ReadEntry(c)
  BY <1>3, <1>6 DEF LockForInsert, LockElement, LockGlobal, ReadEntry
<1>7. CASE FirstElement(c) \/ Finish(c)
  BY <1>2, <1>3, <1>7 DEF FirstElement, Finish
<1>8. CASE Descend(c) \/ Expand(c)
  BY <1>3, <1>4, <1>8 DEF Descend, Expand
<1>9. ASSUME NEW from, NextLayer(c, from) PROVE Elsewhere
  BY <1>3, <1>9 DEF NextLayer
<1>10. CASE SelectNeighbors(c)
  <2>1. ASSUME NEW chosen, NEW next,
               Goto(c, IF loc[c].isUpdate THEN "tearOwnList" ELSE "writeOwnList",
                    [loc[c] EXCEPT !.selected = chosen, !.next = next, !.top = {},
                                   !.cand = {}, !.visited = {}])
        PROVE  Elsewhere
    <3>1. [loc[c] EXCEPT !.selected = chosen, !.next = next, !.top = {}, !.cand = {},
                         !.visited = {}].isUpdate = loc[c].isUpdate
      BY <1>1 DEF Locals
    <3> QED
      BY <1>3, <2>1, <3>1
  <2> QED
    BY <1>3, <1>4, <1>9, <1>10, <2>1 DEF SelectNeighbors
<1>11. CASE WriteOwnList(c)
  BY <1>2, <1>3, <1>11 DEF WriteOwnList, Throw
<1>12. CASE Connect(c)
  BY <1>2, <1>3, <1>9, <1>12 DEF Connect, Throw
<1>13. CASE LockForUpdate(c) \/ ReadEntryUpdate(c)
  BY <1>3, <1>13 DEF LockForUpdate, ReadEntryUpdate
<1>14. ASSUME NextUpdateLayer(c) PROVE Elsewhere
  BY <1>2, <1>3, <1>14 DEF NextUpdateLayer, Repair, Throw
<1>15. CASE OneHop(c) \/ TwoHop(c) \/ Relink(c)
  BY <1>3, <1>4, <1>14, <1>15 DEF OneHop, TwoHop, Relink
<1>16. CASE TearOwnList(c)
  BY <1>1, <1>16 DEF TearOwnList, Goto, IInv, TypeOK
<1> QED
  BY <1>5, <1>6, <1>7, <1>8, <1>10, <1>11, <1>12, <1>13, <1>15, <1>16 DEF Step

LEMMA OnlyBegins ==
    ASSUME NEW c \in Calls, Step(c), pc[c] \in {"ready", "done"} PROVE AddItem(c)
BY DEF Step, Reserve, LockForInsert, LockElement, LockGlobal, ReadEntry, FirstElement, Finish,
       Descend, Expand, SelectNeighbors, TearOwnList, WriteOwnList, Connect, LockForUpdate,
       ReadEntryUpdate, OneHop, TwoHop, Relink

LEMMA HalfKept == ASSUME InTurn, IInv, TInv, HalfOK, [Next]_vars PROVE HalfOK'
<1>1. CASE UNCHANGED <<pc, loc, links>>
  BY <1>1 DEF HalfOK
<1>2. ASSUME NEW c \in Calls, Step(c) PROVE HalfOK'
  <2>1. ASSUME NEW d \in Calls, pc'[d] = "writeOwnList", loc'[d].isUpdate, d # c
        PROVE  links'[loc'[d].elem][loc'[d].layer] = loc'[d].half
    <3>1. CASE AddItem(c)
      <4>1. pc'[d] = pc[d] /\ loc'[d] = loc[d]
        BY <2>1, <3>1, ReturnAt, GotoAt DEF AddItem, Still
      <4> QED
        BY <2>1, <3>1, <4>1 DEF AddItem, graph, HalfOK
    <3>2. CASE pc[c] \notin {"ready", "done"}
      <4>1. Busy(c) /\ (Busy(d) => d = c)
        BY <3>2 DEF TInv, OneBusy, Busy
      <4>2. pc[d] \in {"ready", "done"}
        BY <2>1, <4>1 DEF Busy
      <4>3. pc'[d] = pc[d]
        BY <1>2, <2>1, WritesAfterTearing
      <4> QED
        BY <2>1, <4>2, <4>3
    <3> QED
      BY <1>2, <3>1, <3>2, OnlyBegins
  <2>2. ASSUME pc'[c] = "writeOwnList", loc'[c].isUpdate
        PROVE  links'[loc'[c].elem][loc'[c].layer] = loc'[c].half
    <3>1. TearOwnList(c)
      BY <1>2, <2>2, WritesAfterTearing
    <3>2. PICK torn : /\ links' = [links EXCEPT ![loc[c].elem][loc[c].layer] = torn]
                      /\ Goto(c, "writeOwnList", [loc[c] EXCEPT !.half = torn])
      BY <3>1 DEF TearOwnList
    <3>3. loc'[c] = [loc[c] EXCEPT !.half = torn] /\ loc[c] \in Locals
      <4>1. UNCHANGED result
        BY <3>1 DEF TearOwnList
      <4> QED
        BY <3>2, <4>1, GotoAt, LocalsType
    <3>4. loc[c].elem \in Ids /\ loc[c].layer \in Levels
      BY <3>1, <3>3 DEF TearOwnList, IInv, CallsOK, CallOK, Locals
    <3> QED
      BY <3>2, <3>3, <3>4, LinksType DEF Locals
  <2> QED
    BY <2>1, <2>2 DEF HalfOK
<1> QED
  BY <1>1, <1>2 DEF Next, Stopped, InTurn, vars, graph, calls

LEMMA InitTurns == Init => TInv
<1> SUFFICES ASSUME Init PROVE TInv
  OBVIOUS
<1>1. \A c \in Calls : /\ pc[c] = "ready" /\ loc[c] = NoLocals /\ NoLocals.selected = {}
                       /\ loc[c].elem \notin loc[c].selected
  BY DEF Init, NoLocals
<1>2. \A c \in Calls : Home(c) /\ GatheredOK(c) /\ InsertOK(c)
  BY <1>1 DEF Home, GatheredOK, InsertOK, UnlinkedBelow, SomethingFound, Midway, Hops
<1>3. OneBusy /\ AllWell /\ Choosy
  BY <1>1 DEF Init, OneBusy, Busy, AllWell, NoUndefinedRead, NoLateException, Choosy
<1>4. Allotted
  <2>1. {i \in Ids : i < curElementCount} = {} /\ initialised = {}
    BY SizesAssumption DEF Init, Ids
  <2> QED
    BY <2>1 DEF Allotted
<1>5. LinksInTurn
  BY DEF Init, LinksInTurn
<1> QED
  BY <1>2, <1>3, <1>4, <1>5 DEF TInv

LEMMA TurnsStay ==
    ASSUME TInv,
           UNCHANGED <<curElementCount, initialised, elementLevels, deleted, links, maxlevel,
                       pc, loc, result>>
    PROVE  TInv'
<1>1. (\A l : Members(l)' = Members(l)) /\ (\A i, l : Unlinked(i, l)' = Unlinked(i, l))
  BY DEF Members, Unlinked
<1>2. \A c \in Calls : Home(c)' /\ GatheredOK(c)' /\ InsertOK(c)'
  BY <1>1 DEF TInv, Home, GatheredOK, InsertOK, UnlinkedBelow, SomethingFound, Open
<1>3. OneBusy' /\ AllWell' /\ Choosy'
  BY DEF TInv, OneBusy, Busy, AllWell, NoUndefinedRead, NoLateException, Choosy
<1>4. Allotted'
  BY DEF TInv, Allotted, Inserted, Linking
<1>5. LinksInTurn'
  BY <1>1 DEF TInv, LinksInTurn, Proper, MaxLinks, Rewriting
<1> QED
  BY <1>2, <1>3, <1>4, <1>5 DEF TInv

LEMMA NextTurns == ASSUME InTurn, IInv, IInv', TInv, HalfOK, [Next]_vars PROVE TInv'
<1>1. CASE UNCHANGED vars
  BY <1>1, TurnsStay DEF vars, store, graph, entry, calls
<1>2. ASSUME NEW c \in Calls, Step(c) PROVE TInv'
  BY <1>2, AddItemTurns, ReserveTurns, LocksTurn, ReadEntryTurns, FirstElementTurns,
     FinishTurns, DescendTurns, ExpandTurns, SelectNeighborsTurns, TearOwnListTurns,
     WriteOwnListTurns, ConnectTurns, LockForUpdateTurns, ReadEntryUpdateTurns, OneHopTurns,
     TwoHopTurns, RelinkTurns DEF Step
<1> QED
  BY <1>1, <1>2 DEF Next, Stopped, InTurn

LEMMA TurnInvariance == ASSUME InTurn PROVE Spec => [](IInv /\ TInv /\ HalfOK)
<1>1. IInv /\ IInv' /\ TInv /\ HalfOK /\ [Next]_vars => TInv' /\ HalfOK'
  BY NextTurns, HalfKept
<1>2. Init => HalfOK
  BY DEF Init, HalfOK
<1> QED
  BY <1>1, <1>2, InitTurns, Invariance, PTL DEF Spec

(* Insertions and updates that take turns leave a well-formed graph after  *)
(* every step: an update replaces lists it has gathered from, and still    *)
(* each link leads to another element of the layer and no list exceeds     *)
(* its capacity (hnswalg.h:436-505, 843-905).                              *)
THEOREM GraphWellFormedInTurn == ASSUME InTurn PROVE Spec => []GraphWellFormed
<1>1. TInv => GraphWellFormed
  BY DEF TInv, LinksInTurn, Proper, GraphWellFormed, HasList, Members
<1> QED
  BY <1>1, TurnInvariance, PTL

(* While nothing is deleted, no insertion or update in its turn reads      *)
(* memory nobody wrote, and none of the code's checks throws - also not    *)
(* the one that finds an element above the top level                       *)
(* (hnswalg.h:409-451, 942, 1053-1060, 1075).                              *)
THEOREM ChecksHoldInTurn == ASSUME InTurn PROVE Spec => []SanityChecksHold
<1>1. IInv /\ TInv => SanityChecksHold
  BY DEF IInv, CallsOK, CallOK, TInv, AllWell, NoLateException, SanityChecksHold
<1> QED
  BY <1>1, TurnInvariance, PTL

(* An insertion that appends without looking links nothing twice, whatever *)
(* updates ran before it (hnswalg.h:454-467).                              *)
THEOREM NothingLinkedTwiceInTurn == ASSUME InTurn PROVE Spec => []NoDuplicateLink
<1>1. TInv => NoDuplicateLink
  BY DEF TInv, InsertOK, UnlinkedBelow, NoDuplicateLink
<1> QED
  BY <1>1, TurnInvariance, PTL

(* Every insertion after the first ends with neighbours, whatever updates  *)
(* ran before it (hnswalg.h:1072-1085).                                    *)
THEOREM EveryInsertionLinksInTurn == ASSUME InTurn PROVE Spec => []InsertionsLink
<1>1. TInv => InsertionsLink
  BY DEF TInv, InsertOK, SomethingFound, InsertionsLink
<1> QED
  BY <1>1, TurnInvariance, PTL
==============================================================================
