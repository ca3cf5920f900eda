------------------------ MODULE VisitedListPool_proofs ------------------------
(***************************************************************************)
(* Proofs about VisitedListPool, for any number of threads and elements,   *)
(* any tag width and any initial size of the pool.                         *)
(***************************************************************************)
EXTENDS VisitedListPool, SequenceTheorems, FiniteSetTheorems, TLAPS

(***************************************************************************)
(* Resetting a list no cell of which is ahead of its tag gives a list with *)
(* no cell at its tag, wrap-around included (visited_list_pool.h:21-27).   *)
(***************************************************************************)
LEMMA ResetEmpties ==
    ASSUME NEW vl \in VisitedList,
           \A e \in Elements : vl.mass[e] <= vl.curV
    PROVE  /\ Reset(vl) \in VisitedList
           /\ \A e \in Elements : Reset(vl).mass[e] < Reset(vl).curV
<1> USE MaxVAssumption
<1>1. vl.curV \in 0 .. MaxV /\ vl.mass \in [Elements -> 0 .. MaxV]
      BY DEF VisitedList, VlType
<1>2. CASE vl.curV = MaxV
  <2>1. (vl.curV + 1) % (MaxV + 1) = 0
        BY <1>2
  <2>2. Reset(vl) = [curV |-> 1, mass |-> [e \in Elements |-> 0]]
        BY <2>1 DEF Reset
  <2>3. QED
        BY <2>2 DEF VisitedList, VlType
<1>3. CASE vl.curV # MaxV
  <2>1. (vl.curV + 1) % (MaxV + 1) = vl.curV + 1 /\ vl.curV + 1 \in 1 .. MaxV
        BY <1>1, <1>3
  <2>2. Reset(vl) = [curV |-> vl.curV + 1, mass |-> vl.mass]
        BY <2>1, <1>1 DEF Reset
  <2>3. Reset(vl).curV = vl.curV + 1 /\ Reset(vl).mass = vl.mass
        BY <2>2
  <2>4. \A e \in Elements : vl.mass[e] \in Int /\ vl.mass[e] < vl.curV + 1
        BY <1>1
  <2>5. Reset(vl) \in VisitedList
        BY <1>1, <2>1, <2>2 DEF VisitedList, VlType
  <2>6. QED
        BY <2>3, <2>4, <2>5
<1>4. QED
      BY <1>2, <1>3

------------------------------------------------------------------------------
(* The inductive invariant. *)
IInv == TypeOK /\ HoldsWhileSearching /\ NoSharing /\ NoLeak /\ NoCellAhead

LEMMA InitIInv == Init => IInv
<1> SUFFICES ASSUME Init PROVE IInv
    OBVIOUS
<1> USE InitMaxPoolsAssumption, MaxVAssumption
<1>1. /\ lists \in [1 .. InitMaxPools -> VisitedList]
      /\ \A l \in 1 .. InitMaxPools : lists[l] \in NewVisitedLists
      BY DEF Init, NewVisitedLists, VisitedList, VlType
<1>2. lists \in Seq(VisitedList) /\ Len(lists) = InitMaxPools
      BY <1>1
<1>3. pool \in Seq(1 .. Len(lists)) /\ Len(pool) = InitMaxPools
      BY <1>2 DEF Init
<1>4. TypeOK
      BY <1>2, <1>3 DEF Init, TypeOK
<1>5. HoldsWhileSearching
      BY DEF Init, HoldsWhileSearching
<1>6. NoSharing
      BY <1>3 DEF Init, NoSharing
<1>7. NoLeak
  <2> SUFFICES ASSUME NEW l \in 1 .. Len(lists)
               PROVE  \E i \in 1 .. Len(pool) : pool[i] = l
      BY DEF NoLeak
  <2>1. InitMaxPools + 1 - l \in 1 .. Len(pool)
        BY <1>2, <1>3
  <2>2. pool[InitMaxPools + 1 - l] = l
        BY <1>2, <1>3, <2>1 DEF Init
  <2>3. QED
        BY <2>1, <2>2
<1>8. NoCellAhead
      BY <1>1, <1>2 DEF NoCellAhead, NewVisitedLists, VlType
<1>9. QED
      BY <1>4, <1>5, <1>6, <1>7, <1>8 DEF IInv

------------------------------------------------------------------------------
(* Every action preserves the inductive invariant. *)

LEMMA TakePooledIInv ==
    ASSUME IInv, NEW t \in Threads, TakePooled(t)
    PROVE  IInv'
<1> USE DEF IInv
<1>1. /\ lists \in Seq(VisitedList)
      /\ pool \in Seq(1 .. Len(lists))
      /\ pool # <<>>
      /\ Len(lists) \in Nat
      /\ Len(pool) \in Nat \ {0}
      BY DEF TypeOK, TakePooled
<1>2. /\ Head(pool) = pool[1]
      /\ Head(pool) \in 1 .. Len(lists)
      /\ pool' \in Seq(1 .. Len(lists))
      /\ Len(pool') = Len(pool) - 1
      /\ \A i \in 1 .. Len(pool') : pool'[i] = pool[i + 1]
      BY <1>1 DEF TakePooled
<1>3. TypeOK'
      BY <1>1, <1>2 DEF TypeOK, TakePooled
<1>4. HoldsWhileSearching'
      BY <1>2 DEF HoldsWhileSearching, TakePooled, TypeOK
<1>5. NoSharing'
  <2>1. \A r, s \in Threads : held'[r] = held'[s] /\ held'[r] # 0 => r = s
        BY <1>1, <1>2 DEF NoSharing, TakePooled, TypeOK
  <2>2. \A s \in Threads, i \in 1 .. Len(pool') : pool'[i] # held'[s]
        BY <1>1, <1>2 DEF NoSharing, TakePooled, TypeOK
  <2>3. ASSUME NEW i \in 1 .. Len(pool'), NEW j \in 1 .. Len(pool'),
               pool'[i] = pool'[j]
        PROVE  i = j
    <3>1. i + 1 \in 1 .. Len(pool) /\ j + 1 \in 1 .. Len(pool)
          BY <1>1, <1>2
    <3>2. pool[i + 1] = pool[j + 1]
          BY <1>2, <2>3
    <3>3. QED
          BY <3>1, <3>2 DEF NoSharing
  <2>4. QED
        BY <2>1, <2>2, <2>3 DEF NoSharing
<1>6. NoLeak'
  <2> SUFFICES ASSUME NEW l \in 1 .. Len(lists)
               PROVE  \/ \E i \in 1 .. Len(pool') : pool'[i] = l
                      \/ \E s \in Threads : held'[s] = l
      BY DEF NoLeak, TakePooled
  <2>1. CASE \E i \in 1 .. Len(pool) : pool[i] = l
    <3>1. PICK i \in 1 .. Len(pool) : pool[i] = l
          BY <2>1
    <3>2. CASE i = 1
          BY <1>2, <3>1, <3>2 DEF TakePooled, TypeOK
    <3>3. CASE i # 1
      <4>1. i - 1 \in 1 .. Len(pool') /\ pool'[i - 1] = l
            BY <1>1, <1>2, <3>1, <3>3
      <4>2. QED
            BY <4>1
    <3>4. QED
          BY <3>2, <3>3
  <2>2. CASE \E s \in Threads : held[s] = l
        BY <1>1, <2>2 DEF TakePooled, TypeOK, HoldsWhileSearching
  <2>3. QED
        BY <2>1, <2>2 DEF NoLeak
<1>7. NoCellAhead'
      BY DEF NoCellAhead, TakePooled
<1>8. QED
      BY <1>3, <1>4, <1>5, <1>6, <1>7

LEMMA TakeNewIInv ==
    ASSUME IInv, NEW t \in Threads, TakeNew(t)
    PROVE  IInv'
<1> USE DEF IInv
<1>1. PICK vl \in NewVisitedLists : lists' = Append(lists, vl)
      BY DEF TakeNew
<1>2. /\ vl \in VisitedList
      /\ \A e \in Elements : vl.mass[e] <= vl.curV
      BY MaxVAssumption DEF NewVisitedLists, VisitedList, VlType
<1>3. /\ lists \in Seq(VisitedList)
      /\ Len(lists) \in Nat
      /\ lists' \in Seq(VisitedList)
      /\ Len(lists') = Len(lists) + 1
      /\ lists'[Len(lists) + 1] = vl
      /\ \A l \in 1 .. Len(lists) : lists'[l] = lists[l]
      BY <1>1, <1>2 DEF TypeOK
<1>4. /\ pool = <<>> /\ pool' = <<>> /\ Len(pool') = 0
      /\ pool' \in Seq(1 .. Len(lists'))
      BY DEF TakeNew
<1>5. TypeOK'
      BY <1>3, <1>4 DEF TypeOK, TakeNew
<1>6. HoldsWhileSearching'
      BY <1>3 DEF HoldsWhileSearching, TakeNew, TypeOK
<1>7. NoSharing'
      BY <1>3, <1>4 DEF NoSharing, TakeNew, TypeOK
<1>8. NoLeak'
  <2> SUFFICES ASSUME NEW l \in 1 .. Len(lists')
               PROVE  \E s \in Threads : held'[s] = l
      BY DEF NoLeak
  <2>1. CASE l = Len(lists) + 1
        BY <2>1 DEF TakeNew, TypeOK
  <2>2. CASE l # Len(lists) + 1
    <3>1. PICK s \in Threads : held[s] = l
          BY <1>3, <1>4, <2>2 DEF NoLeak
    <3>2. s # t
          BY <1>3, <2>2, <3>1 DEF HoldsWhileSearching, TakeNew
    <3>3. held'[s] = l
          BY <3>1, <3>2 DEF TakeNew, TypeOK
    <3>4. QED
          BY <3>3
  <2>3. QED
        BY <2>1, <2>2
<1>9. NoCellAhead'
      BY <1>2, <1>3 DEF NoCellAhead
<1>10. QED
      BY <1>5, <1>6, <1>7, <1>8, <1>9

LEMMA ResetHeldIInv ==
    ASSUME IInv, NEW t \in Threads, ResetHeld(t)
    PROVE  IInv'
<1> USE DEF IInv
<1> DEFINE h == held[t]
<1>1. /\ lists \in Seq(VisitedList)
      /\ Len(lists) \in Nat
      /\ h \in 1 .. Len(lists)
      BY DEF TypeOK, HoldsWhileSearching, ResetHeld
<1>2. lists[h] \in VisitedList /\ \A e \in Elements : lists[h].mass[e] <= lists[h].curV
      BY <1>1 DEF NoCellAhead
<1> DEFINE r == Reset(lists[h])
<1>3. /\ r \in VisitedList
      /\ \A e \in Elements : r.mass[e] < r.curV
      BY <1>2, ResetEmpties
<1>4. \A e \in Elements : r.mass[e] <= r.curV
      BY <1>3 DEF VisitedList, VlType
<1> HIDE DEF r
<1>5. /\ lists' = [lists EXCEPT ![h] = r]
      /\ lists' \in Seq(VisitedList)
      /\ Len(lists') = Len(lists)
      /\ lists'[h] = r
      /\ \A l \in 1 .. Len(lists) : l # h => lists'[l] = lists[l]
  <2>1. lists' = [lists EXCEPT ![h] = r]
        BY DEF ResetHeld, r
  <2>2. QED
        BY <1>1, <1>3, <2>1, ExceptSeq
<1>6. TypeOK'
      BY <1>5 DEF TypeOK, ResetHeld
<1>7. HoldsWhileSearching'
      BY DEF HoldsWhileSearching, ResetHeld, TypeOK
<1>8. NoSharing' /\ NoLeak'
      BY <1>5 DEF NoSharing, NoLeak, ResetHeld
<1>9. NoCellAhead'
      BY <1>1, <1>4, <1>5 DEF NoCellAhead
<1>10. QED
      BY <1>6, <1>7, <1>8, <1>9

LEMMA VisitIInv ==
    ASSUME IInv, NEW t \in Threads, NEW e \in Elements, Visit(t, e)
    PROVE  IInv'
<1> USE DEF IInv
<1> DEFINE h == held[t]
           vl == lists[h]
           marked == [vl EXCEPT !.mass[e] = vl.curV]
<1>1. /\ lists \in Seq(VisitedList)
      /\ Len(lists) \in Nat
      /\ h \in 1 .. Len(lists)
      BY DEF TypeOK, HoldsWhileSearching, Visit
<1>2. vl \in VisitedList /\ \A d \in Elements : vl.mass[d] <= vl.curV
      BY <1>1 DEF NoCellAhead
<1>3. /\ marked \in VisitedList
      /\ marked.curV = vl.curV
      /\ marked.mass = [vl.mass EXCEPT ![e] = vl.curV]
      BY <1>2 DEF VisitedList
<1>4. \A d \in Elements : marked.mass[d] <= marked.curV
      BY <1>2, <1>3 DEF VisitedList, VlType
<1>5. lists' = [lists EXCEPT ![h] = marked]
      BY DEF Visit
<1> HIDE DEF marked
<1>6. /\ lists' \in Seq(VisitedList)
      /\ Len(lists') = Len(lists)
      /\ lists'[h] = marked
      /\ \A l \in 1 .. Len(lists) : l # h => lists'[l] = lists[l]
      BY <1>1, <1>3, <1>5, ExceptSeq
<1>7. TypeOK'
      BY <1>6 DEF TypeOK, Visit
<1>8. HoldsWhileSearching'
      BY DEF HoldsWhileSearching, Visit
<1>9. NoSharing' /\ NoLeak'
      BY <1>6 DEF NoSharing, NoLeak, Visit
<1>10. NoCellAhead'
      BY <1>1, <1>4, <1>6 DEF NoCellAhead
<1>11. QED
      BY <1>7, <1>8, <1>9, <1>10

LEMMA ReleaseIInv ==
    ASSUME IInv, NEW t \in Threads, Release(t)
    PROVE  IInv'
<1> USE DEF IInv
<1>1. /\ lists \in Seq(VisitedList)
      /\ pool \in Seq(1 .. Len(lists))
      /\ Len(lists) \in Nat
      /\ Len(pool) \in Nat
      /\ held[t] \in 1 .. Len(lists)
      BY DEF TypeOK, HoldsWhileSearching, Release
<1>2. /\ pool' \in Seq(1 .. Len(lists))
      /\ Len(pool') = Len(pool) + 1
      /\ pool'[1] = held[t]
      /\ \A i \in 1 .. Len(pool) : pool'[i + 1] = pool[i]
  <2>1. <<held[t]>> \in Seq(1 .. Len(lists)) /\ Len(<<held[t]>>) = 1
        BY <1>1
  <2>2. /\ pool' \in Seq(1 .. Len(lists))
        /\ Len(pool') = 1 + Len(pool)
        /\ \A i \in 1 .. 1 + Len(pool) :
              pool'[i] = IF i <= 1 THEN <<held[t]>>[i] ELSE pool[i - 1]
        BY <1>1, <2>1, ConcatProperties DEF Release
  <2>3. QED
        BY <1>1, <2>2
<1>3. TypeOK'
      BY <1>2 DEF TypeOK, Release
<1>4. HoldsWhileSearching'
      BY DEF HoldsWhileSearching, Release, TypeOK
<1>5. NoSharing'
  <2>1. \A r, s \in Threads : held'[r] = held'[s] /\ held'[r] # 0 => r = s
        BY DEF NoSharing, Release, TypeOK
  <2>2. ASSUME NEW s \in Threads, NEW i \in 1 .. Len(pool')
        PROVE  pool'[i] # held'[s]
    <3>1. CASE i = 1
          BY <1>1, <1>2, <3>1 DEF NoSharing, Release, TypeOK
    <3>2. CASE i # 1
      <4>1. i - 1 \in 1 .. Len(pool) /\ pool'[i] = pool[i - 1]
        <5>1. i - 1 \in 1 .. Len(pool) /\ (i - 1) + 1 = i
              BY <1>1, <1>2, <3>2
        <5>2. QED
              BY <1>2, <5>1
      <4>2. pool[i - 1] # held[s] /\ pool[i - 1] # 0
            BY <1>1, <4>1 DEF NoSharing
      <4>3. QED
            BY <4>1, <4>2 DEF Release, TypeOK
    <3>3. QED
          BY <3>1, <3>2
  <2>3. ASSUME NEW i \in 1 .. Len(pool'), NEW j \in 1 .. Len(pool'),
               pool'[i] = pool'[j]
        PROVE  i = j
    <3>1. ASSUME NEW k \in 1 .. Len(pool'), k # 1
          PROVE  k - 1 \in 1 .. Len(pool) /\ pool'[k] = pool[k - 1]
      <4>1. k - 1 \in 1 .. Len(pool) /\ (k - 1) + 1 = k
            BY <1>1, <1>2, <3>1
      <4>2. QED
            BY <1>2, <4>1
    <3>2. ASSUME NEW k \in 1 .. Len(pool'), k # 1
          PROVE  pool'[k] # pool'[1]
      <4>1. k - 1 \in 1 .. Len(pool) /\ pool'[k] = pool[k - 1]
            BY <3>1, <3>2
      <4>2. pool[k - 1] # held[t]
            BY <4>1 DEF NoSharing
      <4>3. QED
            BY <1>2, <4>1, <4>2
    <3>3. CASE i = 1 \/ j = 1
      <4>1. 1 \in 1 .. Len(pool')
            BY <1>1, <1>2
      <4>2. QED
            BY <2>3, <3>2, <3>3, <4>1
    <3>4. CASE i # 1 /\ j # 1
      <4>1. i - 1 \in 1 .. Len(pool) /\ j - 1 \in 1 .. Len(pool)
            BY <3>1, <3>4
      <4>2. pool[i - 1] = pool[j - 1]
            BY <2>3, <3>1, <3>4
      <4>3. i - 1 = j - 1
            BY <4>1, <4>2 DEF NoSharing
      <4>4. QED
            BY <4>3, <1>1, <1>2
    <3>5. QED
          BY <3>3, <3>4
  <2>4. QED
        BY <2>1, <2>2, <2>3 DEF NoSharing
<1>6. NoLeak'
  <2> SUFFICES ASSUME NEW l \in 1 .. Len(lists)
               PROVE  \/ \E i \in 1 .. Len(pool') : pool'[i] = l
                      \/ \E s \in Threads : held'[s] = l
      BY DEF NoLeak, Release
  <2>1. CASE \E i \in 1 .. Len(pool) : pool[i] = l
    <3>1. PICK i \in 1 .. Len(pool) : pool[i] = l
          BY <2>1
    <3>2. i + 1 \in 1 .. Len(pool') /\ pool'[i + 1] = l
          BY <1>1, <1>2, <3>1
    <3>3. QED
          BY <3>2
  <2>2. CASE held[t] = l
    <3>1. 1 \in 1 .. Len(pool')
          BY <1>1, <1>2
    <3>2. QED
          BY <1>2, <2>2, <3>1
  <2>3. CASE \E s \in Threads : s # t /\ held[s] = l
        BY <2>3 DEF Release, TypeOK
  <2>4. QED
        BY <2>1, <2>2, <2>3 DEF NoLeak
<1>7. NoCellAhead'
      BY DEF NoCellAhead, Release
<1>8. QED
      BY <1>3, <1>4, <1>5, <1>6, <1>7

LEMMA StutterIInv == IInv /\ UNCHANGED vars => IInv'
BY DEF IInv, TypeOK, HoldsWhileSearching, NoSharing, NoLeak, NoCellAhead, vars

LEMMA NextIInv == IInv /\ [Next]_vars => IInv'
BY TakePooledIInv, TakeNewIInv, ResetHeldIInv, VisitIInv, ReleaseIInv,
   StutterIInv DEF Next

LEMMA SpecIInv == Spec => []IInv
BY InitIInv, NextIInv, PTL DEF Spec

------------------------------------------------------------------------------
(* Type correctness of the pool.                                           *)
THEOREM TypeCorrect == Spec => []TypeOK
<1>1. IInv => TypeOK
      BY DEF IInv
<1>2. QED
      BY <1>1, SpecIInv, PTL

(* At every moment every visited list is in exactly one place: once in the *)
(* deque, or in the hands of exactly one search                            *)
(* (visited_list_pool.h:49-67).                                            *)
THEOREM ListsHaveOnePlace == Spec => []OneListOnePlace
<1>1. IInv => OneListOnePlace
      BY DEF IInv, OneListOnePlace
<1>2. QED
      BY <1>1, SpecIInv, PTL

(* No cell of a visited list is ever ahead of the list's tag               *)
(* (visited_list_pool.h:15-27).                                            *)
THEOREM CellsNeverAhead == Spec => []NoCellAhead
<1>1. IInv => NoCellAhead
      BY DEF IInv
<1>2. QED
      BY <1>1, SpecIInv, PTL

------------------------------------------------------------------------------
(***************************************************************************)
(* A list is only allocated when every other one is in the hands of a      *)
(* search, so there are never more lists than searching threads, unless    *)
(* the constructor made more (visited_list_pool.h:49-62).                  *)
(***************************************************************************)
LEMMA TakeNewNeedsThreads ==
    ASSUME IInv, NEW t \in Threads, TakeNew(t)
    PROVE  Len(lists') <= Cardinality(Threads)
<1> USE DEF IInv
<1> DEFINE n == Len(lists)
           others == {s \in Threads : held[s] # 0}
           f == [s \in others |-> held[s]]
<1>1. n \in Nat /\ Len(lists') = n + 1
      BY DEF TypeOK, TakeNew
<1>2. IsFiniteSet(others) /\ others \subseteq Threads \ {t}
      BY ThreadsAssumption, FS_Subset DEF HoldsWhileSearching, TakeNew
<1>3. f \in Surjection(others, 1 .. n)
  <2>1. f \in [others -> 1 .. n]
        BY DEF TypeOK
  <2>2. \A l \in 1 .. n : \E s \in others : f[s] = l
        BY DEF NoLeak, TakeNew
  <2>3. QED
        BY <2>1, <2>2 DEF Surjection
<1>4. n <= Cardinality(others)
  <2> HIDE DEF f, others, n
  <2>1. Cardinality(1 .. n) <= Cardinality(others)
        BY <1>2, <1>3, FS_Surjection
  <2>2. Cardinality(1 .. n) = n
        BY <1>1, FS_Interval
  <2>3. QED
        BY <2>1, <2>2
<1>5. Cardinality(others) <= Cardinality(Threads \ {t})
      BY <1>2, ThreadsAssumption, FS_RemoveElement, FS_Subset
<1>6. Cardinality(Threads \ {t}) = Cardinality(Threads) - 1
      BY ThreadsAssumption, FS_RemoveElement
<1>7. Cardinality(others) \in Nat /\ Cardinality(Threads) \in Nat
      BY <1>2, ThreadsAssumption, FS_CardinalityType
<1>8. QED
      BY <1>1, <1>4, <1>5, <1>6, <1>7

(* The number of visited lists is bounded for every number of searches.    *)
THEOREM PoolStaysBounded == Spec => []PoolBounded
<1>1. Init => PoolBounded
      BY InitMaxPoolsAssumption DEF Init, PoolBounded
<1>2. ASSUME IInv, PoolBounded, [Next]_vars
      PROVE  PoolBounded'
  <2>1. CASE \E t \in Threads : TakeNew(t)
        BY <1>2, <2>1, TakeNewNeedsThreads DEF PoolBounded
  <2>2. CASE Len(lists') = Len(lists)
        BY <1>2, <2>2 DEF PoolBounded
  <2>3. \/ \E t \in Threads : TakeNew(t)
        \/ Len(lists') = Len(lists)
    <3>1. lists \in Seq(VisitedList)
          BY <1>2 DEF IInv, TypeOK
    <3>2. ASSUME NEW t \in Threads, ResetHeld(t)
          PROVE  Len(lists') = Len(lists)
          BY <3>1, <3>2 DEF ResetHeld
    <3>3. ASSUME NEW t \in Threads, NEW e \in Elements, Visit(t, e)
          PROVE  Len(lists') = Len(lists)
          BY <3>1, <3>3 DEF Visit
    <3>4. QED
          BY <1>2, <3>2, <3>3 DEF Next, TakePooled, Release, vars
  <2>4. QED
        BY <2>1, <2>2, <2>3
<1>3. QED
      BY <1>1, <1>2, SpecIInv, PTL DEF Spec

------------------------------------------------------------------------------
(* Every search sees a visited set of its own.                             *)

NoAnswerOutside == \A t \in Threads : pc[t] # "searching" => answer[t] = "none"

LEMMA SpecNoAnswerOutside == Spec => []NoAnswerOutside
<1>1. Init => NoAnswerOutside
      BY DEF Init, NoAnswerOutside
<1>2. TypeOK /\ NoAnswerOutside /\ [Next]_vars => NoAnswerOutside'
      BY DEF TypeOK, NoAnswerOutside, Next, TakePooled, TakeNew, ResetHeld, Visit,
             Release, vars
<1>3. QED
      BY <1>1, <1>2, TypeCorrect, PTL DEF Spec

LEMMA TakeRefines ==
    ASSUME IInv, NEW t \in Threads, TakePooled(t) \/ TakeNew(t)
    PROVE  UNCHANGED Sets!avars
<1> USE DEF IInv
<1>1. \A l \in 1 .. Len(lists) : lists'[l] = lists[l]
  <2>1. CASE TakePooled(t)
        BY <2>1 DEF TakePooled
  <2>2. CASE TakeNew(t)
    <3>1. PICK vl \in NewVisitedLists : lists' = Append(lists, vl)
          BY <2>2 DEF TakeNew
    <3>2. vl \in VisitedList /\ lists \in Seq(VisitedList)
          BY MaxVAssumption DEF NewVisitedLists, VisitedList, VlType, TypeOK
    <3>3. QED
          BY <3>1, <3>2
  <2>3. QED
        BY <2>1, <2>2
<1>2. \A s \in Threads :
         pc[s] = "searching" => held[s] \in 1 .. Len(lists) /\ held'[s] = held[s]
      BY DEF TypeOK, HoldsWhileSearching, TakePooled, TakeNew
<1>3. \A s \in Threads : pc'[s] = "searching" <=> pc[s] = "searching"
      BY DEF TypeOK, TakePooled, TakeNew
<1>4. absSearching' = absSearching
      BY <1>3 DEF absSearching
<1>5. absVisited' = absVisited
  <2>1. ASSUME NEW s \in Threads
        PROVE  absVisited'[s] = absVisited[s]
    <3>1. CASE pc[s] = "searching"
      <4>1. held'[s] = held[s] /\ lists'[held[s]] = lists[held[s]]
            BY <1>1, <1>2, <3>1
      <4>2. QED
            BY <1>3, <3>1, <4>1 DEF absVisited
    <3>2. CASE pc[s] # "searching"
          BY <1>3, <3>2 DEF absVisited
    <3>3. QED
          BY <3>1, <3>2
  <2>2. QED
        BY <2>1 DEF absVisited
<1>6. QED
      BY <1>4, <1>5 DEF Sets!avars, TakePooled, TakeNew

LEMMA ResetRefines ==
    ASSUME IInv, NoAnswerOutside, NEW t \in Threads, ResetHeld(t)
    PROVE  Sets!ABegin(t)
<1> USE DEF IInv
<1> DEFINE h == held[t]
           r == Reset(lists[h])
<1>1. /\ lists \in Seq(VisitedList)
      /\ h \in 1 .. Len(lists)
      /\ pc[t] = "got"
      BY DEF TypeOK, HoldsWhileSearching, ResetHeld
<1>2. lists[h] \in VisitedList /\ \A e \in Elements : lists[h].mass[e] <= lists[h].curV
      BY <1>1 DEF NoCellAhead
<1>3. /\ r \in VisitedList
      /\ \A e \in Elements : r.mass[e] < r.curV
      BY <1>2, ResetEmpties
<1>4. \A e \in Elements : r.mass[e] # r.curV
      BY <1>3 DEF VisitedList, VlType
<1>5. lists' = [lists EXCEPT ![h] = r]
      BY DEF ResetHeld
<1> HIDE DEF r
<1>6. lists'[h] = r /\ \A l \in 1 .. Len(lists) : l # h => lists'[l] = lists[l]
      BY <1>1, <1>3, <1>5, ExceptSeq
<1>7. \A s \in Threads : pc[s] = "searching" =>
         held[s] \in 1 .. Len(lists) /\ held[s] # h
      BY <1>1 DEF NoSharing, TypeOK, HoldsWhileSearching
<1>8. /\ pc' = [pc EXCEPT ![t] = "searching"]
      /\ pc \in [Threads -> {"idle", "got", "searching"}]
      BY DEF ResetHeld, TypeOK
<1>9. absSearching' = absSearching \cup {t} /\ t \notin absSearching
      BY <1>1, <1>8 DEF absSearching
<1>10. absVisited' = [absVisited EXCEPT ![t] = {}]
  <2>1. \A s \in Threads : absVisited'[s] = IF s = t THEN {} ELSE absVisited[s]
    <3> SUFFICES ASSUME NEW s \in Threads
                 PROVE  absVisited'[s] = IF s = t THEN {} ELSE absVisited[s]
        OBVIOUS
    <3>1. CASE s = t
          BY <1>4, <1>6, <1>8, <3>1 DEF absVisited, ResetHeld
    <3>2. CASE s # t
      <4>1. pc'[s] = pc[s] /\ held'[s] = held[s]
            BY <1>8, <3>2 DEF ResetHeld
      <4>2. pc[s] = "searching" => lists'[held[s]] = lists[held[s]]
            BY <1>6, <1>7
      <4>3. QED
            BY <3>2, <4>1, <4>2 DEF absVisited
    <3>3. QED
          BY <3>1, <3>2
  <2>2. QED
        BY <2>1 DEF absVisited
<1>11. answer' = [answer EXCEPT ![t] = "none"]
      BY <1>1 DEF NoAnswerOutside, ResetHeld, TypeOK
<1>12. QED
      BY <1>9, <1>10, <1>11 DEF Sets!ABegin

LEMMA VisitRefines ==
    ASSUME IInv, NEW t \in Threads, NEW e \in Elements, Visit(t, e)
    PROVE  Sets!AVisit(t, e)
<1> USE DEF IInv
<1> DEFINE h == held[t]
           vl == lists[h]
           marked == [vl EXCEPT !.mass[e] = vl.curV]
<1>1. /\ lists \in Seq(VisitedList)
      /\ h \in 1 .. Len(lists)
      /\ pc[t] = "searching"
      BY DEF TypeOK, HoldsWhileSearching, Visit
<1>2. vl \in VisitedList
      BY <1>1
<1>3. /\ marked \in VisitedList
      /\ marked.curV = vl.curV
      /\ marked.mass[e] = vl.curV
      /\ \A d \in Elements : d # e => marked.mass[d] = vl.mass[d]
      BY <1>2 DEF VisitedList
<1>4. lists' = [lists EXCEPT ![h] = marked]
      BY DEF Visit
<1> HIDE DEF marked
<1>5. lists'[h] = marked /\ \A l \in 1 .. Len(lists) : l # h => lists'[l] = lists[l]
      BY <1>1, <1>3, <1>4, ExceptSeq
<1>6. \A s \in Threads : pc[s] = "searching" /\ s # t =>
         held[s] \in 1 .. Len(lists) /\ held[s] # h
      BY <1>1 DEF NoSharing, TypeOK, HoldsWhileSearching
<1>7. absSearching' = absSearching /\ t \in absSearching
      BY <1>1 DEF absSearching, Visit
<1>8. e \in absVisited[t] <=> vl.mass[e] = vl.curV
      BY <1>1 DEF absVisited
<1>9. absVisited' = [absVisited EXCEPT ![t] = @ \cup {e}]
  <2>1. ASSUME NEW s \in Threads
        PROVE  absVisited'[s] =
                  IF s = t THEN absVisited[t] \cup {e} ELSE absVisited[s]
    <3>1. CASE s = t
      <4>1. absVisited'[t] = {d \in Elements : marked.mass[d] = marked.curV}
            BY <1>1, <1>5 DEF absVisited, Visit
      <4>2. absVisited[t] = {d \in Elements : vl.mass[d] = vl.curV}
            BY <1>1 DEF absVisited
      <4>3. QED
            BY <1>3, <3>1, <4>1, <4>2
    <3>2. CASE s # t
          BY <1>5, <1>6, <3>2 DEF absVisited, Visit
    <3>3. QED
          BY <3>1, <3>2
  <2>2. QED
        BY <2>1 DEF absVisited
<1>10. answer' = [answer EXCEPT ![t] = IF e \in absVisited[t] THEN "seen" ELSE "new"]
      BY <1>8 DEF Visit
<1>11. QED
      BY <1>7, <1>9, <1>10 DEF Sets!AVisit

LEMMA ReleaseRefines ==
    ASSUME IInv, NEW t \in Threads, Release(t)
    PROVE  Sets!AEnd(t)
<1> USE DEF IInv
<1>1. absSearching' = absSearching \ {t} /\ t \in absSearching
      BY DEF absSearching, Release, TypeOK
<1>2. absVisited' = [absVisited EXCEPT ![t] = {}]
  <2>1. \A s \in Threads : absVisited'[s] = IF s = t THEN {} ELSE absVisited[s]
        BY DEF absVisited, Release, TypeOK
  <2>2. QED
        BY <2>1 DEF absVisited
<1>3. QED
      BY <1>1, <1>2 DEF Sets!AEnd, Release

(* The pool implements private visited sets that start empty and answer    *)
(* exactly, through reuse, uninitialised cells and wrap-around of the tag  *)
(* (visited_list_pool.h:21-67, hnswalg.h:165-235).                         *)
THEOREM PoolImplementsVisitedSets == Spec => ImplementsVisitedSets
<1>1. Init => Sets!AInit
  <2> SUFFICES ASSUME Init PROVE Sets!AInit
      OBVIOUS
  <2>1. \A t \in Threads : pc[t] # "searching"
        BY DEF Init
  <2>2. absSearching = {}
        BY <2>1 DEF absSearching
  <2>3. absVisited = [t \in Threads |-> {}]
        BY <2>1 DEF absVisited
  <2>4. QED
        BY <2>2, <2>3 DEF Sets!AInit, Init
<1>2. IInv /\ NoAnswerOutside /\ [Next]_vars => [Sets!ANext]_Sets!avars
  <2> SUFFICES ASSUME IInv, NoAnswerOutside, [Next]_vars
               PROVE  Sets!ANext \/ UNCHANGED Sets!avars
      OBVIOUS
  <2>1. CASE UNCHANGED vars
        BY <2>1 DEF vars, Sets!avars, absSearching, absVisited
  <2>2. ASSUME NEW t \in Threads, TakePooled(t) \/ TakeNew(t)
        PROVE  UNCHANGED Sets!avars
        BY <2>2, TakeRefines
  <2>3. ASSUME NEW t \in Threads,
               \/ ResetHeld(t)
               \/ \E e \in Elements : Visit(t, e)
               \/ Release(t)
        PROVE  Sets!ANext
        BY <2>3, ResetRefines, VisitRefines, ReleaseRefines DEF Sets!ANext
  <2>4. QED
        BY <2>1, <2>2, <2>3 DEF Next
<1>3. QED
      BY <1>1, <1>2, SpecIInv, SpecNoAnswerOutside, PTL
      DEF Spec, ImplementsVisitedSets, Sets!ASpec
==============================================================================
