--------------------------- MODULE VisitedListPool ---------------------------
(***************************************************************************)
(* The pool of visited lists (hnswlib/visited_list_pool.h) as the searches *)
(* of hnswlib/hnswalg.h use it.                                            *)
(*                                                                         *)
(* A VisitedList is an array "mass" with one 16-bit cell for every element *)
(* and a 16-bit tag curV.  An element is visited when its cell holds the   *)
(* tag, so a list is emptied by incrementing the tag; only when the tag    *)
(* wraps around to 0 is the array cleared.  The array of a new list is not *)
(* initialised.  Lists are shared by the threads through a deque under a   *)
(* mutex; a thread that finds the deque empty allocates one more list.     *)
(***************************************************************************)
EXTENDS Integers, Sequences, FiniteSets

CONSTANTS Threads,      \* threads that search the index
          Elements,     \* internal ids, 0 .. max_elements_ - 1
          MaxV,         \* largest vl_type: 2^16 - 1 in the code
          InitMaxPools  \* lists allocated by the constructor of the pool

ASSUME ThreadsAssumption == IsFiniteSet(Threads)
ASSUME MaxVAssumption == MaxV \in Nat \ {0}
ASSUME InitMaxPoolsAssumption == InitMaxPools \in Nat

VARIABLES lists,  \* every VisitedList ever allocated: its curV and its mass
          pool,   \* the deque, front first: positions in lists
          pc,     \* pc[t]: "idle", "got" (list taken, not reset), "searching"
          held,   \* held[t]: the list of thread t, 0 for none
          answer  \* answer[t]: what the last test of a cell told thread t

vars == <<lists, pool, pc, held, answer>>

VlType == 0 .. MaxV

VisitedList == [curV : VlType, mass : [Elements -> VlType]]

(* "curV = -1" on an unsigned short; "new vl_type[n]" leaves any contents. *)
NewVisitedLists == [curV : {MaxV}, mass : [Elements -> VlType]]

(* Mutant: the cells are not cleared when the tag wraps around. *)
ResetUncleared(vl) ==
    [curV |-> IF vl.curV = MaxV THEN 1 ELSE vl.curV + 1, mass |-> vl.mass]

(* Mutant: the tag stays 0, the value of the cells just cleared. *)
ResetToZero(vl) ==
    LET next == (vl.curV + 1) % (MaxV + 1)
    IN  [curV |-> next,
         mass |-> IF next = 0 THEN [e \in Elements |-> 0] ELSE vl.mass]

(* Mutant: a tag that does not wrap around. *)
ResetWide(vl) == [curV |-> vl.curV + 1, mass |-> vl.mass]

(* VisitedList::reset: curV++ modulo 2^16, clearing the cells on 0. *)
Reset(vl) ==
    LET next == (vl.curV + 1) % (MaxV + 1)
    IN  IF next = 0
        THEN [curV |-> 1, mass |-> [e \in Elements |-> 0]]
        ELSE [curV |-> next, mass |-> vl.mass]

------------------------------------------------------------------------------
Init ==
    /\ lists \in [1 .. InitMaxPools -> NewVisitedLists]
    /\ pool = [i \in 1 .. InitMaxPools |-> InitMaxPools + 1 - i]
    /\ pc = [t \in Threads |-> "idle"]
    /\ held = [t \in Threads |-> 0]
    /\ answer = [t \in Threads |-> "none"]

(* Mutant: the list is not popped. *)
TakePooledShared(t) ==
    /\ pc[t] = "idle"
    /\ pool # <<>>
    /\ held' = [held EXCEPT ![t] = Head(pool)]
    /\ pc' = [pc EXCEPT ![t] = "got"]
    /\ UNCHANGED <<lists, pool, answer>>

(* getFreeVisitedList, under poolguard: the front of a non-empty deque. *)
TakePooled(t) ==
    /\ pc[t] = "idle"
    /\ pool # <<>>
    /\ held' = [held EXCEPT ![t] = Head(pool)]
    /\ pool' = Tail(pool)
    /\ pc' = [pc EXCEPT ![t] = "got"]
    /\ UNCHANGED <<lists, answer>>

(* getFreeVisitedList, under poolguard: a new list when the deque is empty. *)
TakeNew(t) ==
    /\ pc[t] = "idle"
    /\ pool = <<>>
    /\ \E vl \in NewVisitedLists : lists' = Append(lists, vl)
    /\ held' = [held EXCEPT ![t] = Len(lists) + 1]
    /\ pc' = [pc EXCEPT ![t] = "got"]
    /\ UNCHANGED <<pool, answer>>

(* getFreeVisitedList, after poolguard is released: rez->reset(). *)
ResetHeld(t) ==
    /\ pc[t] = "got"
    /\ lists' = [lists EXCEPT ![held[t]] = Reset(@)]
    /\ pc' = [pc EXCEPT ![t] = "searching"]
    /\ UNCHANGED <<pool, held, answer>>

(* A search meets e: skipped when its cell holds the tag, else marked. *)
Visit(t, e) ==
    /\ pc[t] = "searching"
    /\ LET vl == lists[held[t]]
       IN  /\ answer' = [answer EXCEPT ![t] =
                            IF vl.mass[e] = vl.curV THEN "seen" ELSE "new"]
           /\ lists' = [lists EXCEPT ![held[t]].mass[e] = vl.curV]
    /\ UNCHANGED <<pool, pc, held>>

(* Mutant: the list is forgotten. *)
ReleaseLost(t) ==
    /\ pc[t] = "searching"
    /\ held' = [held EXCEPT ![t] = 0]
    /\ pc' = [pc EXCEPT ![t] = "idle"]
    /\ answer' = [answer EXCEPT ![t] = "none"]
    /\ UNCHANGED <<lists, pool>>

(* releaseVisitedList, under poolguard: back to the front of the deque. *)
Release(t) ==
    /\ pc[t] = "searching"
    /\ pool' = <<held[t]>> \o pool
    /\ held' = [held EXCEPT ![t] = 0]
    /\ pc' = [pc EXCEPT ![t] = "idle"]
    /\ answer' = [answer EXCEPT ![t] = "none"]
    /\ UNCHANGED lists

Next ==
    \E t \in Threads :
        \/ TakePooled(t)
        \/ TakeNew(t)
        \/ ResetHeld(t)
        \/ \E e \in Elements : Visit(t, e)
        \/ Release(t)

Spec == Init /\ [][Next]_vars

------------------------------------------------------------------------------
(* Type invariant. *)
TypeOK ==
    /\ lists \in Seq(VisitedList)
    /\ pool \in Seq(1 .. Len(lists))
    /\ pc \in [Threads -> {"idle", "got", "searching"}]
    /\ held \in [Threads -> 0 .. Len(lists)]
    /\ answer \in [Threads -> {"none", "seen", "new"}]

(* A thread holds a list exactly while it is inside a search. *)
HoldsWhileSearching == \A t \in Threads : held[t] = 0 <=> pc[t] = "idle"

(* No list is used twice: two searches never share one, a list that some   *)
(* search uses is not in the deque, and the deque has no list twice.       *)
NoSharing ==
    /\ \A s, t \in Threads : held[s] = held[t] /\ held[s] # 0 => s = t
    /\ \A t \in Threads, i \in 1 .. Len(pool) : pool[i] # held[t]
    /\ \A i, j \in 1 .. Len(pool) : pool[i] = pool[j] => i = j

(* No list is lost: each one is in the deque or in the hands of a search. *)
NoLeak ==
    \A l \in 1 .. Len(lists) :
        \/ \E i \in 1 .. Len(pool) : pool[i] = l
        \/ \E t \in Threads : held[t] = l

(* Every list has exactly one place (visited_list_pool.h:49-67): a search  *)
(* that shared its array would skip elements another search has met, and a *)
(* list that left the deque for good would be allocated again and again.   *)
OneListOnePlace == NoSharing /\ NoLeak

(* The pool never allocates more lists than the larger of its initial size *)
(* and the number of threads that search at once.                          *)
PoolBounded == Len(lists) <= InitMaxPools \/ Len(lists) <= Cardinality(Threads)

(* No cell is ahead of the tag of its list: why incrementing the tag       *)
(* empties the list, uninitialised cells and wrap-around included.         *)
NoCellAhead ==
    \A l \in 1 .. Len(lists), e \in Elements : lists[l].mass[e] <= lists[l].curV

------------------------------------------------------------------------------
(* The abstraction: the visited set of a search is the set of cells of its *)
(* list that hold the tag.                                                 *)
absSearching == {t \in Threads : pc[t] = "searching"}

absVisited ==
    [t \in Threads |->
        IF pc[t] = "searching"
        THEN {e \in Elements : lists[held[t]].mass[e] = lists[held[t]].curV}
        ELSE {}]

Sets == INSTANCE VisitedSets
            WITH searching <- absSearching, visited <- absVisited

(* Every search sees a visited set of its own that starts empty, holds     *)
(* exactly the elements the search has met, and answers accordingly.       *)
ImplementsVisitedSets == Sets!ASpec
==============================================================================
