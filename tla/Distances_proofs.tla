-------------------------- MODULE Distances_proofs --------------------------
(***************************************************************************)
(* For every dimension: the distance function a space chooses adds every   *)
(* coordinate exactly once and reads nothing past the vectors.             *)
(*                                                                         *)
(* The invariant says how far each loop may have moved: a multiple of its  *)
(* width, no farther than its end; what was added is what lies behind.     *)
(***************************************************************************)
EXTENDS Distances, TLAPS

AtLoops == {"by16", "by4", "by1", "returned"}

Typed ==
    /\ space \in Spaces /\ simd \in BOOLEAN /\ dim \in 0 .. MaxDim
    /\ fn \in Functions \cup {"none"}
    /\ pc \in {"choose"} \cup AtLoops
    /\ pos \in Nat /\ ones \in Int

(* What lies behind pos has been added once, the rest not at all. *)
Behind == added = [i \in Coordinates |-> IF i < pos THEN 1 ELSE 0]

Last4 == IF End4 > End16 THEN End4 ELSE End16

Moved ==
    /\ pos <= dim
    /\ pc = "choose" => pos = 0 /\ ones = 0
    /\ pc \in AtLoops => fn = Chosen
    /\ pc = "by16" => ones = 0 /\ pos <= End16 /\ \E q \in Nat : pos = 16 * q
    /\ pc = "by4" => /\ ones = 0 /\ End16 <= pos /\ pos <= Last4
                     /\ \E q \in Nat : pos = 4 * q
    /\ pc = "by1" => /\ HasResiduals \/ fn = "plain"
                     /\ Blocks <= pos
                     /\ ones = TakenBack
    /\ pc = "returned" => pos = Counted /\ ones = Unit

IInv == Typed /\ Behind /\ Moved

------------------------------------------------------------------------------
(* Rounding down to a multiple. *)
LEMMA Whole4 ==
    ASSUME NEW b \in Nat
    PROVE  /\ Whole(4, b) \in Nat /\ Whole(4, b) <= b
           /\ \E m \in Nat : Whole(4, b) = 4 * m
           /\ b % 4 = 0 => Whole(4, b) = b
           /\ Whole(4, Whole(4, b)) = Whole(4, b)
BY DEF Whole

LEMMA Whole16 ==
    ASSUME NEW b \in Nat
    PROVE  /\ Whole(16, b) \in Nat /\ Whole(16, b) <= b
           /\ \E m \in Nat : Whole(16, b) = 16 * m
           /\ b % 16 = 0 => Whole(16, b) = b
           /\ Whole(16, Whole(16, b)) = Whole(16, b)
           /\ Whole(16, b) <= Whole(4, b)
           /\ Whole(4, Whole(16, b)) = Whole(16, b)
BY DEF Whole

(* A loop that has not reached its end has a whole turn to go. *)
LEMMA RoomForTurn ==
    ASSUME NEW p \in Nat, NEW q \in Nat, NEW end \in Nat, NEW m \in Nat
    PROVE  /\ p = 16 * q /\ end = 16 * m /\ p < end
                  => p + 16 <= end /\ p + 16 = 16 * (q + 1)
           /\ p = 4 * q /\ end = 4 * m /\ p < end
                  => p + 4 <= end /\ p + 4 = 4 * (q + 1)
OBVIOUS

(* The part for the loops over blocks, and their ends: the last loop ends  *)
(* where the part does, except that L2SqrI leaves a rest behind.           *)
LEMMA Ends ==
    ASSUME Typed, fn = Chosen
    PROVE  /\ Blocks \in Nat /\ Blocks <= dim
           /\ End16 \in Nat /\ End16 <= Blocks /\ \E m \in Nat : End16 = 16 * m
           /\ End4 \in Nat /\ End4 <= Blocks /\ \E m \in Nat : End4 = 4 * m
           /\ fn # "L2SqrI" => Last4 = Blocks
           /\ fn = "L2SqrI" => Last4 = Counted
<1> USE DEF Typed, Spaces, Functions, AtLoops
<1>0. dim \in Nat
  BY MaxDimAssumption
<1>z. 0 = 4 * 0 /\ 0 = 16 * 0 /\ Whole(16, 0) = 0
  BY DEF Whole
<1>1. CASE fn = "plain"
  <2>1. Blocks = 0 /\ End16 = 0 /\ End4 = 0
    BY <1>1, <1>z DEF Blocks, End16, End4
  <2> QED
    BY <1>0, <1>1, <1>z, <2>1 DEF Last4
<1>2. CASE fn = "L2SqrI"
  <2>1. space = "l2i"
    BY <1>2 DEF Chosen
  <2>2. Blocks = dim /\ End16 = 0 /\ End4 = Whole(4, dim) /\ Counted = Whole(4, dim)
    BY <1>2, <2>1 DEF Blocks, End16, End4, Counted
  <2> QED
    BY <1>0, <1>2, <1>z, <2>2, Whole4 DEF Last4
<1>3. CASE fn = "SIMD16Ext"
  <2>1. dim % 16 = 0
    BY <1>3 DEF Chosen
  <2>2. Blocks = dim /\ End16 = dim /\ End16 = Whole(16, dim) /\ End4 = 0
    BY <1>0, <1>3, <2>1, Whole16 DEF Blocks, End16, End4
  <2> QED
    BY <1>0, <1>3, <1>z, <2>2, Whole16 DEF Last4
<1>4. CASE fn = "SIMD4Ext"
  <2>1. dim % 4 = 0
    BY <1>4 DEF Chosen
  <2>2. Blocks = dim /\ End4 = dim /\ End4 = Whole(4, dim)
    BY <1>0, <1>4, <2>1, Whole4 DEF Blocks, End4
  <2>3. End16 = Whole(16, dim) \/ End16 = 0
    BY <1>4, <2>2 DEF End16
  <2>4. End16 \in Nat /\ End16 <= dim /\ \E m \in Nat : End16 = 16 * m
    BY <1>0, <1>z, <2>3, Whole16
  <2>5. \E m \in Nat : End4 = 4 * m
    BY <1>0, <2>2, Whole4
  <2>6. Last4 = Blocks
    BY <1>0, <2>2, <2>4 DEF Last4
  <2>7. /\ Blocks \in Nat /\ Blocks <= dim
        /\ End16 \in Nat /\ End16 <= Blocks
        /\ End4 \in Nat /\ End4 <= Blocks
    BY <1>0, <2>2, <2>4
  <2>8. fn # "L2SqrI"
    BY <1>4
  <2> HIDE DEF Typed
  <2> QED
    BY <2>4, <2>5, <2>6, <2>7, <2>8
<1>5. CASE fn = "SIMD16ExtResiduals"
  <2>1. Blocks = Whole(16, dim) /\ End16 = Whole(16, dim) /\ End4 = 0
    BY <1>0, <1>5, Whole16 DEF Blocks, End16, End4
  <2> QED
    BY <1>0, <1>5, <1>z, <2>1, Whole16 DEF Last4
<1>6. CASE fn = "SIMD4ExtResiduals"
  <2>1. Blocks = Whole(4, dim) /\ Blocks \in Nat /\ Blocks <= dim
    BY <1>0, <1>6, Whole4 DEF Blocks
  <2>2. End4 = Blocks
    BY <1>0, <1>6, <2>1, Whole4 DEF End4
  <2>3. /\ End16 \in Nat /\ End16 <= Blocks
        /\ \E m \in Nat : End16 = 16 * m
    <3>1. End16 = Whole(16, Blocks) \/ End16 = 0
      BY <1>6 DEF End16
    <3> QED
      BY <1>z, <2>1, <3>1, Whole16
  <2>4. \E m \in Nat : End4 = 4 * m
    BY <1>0, <2>1, <2>2, Whole4
  <2> QED
    BY <1>6, <2>1, <2>2, <2>3, <2>4 DEF Last4
<1>7. fn # "none"
  BY DEF Chosen
<1> QED
  BY <1>1, <1>2, <1>3, <1>4, <1>5, <1>6, <1>7

(* A loop that moves n coordinates on, adding them. *)
LEMMA TurnKeepsBehind ==
    ASSUME Behind, pos \in Nat, NEW n \in Nat, Turn(n)
    PROVE  Behind'
BY MaxDimAssumption DEF Behind, Turn, Coordinates

------------------------------------------------------------------------------
LEMMA Initial == Init => IInv
BY MaxDimAssumption
   DEF Init, IInv, Typed, Behind, Moved, AtLoops, Spaces, Functions, Coordinates

LEMMA Inductive == IInv /\ [Next]_vars => IInv'
<1> SUFFICES ASSUME IInv, [Next]_vars PROVE IInv'
  OBVIOUS
<1> USE DEF IInv, Typed, AtLoops
<1>0. dim \in Nat /\ MaxDim \in Nat
  BY MaxDimAssumption
<1>1. CASE Choose
  <2>1. fn' = Chosen /\ Chosen' = Chosen
    BY <1>1 DEF Choose, Chosen
  <2>2. Typed'
    BY <1>1, <2>1 DEF Choose, Chosen, Functions
  <2>3. Behind'
    BY <1>1 DEF Choose, Behind, Coordinates
  <2>4. End16' \in Nat
    <3>1. dim' \in Nat
      BY <1>0, <1>1 DEF Choose
    <3>2. \A b \in Nat : Whole(16, b) \in Nat /\ Whole(4, b) \in Nat
      BY Whole16, Whole4
    <3>3. Blocks' \in Nat
      BY <3>1, <3>2 DEF Blocks
    <3> QED
      BY <3>2, <3>3 DEF End16
  <2>5. pos' = 0 /\ ones' = 0 /\ pc' = "by16" /\ dim' = dim
    BY <1>1 DEF Choose, Moved
  <2> QED
    BY <2>1, <2>2, <2>3, <2>4, <2>5, <1>0 DEF Moved
<1>2. CASE By16
  <2>1. Turn(16) /\ pc = "by16" /\ pos < End16 /\ fn = Chosen /\ ones = 0
    BY <1>2 DEF By16, Moved
  <2>2. Behind'
    BY <2>1, TurnKeepsBehind
  <2>3. pos + 16 <= End16 /\ \E q \in Nat : pos + 16 = 16 * q
    <3>1. PICK q \in Nat : pos = 16 * q
      BY <2>1 DEF Moved
    <3>2. PICK m \in Nat : End16 = 16 * m
      BY <2>1, Ends
    <3>3. End16 \in Nat
      BY <2>1, Ends
    <3>4. pos + 16 <= End16 /\ pos + 16 = 16 * (q + 1)
      BY <2>1, <3>1, <3>2, <3>3, RoomForTurn
    <3>5. q + 1 \in Nat
      OBVIOUS
    <3> QED
      BY <3>4, <3>5
  <2>4. pos' = pos + 16 /\ UNCHANGED <<space, simd, dim, fn, pc, ones>>
    BY <2>1 DEF Turn
  <2>5. End16' = End16 /\ Chosen' = Chosen
    BY <2>4 DEF End16, Blocks, Chosen
  <2>6. pos' <= dim
    BY <2>1, <2>3, <2>4, Ends, <1>0
  <2>7. Typed'
    BY <2>4
  <2> QED
    BY <2>1, <2>2, <2>3, <2>4, <2>5, <2>6, <2>7 DEF Moved
<1>3. CASE End16Loop
  <2>1. pc = "by16" /\ pos >= End16 /\ fn = Chosen /\ ones = 0 /\ pos <= End16
    BY <1>3 DEF End16Loop, Moved
  <2>2. pc' = "by4" /\ UNCHANGED <<space, simd, dim, fn, pos, added, ones>>
    BY <1>3 DEF End16Loop
  <2>3. End16' = End16 /\ Chosen' = Chosen /\ Last4' = Last4
    BY <2>2 DEF End16, End4, Last4, Blocks, Chosen
  <2>4. pos <= Last4 /\ \E q \in Nat : pos = 4 * q
    <3>1. PICK m \in Nat : pos = 16 * m
      BY <2>1 DEF Moved
    <3>2. pos = 4 * (4 * m) /\ 4 * m \in Nat
      BY <3>1
    <3> QED
      BY <2>1, <3>2, Ends DEF Last4
  <2>5. Typed' /\ Behind'
    BY <2>2 DEF Behind, Coordinates
  <2> QED
    BY <2>1, <2>2, <2>3, <2>4, <2>5 DEF Moved
<1>4. CASE By4
  <2>1. Turn(4) /\ pc = "by4" /\ pos < End4 /\ fn = Chosen /\ ones = 0 /\ End16 <= pos
    BY <1>4 DEF By4, Moved
  <2>2. Behind'
    BY <2>1, TurnKeepsBehind
  <2>3. pos + 4 <= End4 /\ \E q \in Nat : pos + 4 = 4 * q
    <3>1. PICK q \in Nat : pos = 4 * q
      BY <2>1 DEF Moved
    <3>2. PICK m \in Nat : End4 = 4 * m
      BY <2>1, Ends
    <3>3. End4 \in Nat
      BY <2>1, Ends
    <3>4. pos + 4 <= End4 /\ pos + 4 = 4 * (q + 1)
      BY <2>1, <3>1, <3>2, <3>3, RoomForTurn
    <3>5. q + 1 \in Nat
      OBVIOUS
    <3> QED
      BY <3>4, <3>5
  <2>4. pos' = pos + 4 /\ UNCHANGED <<space, simd, dim, fn, pc, ones>>
    BY <2>1 DEF Turn
  <2>5. End16' = End16 /\ Last4' = Last4 /\ Chosen' = Chosen
    BY <2>4 DEF End16, End4, Last4, Blocks, Chosen
  <2>6. pos' <= dim /\ pos' <= Last4 /\ End16 <= pos'
    BY <2>1, <2>3, <2>4, Ends, <1>0 DEF Last4
  <2>7. Typed'
    BY <2>4
  <2> QED
    BY <2>1, <2>2, <2>3, <2>4, <2>5, <2>6, <2>7 DEF Moved
<1>5. CASE End4Loop
  <2>1. pc = "by4" /\ pos >= End4 /\ fn = Chosen /\ ones = 0
        /\ End16 <= pos /\ pos <= Last4
    BY <1>5 DEF End4Loop, Moved
  <2>2. pos = Last4
    BY <2>1, Ends DEF Last4
  <2>3. UNCHANGED <<space, simd, dim, fn, added>>
    BY <1>5 DEF End4Loop
  <2>4. /\ Chosen' = Chosen /\ Blocks' = Blocks /\ Counted' = Counted
        /\ Unit' = Unit /\ TakenBack' = TakenBack /\ (HasResiduals <=> HasResiduals')
    BY <2>3 DEF Chosen, Blocks, Counted, Unit, TakenBack, HasResiduals, Whole
  <2>5. Unit \in Nat /\ Unit' \in Nat
    BY <2>4 DEF Unit
  <2>6. CASE HasResiduals \/ fn = "plain"
    <3>1. fn # "L2SqrI"
      BY <2>6 DEF HasResiduals
    <3>2. pos' = pos /\ pos = Blocks /\ pc' = "by1"
      BY <1>5, <2>2, <2>6, <3>1, <2>1, Ends DEF End4Loop, TailFrom
    <3>3. ones' = TakenBack
      BY <1>5, <2>1, <2>5, <2>6 DEF End4Loop, TakenBack, HasResiduals
    <3> QED
      BY <2>1, <2>3, <2>4, <2>5, <2>6, <3>2, <3>3 DEF Moved, Behind, TakenBack, Coordinates
  <2>7. CASE ~(HasResiduals \/ fn = "plain")
    <3>1. pos' = pos /\ pc' = "returned" /\ ones' = Unit
      BY <1>5, <2>1, <2>5, <2>7 DEF End4Loop
    <3>2. pos = Counted
      <4>1. CASE fn = "L2SqrI"
        BY <4>1, <2>1, <2>2, Ends
      <4>2. CASE fn # "L2SqrI"
        <5>1. space # "l2i"
          BY <2>1, <4>2 DEF Chosen
        <5>2. Blocks = dim
          BY <2>7, <4>2 DEF HasResiduals, Blocks, Functions
        <5> QED
          BY <2>1, <2>2, <4>2, <5>1, <5>2, Ends DEF Counted
      <4> QED
        BY <4>1, <4>2
    <3> QED
      BY <2>1, <2>3, <2>4, <2>5, <3>1, <3>2 DEF Moved, Behind, Coordinates
  <2> QED
    BY <2>6, <2>7
<1>6. CASE By1
  <2>1. Turn(1) /\ pc = "by1" /\ pos < dim /\ fn = Chosen
    BY <1>6 DEF By1, Moved
  <2>2. Behind'
    BY <2>1, TurnKeepsBehind
  <2>3. pos' = pos + 1 /\ UNCHANGED <<space, simd, dim, fn, pc, ones>>
    BY <2>1 DEF Turn
  <2>4. /\ Chosen' = Chosen /\ Blocks' = Blocks /\ TakenBack' = TakenBack
        /\ (HasResiduals <=> HasResiduals')
    BY <2>3 DEF Chosen, Blocks, TakenBack, HasResiduals, Unit
  <2>5. Blocks \in Nat
    BY <2>1, Ends
  <2> QED
    BY <2>1, <2>2, <2>3, <2>4, <2>5, <1>0 DEF Moved
<1>7. CASE End1Loop
  <2>1. pc = "by1" /\ pos >= dim /\ pos <= dim /\ fn = Chosen
        /\ (HasResiduals \/ fn = "plain") /\ ones = TakenBack
    BY <1>7 DEF End1Loop, Moved
  <2>2. /\ UNCHANGED <<space, simd, dim, fn, pos, added>> /\ pc' = "returned"
        /\ ones' = ones + Unit - TakenBack
    BY <1>7 DEF End1Loop
  <2>3. Chosen' = Chosen /\ Counted' = Counted /\ Unit' = Unit
    BY <2>2 DEF Chosen, Counted, Unit
  <2>4. Unit \in Int /\ TakenBack \in Int
    BY DEF Unit, TakenBack
  <2>5. space # "l2i"
    BY <2>1 DEF Chosen, HasResiduals
  <2>6. pos = Counted
    BY <2>1, <2>5, <1>0 DEF Counted
  <2> QED
    BY <2>1, <2>2, <2>3, <2>4, <2>6 DEF Moved, Behind, Coordinates
<1>8. CASE Returned \/ UNCHANGED vars
  <2>1. UNCHANGED vars
    BY <1>8 DEF Returned
  <2> QED
    BY <2>1 DEF vars, Moved, Behind, Coordinates, Chosen, Blocks, End16, End4, Last4,
                Counted, Unit, TakenBack, HasResiduals
<1> QED
  BY <1>1, <1>2, <1>3, <1>4, <1>5, <1>6, <1>7, <1>8 DEF Next

LEMMA InvariantHolds == Spec => []IInv
BY Initial, Inductive, PTL DEF Spec

(* For every dimension, in every build, the function that is chosen counts *)
(* every coordinate once (space_l2.h:149-158, space_ip.h:240-249).         *)
THEOREM EveryCoordinateOnce == Spec => []SumsEachOnce
<1>1. IInv => SumsEachOnce
  BY DEF IInv, Behind, Moved, SumsEachOnce
<1> QED
  BY <1>1, InvariantHolds, PTL

(* No load is past the end of a vector, whatever the dimension             *)
(* (space_l2.h:38, 80, 135).                                               *)
THEOREM LoadsInBounds == Spec => []NoReadPastEnd
<1>1. IInv => NoReadPastEnd
  BY MaxDimAssumption DEF IInv, Typed, Behind, Moved, NoReadPastEnd, Coordinates
<1> QED
  BY <1>1, InvariantHolds, PTL
==============================================================================
