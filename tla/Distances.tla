------------------------------ MODULE Distances ------------------------------
(***************************************************************************)
(* The distance functions of space_l2.h and space_ip.h: which function a   *)
(* space chooses for its dimension, and how the function walks two         *)
(* vectors, 16 or 4 coordinates at a time and one by one over the rest.    *)
(* Each coordinate is one term of the sum; the inner product is taken from *)
(* 1.  The values and the order of the additions are left out.             *)
(***************************************************************************)
EXTENDS Integers

CONSTANT MaxDim \* bound of this model: the dimensions 0 .. MaxDim

ASSUME MaxDimAssumption == MaxDim \in Nat

VARIABLES space, \* "l2": L2Space, "ip": InnerProductSpace, "l2i": L2SpaceI
          simd,  \* is the library built for SSE or AVX?
          dim,   \* the dimension of the space
          fn,    \* the distance function that the space has chosen
          pc,    \* the loop that is running
          pos,   \* how far pVect1 and pVect2 have moved
          added, \* how many terms of the sum each coordinate has given
          ones   \* how many times 1 has been added

vars == <<space, simd, dim, fn, pc, pos, added, ones>>

Spaces == {"l2", "ip", "l2i"}
Functions == {"plain", "SIMD16Ext", "SIMD4Ext", "SIMD16ExtResiduals",
              "SIMD4ExtResiduals", "L2SqrI"}

(* Coordinates that a walk can reach, those past the vectors too. *)
Coordinates == 0 .. MaxDim + 15

Init ==
    /\ space \in Spaces /\ simd \in BOOLEAN /\ dim \in 0 .. MaxDim
    /\ fn = "none" /\ pc = "choose"
    /\ pos = 0
    /\ added = [i \in Coordinates |-> 0]
    /\ ones = 0

------------------------------------------------------------------------------
(* The constructors of the spaces. *)
Chosen ==
    IF space = "l2i" THEN "L2SqrI"
    ELSE IF ~simd THEN "plain"
    ELSE IF dim % 16 = 0 THEN "SIMD16Ext"
    ELSE IF dim % 4 = 0 THEN "SIMD4Ext"
    ELSE IF dim > 16 THEN "SIMD16ExtResiduals"
    ELSE IF dim > 4 THEN "SIMD4ExtResiduals"
    ELSE "plain"

(* Mutant: the number of blocks is rounded up. *)
WholeAndMore(n, length) == n * ((length + n - 1) \div n)

(* The part of a length that whole blocks of n cover. *)
Whole(n, length) == n * (length \div n)

(* The part of the vectors that is left to the loops over whole blocks:    *)
(* qty16 or qty4 of the functions with residuals.                          *)
Blocks ==
    CASE fn = "SIMD16ExtResiduals" -> Whole(16, dim)
      [] fn = "SIMD4ExtResiduals"  -> Whole(4, dim)
      [] fn = "plain"              -> 0
      [] OTHER                     -> dim

(* The ends of the loops, 16 and 4 at a time.  The 4-wide inner product    *)
(* has both.                                                               *)
End16 ==
    IF \/ fn \in {"SIMD16Ext", "SIMD16ExtResiduals"}
       \/ space = "ip" /\ fn \in {"SIMD4Ext", "SIMD4ExtResiduals"}
    THEN Whole(16, Blocks) ELSE 0
End4 ==
    IF fn \in {"SIMD4Ext", "SIMD4ExtResiduals", "L2SqrI"} THEN Whole(4, Blocks) ELSE 0

Choose ==
    /\ pc = "choose"
    /\ fn' = Chosen
    /\ pc' = "by16"
    /\ UNCHANGED <<space, simd, dim, pos, added, ones>>

(* One turn of a loop: the next n coordinates join the sum. *)
Turn(n) ==
    /\ added' = [i \in Coordinates |->
                    IF pos <= i /\ i < pos + n THEN added[i] + 1 ELSE added[i]]
    /\ pos' = pos + n
    /\ UNCHANGED <<space, simd, dim, fn, pc, ones>>

By16 == pc = "by16" /\ pos < End16 /\ Turn(16)

End16Loop ==
    /\ pc = "by16" /\ pos >= End16
    /\ pc' = "by4"
    /\ UNCHANGED <<space, simd, dim, fn, pos, added, ones>>

By4 == pc = "by4" /\ pos < End4 /\ Turn(4)

HasResiduals == fn \in {"SIMD16ExtResiduals", "SIMD4ExtResiduals"}

(* An inner product is 1 less the sum. *)
Unit == IF space = "ip" THEN 1 ELSE 0

(* Mutant: the results of the two functions are only added. *)
NotTakenBack == 0

(* A result made of two has counted 1 once too often. *)
TakenBack == IF HasResiduals THEN Unit ELSE 0

(* The one-by-one loop begins at the start of the vectors, or of the rest. *)
TailFrom == Blocks

(* The loops over blocks are done: the function returns, or calls the      *)
(* plain function on the rest of the vectors.                              *)
End4Loop ==
    /\ pc = "by4" /\ pos >= End4
    /\ IF HasResiduals \/ fn = "plain"
       THEN pc' = "by1" /\ pos' = TailFrom
       ELSE pc' = "returned" /\ pos' = pos
    /\ ones' = IF fn = "plain" THEN ones ELSE ones + Unit
    /\ UNCHANGED <<space, simd, dim, fn, added>>

By1 == pc = "by1" /\ pos < dim /\ Turn(1)

End1Loop ==
    /\ pc = "by1" /\ pos >= dim
    /\ pc' = "returned"
    /\ ones' = ones + Unit - TakenBack
    /\ UNCHANGED <<space, simd, dim, fn, pos, added>>

Returned == pc = "returned" /\ UNCHANGED vars

Next ==
    Choose \/ By16 \/ End16Loop \/ By4 \/ End4Loop \/ By1 \/ End1Loop \/ Returned

Spec == Init /\ [][Next]_vars

------------------------------------------------------------------------------
(* Whatever the dimension, the function that is chosen for it computes     *)
(* what the plain loop does: every coordinate is one term of the sum, and  *)
(* 1 is counted once in an inner product (space_l2.h:175-187,              *)
(* space_ip.h:250-261).  L2SqrI leaves out the last dim % 4 coordinates.   *)
Counted == IF space = "l2i" THEN Whole(4, dim) ELSE dim

SumsEachOnce ==
    pc = "returned" =>
        /\ \A i \in Coordinates : added[i] = IF i < Counted THEN 1 ELSE 0
        /\ ones = Unit

(* No load reads past the end of a vector, although the wide loops test    *)
(* their end only once for 16 or 4 coordinates (space_l2.h:38, 73, 141).   *)
NoReadPastEnd == \A i \in Coordinates : i >= dim => added[i] = 0
==============================================================================
