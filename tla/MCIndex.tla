------------------------------ MODULE MCIndex ------------------------------
(***************************************************************************)
(* Small instances of Index.                                               *)
(***************************************************************************)
EXTENDS Index, TLC

CONSTANTS o1, o2, p1

TwoObjects == {o1, o2}
OnePath == {p1}

(* The objects are made alike by the same actions. *)
ObjectSymmetry == Permutations(Objects)
==============================================================================
