-------------------------- MODULE MCHierarchicalNSW --------------------------
(***************************************************************************)
(* Small instances of HierarchicalNSW.  Vectors are points on a line or in *)
(* a plane under the squared L2 distance.  No two distances are equal (the *)
(* points on the line are marks of a Golomb ruler), so nothing depends on  *)
(* how ties are broken.                                                    *)
(***************************************************************************)
EXTENDS HierarchicalNSW

L2(p, q) == (p - q) * (p - q)

Ruler == {0, 1, 4, 9, 15, 22, 32, 34}

(* An element in the middle of four others, each of them closer to it than *)
(* to the other three: the heuristic finds all four diverse.               *)
Plane == {<<0, 0>>, <<10, 1>>, <<-2, 11>>, <<-12, -3>>, <<4, -13>>}
Star == {<<0, 0>>, <<10, 0>>, <<3, 9>>, <<-8, 5>>, <<4, -9>>, <<-8, -7>>,
         <<13, 2>>}
Origin == <<0, 0>>
L2Plane(p, q) == L2(p[1], q[1]) + L2(p[2], q[2])

Add(label, point) == [label |-> label, point |-> point]

(* Different labels only. *)
Inserts4 == <<Add(10, 4), Add(11, 0), Add(12, 9), Add(13, 1)>>
Around5 == <<Add(10, <<10, 1>>), Add(11, Origin), Add(12, <<-2, 11>>),
             Add(13, <<-12, -3>>), Add(14, <<4, -13>>)>>

Inserts6 == <<Add(10, 34), Add(11, 4), Add(12, 0), Add(13, 9), Add(14, 22),
              Add(15, 15)>>

(* A chain: each element links to the one before it. *)
Chain3 == <<Add(10, 0), Add(11, 4), Add(12, 15)>>

(* Inserts, then updates, one of them by an item without an id that is     *)
(* given number 0, and an insert the index has no room for.                *)
Updates == <<Add(0, 4), Add(11, 0), Add(12, 34), Add(11, 9), Add(NoId, 22),
             Add(13, 15), Add(12, 1), Add(0, 9), Add(14, 32), Add(15, 0)>>

(* An update beside insertions.  Id 0 may go to an insertion that waits;   *)
(* of the three others the second moves to between the first and the       *)
(* third, and its own list grows.                                          *)
GrowingList == <<Add(10, 34), Add(11, 0), Add(12, 4), Add(13, 22), Add(11, 9)>>

(* One element after the other around the first, each nearer to it than to *)
(* the rest.  The last is the farthest, and one too many for the list.     *)
Around6 == <<Add(10, Origin), Add(11, <<10, 0>>), Add(12, <<3, 9>>), Add(13, <<-8, 5>>),
             Add(14, <<4, -9>>), Add(15, <<-8, -7>>)>>

(* The first element is the farthest from the one in the middle, whose     *)
(* list fills up with nearer ones; the last is near one of these.          *)
Around7 == <<Add(10, <<-8, -7>>), Add(11, Origin), Add(12, <<10, 0>>), Add(13, <<3, 9>>),
             Add(14, <<-8, 5>>), Add(15, <<4, -9>>), Add(16, <<13, 2>>)>>

(* An element updated after it was deleted. *)
Updated2 == <<Add(10, 0), Add(11, 4), Add(10, 1)>>

(* A triangle; the fourth element comes between the second and the third,  *)
(* while the first, that both are linked to, is updated.                   *)
Triangle == {<<0, 10>>, <<-6, 0>>, <<5, 0>>, <<0, -1>>, <<0, 0>>}
Between == <<Add(10, <<0, 10>>), Add(11, <<-6, 0>>), Add(12, <<5, 0>>), Add(13, <<0, -1>>),
             Add(10, <<0, 10>>)>>

(* The same label three times. *)
SameLabel3 == <<Add(10, 4), Add(11, 0), Add(11, 9), Add(11, 34)>>
==============================================================================
