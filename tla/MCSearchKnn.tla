----------------------------- MODULE MCSearchKnn -----------------------------
(***************************************************************************)
(* Small instances of SearchKnn, on the points of MCHierarchicalNSW.       *)
(***************************************************************************)
EXTENDS MCHierarchicalNSW, SearchKnn

TwoQueries == {<<0, 0>>, <<4, -13>>}
==============================================================================
