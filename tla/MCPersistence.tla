---------------------------- MODULE MCPersistence ----------------------------
(***************************************************************************)
(* Small instances of Persistence, with the queries of MCSearchKnn.        *)
(***************************************************************************)
EXTENDS MCSearchKnn, Persistence
==============================================================================
