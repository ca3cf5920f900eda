-------------------------- MODULE MCVisitedListPool --------------------------
(***************************************************************************)
(* A small instance of VisitedListPool: three searching threads and two    *)
(* elements.  With MaxV = 2 the tag of a list wraps around on every second *)
(* search instead of every 65535th.                                        *)
(***************************************************************************)
EXTENDS VisitedListPool

CONSTANTS t1, t2, t3, e0, e1

MCThreads == {t1, t2, t3}
MCElements == {e0, e1}
==============================================================================
