------------------------- MODULE MCConcurrentIndex -------------------------
(***************************************************************************)
(* Calls for small instances of ConcurrentIndex.                           *)
(***************************************************************************)
EXTENDS ConcurrentIndex, TLC

CONSTANTS t1, t2, t3

ThreeThreads == {t1, t2, t3}

Add(id, vector, saveId) ==
    [method |-> "addItem", id |-> id, vector |-> vector, saveId |-> saveId]
On(method, id) == [method |-> method, id |-> id]
Plain(method) == [method |-> method]
LoadOf(loaded, max) == [method |-> "load", file |-> loaded, max |-> max]

(* A file with one item, written by an index of the same capacity. *)
OtherFile ==
    Saved(add_item(init_new_index(NewIndex, MaxElements).native, 0, 9).native)

(* Two items for an index with room for one. *)
Calls ==
    {Add(0, 8, TRUE), Add(1, 7, FALSE), On("markDeleted", 0), On("getData", 0),
     Plain("save"), Plain("clear"), LoadOf(OtherFile, 1), LoadOf(BadFile("damaged"), 1)}
==============================================================================
