----------------------------- MODULE Persistence -----------------------------
(***************************************************************************)
(* HierarchicalNSW::saveIndex and loadIndex: the index is written to a     *)
(* file piece by piece, the process ends, at any moment of the save or     *)
(* after it, and another process makes an index from what is in the file.  *)
(* Deletions, insertions and queries go on in the loaded index.            *)
(*                                                                         *)
(* ConcurrentIndex saves under its read lock, so the index stays as it is  *)
(* from the first piece to the last; the variables of the graph still hold *)
(* the saved index when the other process loads the file.                  *)
(***************************************************************************)
EXTENDS SearchKnn

VARIABLES phase, \* "up", "saving", "down": the process has ended, "refused"
          file,  \* the pieces that are in the file
          torn   \* is there also a part of the next piece?

pvars == <<qvars, phase, file, torn>>

PInit ==
    /\ QInit
    /\ phase = "up" /\ file = <<>> /\ torn = FALSE

------------------------------------------------------------------------------
(* The pieces of a file: the header, the bottom memory element by element, *)
(* then for every element the size of its upper lists, and the lists.      *)
Elements == 0 .. curElementCount - 1
ExternalLabel(i) == CHOOSE label \in DOMAIN labelLookup : labelLookup[label] = i

HeaderPiece ==
    [kind |-> "header", count |-> curElementCount, enterpoint |-> enterpoint,
     maxlevel |-> maxlevel]
ElementPiece(i) ==
    [kind |-> "element", label |-> ExternalLabel(i), vector |-> vec[i],
     list |-> links[i][0], stale |-> stale[i][0], deleted |-> i \in deleted]

(* The words of one upper list: size_links_per_element_. *)
ListSize == M + 1

(* Mutant: the size without that of the top list. *)
UpperSizeShort(i) == IF elementLevels[i] > 1 THEN ListSize * (elementLevels[i] - 1)
                                             ELSE ListSize * elementLevels[i]

UpperSize(i) == ListSize * elementLevels[i]

UpperPieces(i) ==
    IF UpperSize(i) = 0
    THEN <<[kind |-> "size", size |-> 0]>>
    ELSE <<[kind |-> "size", size |-> UpperSize(i)],
           [kind |-> "lists", lists |-> [l \in Levels \ {0} |-> links[i][l]],
            stale |-> [l \in Levels \ {0} |-> stale[i][l]]]>>

(* pieces[n]: the upper lists of the elements below n. *)
AllUpperPieces ==
    LET pieces[n \in 0 .. curElementCount] ==
            IF n = 0 THEN <<>> ELSE pieces[n - 1] \o UpperPieces(n - 1)
    IN  pieces[curElementCount]

Pieces ==
    <<HeaderPiece>> \o [n \in 1 .. curElementCount |-> ElementPiece(n - 1)]
                    \o AllUpperPieces

(* saveIndex truncates the file... *)
BeginSave ==
    /\ phase = "up" /\ ~Reading /\ Quiet
    /\ phase' = "saving" /\ file' = <<>> /\ torn' = FALSE
    /\ UNCHANGED qvars

(* ... and writes one piece after the other. *)
WritePiece ==
    /\ phase = "saving" /\ Len(file) < Len(Pieces)
    /\ file' = Append(file, Pieces[Len(file) + 1])
    /\ UNCHANGED <<qvars, phase, torn>>

(* The process ends, before the save is over or after it.  A disk that is  *)
(* full cuts the file at the same places: saveIndex does not look.         *)
Exit ==
    /\ phase = "saving"
    /\ phase' = "down"
    /\ torn' \in (IF Len(file) < Len(Pieces) THEN BOOLEAN ELSE {FALSE})
    /\ UNCHANGED <<qvars, file>>

------------------------------------------------------------------------------
(* loadIndex. *)
Count == file[1].count
Broken == -1

(* ends[n]: the place of the file after the upper lists of the elements    *)
(* below n.  A seek may go past the end; a read there fails.               *)
Walked ==
    LET ends[n \in 0 .. Count] ==
            IF n = 0 THEN 1 + Count
            ELSE IF ends[n - 1] = Broken \/ ends[n - 1] >= Len(file) THEN Broken
            ELSE IF file[ends[n - 1] + 1].size = 0 THEN ends[n - 1] + 1
            ELSE ends[n - 1] + 2
    IN  ends[Count]

(* Mutant: the end of the walk is not compared with the end of the file. *)
WalksThrough == file # <<>> /\ Walked # Broken

(* The file has a header, and its sizes lead exactly to its end. *)
IsWhole == file # <<>> /\ ~torn /\ Walked = Len(file)

LoadedElement(i) == file[i + 2]

(* The place of the upper lists of element i in the file. *)
UpperAt(i) ==
    LET at[n \in 0 .. i] ==
            IF n = 0 THEN 2 + Count
            ELSE at[n - 1] + (IF file[at[n - 1]].size = 0 THEN 1 ELSE 2)
    IN  at[i]

LoadedLevel(i) == file[UpperAt(i)].size \div ListSize

(* A read past the end of the file would leave fresh memory as it is, with *)
(* empty lists for one.                                                    *)
NoLists == [l \in Levels \ {0} |-> {}]

LoadedLists(i) ==
    IF UpperAt(i) < Len(file) THEN file[UpperAt(i) + 1].lists ELSE NoLists
LoadedStale(i) ==
    IF UpperAt(i) < Len(file) THEN file[UpperAt(i) + 1].stale ELSE NoLists

(* Mutant: the flag of a new index. *)
NoFlag == FALSE

(* has_deletions_ is not saved: it is found again from the marks. *)
LoadedFlag == \E i \in 0 .. Count - 1 : LoadedElement(i).deleted

Restore ==
    LET elements == 0 .. Count - 1
    IN  /\ curElementCount' = Count
        /\ labelLookup' =
              [label \in {LoadedElement(i).label : i \in elements} |->
                  CHOOSE i \in elements : LoadedElement(i).label = label]
        /\ incrementalId' = 0
        /\ initialised' = elements
        /\ elementLevels' = [i \in Ids |-> IF i \in elements THEN LoadedLevel(i) ELSE 0]
        /\ vec' = [i \in Ids |-> IF i \in elements THEN LoadedElement(i).vector ELSE Garbage]
        /\ deleted' = {i \in elements : LoadedElement(i).deleted}
        /\ links' = [i \in Ids |-> [l \in Levels |->
                        IF i \notin elements THEN {}
                        ELSE IF l = 0 THEN LoadedElement(i).list
                        ELSE IF l <= LoadedLevel(i) THEN LoadedLists(i)[l]
                        ELSE {}]]
        /\ stale' = [i \in Ids |-> [l \in Levels |->
                        IF i \notin elements THEN {}
                        ELSE IF l = 0 THEN LoadedElement(i).stale
                        ELSE IF l <= LoadedLevel(i) THEN LoadedStale(i)[l]
                        ELSE {}]]
        /\ enterpoint' = file[1].enterpoint
        /\ maxlevel' = file[1].maxlevel
        /\ hasDeletions' = LoadedFlag

(* Another process loads the file, or loadIndex throws.  The application   *)
(* goes on with its calls where it was.                                    *)
Load ==
    /\ phase = "down"
    /\ \/ /\ IsWhole
          /\ Restore
          /\ phase' = "up"
          /\ UNCHANGED <<locks, calls, query>>
       \/ /\ ~IsWhole
          /\ phase' = "refused"
          /\ UNCHANGED qvars
    /\ file' = <<>> /\ torn' = FALSE

Refused == phase = "refused" /\ UNCHANGED pvars

PNext ==
    \/ phase = "up" /\ QNext /\ UNCHANGED <<phase, file, torn>>
    \/ BeginSave \/ WritePiece \/ Exit \/ Load \/ Refused

PSpec == PInit /\ [][PNext]_pvars

------------------------------------------------------------------------------
(* A file that is cut off anywhere, between two pieces or inside one, is   *)
(* refused, and a file that is not is accepted (hnswalg.h:640-690).        *)
OnlyWholeFilesLoad ==
    [][Load => (phase' = "up" <=> file = Pieces)]_pvars

(* The index that is loaded is the index that was saved: the levels are    *)
(* found again from the sizes of the lists, the label table from the       *)
(* labels, the marks with the bottom lists (hnswalg.h:724-746).            *)
LoadedAsSaved ==
    [][Load /\ phase' = "up"
         => UNCHANGED <<curElementCount, labelLookup, graph, entry>>]_pvars
==============================================================================
