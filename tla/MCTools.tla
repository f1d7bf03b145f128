------------------------------- MODULE MCTools -------------------------------
(***************************************************************************)
(* Three components that share no state, checked side by side: the memory  *)
(* scanner, the saving of files and the walks of the page tables.  part,   *)
(* chosen at the start, says which of them moves; the others stay as they  *)
(* are.                                                                    *)
(***************************************************************************)
EXTENDS MemoryScanner, TableFile, Paging

VARIABLE part

\* A region of two chunks, one that is too small for a value, an empty one.
MCRegions ==
    <<[base |-> 1, size |-> 4, allowed |-> TRUE], [base |-> 5, size |-> 1, allowed |-> TRUE],
      [base |-> 6, size |-> 0, allowed |-> TRUE]>>

\* Four tables with any first entry; the second entry of one of them may be a
\* twin of its first.
MCFrame == 0 .. 3
MCEntry == [pfn : MCFrame, page_size : BOOLEAN] \cup {Absent}
MCTables ==
    {[f \in MCFrame |-> [i \in 0 .. 1 |-> IF i = 0 \/ f = twin THEN first[f] ELSE Absent]] :
        first \in [MCFrame -> MCEntry], twin \in MCFrame \cup {4}}
MCNoTables == [f \in MCFrame |-> [i \in 0 .. 1 |-> Absent]]

Init ==
    /\ part \in {"scan", "file", "paging"}
    /\ IF part = "scan" THEN ScanInit ELSE bytes = [a \in Address |-> 0] /\ NoScan
    /\ IF part = "file" THEN FileInit ELSE table = NoFile /\ NoSave
    /\ IF part = "paging" THEN PagingInit ELSE tables = MCNoTables /\ usage = Absent

Next ==
    \/ part = "scan" /\ ScanNext /\ UNCHANGED <<part, fileVars, pagingVars>>
    \/ part = "file" /\ FileNext /\ UNCHANGED <<part, scanVars, pagingVars>>
    \/ part = "paging" /\ PagingNext /\ UNCHANGED <<part, scanVars, fileVars>>

Spec == Init /\ [][Next]_<<part, scanVars, fileVars, pagingVars>>
=============================================================================
