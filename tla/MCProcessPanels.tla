--------------------------- MODULE MCProcessPanels ---------------------------
(***************************************************************************)
(* Panels of the main window, checked side by side: the process memory     *)
(* session, the snapshots, the pointer scan and the kernel explorer.       *)
(* part, chosen at the start, says which of them moves.                    *)
(***************************************************************************)
EXTENDS ProcessMemorySession, MCSnapshotPanel, PointerScan, KernelExplorer,
        TLC

VARIABLE part

\* Both the session and the snapshots only compare bytes with each other.
ByteSymmetry == Permutations(Byte)

Region(base, size, writable) ==
    [base |-> base, size |-> size, readable |-> TRUE, writable |-> writable]

\* One region, two adjacent ones of which only the second is writable, and one
\* that a scan of writable regions leaves out.
MCRegions ==
    {<<Region(1, 5, TRUE)>>,
     <<Region(1, 3, FALSE), Region(4, 2, TRUE)>>,
     <<Region(1, 2, FALSE)>>}

\* Two pointers to a chunk less a byte, so that one straddles its end.
MCOptions ==
    {[chunk_size |-> 3, max_offset |-> 1, max_depth |-> 2, max_results |-> r,
      aligned_only |-> a, writable_only |-> a, static_roots_only |-> s,
      modules |-> {1, 2}] : a \in BOOLEAN, s \in BOOLEAN, r \in {2, 9}}

NoScan == [pc |-> "none"]

PanelsInit ==
    /\ part \in {"session", "snapshot", "pointers", "kernel"}
    /\ IF part = "session" THEN Init
       ELSE /\ memory = [o \in Offset |-> None] /\ access = Locked
            /\ session = [Loaded(memory) EXCEPT !.state = "Empty"]
            /\ worker = Idle
    /\ SPInit
    /\ IF part = "pointers" THEN PSInit ELSE cells = <<>> /\ chase = NoScan
    /\ KInit
    /\ part # "snapshot" => saved = NoSnapshot

PanelsNext ==
    \/ /\ part = "session" /\ Next
       /\ UNCHANGED <<part, pvars, cells, chase, panel>>
    \/ /\ part = "snapshot" /\ SPNext
       /\ UNCHANGED <<part, vars, cells, chase, panel>>
    \/ /\ part = "pointers" /\ PSNext
       /\ UNCHANGED <<part, vars, pvars, panel>>
    \/ /\ part = "kernel" /\ KNext
       /\ UNCHANGED <<part, vars, pvars, cells, chase>>

PanelsSpec ==
    PanelsInit
    /\ [][PanelsNext]_<<part, vars, pvars, cells, chase, panel>>
=============================================================================
