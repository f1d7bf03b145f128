---------------------------- MODULE MCKDbgDriver ----------------------------
(* Small instances of KDbgDriver for TLC. *)
EXTENDS KDbgDriver, TLC

\* The specification only compares the elements of these sets.
Symmetry == Permutations(Process) \cup Permutations(Handle)
            \cup Permutations(Thread) \cup Permutations(Offset)
            \cup Permutations(Byte)
=============================================================================
