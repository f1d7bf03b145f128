----------------------- MODULE MCPhysicalPageSession -----------------------
(***************************************************************************)
(* Instances of PhysicalPageSession for TLC.                               *)
(***************************************************************************)
EXTENDS PhysicalPageSession, TLC

\* Offsets are interchangeable; bytes are not, because of Zero.
Symmetry == Permutations(Offset)
=============================================================================
