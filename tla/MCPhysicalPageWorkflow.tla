----------------------- MODULE MCPhysicalPageWorkflow -----------------------
(***************************************************************************)
(* Instances of PhysicalPageWorkflow for TLC.                              *)
(***************************************************************************)
EXTENDS PhysicalPageWorkflow, TLC

Symmetry == Permutations(Offset)
=============================================================================
