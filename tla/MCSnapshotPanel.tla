--------------------------- MODULE MCSnapshotPanel ---------------------------
(***************************************************************************)
(* An instance of SnapshotPanel for TLC: the user types a range of three   *)
(* bytes or its first byte.                                                *)
(***************************************************************************)
EXTENDS SnapshotPanel

MCRange == {<<1, 3>>, <<1, 1>>}
=============================================================================
