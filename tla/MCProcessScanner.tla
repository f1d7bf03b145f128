-------------------------- MODULE MCProcessScanner --------------------------
(* Instances of ProcessScanner for TLC: values are only compared with each  *)
(* other, so they are interchangeable.                                      *)
EXTENDS ProcessScanner, TLC

ValueSymmetry == Permutations(Value)
=============================================================================
