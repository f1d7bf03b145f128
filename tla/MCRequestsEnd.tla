---------------------------- MODULE MCRequestsEnd ----------------------------
(***************************************************************************)
(* What the program waits for, checked side by side: the requests inside   *)
(* the driver, and the PFN query with its bridge process.  part, chosen at *)
(* the start, says which of them moves.                                    *)
(***************************************************************************)
EXTENDS KDbgDriver, PfnUsage

VARIABLE part

WaitInit == part \in {"driver", "query"} /\ Init /\ UInit

WaitNext ==
    \/ part = "driver" /\ Next /\ UNCHANGED <<part, uvars>>
    \/ part = "query" /\ UNext /\ UNCHANGED <<part, vars>>

WaitFairSpec ==
    /\ WaitInit /\ [][WaitNext]_<<part, vars, uvars>>
    /\ Fairness /\ UFairness
=============================================================================
