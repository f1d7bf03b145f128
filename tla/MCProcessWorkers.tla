-------------------------- MODULE MCProcessWorkers --------------------------
(***************************************************************************)
(* Workers of the main window, checked side by side: the one of the        *)
(* process memory session, which must end, and the window that starts,     *)
(* cancels and waits for all of them.  part, chosen at the start, says     *)
(* which of the two moves.                                                 *)
(***************************************************************************)
EXTENDS ProcessMemorySession, ProcessWorkspace

VARIABLE part

WorkersInit ==
    /\ part \in {"session", "workspace"}
    /\ Init /\ PWInit
    /\ part = "workspace" => memory = CHOOSE v \in View : TRUE

WorkersNext ==
    \/ part = "session" /\ Next /\ UNCHANGED <<part, wvars>>
    \/ part = "workspace" /\ PWNext /\ UNCHANGED <<part, vars>>

WorkersFairSpec ==
    /\ WorkersInit /\ [][WorkersNext]_<<part, vars, wvars>>
    /\ SessionFairness
=============================================================================
