--------------------------- MODULE MCDriverClients ---------------------------
(***************************************************************************)
(* The programs that use the driver, checked side by side: the page        *)
(* workflow of the main window, the verifier that drives the same session  *)
(* from the command line, and the driver page of the main window with its  *)
(* backend.  part, chosen at the start, says which of them moves.          *)
(***************************************************************************)
EXTENDS PhysicalPageWorkflow, LiveVerify, DriverLifecycle

VARIABLE part

ClientsInit ==
    /\ part \in {"window", "verifier", "lifecycle"}
    /\ WInit
    /\ LVInit
    /\ LifecycleInit
    /\ part # "verifier" => options = CHOOSE o \in Options : TRUE
    /\ part = "lifecycle" => page = [o \in Offset |-> Zero]
    /\ part # "lifecycle" => service = [s \in Service |-> Absent]

ClientsNext ==
    \/ /\ part = "window" /\ WNext
       /\ UNCHANGED <<part, lvars, lifecycleVars>>
    \/ /\ part = "verifier" /\ LVNext
       /\ UNCHANGED <<part, written, lifecycleVars>>
    \/ /\ part = "lifecycle" /\ LifecycleNext
       /\ UNCHANGED <<part, wvars, lvars>>

ClientsSpec ==
    ClientsInit /\ [][ClientsNext]_<<part, wvars, lvars, lifecycleVars>>
=============================================================================
