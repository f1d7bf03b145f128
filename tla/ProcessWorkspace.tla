-------------------------- MODULE ProcessWorkspace --------------------------
(***************************************************************************)
(* MainWindow as the owner of the workers: which tab may start one, when   *)
(* the attached process may be replaced, and when a driver lifecycle task  *)
(* may run.  Attaching, detaching, connecting and changing the KDBG        *)
(* service never join a worker from a click: they are deferred, and a      *)
(* later frame performs them once the workers they wait for are idle.      *)
(*                                                                         *)
(* Workers hold the bare pointer of the process object they were started   *)
(* with.  Those behind a std::future stay busy until a frame has polled    *)
(* them, the others only while they run.  A cancel request only makes a    *)
(* worker end earlier, and workers end at any time.                        *)
(***************************************************************************)
EXTENDS Integers

CONSTANTS
    IoPanel,     \* browser, disassembly, scanner, pointer scanner, snapshots
    Browser,     \* the process memory browser among them
    Evidence,    \* the analysis evidence export
    Usage,       \* the worker of ProcessUsagePanel
    KernelRead,  \* the read of KernelExplorerPanel
    Future,      \* the workers behind a std::future
    Object,      \* process objects, one per successful attach
    NoObject     \* nullptr

Worker == IoPanel \cup {Evidence, Usage, KernelRead}
ProcessWorker == IoPanel \cup {Evidence}

ASSUME WorkspaceConstants ==
    /\ Browser \in IoPanel /\ Future \subseteq Worker
    /\ Evidence \notin IoPanel /\ Usage \notin ProcessWorker
    /\ KernelRead \notin ProcessWorker \cup {Usage}
    /\ NoObject \notin Object

VARIABLES
    process_memory,     \* process_memory_
    state,              \* of each worker: "idle", "running", "ready"
    uses,               \* the process object a worker was started with
    kernel_symbols,     \* a module, symbol or resolve job of KernelExplorerPanel
    deferred_action,    \* deferred_action_
    deferred_lock,      \* deferred_lock_requested_
    lifecycle,          \* lifecycle_future_: "none", "probe" or "kdbg"
    closing             \* the destructor of MainWindow runs

wvars == <<process_memory, state, uses, kernel_symbols, deferred_action,
           deferred_lock, lifecycle, closing>>

PWInit ==
    /\ process_memory = NoObject
    /\ state = [w \in Worker |-> "idle"]
    /\ uses = [w \in Worker |-> NoObject]
    /\ kernel_symbols = FALSE
    /\ deferred_action = "None" /\ deferred_lock = FALSE
    /\ lifecycle = "none" /\ closing = FALSE

WorkerBusy(s, w) == s[w] # "idle"
IgnoreEvidence(s) == \E w \in IoPanel : WorkerBusy(s, w)      \* faulty variant
ProcessIoBusy(s) == \E w \in ProcessWorker : WorkerBusy(s, w)
BackendIoBusy(s) == ProcessIoBusy(s) \/ WorkerBusy(s, Usage) \/ WorkerBusy(s, KernelRead)
LifecycleBusy == lifecycle # "none" \/ deferred_action = "StartLifecycle"
KernelExplorerBusy == WorkerBusy(state, KernelRead) \/ kernel_symbols
-----------------------------------------------------------------------------
\* A start captures the attached object; it does nothing while the worker runs.
Started(w) ==
    /\ ~closing /\ ~WorkerBusy(state, w)
    /\ state' = [state EXCEPT ![w] = "running"]
    /\ uses' = [uses EXCEPT ![w] = process_memory]
    /\ UNCHANGED <<process_memory, kernel_symbols, deferred_action, deferred_lock,
                   lifecycle, closing>>

\* The tab of an I/O panel is drawn while no other one competes.
Competing(w) == \E v \in IoPanel \ {w} : WorkerBusy(state, v)
StartPanel(w) ==
    /\ ~Competing(w) /\ ~LifecycleBusy
    /\ process_memory # NoObject
    /\ Started(w)

\* Opening a row of the memory map, or a mapping of the ownership tab, loads the
\* view of the browser.
NavigateBrowser ==
    /\ ~ProcessIoBusy(state)
    /\ LifecycleBusy => WorkerBusy(state, Usage)
    /\ process_memory # NoObject
    /\ Started(Browser)

StartAnalysisEvidenceExport ==
    /\ process_memory # NoObject
    /\ ~WorkerBusy(state, Usage) /\ ~KernelExplorerBusy
    /\ Started(Evidence)

StartOwnershipQuery ==
    /\ ~ProcessIoBusy(state) /\ ~LifecycleBusy
    /\ Started(Usage)

StartKernelRead ==
    /\ ~ProcessIoBusy(state) /\ (LifecycleBusy => KernelExplorerBusy)
    /\ Started(KernelRead)

\* The other jobs of the kernel explorer touch neither process nor driver.
KernelSymbolJob ==
    /\ ~closing
    /\ kernel_symbols' = ~kernel_symbols
    /\ ~kernel_symbols =>
         /\ ~ProcessIoBusy(state)
         /\ LifecycleBusy => KernelExplorerBusy
    /\ UNCHANGED <<process_memory, state, uses, deferred_action, deferred_lock,
                   lifecycle, closing>>

WorkerReturns(w) ==
    /\ state[w] = "running"
    /\ state' = [state EXCEPT ![w] = IF w \in Future THEN "ready" ELSE "idle"]
    /\ uses' = [uses EXCEPT ![w] = NoObject]
    /\ UNCHANGED <<process_memory, kernel_symbols, deferred_action,
                   deferred_lock, lifecycle, closing>>
-----------------------------------------------------------------------------
\* A lock request is a flag of its own; any other request waits in one slot and
\* is refused while the slot is taken.
QueueDeferredAction(action) ==
    /\ ~closing /\ deferred_action = "None"
    /\ deferred_action' = action
    /\ UNCHANGED <<process_memory, state, uses, kernel_symbols, deferred_lock,
                   lifecycle, closing>>

AttachSelectedProcess == QueueDeferredAction("AttachProcess")
DisconnectProcess == process_memory # NoObject /\ QueueDeferredAction("DisconnectProcess")
ConnectBackend == QueueDeferredAction("ConnectBackend")

LockAllWrites ==
    /\ ~closing /\ deferred_lock' = TRUE
    /\ UNCHANGED <<process_memory, state, uses, kernel_symbols, deferred_action,
                   lifecycle, closing>>

\* Changes of the KDBG service are deferred, those of the probe start at once.
StartLifecycleAction ==
    /\ ~closing /\ ~LifecycleBusy
    /\ \/ QueueDeferredAction("StartLifecycle")
       \/ /\ lifecycle' = "probe"
          /\ UNCHANGED <<process_memory, state, uses, kernel_symbols,
                         deferred_action, deferred_lock, closing>>

\* The polls at the head of a frame take the results that are ready.
Polled == [w \in Worker |-> IF state[w] = "ready" THEN "idle" ELSE state[w]]

\* FinishDisconnectProcess, and Attach: the object stays when its write gate
\* cannot be locked, and a new one is never one that is still in use.
Replaced(action, attached) ==
    \/ attached = process_memory
    \/ attached = NoObject
    \/ /\ action = "AttachProcess" /\ attached # process_memory
       /\ \A w \in Worker : attached # uses[w]

Waits(action, s) ==
    IF action \in {"ConnectBackend", "StartLifecycle"}
    THEN BackendIoBusy(s) ELSE ProcessIoBusy(s)

\* A lifecycle task that is over is collected.
PollLifecycleAction == lifecycle' \in {lifecycle, "none"}

\* PollDeferredAction, with the workers as the polls left them.
PollDeferredAction(s) ==
    IF deferred_action = "None" \/ Waits(deferred_action, s)
    THEN UNCHANGED <<process_memory, deferred_action>> /\ PollLifecycleAction
    ELSE /\ deferred_action' = "None"
         /\ IF deferred_action \in {"AttachProcess", "DisconnectProcess"}
            THEN /\ process_memory' \in Object \cup {NoObject}
                 /\ Replaced(deferred_action, process_memory')
                 /\ PollLifecycleAction
            ELSE /\ \/ deferred_action = "StartLifecycle" /\ lifecycle' = "kdbg"
                    \/ PollLifecycleAction       \* a gate could not be locked
                 /\ UNCHANGED process_memory

DrawFrame ==
    /\ ~closing
    /\ state' = Polled
    /\ deferred_lock' = (deferred_lock /\ BackendIoBusy(Polled))
    /\ PollDeferredAction(Polled)
    /\ UNCHANGED <<uses, kernel_symbols, closing>>

-----------------------------------------------------------------------------
\* ~MainWindow: it cancels and joins everything, and only then detaches.
CloseWindow ==
    /\ ~closing /\ closing' = TRUE
    /\ UNCHANGED <<process_memory, state, uses, kernel_symbols, deferred_action,
                   deferred_lock, lifecycle>>

\* The end of the process; the program may be started again.
Destroyed ==
    /\ closing /\ \A w \in Worker : state[w] # "running"
    /\ process_memory' = NoObject
    /\ state' = [w \in Worker |-> "idle"]
    /\ uses' = [w \in Worker |-> NoObject]
    /\ kernel_symbols' = FALSE
    /\ deferred_action' = "None" /\ deferred_lock' = FALSE
    /\ lifecycle' = "none" /\ closing' = FALSE

PWNext ==
    \/ \E w \in IoPanel : StartPanel(w)
    \/ NavigateBrowser
    \/ StartAnalysisEvidenceExport
    \/ StartOwnershipQuery
    \/ StartKernelRead
    \/ KernelSymbolJob
    \/ \E w \in Worker : WorkerReturns(w)
    \/ AttachSelectedProcess
    \/ DisconnectProcess
    \/ ConnectBackend
    \/ LockAllWrites
    \/ StartLifecycleAction
    \/ DrawFrame
    \/ CloseWindow
    \/ Destroyed

PWSpec == PWInit /\ [][PWNext]_wvars
-----------------------------------------------------------------------------
\* A worker that runs holds the pointer of the process object that is attached:
\* no frame destroys or replaces the object under it.
NoDangling ==
    \A w \in ProcessWorker : state[w] = "running" =>
        uses[w] = process_memory /\ process_memory # NoObject

\* At most one of the process I/O panels is busy, whatever was deferred.
ExclusiveIo ==
    \A v, w \in IoPanel : WorkerBusy(state, v) /\ WorkerBusy(state, w) => v = w

\* While a task changes the KDBG service neither a panel nor an ownership query
\* is doing I/O.
LifecycleQuiet ==
    lifecycle = "kdbg" => \A w \in IoPanel \cup {Usage} : state[w] = "idle"

\* The workers of the window are safe in all three respects.
WorkersSafe == NoDangling /\ ExclusiveIo /\ LifecycleQuiet
=============================================================================
