--------------------------- MODULE DriverLifecycle ---------------------------
(***************************************************************************)
(* The driver page of the main window: the services of the two drivers in  *)
(* the Service Control Manager (core/windows/DriverService.cpp), the       *)
(* lifecycle task that installs, starts, stops and removes them            *)
(* (MainWindow::LaunchLifecycleAction), and the window's own connection to *)
(* the KDBG device, which is KDbgBackend.  A change of the KDBG service is *)
(* deferred until the gates are locked and then runs on another thread,    *)
(* one Service Control Manager call per step, while the window goes on.    *)
(*                                                                         *)
(* Workers that make a deferred action wait only delay it.  The service    *)
(* states the window shows may be out of date: no button rests on them     *)
(* here.  Nobody else changes the services.                                *)
(***************************************************************************)
EXTENDS KDbgBackend

VARIABLES
    service,    \* the Service Control Manager's view of each service
    deferred,   \* deferred_action_ with deferred_lifecycle_
    task,       \* lifecycle_future_ and where its thread is
    cancel,     \* lifecycle_cancel_requested_
    probe_open  \* the window's handle of the probe device

lifecyclePage == <<service, deferred, task, cancel, probe_open>>
backend == backendVars
lifecycleVars == <<backendVars, lifecyclePage>>

Service == {"KDBG", "KDBGProbe"}

\* path "none": the service does not exist.  image is what is loaded.
Config == [path : {"none", "old", "new"}, state : {"stopped", "running", "stopping", "deleting"},
           image : {"none", "old", "new"}]

Absent == [path |-> "none", state |-> "stopped", image |-> "none"]
Stopped(p) == [path |-> p, state |-> "stopped", image |-> "none"]
Running(p) == [path |-> p, state |-> "running", image |-> p]

ChangesKdbg == {"BringLabOnline", "InstallDriver", "StartDriver", "StopDriver", "RemoveDriver"}
ProbeAction == {"InstallProbe", "StartProbe", "StopProbe", "RemoveProbe"}
Action == ChangesKdbg \cup ProbeAction

NoTask == [action |-> "None", pc |-> "idle", before |-> [s \in Service |-> Absent],
           backend |-> FALSE, probe |-> FALSE, result |-> "none", rollback |-> "none"]

LifecycleBusy == task.action # "None" \/ deferred \in ChangesKdbg

LifecycleInit ==
    /\ BackendInit
    /\ service \in [Service -> {Absent, Stopped("old"), Running("old")}]
    /\ deferred = "None" /\ task = NoTask /\ cancel = FALSE
    /\ probe_open = FALSE

-----------------------------------------------------------------------------
(* The Service Control Manager (DriverService): a call is the set of its   *)
(* outcomes from the configuration c, success and the configuration left.  *)
(* A driver whose device is held open does not unload.                     *)

Held(s) == IF s = "KDBG" THEN connected \/ task.backend ELSE probe_open \/ task.probe

Ok(c) == [ok |-> TRUE, c |-> c]
Failed(c) == [ok |-> FALSE, c |-> c]

\* F after the call that had the outcomes S, if it succeeded.
Then(S, F(_)) == UNION {IF r.ok THEN F(r.c) ELSE {r} : r \in S}

Unloaded(c) == [c EXCEPT !.state = "stopped", !.image = "none"]

\* WaitForDeletion
Deleted(c) == {Ok(Absent), Failed([Unloaded(c) EXCEPT !.state = "deleting"])}

Stop(s, c) ==
    IF c.path = "none" THEN {Ok(c)}
    ELSE CASE c.state = "deleting" -> Deleted(c)
           [] c.state = "stopped" -> {Ok(c), Failed(c)}
           [] OTHER -> {Failed(c), Failed([c EXCEPT !.state = "stopping"])}
                           \cup IF Held(s) THEN {} ELSE {Ok(Unloaded(c))}

Start(s, c) ==
    IF c.path = "none" \/ c.state = "deleting" THEN {Failed(c)}
    ELSE CASE c.state = "running" -> {Ok(c), Failed(c)}
           [] c.state = "stopped" -> {Ok(Running(c.path)), Failed(c)}
           [] c.state = "stopping" ->
                  {Failed(c)} \cup IF Held(s) THEN {}
                                   ELSE {Ok(Running(c.path)), Failed(Unloaded(c))}

\* A service that is being deleted is waited for and created again.
InstallOrUpdate(s, c) ==
    IF c.path = "none" \/ c.state = "deleting" THEN {Ok(Stopped("new")), Failed(c)}
    ELSE {Ok([c EXCEPT !.path = "new"]), Failed(c)}

Remove(s, c) ==
    LET Delete(d) == IF d.path = "none" THEN {Ok(d)} ELSE Deleted(d) \cup {Failed(d)}
    IN  Then(Stop(s, c), Delete)

\* faulty variant: the path is restored, and a running service not started
RestorePath(s, c, b) ==
    LET Change(d) == {Ok(IF d.path = "none" THEN Stopped(b.path) ELSE [d EXCEPT !.path = b.path]),
                      Failed(d)}
    IN  IF b.path = "none" THEN Remove(s, c) ELSE Then(Stop(s, c), Change)

RestoreConfiguration(s, c, b) ==
    LET Change(d) ==
            IF d.state = "deleting" THEN {Failed(d)}
            ELSE {Ok(IF d.path = "none" THEN Stopped(b.path) ELSE [d EXCEPT !.path = b.path]),
                  Failed(d)}
        Restart(d) == IF b.state = "running" THEN Start(s, d) ELSE {Ok(d)}
    IN  IF b.path = "none" THEN Remove(s, c)
        ELSE Then(Then(Stop(s, c), Change), Restart)

\* A driver that was asked to stop unloads once nobody holds its device.
Unload(s) ==
    /\ service[s].state = "stopping" /\ ~Held(s)
    /\ service' = [service EXCEPT ![s] = Unloaded(@)]
    /\ UNCHANGED <<backend, deferred, task, cancel, probe_open>>

-----------------------------------------------------------------------------
(* The lifecycle task. *)

taskFrame == <<backend, deferred, cancel, probe_open>>

GotoStage(pc) == task' = [task EXCEPT !.pc = pc]

\* Every failure and cancellation of Bring Online goes through the rollback.
RollBack(result) == task' = [task EXCEPT !.pc = "restore_probe", !.result = result]

\* The task returns; what it opened for verification is closed with it.
Finish(result) ==
    task' = [task EXCEPT !.pc = "done", !.result = result, !.backend = FALSE, !.probe = FALSE]

\* is_cancelled() before the first call of all, and between stages.
BeginTask ==
    /\ task.pc = "begin"
    /\ IF cancel THEN Finish("cancelled")
       ELSE GotoStage(IF task.action = "BringLabOnline" THEN "query" ELSE "call")
    /\ UNCHANGED <<service, taskFrame>>

\* The single call of every action but Bring Online.
Called(a) == IF a \in ChangesKdbg THEN "KDBG" ELSE "KDBGProbe"

SimpleCall ==
    /\ task.pc = "call"
    /\ LET s == Called(task.action)
           c == service[s]
       IN  \E r \in CASE task.action \in {"InstallDriver", "InstallProbe"} -> InstallOrUpdate(s, c)
                      [] task.action \in {"StartDriver", "StartProbe"} -> Start(s, c)
                      [] task.action \in {"StopDriver", "StopProbe"} -> Stop(s, c)
                      [] task.action \in {"RemoveDriver", "RemoveProbe"} -> Remove(s, c) :
               /\ service' = [service EXCEPT ![s] = r.c]
               /\ Finish(IF r.ok THEN "success" ELSE "failure")
    /\ UNCHANGED taskFrame

\* QueryConfiguration of both services: a pending state fails it, and a service
\* that is being deleted counts as gone.
Query ==
    /\ task.pc = "query"
    /\ \/ /\ \A s \in Service : service[s].state # "stopping"
          /\ task' = [task EXCEPT
                 !.before = [s \in Service |->
                     IF service[s].state = "deleting" THEN Absent ELSE service[s]],
                 !.pc = IF cancel THEN "restore_probe" ELSE "stop_probe",
                 !.result = IF cancel THEN "cancelled" ELSE @]
       \/ Finish("failure")
    /\ UNCHANGED <<service, taskFrame>>

\* faulty variant: starting a service is taken to reload it
KeepRunning(s, c) == {Ok(c)}

StopIfRunning(s, c) == IF task.before[s].state = "running" THEN Stop(s, c) ELSE {Ok(c)}

\* The calls of Bring Online: pc, services, what comes next, and
\* whether a cancellation is looked for in between.
LabStage(pc, s, outcomes, next, checked) ==
    /\ task.pc = pc
    /\ \E r \in outcomes :
           /\ service' = [service EXCEPT ![s] = r.c]
           /\ IF ~r.ok THEN RollBack("failure")
              ELSE IF checked /\ cancel THEN RollBack("cancelled")
              ELSE GotoStage(next)
    /\ UNCHANGED taskFrame

Bring ==
    LET d == service["KDBG"]
        p == service["KDBGProbe"]
    IN  \/ LabStage("stop_probe", "KDBGProbe", StopIfRunning("KDBGProbe", p), "stop_driver", FALSE)
        \/ LabStage("stop_driver", "KDBG", StopIfRunning("KDBG", d), "install_driver", TRUE)
        \/ LabStage("install_driver", "KDBG", InstallOrUpdate("KDBG", d), "install_probe", FALSE)
        \/ LabStage("install_probe", "KDBGProbe", InstallOrUpdate("KDBGProbe", p),
                 "start_driver", TRUE)
        \/ LabStage("start_driver", "KDBG", Start("KDBG", d), "start_probe", FALSE)
        \/ LabStage("start_probe", "KDBGProbe", Start("KDBGProbe", p), "open_backend", TRUE)

\* The task's own backend and probe client; a handle needs a running driver.
OpenBackend ==
    /\ task.pc = "open_backend"
    /\ \/ /\ service["KDBG"].state = "running"
          /\ task' = [task EXCEPT !.pc = "open_probe", !.backend = TRUE]
       \/ RollBack("failure")
    /\ UNCHANGED <<service, taskFrame>>

OpenProbe ==
    /\ task.pc = "open_probe"
    /\ \/ /\ service["KDBGProbe"].state = "running"
          /\ task' = [task EXCEPT !.pc = "verify", !.probe = TRUE]
       \/ RollBack("failure")
    /\ UNCHANGED <<service, taskFrame>>

\* Query the probe, compare PFN and address, load its page, and ask for the
\* default-locked gate.
Verify ==
    /\ task.pc = "verify"
    /\ \/ IF cancel THEN RollBack("cancelled") ELSE Finish("success")
       \/ RollBack("failure")
    /\ UNCHANGED <<service, taskFrame>>

\* The probe first, then the driver, whatever became of the probe; the handles
\* opened for verification are still open.
RestoreProbe ==
    /\ task.pc = "restore_probe"
    /\ \E r \in RestoreConfiguration("KDBGProbe", service["KDBGProbe"], task.before["KDBGProbe"]) :
           /\ service' = [service EXCEPT !["KDBGProbe"] = r.c]
           /\ task' = [task EXCEPT !.pc = "restore_driver", !.rollback = IF r.ok THEN "restored" ELSE "errors"]
    /\ UNCHANGED taskFrame

RestoreDriver ==
    /\ task.pc = "restore_driver"
    /\ \E r \in RestoreConfiguration("KDBG", service["KDBG"], task.before["KDBG"]) :
           /\ service' = [service EXCEPT !["KDBG"] = r.c]
           /\ task' = [task EXCEPT !.pc = "done", !.rollback = IF r.ok THEN @ ELSE "errors",
                                   !.backend = FALSE, !.probe = FALSE]
    /\ UNCHANGED taskFrame

TaskStep ==
    \/ BeginTask \/ SimpleCall \/ Query \/ Bring \/ OpenBackend \/ OpenProbe \/ Verify
    \/ RestoreProbe \/ RestoreDriver

-----------------------------------------------------------------------------
(* The window. *)

\* can_* of the driver page, as far as they do not rest on the service states
\* shown, which may be out of date.
CanQueue(a) ==
    /\ ~LifecycleBusy
    /\ a = "BringLabOnline" => ~write_enabled
    /\ a = "RemoveDriver" => ~connected
    /\ a = "RemoveProbe" => ~probe_open

Launched(a) == [NoTask EXCEPT !.action = a, !.pc = "begin"]

\* A change of the KDBG service is deferred, the probe's starts at once.
StartLifecycleAction(a) ==
    /\ CanQueue(a)
    /\ IF a \in ChangesKdbg
       THEN deferred = "None" /\ deferred' = a /\ UNCHANGED <<task, cancel>>
       ELSE task' = Launched(a) /\ cancel' = FALSE /\ UNCHANGED deferred
    /\ probe_open' = (probe_open /\ a # "StopProbe")
    /\ UNCHANGED <<backend, service>>

\* From the driver page, and from the Session menu, which does not look at the
\* lifecycle.
ConnectBackend ==
    /\ deferred = "None" /\ deferred' = "ConnectBackend"
    /\ UNCHANGED <<backend, service, task, cancel, probe_open>>

RequestLifecycleCancel ==
    /\ LifecycleBusy
    /\ IF deferred \in ChangesKdbg THEN deferred' = "None" /\ cancel' = cancel
       ELSE cancel' = TRUE /\ deferred' = deferred
    /\ UNCHANGED <<backend, service, task, probe_open>>

\* faulty variant: the outcome of the lock is ignored
Regardless(result) == TRUE

MayGoOn(result) == result = "Success"

\* FinishLockAllWrites succeeds.
LockAllWrites ==
    IF connected THEN Disable("Disable") /\ MayGoOn(last'.result) ELSE UNCHANGED backend

\* FinishLockAllWrites fails: the deferred action is dropped.
LockFails ==
    /\ deferred # "None" /\ deferred' = "None"
    /\ connected /\ Disable("Disable") /\ last'.result = "Failure"
    /\ UNCHANGED <<service, task, cancel, probe_open>>

\* FinishConnectBackend with the mirror closed: Close, then Open.
FinishConnectBackend ==
    \E ok \in BOOLEAN :
        /\ ok => service["KDBG"].state = "running"
        /\ connected' = ok
        /\ driver_gate' = FALSE /\ write_enabled' = FALSE /\ origin' = "none"
        /\ next_transaction_id' = 1
        /\ last' = [op |-> "Open", result |-> Outcome(ok), id |-> 0]

\* PollDeferredAction, once no worker is busy: the lock always precedes.
PollConnect ==
    /\ deferred = "ConnectBackend" /\ deferred' = "None"
    /\ FinishConnectBackend
    /\ UNCHANGED <<service, task, cancel, probe_open>>

\* Starting the driver keeps the connection; every other change of the KDBG
\* service closes both devices.
PollLaunch ==
    /\ deferred \in ChangesKdbg /\ deferred' = "None"
    /\ IF deferred = "StartDriver" THEN LockAllWrites /\ probe_open' = probe_open
       ELSE CloseBackend /\ probe_open' = FALSE
    /\ task' = Launched(deferred) /\ cancel' = FALSE
    /\ UNCHANGED <<service>>

OpensProbe == {FALSE, service["KDBGProbe"].state = "running"}

\* The result of a finished task is shown; the device it started is opened,
\* unless workers are busy.
PollLifecycleAction ==
    /\ task.pc = "done"
    /\ task' = NoTask /\ cancel' = FALSE
    /\ LET done(actions) == task.result = "success" /\ task.action \in actions
       IN  /\ IF done({"StartDriver", "BringLabOnline"})
              THEN FinishConnectBackend \/ UNCHANGED backend
              ELSE UNCHANGED backend
           /\ IF done({"StartProbe"}) THEN probe_open' \in OpensProbe
              ELSE IF done({"BringLabOnline"}) /\ connected'
              THEN probe_open' \in OpensProbe \cup {probe_open}
              ELSE UNCHANGED probe_open
    /\ UNCHANGED <<service, deferred>>

\* Query & Load Probe Fixture opens the probe device.
QueryProbe ==
    /\ ~LifecycleBusy /\ connected
    /\ ~probe_open /\ probe_open' \in OpensProbe
    /\ UNCHANGED <<backend, service, deferred, task, cancel>>

\* The window's constructor opens the device.
StartUp ==
    /\ last.op = "none" /\ task.action = "None" /\ deferred = "None"
    /\ Open /\ (connected' => service["KDBG"].state = "running")
    /\ UNCHANGED lifecyclePage

\* The rest of the window uses the connection; writes are unavailable while the
\* lifecycle is busy.
UseBackend ==
    /\ \/ QuerySessionStatus
       \/ Disable("Disable")
       \/ ~LifecycleBusy /\ (Enable \/ Refuse \/ RejectInvalid \/ WritePhysical
                                    \/ CompareWritePhysicalPage)
    /\ UNCHANGED lifecyclePage

LifecycleNext ==
    \/ StartUp \/ UseBackend
    \/ \E a \in Action : StartLifecycleAction(a)
    \/ ConnectBackend \/ RequestLifecycleCancel
    \/ LockFails \/ PollConnect \/ PollLaunch \/ PollLifecycleAction
    \/ QueryProbe
    \/ TaskStep
    \/ \E s \in Service : Unload(s)

LifecycleSpec == LifecycleInit /\ [][LifecycleNext]_lifecycleVars

-----------------------------------------------------------------------------
(* Properties. *)

\* When Bring Online reports that the prior configuration and running state
\* were restored, both services are as they were found, at whichever call it
\* failed or was cancelled and whatever the window did meanwhile.
RollbackTruthful ==
    task.pc = "done" /\ task.rollback = "restored" =>
        \A s \in Service :
            /\ service[s].path = task.before[s].path
            /\ service[s].state = task.before[s].state
            /\ service[s].state = "running" => service[s].image = task.before[s].path

\* When Bring Online reports success, the drivers that run are the ones that
\* were installed, not images loaded before.
OnlineIsNew ==
    task.pc = "done" /\ task.action = "BringLabOnline" /\ task.result = "success" =>
        \A s \in Service : service[s] = Running("new")

\* No write gate of the window is open while the KDBG service is changed, also
\* when the Session menu reconnects meanwhile.
GateClosedInLifecycle == task.action \in ChangesKdbg => ~driver_gate
=============================================================================
