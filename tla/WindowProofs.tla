---------------------------- MODULE WindowProofs ----------------------------
(***************************************************************************)
(* Proofs about four parts of the window that share no variable: its       *)
(* connection to the KDBG device (KDbgBackend, for every IdLimit) with the *)
(* driver page built on it (DriverLifecycle), the kernel explorer          *)
(* (KernelExplorer), the page frame queries (PfnUsage) and the saving of   *)
(* files (TableFile).                                                      *)
(*                                                                         *)
(* Each has an inductive invariant of its own.  KDbgBackend: BackendTypeOK *)
(* and MirrorSound together are inductive; the action properties follow    *)
(* from BackendTypeOK, one action at a time.  WritesFounded needs one more *)
(* invariant, that an open mirror has an origin.  DriverLifecycle: TaskInv *)
(* adds to the properties what every stage of Bring Online has established *)
(* when the next one begins, and that only Bring Online's own calls, and a *)
(* driver that was asked to stop, change a service meanwhile.  The others: *)
(* KernelInv, UsageInv and FileInv.                                        *)
(***************************************************************************)
EXTENDS DriverLifecycle, KernelExplorer, PfnUsage, TableFile, TLAPS

-----------------------------------------------------------------------------
(* The connection to the device and the driver page. *)

\* ForceWriteGateClosed succeeds only with the gate closed.
LEMMA ForceCloses ==
    ASSUME NEW g \in BOOLEAN, NEW ok \in BOOLEAN, NEW h \in BOOLEAN,
           ForceWriteGateClosed(g, ok, h)
    PROVE  ok => ~h
BY Zenon DEF ForceWriteGateClosed, Proven

\* The next transaction id stays within the counter's width.
LEMMA IdInRange ==
    ASSUME NEW id \in 0 .. IdLimit - 1
    PROVE  /\ After(id) \in 0 .. IdLimit - 1
           /\ TransactionId(id) \in 0 .. IdLimit - 1
BY BackendAssumption DEF After, TransactionId

\* What an operation returns is well typed.
LEMMA ReturnType ==
    ASSUME BackendTypeOK, NEW op \in Op, NEW ok \in BOOLEAN, Return(op, ok)
    PROVE  /\ last' \in [op : Op, result : {"Success", "Failure"}, id : 0 .. IdLimit - 1]
           /\ last'.op = op
           /\ last'.result = "Success" <=> ok
BY Zenon DEF BackendTypeOK, Return, Outcome

\* A write that is sent ends with the mirror closed.
LEMMA SendCloses ==
    ASSUME BackendTypeOK, NEW id \in 0 .. IdLimit - 1, Send(id)
    PROVE  /\ last' \in [op : Op, result : {"Success", "Failure"}, id : 0 .. IdLimit - 1]
           /\ last'.op = "Send"
           /\ driver_gate' \in BOOLEAN
           /\ write_enabled' = FALSE
           /\ origin' = "none"
BY DEF Send, BackendTypeOK, Op, Outcome, Consumed

\* The remaining operations name themselves in what they return.
LEMMA OtherOps ==
    ASSUME Open \/ CloseBackend \/ QuerySessionStatus \/ Refuse
    PROVE  \/ last'.op \in {"Open", "Close", "QuerySessionStatus"}
           \/ Refuse /\ last'.op = "Write"
<1>1. \A op, ok : Return(op, ok) => last'.op = op
    BY DEF Return
<1>2. CASE Open
  <2>1. \E ok : Return("Open", ok)
      BY Zenon, <1>2 DEF Open
  <2>2. QED
      BY Zenon, <1>1, <2>1
<1>3. CASE CloseBackend
    BY Zenon, <1>3 DEF CloseBackend
<1>4. CASE QuerySessionStatus
  <2>1. \E ok : Return("QuerySessionStatus", ok)
      BY Zenon, <1>4 DEF QuerySessionStatus
  <2>2. QED
      BY Zenon, <1>1, <2>1
<1>5. CASE Refuse
    BY Zenon, <1>1, <1>5 DEF Refuse
<1>6. QED
    BY Zenon, <1>2, <1>3, <1>4, <1>5

\* An enable either opens gate and mirror of an open handle,
\* or closes the mirror and fails.
LEMMA EnableEffect ==
    ASSUME BackendTypeOK, Enable
    PROVE  /\ BackendTypeOK'
           /\ last'.op = "Enable"
           /\ \/ /\ connected' /\ driver_gate' /\ write_enabled' /\ origin' = "enable"
                 /\ last'.result = "Success"
              \/ /\ ~write_enabled' /\ origin' = "none"
                 /\ last'.result = "Failure"
<1>0. connected' = connected /\ next_transaction_id' = next_transaction_id
    BY Zenon DEF Enable
<1>1. CASE /\ BackendSetWriteMode(TRUE, driver_gate, TRUE, TRUE)
           /\ driver_gate' = TRUE
           /\ write_enabled' = TRUE
           /\ origin' = "enable"
           /\ Return("Enable", TRUE)
  <2>1. connected
      BY Zenon, <1>1 DEF BackendSetWriteMode
  <2>2. QED
      BY Zenon, <1>0, <1>1, <2>1, ReturnType DEF BackendTypeOK, Op
<1>2. CASE /\ \E h, k, ok \in BOOLEAN :
                  /\ BackendSetWriteMode(TRUE, driver_gate, FALSE, h)
                  /\ ForceWriteGateClosed(h, ok, k)
                  /\ driver_gate' = k
           /\ write_enabled' = ForcedMirror(driver_gate')
           /\ origin' = "none"
           /\ Return("Enable", FALSE)
  <2>1. driver_gate' \in BOOLEAN
      BY Zenon, <1>2
  <2>2. write_enabled' = FALSE
      BY Zenon, <1>2 DEF ForcedMirror
  <2>3. last' = [op |-> "Enable", result |-> "Failure", id |-> last.id]
      BY Zenon, <1>2 DEF Return, Outcome
  <2>4. QED
      BY Zenon, <1>0, <1>2, <2>1, <2>2, <2>3 DEF BackendTypeOK, Op
<1>3. QED
    BY Zenon, <1>1, <1>2 DEF Enable

\* Closing the gate closes the mirror, and reports success only with the gate
\* closed.
LEMMA DisableEffect ==
    ASSUME BackendTypeOK, NEW op \in {"Disable", "Write"}, Disable(op)
    PROVE  /\ BackendTypeOK'
           /\ last'.op = op
           /\ ~write_enabled' /\ origin' = "none"
           /\ op = "Disable" /\ last'.result = "Success" => ~driver_gate'
<1>0. /\ connected' = connected
      /\ next_transaction_id' = next_transaction_id
      /\ write_enabled' = FALSE
      /\ origin' = "none"
    BY Zenon DEF Disable, ForcedMirror
<1>1. PICK h \in BOOLEAN, ok \in BOOLEAN :
          /\ ForceWriteGateClosed(driver_gate, ok, h)
          /\ driver_gate' = h
          /\ Return(op, op = "Disable" /\ ok)
    BY Zenon DEF Disable
<1>2. driver_gate \in BOOLEAN
    BY Zenon DEF BackendTypeOK
<1>3. ok => ~h
    BY Zenon, <1>1, <1>2, ForceCloses
<1>4. /\ last' = [op |-> op, result |-> Outcome(op = "Disable" /\ ok), id |-> last.id]
    BY Zenon, <1>1 DEF Return
<1>5. /\ last' \in [op : Op, result : {"Success", "Failure"}, id : 0 .. IdLimit - 1]
      /\ last'.op = op
      /\ op = "Disable" /\ last'.result = "Success" => ok
    BY Zenon, <1>4 DEF Outcome, BackendTypeOK, Op
<1>6. QED
    BY Zenon, <1>0, <1>1, <1>3, <1>5 DEF BackendTypeOK

-----------------------------------------------------------------------------
(* The invariant of the connection. *)

Inv == BackendTypeOK /\ MirrorSound

\* The backend is constructed disconnected, with the mirror closed.
LEMMA InitInv == BackendInit => Inv
<1>1. 0 \in 0 .. IdLimit - 1 /\ 1 \in 0 .. IdLimit - 1
    BY BackendAssumption
<1> SUFFICES ASSUME BackendInit PROVE Inv
    BY Zenon
<1>3. last \in [op : Op, result : {"Success", "Failure"}, id : 0 .. IdLimit - 1]
    BY Zenon, <1>1 DEF BackendInit, Op
<1>4. QED
    BY Zenon, <1>1, <1>3 DEF BackendInit, Inv, BackendTypeOK, MirrorSound

\* Every operation keeps the types and a sound mirror.
LEMMA NextInv == Inv /\ [BackendNext]_backendVars => Inv'
<1> SUFFICES ASSUME Inv, [BackendNext]_backendVars PROVE Inv'
    BY Zenon
<1>0. BackendTypeOK /\ MirrorSound
    BY Zenon DEF Inv
<1>1. CASE Open
  <2>1. CASE connected
      BY <1>0, <1>1, <2>1 DEF Open, Return, Outcome, Inv, BackendTypeOK, MirrorSound, Op
  <2>2. CASE ~connected
    <3>1. /\ connected' \in BOOLEAN
          /\ driver_gate' = FALSE
          /\ write_enabled' = FALSE
          /\ next_transaction_id' \in 0 .. IdLimit - 1
          /\ origin' = "none"
        BY <1>0, <1>1, <2>2, BackendAssumption DEF Open, BackendTypeOK
    <3>2. last' \in [op : Op, result : {"Success", "Failure"}, id : 0 .. IdLimit - 1]
        BY <1>0, <1>1, <2>2 DEF Open, Return, Outcome, BackendTypeOK, Op
    <3>3. QED
        BY Zenon, <3>1, <3>2 DEF Inv, BackendTypeOK, MirrorSound
  <2>3. QED
      BY Zenon, <2>1, <2>2
<1>2. CASE CloseBackend
  <2>1. 0 \in 0 .. IdLimit - 1 /\ 1 \in 0 .. IdLimit - 1
      BY BackendAssumption
  <2>2. last' \in [op : Op, result : {"Success", "Failure"}, id : 0 .. IdLimit - 1]
      BY Zenon, <1>2, <2>1 DEF CloseBackend, Op
  <2>3. QED
      BY Zenon, <1>2, <2>1, <2>2 DEF CloseBackend, Inv, BackendTypeOK, MirrorSound
<1>3. CASE QuerySessionStatus
  <2>1. PICK answered \in StatusAnswered :
            /\ write_enabled' = Reported(answered)
            /\ Return("QuerySessionStatus", answered)
      BY Zenon, <1>3 DEF QuerySessionStatus
  <2>2. answered \in BOOLEAN /\ (answered => connected)
      BY Zenon, <2>1, <1>0 DEF StatusAnswered, BackendTypeOK
  <2>3. UNCHANGED <<connected, driver_gate, next_transaction_id>>
      BY Zenon, <1>3 DEF QuerySessionStatus
  <2>7. origin' \in {"none", "enable", "status"}
      BY Zenon, <1>0, <1>3 DEF QuerySessionStatus, BackendTypeOK
  <2>4. last' \in [op : Op, result : {"Success", "Failure"}, id : 0 .. IdLimit - 1]
      BY Zenon, <1>0, <2>1 DEF Return, Outcome, BackendTypeOK, Op
  <2>5. write_enabled' \in BOOLEAN /\ (write_enabled' => connected /\ driver_gate)
      BY Zenon, <1>0, <2>1, <2>2 DEF Reported, BackendTypeOK, MirrorSound
  <2>6. QED
      BY Zenon, <1>0, <2>3, <2>4, <2>5, <2>7 DEF Inv, BackendTypeOK, MirrorSound
<1>4. CASE Enable
    BY Zenon, <1>0, <1>4, EnableEffect DEF Inv, MirrorSound
<1>5. CASE Disable("Disable")
    BY Zenon, <1>0, <1>5, DisableEffect DEF Inv, MirrorSound
<1>6. CASE Refuse
    BY Zenon, <1>0, <1>6 DEF Refuse, Return, Outcome, Inv, BackendTypeOK, MirrorSound, Op
<1>7. CASE RejectInvalid
    BY Zenon, <1>0, <1>7, DisableEffect DEF RejectInvalid, Inv, MirrorSound
<1>8. CASE WritePhysical
  <2>1. last.id \in 0 .. IdLimit - 1
      BY Zenon, <1>0 DEF BackendTypeOK
  <2>2. Send(last.id) /\ UNCHANGED <<connected, next_transaction_id>>
      BY Zenon, <1>8 DEF WritePhysical
  <2>3. QED
      BY Zenon, <1>0, <2>1, <2>2, SendCloses DEF Inv, BackendTypeOK, MirrorSound
<1>9. CASE CompareWritePhysicalPage
  <2>0. DEFINE id == TransactionId(next_transaction_id)
  <2>1. id \in 0 .. IdLimit - 1 /\ After(id) \in 0 .. IdLimit - 1
      BY Zenon, <1>0, IdInRange DEF BackendTypeOK
  <2>2. Send(id) /\ next_transaction_id' = After(id) /\ UNCHANGED connected
      BY Zenon, <1>9 DEF CompareWritePhysicalPage
  <2>3. QED
      BY Zenon, <1>0, <2>1, <2>2, SendCloses DEF Inv, BackendTypeOK, MirrorSound
<1>10. CASE UNCHANGED backendVars
    BY Zenon, <1>0, <1>10 DEF backendVars, Inv, BackendTypeOK, MirrorSound
<1>11. QED
    BY Zenon, <1>1, <1>2, <1>3, <1>4, <1>5, <1>6, <1>7, <1>8, <1>9, <1>10 DEF BackendNext

\* An open mirror always means an open handle with an open driver gate,
\* whatever requests and answers to the driver were lost.
THEOREM MirrorIsSound == BackendSpec => []MirrorSound
<1>1. Inv => MirrorSound
    BY Zenon DEF Inv
<1>2. QED
    BY InitInv, NextInv, <1>1, PTL DEF BackendSpec

\* Every reachable state of the backend is well typed; the transaction counter
\* stays within its width across the wrap.
THEOREM BackendTypes == BackendSpec => []BackendTypeOK
<1>1. Inv => BackendTypeOK
    BY Zenon DEF Inv
<1>2. QED
    BY InitInv, NextInv, <1>1, PTL DEF BackendSpec

-----------------------------------------------------------------------------
(* The action properties of the connection. *)

\* What a step of the backend that CloseTruthful allows may do.
CloseStep == last'.op = "Disable" /\ last'.result = "Success" => ~driver_gate'

\* Only SetWriteEnabled(false) reports a disable, and it proves the gate closed.
LEMMA CloseSteps == Inv /\ BackendNext => CloseStep
<1> USE DEF CloseStep
<1> SUFFICES ASSUME Inv, BackendNext PROVE CloseStep
    BY Zenon
<1>0. BackendTypeOK
    BY Zenon DEF Inv
<1>1. CASE Disable("Disable")
    BY Zenon, <1>0, <1>1, DisableEffect
<1>2. CASE RejectInvalid
    BY Zenon, <1>0, <1>2, DisableEffect DEF RejectInvalid
<1>3. CASE Enable
    BY Zenon, <1>0, <1>3, EnableEffect
<1>4. CASE Open \/ CloseBackend \/ QuerySessionStatus \/ Refuse
    BY Zenon, <1>4, OtherOps
<1>5. CASE WritePhysical \/ CompareWritePhysicalPage
    BY <1>5 DEF WritePhysical, CompareWritePhysicalPage, Send
<1>6. QED
    BY Zenon, <1>1, <1>2, <1>3, <1>4, <1>5 DEF BackendNext

\* A successful SetWriteEnabled(false) leaves the driver's gate closed, even
\* if the disable request or its answer was lost.
THEOREM CloseIsTruthful == BackendSpec => CloseTruthful
<1>1. Inv /\ [BackendNext]_backendVars => [CloseStep]_backendVars
    BY Zenon, CloseSteps
<1>2. QED
    BY InitInv, NextInv, <1>1, PTL DEF BackendSpec, CloseTruthful, CloseStep

\* An enable, disable or write that fails leaves the mirror closed.
THEOREM FailureCloses == BackendSpec => FailClosed
<1> DEFINE A == /\ last'.op \in {"Enable", "Disable", "Write", "Send"}
                /\ last'.result = "Failure"
                => ~write_enabled'
<1>1. Inv /\ BackendNext => A
  <2> SUFFICES ASSUME Inv, BackendNext PROVE A
      BY Zenon
  <2>0. BackendTypeOK
      BY Zenon DEF Inv
  <2>1. CASE Disable("Disable")
      BY Zenon, <2>0, <2>1, DisableEffect
  <2>2. CASE RejectInvalid
      BY Zenon, <2>0, <2>2, DisableEffect DEF RejectInvalid
  <2>3. CASE Enable
      BY Zenon, <2>0, <2>3, EnableEffect
  <2>4. CASE Open \/ CloseBackend \/ QuerySessionStatus
      BY Zenon, <2>4, OtherOps DEF Refuse
  <2>5. CASE Refuse
      BY Zenon, <2>5 DEF Refuse
  <2>6. CASE WritePhysical \/ CompareWritePhysicalPage
      BY Zenon, <2>6 DEF WritePhysical, CompareWritePhysicalPage, Send, Consumed
  <2>7. QED
      BY Zenon, <2>1, <2>2, <2>3, <2>4, <2>5, <2>6 DEF BackendNext
<1>2. Inv /\ [BackendNext]_backendVars => [A]_backendVars
    BY Zenon, <1>1
<1>3. QED
    BY InitInv, NextInv, <1>2, PTL DEF BackendSpec, FailClosed

\* An open mirror has an origin.
Founded == Inv /\ (write_enabled => origin # "none")

\* Every step keeps an open mirror founded: only an enable or a status report
\* opens it.
LEMMA FoundedNext == Founded /\ [BackendNext]_backendVars => Founded'
<1> SUFFICES ASSUME Founded, [BackendNext]_backendVars PROVE write_enabled' => origin' # "none"
    BY Zenon, NextInv DEF Founded
<1>0. BackendTypeOK /\ (write_enabled => origin # "none")
    BY Zenon DEF Founded, Inv
<1>1. CASE Disable("Disable")
    BY Zenon, <1>0, <1>1, DisableEffect
<1>2. CASE RejectInvalid
    BY Zenon, <1>0, <1>2, DisableEffect DEF RejectInvalid
<1>3. CASE Enable
    BY Zenon, <1>0, <1>3, EnableEffect
<1>4. CASE Open \/ CloseBackend \/ Refuse
    BY Zenon, <1>0, <1>4 DEF Open, CloseBackend, Refuse
<1>8. CASE QuerySessionStatus
    BY Zenon, <1>0, <1>8 DEF QuerySessionStatus, Reported
<1>5. CASE WritePhysical \/ CompareWritePhysicalPage
    BY Zenon, <1>5 DEF WritePhysical, CompareWritePhysicalPage, Send, Consumed
<1>6. CASE UNCHANGED backendVars
    BY Zenon, <1>0, <1>6 DEF backendVars
<1>7. QED
    BY Zenon, <1>1, <1>2, <1>3, <1>4, <1>5, <1>6, <1>8 DEF BackendNext

\* What a step that WritesFounded allows may do.
SendStep == last'.op = "Send" => origin # "none"

\* Only a write behind an open mirror is sent.
LEMMA SendSteps == Founded /\ BackendNext => SendStep
<1> USE DEF SendStep
<1> SUFFICES ASSUME Founded, BackendNext PROVE SendStep
    BY Zenon
<1>0. BackendTypeOK /\ (write_enabled => origin # "none")
    BY Zenon DEF Founded, Inv
<1>1. CASE Disable("Disable")
    BY Zenon, <1>0, <1>1, DisableEffect
<1>2. CASE RejectInvalid
    BY Zenon, <1>0, <1>2, DisableEffect DEF RejectInvalid
<1>3. CASE Enable
    BY Zenon, <1>0, <1>3, EnableEffect
<1>4. CASE Open \/ CloseBackend \/ QuerySessionStatus \/ Refuse
    BY Zenon, <1>4, OtherOps
<1>5. CASE WritePhysical \/ CompareWritePhysicalPage
    BY Zenon, <1>0, <1>5 DEF WritePhysical, CompareWritePhysicalPage
<1>6. QED
    BY Zenon, <1>1, <1>2, <1>3, <1>4, <1>5 DEF BackendNext

\* Every write the backend sends rests on a successful enable or on a status
\* report of an open gate since its last close, failure or write.
THEOREM WritesAreFounded == BackendSpec => WritesFounded
<1>1. BackendInit => Founded
    BY Zenon, InitInv DEF BackendInit, Founded
<1>2. Founded /\ [BackendNext]_backendVars => [SendStep]_backendVars
    BY Zenon, SendSteps
<1>3. QED
    BY <1>1, FoundedNext, <1>2, PTL DEF BackendSpec, WritesFounded, SendStep

-----------------------------------------------------------------------------
(* The driver page. *)

\* A service that does not exist has no image, and neither has a stopped one.
Good == {c \in Config : /\ c.path = "none" => c.state = "stopped"
                        /\ c.state = "stopped" => c.image = "none"}

\* What Query records: never a pending state.
Found == {c \in Good : c.state \in {"stopped", "running"}}

\* A service is back at configuration b.
Restored(c, b) ==
    /\ c.path = b.path
    /\ c.state = b.state
    /\ c.state = "running" => c.image = b.path

\* The three configurations the page creates or looks for (absent, stopped,
\* running) are ones the Service Control Manager can hold.
LEMMA Configs ==
    /\ Absent \in Good /\ Absent \in Found /\ Absent.path = "none"
    /\ Absent.state = "stopped" /\ Absent.image = "none"
    /\ \A p \in {"old", "new"} :
           /\ Stopped(p) \in Good /\ Running(p) \in Good
           /\ Stopped(p).path = p /\ Stopped(p).state = "stopped"
           /\ Stopped(p).image = "none"
           /\ Running(p).path = p /\ Running(p).state = "running"
           /\ Running(p).image = p
BY Zenon DEF Absent, Stopped, Running, Good, Found, Config

\* Unloading a driver keeps its service and its path; marking it for deletion
\* afterwards gives a configuration that exists, too.
LEMMA UnloadedGood ==
    ASSUME NEW c \in Good
    PROVE  /\ Unloaded(c) \in Good /\ Unloaded(c).path = c.path
           /\ Unloaded(c).state = "stopped" /\ Unloaded(c).image = "none"
           /\ c.path # "none" => [Unloaded(c) EXCEPT !.state = "deleting"] \in Good
<1>1. c \in Config
  BY Zenon DEF Good
<1>2. /\ Unloaded(c) \in Config /\ Unloaded(c).path = c.path
      /\ Unloaded(c).state = "stopped" /\ Unloaded(c).image = "none"
  BY Zenon, <1>1 DEF Unloaded, Config
<1> DEFINE d == [Unloaded(c) EXCEPT !.state = "deleting"]
<1>3. d \in Config /\ d.path = c.path /\ d.state = "deleting"
  BY Zenon, <1>2 DEF Config
<1> QED BY Zenon, <1>2, <1>3 DEF Good

\* A stopped service without an image in memory is determined by its path.
LEMMA StoppedIs ==
    ASSUME NEW p \in {"old", "new"}, NEW c \in Good,
           c.path = p, c.state = "stopped", c.image = "none"
    PROVE  c = Stopped(p)
BY Zenon DEF Good, Config, Stopped

\* Only a service that does not exist has no path.
LEMMA NoPath ==
    ASSUME NEW c \in Good, c.path = "none"
    PROVE  c = Absent
BY Zenon DEF Good, Config, Absent

\* A call succeeded, or failed, and left the service at c.
Did(r, c) == r.ok = TRUE /\ r.c = c
DidNot(r, c) == r.ok = FALSE /\ r.c = c

\* A call that succeeds has done its change, and one that fails has not.
LEMMA Outcomes ==
    ASSUME NEW c
    PROVE  Did(Ok(c), c) /\ DidNot(Failed(c), c)
BY Zenon DEF Did, DidNot, Ok, Failed

\* Stop succeeds only with the driver unloaded.
LEMMA StopEffect ==
    ASSUME NEW s, NEW c \in Good, NEW r \in Stop(s, c)
    PROVE  /\ r.ok \in BOOLEAN /\ r.c \in Good
           /\ r.ok => r.c.state = "stopped" /\ r.c.image = "none"
<1>1. CASE c.path = "none"
  <2>1. Did(r, c)
    BY Zenon, <1>1, Outcomes DEF Stop
  <2>2. c.state = "stopped" /\ c.image = "none"
    BY Zenon, <1>1 DEF Good
  <2> QED BY Zenon, <2>1, <2>2 DEF Did
<1>2. CASE c.path # "none" /\ c.state = "deleting"
  <2> DEFINE d == [Unloaded(c) EXCEPT !.state = "deleting"]
  <2>1. Did(r, Absent) \/ DidNot(r, d)
    BY Zenon, <1>2, Outcomes DEF Stop, Deleted
  <2>2. d \in Good
    BY Zenon, <1>2, UnloadedGood
  <2> HIDE DEF d
  <2> QED BY Zenon, <2>1, <2>2, Configs DEF Did, DidNot
<1>3. CASE c.path # "none" /\ c.state = "stopped"
  <2>1. Did(r, c) \/ DidNot(r, c)
    BY Zenon, <1>3, Outcomes DEF Stop
  <2>2. c.image = "none"
    BY Zenon, <1>3 DEF Good
  <2> QED BY Zenon, <1>3, <2>1, <2>2 DEF Did, DidNot
<1>4. CASE c.path # "none" /\ c.state \notin {"deleting", "stopped"}
  <2> DEFINE d == [c EXCEPT !.state = "stopping"]
  <2>1. d \in Good
    BY Zenon, <1>4 DEF Good, Config
  <2>2. DidNot(r, c) \/ DidNot(r, d) \/ Did(r, Unloaded(c))
    BY Zenon, <1>4, Outcomes DEF Stop
  <2> HIDE DEF d
  <2> QED BY ZenonT(30), <2>1, <2>2, UnloadedGood DEF Did, DidNot
<1> QED BY Zenon, <1>1, <1>2, <1>3, <1>4

\* Start succeeds on a stopped service only with the configured image loaded.
LEMMA StartEffect ==
    ASSUME NEW s, NEW c \in Good, NEW r \in Start(s, c)
    PROVE  /\ r.ok \in BOOLEAN /\ r.c \in Good
           /\ r.ok /\ c.state = "stopped" => r.c = Running(c.path)
<1>0. c.path \in {"none", "old", "new"}
      /\ c.state \in {"stopped", "running", "stopping", "deleting"}
  BY Zenon DEF Good, Config
<1>1. CASE c.path = "none" \/ c.state = "deleting"
  <2>1. DidNot(r, c)
    BY Zenon, <1>1, Outcomes DEF Start
  <2> QED BY Zenon, <2>1 DEF DidNot
<1>2. CASE c.path # "none" /\ c.state = "running"
  <2>1. Did(r, c) \/ DidNot(r, c)
    BY Zenon, <1>2, Outcomes DEF Start
  <2> QED BY Zenon, <1>2, <2>1 DEF Did, DidNot
<1>3. CASE c.path # "none" /\ c.state \in {"stopped", "stopping"}
  <2>1. DidNot(r, c) \/ Did(r, Running(c.path)) \/ DidNot(r, Unloaded(c))
    BY Zenon, <1>3, Outcomes DEF Start
  <2>2. Running(c.path) \in Good /\ Unloaded(c) \in Good
    BY Zenon, <1>0, <1>3, UnloadedGood, Configs
  <2> QED BY Zenon, <2>1, <2>2 DEF Did, DidNot
<1> QED BY Zenon, <1>0, <1>1, <1>2, <1>3

\* An install of a service that is not loaded leaves the new one, stopped.
LEMMA InstallEffect ==
    ASSUME NEW s, NEW c \in Good, NEW r \in InstallOrUpdate(s, c)
    PROVE  /\ r.ok \in BOOLEAN /\ r.c \in Good
           /\ r.ok /\ c.state \in {"stopped", "deleting"} => r.c = Stopped("new")
<1> DEFINE d == [c EXCEPT !.path = "new"]
<1>1. d \in Good
  BY Zenon DEF Good, Config
<1>2. c.state = "stopped" => d = Stopped("new")
  <2>1. c.state = "stopped" => d.path = "new" /\ d.state = "stopped" /\ d.image = "none"
    BY Zenon DEF Good, Config
  <2> HIDE DEF d
  <2> QED BY Zenon, <1>1, <2>1, StoppedIs
<1>3. CASE c.path = "none" \/ c.state = "deleting"
  <2>1. Did(r, Stopped("new")) \/ DidNot(r, c)
    BY Zenon, <1>3, Outcomes DEF InstallOrUpdate
  <2> QED BY Zenon, <2>1, Configs DEF Did, DidNot
<1>4. CASE c.path # "none" /\ c.state # "deleting"
  <2>1. Did(r, d) \/ DidNot(r, c)
    BY Zenon, <1>4, Outcomes DEF InstallOrUpdate
  <2> HIDE DEF d
  <2> QED BY Zenon, <1>1, <1>2, <1>4, <2>1 DEF Did, DidNot
<1> QED BY Zenon, <1>3, <1>4

\* Remove succeeds only with the service gone.
LEMMA RemoveEffect ==
    ASSUME NEW s, NEW c \in Good, NEW r \in Remove(s, c)
    PROVE  /\ r.ok \in BOOLEAN /\ r.c \in Good
           /\ r.ok => r.c = Absent
<1> DEFINE Delete(d) == IF d.path = "none" THEN {Ok(d)} ELSE Deleted(d) \cup {Failed(d)}
<1>1. PICK q \in Stop(s, c) : r \in IF q.ok THEN Delete(q.c) ELSE {q}
  BY Zenon DEF Remove, Then
<1>2. q.ok \in BOOLEAN /\ q.c \in Good
  BY Zenon, <1>1, StopEffect
<1>3. CASE ~q.ok
  <2>1. r = q
    BY Zenon, <1>1, <1>3
  <2> QED BY Zenon, <1>2, <1>3, <2>1
<1>4. CASE q.ok /\ q.c.path = "none"
  <2>1. Did(r, q.c)
    BY Zenon, <1>1, <1>4, Outcomes
  <2> QED BY Zenon, <1>2, <1>4, <2>1, NoPath DEF Did
<1>5. CASE q.ok /\ q.c.path # "none"
  <2> DEFINE d == [Unloaded(q.c) EXCEPT !.state = "deleting"]
  <2>1. Did(r, Absent) \/ DidNot(r, d) \/ DidNot(r, q.c)
    BY Zenon, <1>1, <1>5, Outcomes DEF Deleted
  <2>2. d \in Good
    BY Zenon, <1>2, <1>5, UnloadedGood
  <2> HIDE DEF d
  <2> QED BY Zenon, <1>2, <2>1, <2>2, Configs DEF Did, DidNot
<1> QED BY Zenon, <1>2, <1>3, <1>4, <1>5

\* A restore that succeeds left the service as it was found.
LEMMA RestoreEffect ==
    ASSUME NEW s, NEW c \in Good, NEW b \in Found,
           NEW r \in RestoreConfiguration(s, c, b)
    PROVE  /\ r.ok \in BOOLEAN /\ r.c \in Good
           /\ r.ok => Restored(r.c, b)
<1> DEFINE Change(d) ==
               IF d.state = "deleting" THEN {Failed(d)}
               ELSE {Ok(IF d.path = "none" THEN Stopped(b.path) ELSE [d EXCEPT !.path = b.path]),
                     Failed(d)}
           Restart(d) == IF b.state = "running" THEN Start(s, d) ELSE {Ok(d)}
<1>0. b \in Good /\ b.path \in {"none", "old", "new"} /\ b.state \in {"stopped", "running"}
  BY Zenon DEF Found, Good, Config
<1>1. CASE b.path = "none"
  <2>1. b = Absent /\ r \in Remove(s, c)
    BY Zenon, <1>0, <1>1, NoPath DEF RestoreConfiguration
  <2> QED BY Zenon, <2>1, RemoveEffect, Configs DEF Restored
<1>2. CASE b.path # "none"
  <2>0. b.path \in {"old", "new"}
    BY Zenon, <1>0, <1>2
  <2>1. PICK q \in Then(Stop(s, c), Change) : r \in IF q.ok THEN Restart(q.c) ELSE {q}
    BY Zenon, <1>2 DEF RestoreConfiguration, Then
  <2>2. PICK p \in Stop(s, c) : q \in IF p.ok THEN Change(p.c) ELSE {p}
    BY Zenon, <2>1 DEF Then
  <2>3. p.ok \in BOOLEAN /\ p.c \in Good
        /\ (p.ok => p.c.state = "stopped" /\ p.c.image = "none")
    BY Zenon, <2>2, StopEffect
  <2>4. CASE ~p.ok
    <3>1. q = p
      BY Zenon, <2>2, <2>4
    <3>2. r = p
      BY Zenon, <2>1, <2>4, <3>1
    <3> QED BY Zenon, <2>3, <2>4, <3>2
  <2>5. CASE p.ok
    <3> DEFINE d == p.c
               e == IF d.path = "none" THEN Stopped(b.path) ELSE [d EXCEPT !.path = b.path]
    <3>1. Did(q, e) \/ DidNot(q, d)
      BY Zenon, <2>2, <2>3, <2>5, Outcomes
    <3>2. e = Stopped(b.path) /\ e \in Good /\ e.state = "stopped" /\ e.path = b.path
      <4>1. d.path # "none" => [d EXCEPT !.path = b.path] = Stopped(b.path)
        <5> DEFINE f == [d EXCEPT !.path = b.path]
        <5>1. d \in Config /\ d.state = "stopped" /\ d.image = "none"
          BY Zenon, <2>3, <2>5 DEF Good
        <5> HIDE DEF d
        <5>2. f \in Good /\ f.path = b.path /\ f.state = "stopped" /\ f.image = "none"
          BY Zenon, <2>0, <5>1 DEF Good, Config
        <5> HIDE DEF f
        <5>3. f = Stopped(b.path)
          BY Zenon, <2>0, <5>2, StoppedIs
        <5> QED BY Zenon, <5>3 DEF f
      <4> QED BY <2>0, <4>1, Configs
    <3> HIDE DEF d, e
    <3>3. CASE DidNot(q, d)
      <4>1. r = q
        BY Zenon, <2>1, <3>3 DEF DidNot
      <4> QED BY Zenon, <2>3, <3>3, <4>1 DEF DidNot, d
    <3>4. CASE Did(q, e)
      <4>1. r \in Restart(e)
        BY Zenon, <2>1, <3>4 DEF Did
      <4>2. CASE b.state = "running"
        <5>1. r \in Start(s, e)
          BY Zenon, <4>1, <4>2
        <5>2. /\ r.ok \in BOOLEAN /\ r.c \in Good
              /\ r.ok => r.c = Running(b.path)
          BY Zenon, <3>2, <5>1, StartEffect
        <5> QED BY Zenon, <2>0, <4>2, <5>2, Configs DEF Restored
      <4>3. CASE b.state # "running"
        <5>1. Did(r, e) /\ b.state = "stopped"
          BY Zenon, <1>0, <4>1, <4>3, Outcomes
        <5> QED BY Zenon, <3>2, <5>1 DEF Restored, Did
      <4> QED BY Zenon, <4>2, <4>3
    <3> QED BY Zenon, <3>1, <3>3, <3>4
  <2> QED BY Zenon, <2>3, <2>4, <2>5
<1> QED BY Zenon, <1>1, <1>2
-----------------------------------------------------------------------------
(* The task of the driver page. *)

\* Bring Online's calls, and its rollback.
LabPc == {"query", "stop_probe", "stop_driver", "install_driver", "install_probe",
          "start_driver", "start_probe", "open_backend", "open_probe", "verify"}
RestorePc == {"restore_probe", "restore_driver"}

Task == [action : Action \cup {"None"},
         pc : {"idle", "begin", "call", "done"} \cup LabPc \cup RestorePc,
         before : [Service -> Found], backend : BOOLEAN, probe : BOOLEAN,
         result : {"none", "success", "failure", "cancelled"},
         rollback : {"none", "restored", "errors"}]

LifecycleTypeOK == service \in [Service -> Good] /\ task \in Task

\* A service is as it was found, or on its way out.
AsFound(s) ==
    \/ service[s] = task.before[s]
    \/ service[s].state = "deleting" /\ task.before[s].state = "stopped"

NotLoaded(s) == service[s].state \in {"stopped", "deleting"}

\* What the stages of Bring Online have established for the next one.
Established ==
    /\ task.pc = "stop_probe" => AsFound("KDBG") /\ AsFound("KDBGProbe")
    /\ task.pc = "stop_driver" => AsFound("KDBG") /\ NotLoaded("KDBGProbe")
    /\ task.pc = "install_driver" => NotLoaded("KDBG") /\ NotLoaded("KDBGProbe")
    /\ task.pc = "install_probe" => service["KDBG"] = Stopped("new") /\ NotLoaded("KDBGProbe")
    /\ task.pc = "start_driver" =>
           service["KDBG"] = Stopped("new") /\ service["KDBGProbe"] = Stopped("new")
    /\ task.pc = "start_probe" =>
           service["KDBG"] = Running("new") /\ service["KDBGProbe"] = Stopped("new")
    /\ task.pc \in {"open_backend", "open_probe", "verify"} =>
           service["KDBG"] = Running("new") /\ service["KDBGProbe"] = Running("new")
    /\ task.pc = "restore_driver" /\ task.rollback = "restored" =>
           Restored(service["KDBGProbe"], task.before["KDBGProbe"])

\* Which stages belong to which action, and what has been reported.
Stages ==
    /\ task.pc \in LabPc \cup RestorePc => task.action = "BringLabOnline"
    /\ task.pc \in {"begin", "call"} => task.action # "None"
    /\ task.pc = "call" => task.action # "BringLabOnline"
    /\ task.pc \in RestorePc => task.result # "success"
    /\ task.pc \notin {"restore_driver", "done"} => task.rollback = "none"

TaskInv == LifecycleTypeOK /\ Stages /\ Established /\ OnlineIsNew /\ RollbackTruthful

\* The task between two actions, and a task that begins.
LEMMA NewTask ==
    /\ NoTask \in Task /\ NoTask.pc = "idle" /\ NoTask.rollback = "none"
    /\ NoTask.action = "None"
    /\ \A a \in Action :
           /\ Launched(a) \in Task /\ Launched(a).pc = "begin"
           /\ Launched(a).action = a /\ Launched(a).rollback = "none"
<1>1. [s \in Service |-> Absent] \in [Service -> Found]
  BY Zenon, Configs
<1>2. NoTask \in Task /\ NoTask.pc = "idle" /\ NoTask.rollback = "none"
      /\ NoTask.action = "None"
  BY Zenon, <1>1 DEF NoTask, Task, Action, ChangesKdbg, ProbeAction, LabPc, RestorePc
<1> QED BY Zenon, <1>2 DEF Launched, Task

\* A task that was just launched, or that is gone, has reported nothing and
\* holds no query, so that nothing has to be true of it yet.
LEMMA FreshTask ==
    ASSUME LifecycleTypeOK, service' = service,
           task' = NoTask \/ \E a \in Action : task' = Launched(a)
    PROVE  TaskInv'
<1>1. /\ task' \in Task /\ task'.pc \in {"idle", "begin"} /\ task'.rollback = "none"
      /\ task'.pc = "begin" => task'.action # "None"
  BY Zenon, NewTask, "None" \notin Action DEF Action, ChangesKdbg, ProbeAction
<1>2. service' \in [Service -> Good]
  BY Zenon DEF LifecycleTypeOK
<1> QED BY Zenon, <1>1, <1>2 DEF TaskInv, LifecycleTypeOK, Stages, Established, OnlineIsNew,
                          RollbackTruthful, LabPc, RestorePc

\* A driver that unloads was asked to stop, which no established fact allows.
LEMMA UnloadStep ==
    ASSUME TaskInv, NEW s \in Service, Unload(s)
    PROVE  TaskInv'
<1>0. /\ service \in [Service -> Good] /\ task \in Task /\ task' = task
      /\ service[s].state = "stopping"
      /\ service' = [service EXCEPT ![s] = Unloaded(@)]
      /\ \A x \in Service : task.before[x].state \in {"stopped", "running"}
  BY Zenon DEF TaskInv, LifecycleTypeOK, Unload, Task, Found
<1>1. service' \in [Service -> Good] /\ service'[s].state = "stopped"
  BY Zenon, <1>0, UnloadedGood
<1>2. \A x \in Service : x # s => service'[x] = service[x]
  BY Zenon, <1>0
<1>3. Stages'
  BY Zenon, <1>0 DEF TaskInv, Stages
<1>4. "KDBG" \in Service /\ "KDBGProbe" \in Service
  BY Zenon DEF Service
<1>5. \A x \in Service : AsFound(x) => AsFound(x)'
  BY Zenon, <1>0, <1>2 DEF AsFound
<1>6. \A x \in Service : NotLoaded(x) => NotLoaded(x)'
  BY Zenon, <1>0, <1>2 DEF NotLoaded
<1>7. \A x \in Service, c \in {Stopped("new"), Running("new")} :
          service[x] = c => service'[x] = c
  BY Zenon, <1>0, <1>2, Configs
<1>8. \A x \in Service : Restored(service[x], task.before[x]) => service'[x] = service[x]
  BY Zenon, <1>0, <1>2 DEF Restored
<1>9. Established'
  BY Zenon, <1>0, <1>4, <1>5, <1>6, <1>7, <1>8 DEF TaskInv, Established
<1>10. OnlineIsNew'
  BY Zenon, <1>0, <1>7 DEF TaskInv, OnlineIsNew
<1>11. RollbackTruthful'
  BY Zenon, <1>0, <1>8 DEF TaskInv, RollbackTruthful, Restored
<1> QED BY Zenon, <1>0, <1>1, <1>3, <1>9, <1>10, <1>11 DEF TaskInv, LifecycleTypeOK

\* Bring Online turns back: nothing is promised yet.
LEMMA RollBackStep ==
    ASSUME LifecycleTypeOK, task.action = "BringLabOnline", task.rollback = "none",
           NEW res \in {"failure", "cancelled"}, RollBack(res),
           service' \in [Service -> Good]
    PROVE  TaskInv'
<1>1. /\ task' \in Task /\ task'.pc = "restore_probe" /\ task'.result = res
      /\ task'.action = "BringLabOnline" /\ task'.rollback = "none"
  BY Zenon DEF RollBack, LifecycleTypeOK, Task, RestorePc
<1> QED BY Zenon, <1>1 DEF TaskInv, LifecycleTypeOK, Stages, Established, OnlineIsNew,
                    RollbackTruthful, LabPc, RestorePc

\* A task that ends without a rollback reports nothing about the services but a
\* successful Bring Online, which needs both to run the new images.
LEMMA FinishStep ==
    ASSUME LifecycleTypeOK, task.rollback = "none",
           NEW res \in {"success", "failure", "cancelled"}, Finish(res),
           service' \in [Service -> Good],
           task.action = "BringLabOnline" /\ res = "success" =>
               \A s \in Service : service'[s] = Running("new")
    PROVE  TaskInv'
<1>1. /\ task' \in Task /\ task'.pc = "done" /\ task'.result = res
      /\ task'.action = task.action /\ task'.rollback = "none"
  BY Zenon DEF Finish, LifecycleTypeOK, Task
<1> QED BY Zenon, <1>1 DEF TaskInv, LifecycleTypeOK, Stages, Established, OnlineIsNew,
                    RollbackTruthful, LabPc, RestorePc

\* Going on to the next stage of the task changes its place and nothing else.
LEMMA GotoFields ==
    ASSUME LifecycleTypeOK, NEW pc \in {"call"} \cup LabPc, GotoStage(pc)
    PROVE  /\ task' \in Task /\ task'.pc = pc /\ task'.action = task.action
           /\ task'.result = task.result /\ task'.rollback = task.rollback
           /\ task'.before = task.before
BY Zenon DEF GotoStage, LifecycleTypeOK, Task

\* A task that was cancelled before it began ends; any other goes to its call,
\* or to the query of Bring Online.
LEMMA BeginStep ==
    ASSUME TaskInv, BeginTask
    PROVE  TaskInv'
<1>0. LifecycleTypeOK /\ task.pc = "begin" /\ task.rollback = "none"
      /\ service' = service /\ service' \in [Service -> Good]
  BY Zenon DEF TaskInv, LifecycleTypeOK, Stages, BeginTask
<1>1. CASE cancel
  BY Zenon, <1>0, <1>1, FinishStep DEF BeginTask
<1>2. CASE ~cancel
  <2> DEFINE pc == IF task.action = "BringLabOnline" THEN "query" ELSE "call"
  <2>1. GotoStage(pc) /\ pc \in {"call"} \cup LabPc
    BY Zenon, <1>2 DEF BeginTask, LabPc
  <2>2. /\ task' \in Task /\ task'.pc = pc /\ task'.action = task.action
        /\ task'.rollback = task.rollback
    BY Zenon, <1>0, <2>1, GotoFields
  <2> QED BY Zenon, <1>0, <2>2 DEF TaskInv, LifecycleTypeOK, Stages, Established, OnlineIsNew,
                            RollbackTruthful, LabPc, RestorePc
<1> QED BY Zenon, <1>1, <1>2

\* A single call changes one service, to a configuration it can have.
LEMMA CallStep ==
    ASSUME TaskInv, SimpleCall
    PROVE  TaskInv'
<1> DEFINE s == Called(task.action)
           c == service[s]
           R == CASE task.action \in {"InstallDriver", "InstallProbe"} -> InstallOrUpdate(s, c)
                  [] task.action \in {"StartDriver", "StartProbe"} -> Start(s, c)
                  [] task.action \in {"StopDriver", "StopProbe"} -> Stop(s, c)
                  [] task.action \in {"RemoveDriver", "RemoveProbe"} -> Remove(s, c)
<1>0. /\ LifecycleTypeOK /\ task.pc = "call" /\ task.rollback = "none"
      /\ task.action # "BringLabOnline" /\ service \in [Service -> Good]
  BY Zenon DEF TaskInv, LifecycleTypeOK, Stages, SimpleCall
<1>1. PICK r \in R : /\ service' = [service EXCEPT ![s] = r.c]
                     /\ Finish(IF r.ok THEN "success" ELSE "failure")
  BY Zenon DEF SimpleCall
<1>2. s \in Service /\ c \in Good
  BY Zenon, <1>0 DEF Called, Service
<1> HIDE DEF s, c
<1>3. task.action \in Action \cup {"None"}
  BY Zenon, <1>0 DEF LifecycleTypeOK, Task
<1>4. r.c \in Good
  <2> DEFINE a == task.action
  <2>1. CASE a \in {"InstallDriver", "InstallProbe"}
    <3>1. R = InstallOrUpdate(s, c)
      BY Zenon, <2>1
    <3> QED BY Zenon, <1>1, <1>2, <3>1, InstallEffect
  <2>2. CASE a \in {"StartDriver", "StartProbe"}
    <3>1. R = Start(s, c)
      BY Zenon, <2>2
    <3> QED BY Zenon, <1>1, <1>2, <3>1, StartEffect
  <2>3. CASE a \in {"StopDriver", "StopProbe"}
    <3>1. R = Stop(s, c)
      BY Zenon, <2>3
    <3> QED BY Zenon, <1>1, <1>2, <3>1, StopEffect
  <2>4. CASE a \in {"RemoveDriver", "RemoveProbe"}
    <3>1. R = Remove(s, c)
      BY Zenon, <2>4
    <3> QED BY Zenon, <1>1, <1>2, <3>1, RemoveEffect
  <2>5. a # "None"
    BY Zenon, <1>0 DEF TaskInv, Stages
  <2> QED BY Zenon, <1>0, <1>3, <2>1, <2>2, <2>3, <2>4, <2>5 DEF Action, ChangesKdbg, ProbeAction
<1>5. service' \in [Service -> Good]
  BY Zenon, <1>0, <1>1, <1>2, <1>4
<1> QED BY Zenon, <1>0, <1>1, <1>5, FinishStep

\* The query of Bring Online only records.
LEMMA QueryStep ==
    ASSUME TaskInv, Query
    PROVE  TaskInv'
<1>0. /\ LifecycleTypeOK /\ task.pc = "query" /\ task.rollback = "none"
      /\ task.action = "BringLabOnline" /\ service \in [Service -> Good]
      /\ service' = service /\ task \in Task
  BY Zenon DEF TaskInv, LifecycleTypeOK, Stages, Query, LabPc
<1>1. CASE Finish("failure")
  BY Zenon, <1>0, <1>1, FinishStep
<1>2. CASE ~Finish("failure")
  <2> DEFINE b == [s \in Service |->
                     IF service[s].state = "deleting" THEN Absent ELSE service[s]]
  <2>1. /\ \A s \in Service : service[s].state # "stopping"
        /\ task' = [task EXCEPT
                 !.before = b,
                 !.pc = IF cancel THEN "restore_probe" ELSE "stop_probe",
                 !.result = IF cancel THEN "cancelled" ELSE @]
    BY Zenon, <1>2 DEF Query
  <2>2. b \in [Service -> Found]
    <3>1. ASSUME NEW s \in Service PROVE b[s] \in Found
      <4>1. service[s] \in Good /\ service[s].state # "stopping"
        BY Zenon, <1>0, <2>1
      <4>2. service[s].state \in {"stopped", "running", "stopping", "deleting"}
        BY Zenon, <4>1 DEF Good, Config
      <4> QED BY Zenon, <4>1, <4>2, Configs DEF Found
    <3> QED BY Zenon, <3>1
  <2>3. \A s \in Service : b[s] = service[s]
            \/ (service[s].state = "deleting" /\ b[s].state = "stopped")
    BY Zenon, Configs
  <2> HIDE DEF b
  <2>4. /\ task' \in Task /\ task'.before = b /\ task'.rollback = "none"
        /\ task'.action = "BringLabOnline"
        /\ task'.pc = IF cancel THEN "restore_probe" ELSE "stop_probe"
        /\ cancel => task'.result = "cancelled"
    BY Zenon, <1>0, <2>1, <2>2 DEF Task, LabPc, RestorePc
  <2>5. task'.pc = "stop_probe" => AsFound("KDBG")' /\ AsFound("KDBGProbe")'
    BY Zenon, <1>0, <2>3, <2>4 DEF AsFound, Service
  <2> QED BY Zenon, <1>0, <2>4, <2>5
          DEF TaskInv, LifecycleTypeOK, Stages, Established, OnlineIsNew,
              RollbackTruthful, LabPc, RestorePc
<1> QED BY Zenon, <1>1, <1>2

\* A stage of Bring Online: when its call succeeds with what the next stage
\* needs, the next stage may begin.
LEMMA LabStep ==
    ASSUME TaskInv, task.pc \in LabPc, service' \in [Service -> Good],
           NEW next \in LabPc \ {"query"},
           \/ RollBack("failure") \/ RollBack("cancelled")
           \/ /\ GotoStage(next)
              /\ task'.pc = next /\ task'.before = task.before => Established'
    PROVE  TaskInv'
<1>0. /\ LifecycleTypeOK /\ task.rollback = "none"
      /\ task.action = "BringLabOnline"
  BY Zenon DEF TaskInv, LifecycleTypeOK, Stages, LabPc
<1>3. CASE RollBack("failure") \/ RollBack("cancelled")
  BY Zenon, <1>0, <1>3, RollBackStep
<1>4. CASE GotoStage(next) /\ (task'.pc = next /\ task'.before = task.before => Established')
  <2>1. /\ task' \in Task /\ task'.pc = next /\ task'.action = task.action
        /\ task'.rollback = task.rollback /\ task'.before = task.before
    BY Zenon, <1>0, <1>4, GotoFields
  <2>2. Established'
    BY Zenon, <1>4, <2>1
  <2> QED BY Zenon, <1>0, <2>1, <2>2
          DEF TaskInv, LifecycleTypeOK, Stages, OnlineIsNew, RollbackTruthful,
              LabPc, RestorePc
<1> QED BY Zenon, <1>3, <1>4

\* Each call of Bring Online establishes what the next one relies on: nothing is
\* loaded before the paths change, both paths are new before a driver starts.
LEMMA BringStep ==
    ASSUME TaskInv, Bring
    PROVE  TaskInv'
<1> DEFINE d == service["KDBG"]
           p == service["KDBGProbe"]
<1>0. /\ service \in [Service -> Good] /\ "KDBG" \in Service /\ "KDBGProbe" \in Service
      /\ d \in Good /\ p \in Good /\ Established
  BY Zenon DEF TaskInv, LifecycleTypeOK, Service
<1>1. \A s \in Service, c \in Good : \A r \in StopIfRunning(s, c) :
          /\ r.c \in Good
          /\ r.ok /\ task.before[s].state = "running" => r.c.state = "stopped"
          /\ task.before[s].state # "running" => r.c = c
  <2> SUFFICES ASSUME NEW s \in Service, NEW c \in Good, NEW r \in StopIfRunning(s, c)
               PROVE  /\ r.c \in Good
                      /\ r.ok /\ task.before[s].state = "running" => r.c.state = "stopped"
                      /\ task.before[s].state # "running" => r.c = c
    BY Zenon
  <2>1. CASE task.before[s].state = "running"
    BY Zenon, <2>1, StopEffect DEF StopIfRunning
  <2>2. CASE task.before[s].state # "running"
    <3>1. Did(r, c)
      BY Zenon, <2>2, Outcomes DEF StopIfRunning
    <3> QED BY Zenon, <2>2, <3>1 DEF Did
  <2> QED BY Zenon, <2>1, <2>2
<1>2. \A s \in Service : \A r \in StopIfRunning(s, service[s]) :
          AsFound(s) /\ r.ok => r.c.state \in {"stopped", "deleting"}
  <2> SUFFICES ASSUME NEW s \in Service, NEW r \in StopIfRunning(s, service[s]),
                      AsFound(s), r.ok
               PROVE  r.c.state \in {"stopped", "deleting"}
    BY Zenon
  <2>1. service[s] \in Good /\ task.before[s].state \in {"stopped", "running"}
    BY Zenon DEF TaskInv, LifecycleTypeOK, Task, Found
  <2>2. CASE task.before[s].state = "running"
    BY <1>1, <2>1, <2>2
  <2>3. CASE task.before[s].state = "stopped"
    <3>1. r.c = service[s]
      BY Zenon, <1>1, <2>1, <2>3
    <3> QED BY Zenon, <2>3, <3>1 DEF AsFound
  <2> QED BY Zenon, <2>1, <2>2, <2>3
<1>3. CASE LabStage("stop_probe", "KDBGProbe", StopIfRunning("KDBGProbe", p), "stop_driver", FALSE)
  <2>1. task.pc = "stop_probe" /\ AsFound("KDBG") /\ AsFound("KDBGProbe")
    BY Zenon, <1>0, <1>3 DEF LabStage, Established
  <2>2. PICK r \in StopIfRunning("KDBGProbe", p) :
          /\ service' = [service EXCEPT !["KDBGProbe"] = r.c]
          /\ RollBack("failure") \/ RollBack("cancelled") \/ (r.ok /\ GotoStage("stop_driver"))
    BY Zenon, <1>3 DEF LabStage
  <2>3. r.c \in Good /\ (r.ok => r.c.state \in {"stopped", "deleting"})
    BY Zenon, <1>0, <2>1, <2>2, <1>1, <1>2
  <2>4. r.ok /\ task'.pc = "stop_driver" /\ task'.before = task.before => Established'
    BY Zenon, <1>0, <2>1, <2>2, <2>3 DEF Established, AsFound, NotLoaded
  <2>5. service' \in [Service -> Good] /\ task.pc \in LabPc
    BY Zenon, <1>0, <2>1, <2>2, <2>3 DEF LabPc
  <2> QED BY <2>2, <2>4, <2>5, LabStep DEF LabPc
<1>4. CASE LabStage("stop_driver", "KDBG", StopIfRunning("KDBG", d), "install_driver", TRUE)
  <2>1. task.pc = "stop_driver" /\ AsFound("KDBG") /\ NotLoaded("KDBGProbe")
    BY Zenon, <1>0, <1>4 DEF LabStage, Established
  <2>2. PICK r \in StopIfRunning("KDBG", d) :
          /\ service' = [service EXCEPT !["KDBG"] = r.c]
          /\ RollBack("failure") \/ RollBack("cancelled") \/ (r.ok /\ GotoStage("install_driver"))
    BY Zenon, <1>4 DEF LabStage
  <2>3. r.c \in Good /\ (r.ok => r.c.state \in {"stopped", "deleting"})
    BY Zenon, <1>0, <2>1, <2>2, <1>1, <1>2
  <2>4. r.ok /\ task'.pc = "install_driver" /\ task'.before = task.before => Established'
    BY Zenon, <1>0, <2>1, <2>2, <2>3 DEF Established, NotLoaded
  <2>5. service' \in [Service -> Good] /\ task.pc \in LabPc
    BY Zenon, <1>0, <2>1, <2>2, <2>3 DEF LabPc
  <2> QED BY <2>2, <2>4, <2>5, LabStep DEF LabPc
<1>5. CASE LabStage("install_driver", "KDBG", InstallOrUpdate("KDBG", d), "install_probe", FALSE)
  <2>1. task.pc = "install_driver" /\ NotLoaded("KDBG") /\ NotLoaded("KDBGProbe")
    BY Zenon, <1>0, <1>5 DEF LabStage, Established
  <2>2. PICK r \in InstallOrUpdate("KDBG", d) :
          /\ service' = [service EXCEPT !["KDBG"] = r.c]
          /\ RollBack("failure") \/ RollBack("cancelled") \/ (r.ok /\ GotoStage("install_probe"))
    BY Zenon, <1>5 DEF LabStage
  <2>3. r.c \in Good /\ (r.ok => r.c = Stopped("new"))
    BY Zenon, <1>0, <2>1, <2>2, InstallEffect DEF NotLoaded
  <2>4. r.ok /\ task'.pc = "install_probe" /\ task'.before = task.before => Established'
    BY Zenon, <1>0, <2>1, <2>2, <2>3 DEF Established, NotLoaded
  <2>5. service' \in [Service -> Good] /\ task.pc \in LabPc
    BY Zenon, <1>0, <2>1, <2>2, <2>3 DEF LabPc
  <2> QED BY <2>2, <2>4, <2>5, LabStep DEF LabPc
<1>6. CASE LabStage("install_probe", "KDBGProbe", InstallOrUpdate("KDBGProbe", p), "start_driver", TRUE)
  <2>1. task.pc = "install_probe" /\ d = Stopped("new") /\ NotLoaded("KDBGProbe")
    BY Zenon, <1>0, <1>6 DEF LabStage, Established
  <2>2. PICK r \in InstallOrUpdate("KDBGProbe", p) :
          /\ service' = [service EXCEPT !["KDBGProbe"] = r.c]
          /\ RollBack("failure") \/ RollBack("cancelled") \/ (r.ok /\ GotoStage("start_driver"))
    BY Zenon, <1>6 DEF LabStage
  <2>3. r.c \in Good /\ (r.ok => r.c = Stopped("new"))
    BY Zenon, <1>0, <2>1, <2>2, InstallEffect DEF NotLoaded
  <2>4. r.ok /\ task'.pc = "start_driver" /\ task'.before = task.before => Established'
    BY Zenon, <1>0, <2>1, <2>2, <2>3 DEF Established
  <2>5. service' \in [Service -> Good] /\ task.pc \in LabPc
    BY Zenon, <1>0, <2>1, <2>2, <2>3 DEF LabPc
  <2> QED BY <2>2, <2>4, <2>5, LabStep DEF LabPc
<1>7. CASE LabStage("start_driver", "KDBG", Start("KDBG", d), "start_probe", FALSE)
  <2>1. task.pc = "start_driver" /\ d = Stopped("new") /\ p = Stopped("new")
    BY Zenon, <1>0, <1>7 DEF LabStage, Established
  <2>2. PICK r \in Start("KDBG", d) :
          /\ service' = [service EXCEPT !["KDBG"] = r.c]
          /\ RollBack("failure") \/ RollBack("cancelled") \/ (r.ok /\ GotoStage("start_probe"))
    BY Zenon, <1>7 DEF LabStage
  <2>3. r.c \in Good /\ (r.ok => r.c = Running("new"))
    BY Zenon, <1>0, <2>1, <2>2, StartEffect, Configs
  <2>4. r.ok /\ task'.pc = "start_probe" /\ task'.before = task.before => Established'
    BY Zenon, <1>0, <2>1, <2>2, <2>3 DEF Established
  <2>5. service' \in [Service -> Good] /\ task.pc \in LabPc
    BY Zenon, <1>0, <2>1, <2>2, <2>3 DEF LabPc
  <2> QED BY <2>2, <2>4, <2>5, LabStep DEF LabPc
<1>8. CASE LabStage("start_probe", "KDBGProbe", Start("KDBGProbe", p), "open_backend", TRUE)
  <2>1. task.pc = "start_probe" /\ d = Running("new") /\ p = Stopped("new")
    BY Zenon, <1>0, <1>8 DEF LabStage, Established
  <2>2. PICK r \in Start("KDBGProbe", p) :
          /\ service' = [service EXCEPT !["KDBGProbe"] = r.c]
          /\ RollBack("failure") \/ RollBack("cancelled") \/ (r.ok /\ GotoStage("open_backend"))
    BY Zenon, <1>8 DEF LabStage
  <2>3. r.c \in Good /\ (r.ok => r.c = Running("new"))
    BY <1>0, <2>1, <2>2, StartEffect, Configs
  <2>4. r.ok /\ task'.pc = "open_backend" /\ task'.before = task.before => Established'
    BY Zenon, <1>0, <2>1, <2>2, <2>3 DEF Established
  <2>5. service' \in [Service -> Good] /\ task.pc \in LabPc
    BY Zenon, <1>0, <2>1, <2>2, <2>3 DEF LabPc
  <2> QED BY <2>2, <2>4, <2>5, LabStep DEF LabPc
<1> QED BY Zenon, <1>3, <1>4, <1>5, <1>6, <1>7, <1>8 DEF Bring

\* Opening the two devices and verifying them touches no service.
LEMMA VerifyStep ==
    ASSUME TaskInv, OpenBackend \/ OpenProbe \/ Verify
    PROVE  TaskInv'
<1>0. /\ LifecycleTypeOK /\ task.pc \in {"open_backend", "open_probe", "verify"}
      /\ task.rollback = "none" /\ task.action = "BringLabOnline"
      /\ service' = service /\ service' \in [Service -> Good] /\ task \in Task
      /\ service["KDBG"] = Running("new") /\ service["KDBGProbe"] = Running("new")
  BY Zenon DEF TaskInv, LifecycleTypeOK, Stages, Established, OpenBackend, OpenProbe, Verify, LabPc
<1>1. CASE RollBack("failure") \/ RollBack("cancelled")
  BY Zenon, <1>0, <1>1, RollBackStep
<1>2. CASE Finish("success")
  <2>1. \A s \in Service : service'[s] = Running("new")
    BY Zenon, <1>0 DEF Service
  <2> QED BY Zenon, <1>0, <1>2, <2>1, FinishStep
<1>3. CASE \/ task' = [task EXCEPT !.pc = "open_probe", !.backend = TRUE]
           \/ task' = [task EXCEPT !.pc = "verify", !.probe = TRUE]
  <2>1. /\ task' \in Task /\ task'.pc \in {"open_probe", "verify"}
        /\ task'.action = "BringLabOnline" /\ task'.rollback = "none"
    BY Zenon, <1>0, <1>3 DEF Task, LabPc
  <2> QED BY Zenon, <1>0, <2>1 DEF TaskInv, LifecycleTypeOK, Stages, Established, OnlineIsNew,
                            RollbackTruthful, LabPc, RestorePc
<1> QED BY Zenon, <1>1, <1>2, <1>3 DEF OpenBackend, OpenProbe, Verify

\* The rollback reports a restored configuration only when both restores did.
LEMMA RestoreStep ==
    ASSUME TaskInv, RestoreProbe \/ RestoreDriver
    PROVE  TaskInv'
<1>0. /\ LifecycleTypeOK /\ task.pc \in RestorePc /\ task.result # "success"
      /\ task.action = "BringLabOnline" /\ task \in Task
      /\ service \in [Service -> Good] /\ "KDBG" \in Service /\ "KDBGProbe" \in Service
      /\ \A s \in Service : task.before[s] \in Found
  BY Zenon DEF TaskInv, LifecycleTypeOK, Stages, RestoreProbe, RestoreDriver, RestorePc, Task, Service
<1>1. CASE RestoreProbe
  <2>1. PICK r \in RestoreConfiguration("KDBGProbe", service["KDBGProbe"], task.before["KDBGProbe"]) :
           /\ service' = [service EXCEPT !["KDBGProbe"] = r.c]
           /\ task' = [task EXCEPT !.pc = "restore_driver",
                                   !.rollback = IF r.ok THEN "restored" ELSE "errors"]
    BY Zenon, <1>1 DEF RestoreProbe
  <2>2. r.c \in Good /\ (r.ok => Restored(r.c, task.before["KDBGProbe"]))
    BY Zenon, <1>0, <2>1, RestoreEffect
  <2>3. service' \in [Service -> Good] /\ service'["KDBGProbe"] = r.c
    BY Zenon, <1>0, <2>1, <2>2
  <2>4. /\ task' \in Task /\ task'.pc = "restore_driver" /\ task'.before = task.before
        /\ task'.action = "BringLabOnline" /\ task'.result = task.result
        /\ task'.rollback = "restored" => r.ok
    BY Zenon, <1>0, <2>1 DEF Task, RestorePc
  <2> QED BY Zenon, <1>0, <2>2, <2>3, <2>4
          DEF TaskInv, LifecycleTypeOK, Stages, Established, OnlineIsNew,
              RollbackTruthful, LabPc, RestorePc
<1>2. CASE RestoreDriver
  <2>1. PICK r \in RestoreConfiguration("KDBG", service["KDBG"], task.before["KDBG"]) :
           /\ service' = [service EXCEPT !["KDBG"] = r.c]
           /\ task' = [task EXCEPT !.pc = "done", !.rollback = IF r.ok THEN @ ELSE "errors",
                                   !.backend = FALSE, !.probe = FALSE]
    BY Zenon, <1>2 DEF RestoreDriver
  <2>2. r.c \in Good /\ (r.ok => Restored(r.c, task.before["KDBG"]))
    BY Zenon, <1>0, <2>1, RestoreEffect
  <2>3. /\ service' \in [Service -> Good] /\ service'["KDBG"] = r.c
        /\ service'["KDBGProbe"] = service["KDBGProbe"]
    BY Zenon, <1>0, <2>1, <2>2
  <2>4. /\ task' \in Task /\ task'.pc = "done" /\ task'.before = task.before
        /\ task'.action = "BringLabOnline" /\ task'.result = task.result
        /\ task'.rollback = "restored" => r.ok /\ task.rollback = "restored"
    BY Zenon, <1>0, <2>1 DEF Task
  <2>5. task'.rollback = "restored" => \A s \in Service : Restored(service'[s], task.before[s])
    <3>1. task.pc = "restore_driver"
      BY Zenon, <1>2 DEF RestoreDriver
    <3> QED BY Zenon, <2>2, <2>3, <2>4, <3>1 DEF TaskInv, Established, Service
  <2>6. RollbackTruthful'
    BY Zenon, <2>4, <2>5 DEF RollbackTruthful, Restored
  <2> QED BY Zenon, <1>0, <2>3, <2>4, <2>6
          DEF TaskInv, LifecycleTypeOK, Stages, Established, OnlineIsNew,
              LabPc, RestorePc
<1> QED BY Zenon, <1>1, <1>2

\* No step of the task, the services or the window breaks TaskInv.
LEMMA TaskStays ==
    ASSUME TaskInv, [LifecycleNext]_lifecycleVars
    PROVE  TaskInv'
<1>0. LifecycleTypeOK
  BY Zenon DEF TaskInv
<1>1. CASE TaskStep
  BY Zenon, <1>1, BeginStep, CallStep, QueryStep, BringStep, VerifyStep, RestoreStep DEF TaskStep
<1>2. ASSUME NEW s \in Service, Unload(s) PROVE TaskInv'
  BY Zenon, <1>2, UnloadStep
<1>3. CASE PollLifecycleAction
  BY Zenon, <1>0, <1>3, FreshTask DEF PollLifecycleAction
<1>4. CASE PollLaunch
  <2>1. deferred \in Action /\ task' = Launched(deferred) /\ service' = service
    BY Zenon, <1>4 DEF PollLaunch, Action
  <2> QED BY Zenon, <1>0, <2>1, FreshTask
<1>5. CASE service' = service /\ task' = task
  BY <1>5 DEF TaskInv, LifecycleTypeOK, Stages, Established, AsFound, NotLoaded,
              OnlineIsNew, RollbackTruthful
<1>6. ASSUME NEW a \in Action, StartLifecycleAction(a) PROVE TaskInv'
  <2>1. service' = service /\ (task' = task \/ task' = Launched(a))
    BY Zenon, <1>6 DEF StartLifecycleAction
  <2> QED BY Zenon, <1>0, <1>5, <2>1, FreshTask
<1>7. CASE \/ StartUp \/ UseBackend \/ ConnectBackend \/ RequestLifecycleCancel
           \/ LockFails \/ PollConnect \/ QueryProbe \/ UNCHANGED lifecycleVars
  BY Zenon, <1>5, <1>7 DEF StartUp, UseBackend, ConnectBackend, RequestLifecycleCancel, LockFails,
                    PollConnect, QueryProbe, lifecycleVars, lifecyclePage
<1> QED BY Zenon, <1>1, <1>2, <1>3, <1>4, <1>6, <1>7 DEF LifecycleNext
-----------------------------------------------------------------------------
(* The gate. *)

\* GateClosedInLifecycle, with what it needs of the handle.
GateInv ==
    /\ connected \in BOOLEAN /\ driver_gate \in BOOLEAN
    /\ driver_gate => connected
    /\ GateClosedInLifecycle

\* ForceWriteGateClosed never opens the driver's gate, whatever is lost.
LEMMA ForceKeepsClosed ==
    ASSUME NEW g \in BOOLEAN, NEW ok \in BOOLEAN, NEW h \in BOOLEAN,
           ForceWriteGateClosed(g, ok, h)
    PROVE  h => g
BY Zenon DEF ForceWriteGateClosed, BackendSetWriteMode

\* SetWriteEnabled(false) neither opens the gate nor changes the connection.
LEMMA DisableKeepsClosed ==
    ASSUME driver_gate \in BOOLEAN, NEW op, Disable(op)
    PROVE  /\ driver_gate' \in BOOLEAN /\ connected' = connected
           /\ driver_gate' => driver_gate
BY Zenon, ForceKeepsClosed DEF Disable

\* A write, whether or not it reaches the driver, never opens the gate.
LEMMA SendKeepsClosed ==
    ASSUME driver_gate \in BOOLEAN, NEW id, Send(id)
    PROVE  driver_gate' \in BOOLEAN /\ (driver_gate' => driver_gate)
<1>1. PICK answered \in BOOLEAN, accepted \in BOOLEAN, h \in BOOLEAN :
          /\ WriteRequest(driver_gate, answered, h)
          /\ IF answered /\ accepted THEN driver_gate' = h
             ELSE \E k, closed \in BOOLEAN :
                        ForceWriteGateClosed(h, closed, k) /\ driver_gate' = k
  BY DEF Send
<1>2. h => driver_gate
  BY Zenon, <1>1 DEF WriteRequest
<1>3. driver_gate' \in BOOLEAN /\ (driver_gate' => h)
  BY Zenon, <1>1, ForceKeepsClosed
<1> QED BY Zenon, <1>2, <1>3

\* Only an enable opens the gate, and only of an open handle.
LEMMA EnableNeedsHandle ==
    ASSUME connected \in BOOLEAN, driver_gate \in BOOLEAN, driver_gate => connected, Enable
    PROVE  driver_gate' \in BOOLEAN /\ connected' = connected /\ (driver_gate' => connected)
<1>1. connected' = connected
  BY Zenon DEF Enable
<1>2. CASE BackendSetWriteMode(TRUE, driver_gate, TRUE, TRUE) /\ driver_gate' = TRUE
  BY Zenon, <1>1, <1>2 DEF BackendSetWriteMode
<1>3. ASSUME NEW h \in BOOLEAN, NEW k \in BOOLEAN, NEW ok \in BOOLEAN,
             BackendSetWriteMode(TRUE, driver_gate, FALSE, h),
             ForceWriteGateClosed(h, ok, k), driver_gate' = k
      PROVE  driver_gate' \in BOOLEAN /\ (driver_gate' => connected)
  <2>1. k => h
    BY Zenon, <1>3, ForceKeepsClosed
  <2>2. h => connected
    BY Zenon, <1>3 DEF BackendSetWriteMode
  <2> QED BY Zenon, <1>3, <2>1, <2>2
<1> QED BY Zenon, <1>1, <1>2, <1>3 DEF Enable

\* No step of the lifecycle task changes which action it performs.
LEMMA TaskSteps ==
    ASSUME LifecycleTypeOK, TaskStep
    PROVE  task'.action = task.action
<1>0. task \in Task
  BY Zenon DEF LifecycleTypeOK
<1>1. \A r : Finish(r) \/ RollBack(r) => task'.action = task.action
  BY Zenon, <1>0 DEF Task, Finish, RollBack
<1>2. \A pc : GotoStage(pc) => task'.action = task.action
  BY Zenon, <1>0 DEF Task, GotoStage
<1>3. CASE BeginTask \/ SimpleCall \/ Query
  BY Zenon, <1>0, <1>1, <1>2, <1>3 DEF BeginTask, SimpleCall, Query, Task
<1>4. CASE Bring
  BY Zenon, <1>1, <1>2, <1>4 DEF Bring, LabStage
<1>5. CASE OpenBackend \/ OpenProbe \/ Verify
  BY Zenon, <1>0, <1>1, <1>5 DEF OpenBackend, OpenProbe, Verify, Task
<1>6. CASE RestoreProbe \/ RestoreDriver
  BY Zenon, <1>0, <1>6 DEF RestoreProbe, RestoreDriver, Task
<1> QED BY Zenon, <1>3, <1>4, <1>5, <1>6 DEF TaskStep

\* No step opens the gate while the KDBG service changes, because no enable is
\* offered then and the launch locked or closed the handle.
LEMMA GateStays ==
    ASSUME LifecycleTypeOK, GateInv, [LifecycleNext]_lifecycleVars
    PROVE  GateInv'
<1>0. /\ connected \in BOOLEAN /\ driver_gate \in BOOLEAN
      /\ driver_gate => connected
      /\ task.action \in ChangesKdbg => ~driver_gate
  BY Zenon DEF GateInv, GateClosedInLifecycle
<1> USE DEF GateInv, GateClosedInLifecycle
<1>1. NoTask.action \notin ChangesKdbg
  BY Zenon DEF NoTask, ChangesKdbg
<1>2. \A a \in Action : Launched(a).action = a
  BY Zenon DEF Launched, NoTask
<1>3. CASE StartUp
  <2>1. task' = task /\ task.action = "None"
    BY Zenon, <1>3 DEF StartUp, lifecyclePage
  <2>2. connected' \in BOOLEAN /\ driver_gate' \in BOOLEAN /\ (driver_gate' => connected')
    BY Zenon, <1>0, <1>3 DEF StartUp, Open
  <2> QED BY Zenon, <2>1, <2>2 DEF ChangesKdbg
<1>4. CASE UseBackend
  <2>1. task' = task
    BY Zenon, <1>4 DEF UseBackend, lifecyclePage
  <2>2. CASE QuerySessionStatus \/ Refuse
    <3>1. UNCHANGED <<connected, driver_gate>>
      BY Zenon, <2>2 DEF QuerySessionStatus, Refuse, backendVars
    <3> QED BY Zenon, <1>0, <2>1, <3>1
  <2>3. CASE Disable("Disable") \/ RejectInvalid
    BY Zenon, <1>0, <2>1, <2>3, DisableKeepsClosed DEF RejectInvalid
  <2>4. CASE ~LifecycleBusy /\ Enable
    BY Zenon, <1>0, <2>1, <2>4, EnableNeedsHandle DEF LifecycleBusy, ChangesKdbg
  <2>5. CASE WritePhysical \/ CompareWritePhysicalPage
    BY Zenon, <1>0, <2>1, <2>5, SendKeepsClosed DEF WritePhysical, CompareWritePhysicalPage
  <2> QED BY Zenon, <1>4, <2>2, <2>3, <2>4, <2>5 DEF UseBackend
<1>5. ASSUME NEW a \in Action, StartLifecycleAction(a)
      PROVE  GateInv'
  <2>1. UNCHANGED <<connected, driver_gate>>
    BY Zenon, <1>5 DEF StartLifecycleAction, backend, backendVars
  <2>2. task' = task \/ (task' = Launched(a) /\ a \notin ChangesKdbg)
    BY Zenon, <1>5 DEF StartLifecycleAction
  <2> QED BY Zenon, <1>0, <1>2, <2>1, <2>2
<1>6. CASE ConnectBackend \/ RequestLifecycleCancel \/ QueryProbe
  BY <1>0, <1>6 DEF ConnectBackend, RequestLifecycleCancel, QueryProbe, backend, backendVars
<1>7. CASE LockFails
  BY Zenon, <1>0, <1>7, DisableKeepsClosed DEF LockFails
<1>8. CASE PollConnect
  BY Zenon, <1>0, <1>8 DEF PollConnect, FinishConnectBackend
<1>9. CASE PollLaunch
  <2>1. CASE deferred = "StartDriver" /\ connected
    <3>1. Disable("Disable") /\ last'.result = "Success"
      BY Zenon, <1>9, <2>1 DEF PollLaunch, LockAllWrites, MayGoOn
    <3>2. PICK h \in BOOLEAN, ok \in BOOLEAN :
            /\ ForceWriteGateClosed(driver_gate, ok, h)
            /\ driver_gate' = h
            /\ last' = [op |-> "Disable", result |-> Outcome(ok), id |-> last.id]
      BY Zenon, <3>1 DEF Disable, Return
    <3>3. ok
      BY Zenon, <3>1, <3>2 DEF Outcome
    <3>4. ~h
      BY Zenon, <1>0, <3>2, <3>3, ForceCloses
    <3> QED BY Zenon, <1>0, <3>1, <3>2, <3>4, DisableKeepsClosed
  <2>2. CASE deferred = "StartDriver" /\ ~connected
    BY Zenon, <1>0, <1>9, <2>2 DEF PollLaunch, LockAllWrites, backend, backendVars
  <2>3. CASE deferred # "StartDriver"
    BY Zenon, <1>9, <2>3 DEF PollLaunch, CloseBackend
  <2> QED BY Zenon, <1>0, <2>1, <2>2, <2>3
<1>10. CASE PollLifecycleAction
  <2>1. task' = NoTask /\ (FinishConnectBackend \/ UNCHANGED backend)
    BY Zenon, <1>10 DEF PollLifecycleAction
  <2>2. connected' \in BOOLEAN /\ driver_gate' \in BOOLEAN /\ (driver_gate' => connected')
    <3>1. CASE FinishConnectBackend
      BY Zenon, <3>1 DEF FinishConnectBackend
    <3>2. CASE UNCHANGED backend
      BY Zenon, <1>0, <3>2 DEF backend, backendVars
    <3> QED BY Zenon, <2>1, <3>1, <3>2
  <2> QED BY Zenon, <1>1, <2>1, <2>2
<1>11. CASE TaskStep
  <2>1. UNCHANGED <<connected, driver_gate>>
    BY Zenon, <1>11 DEF TaskStep, BeginTask, SimpleCall, Query, Bring, LabStage, OpenBackend,
                 OpenProbe, Verify, RestoreProbe, RestoreDriver, taskFrame, backend, backendVars
  <2>2. task'.action = task.action
    BY Zenon, <1>11, TaskSteps
  <2> QED BY Zenon, <1>0, <2>1, <2>2
<1>12. ASSUME NEW s \in Service, Unload(s)
       PROVE  GateInv'
  BY Zenon, <1>0, <1>12 DEF Unload, backend, backendVars
<1>13. CASE UNCHANGED lifecycleVars
  <2>1. UNCHANGED <<connected, driver_gate, task>>
    BY Zenon, <1>13 DEF lifecycleVars, lifecyclePage, backendVars
  <2> QED BY Zenon, <1>0, <2>1
<1> QED BY Zenon, <1>3, <1>4, <1>5, <1>6, <1>7, <1>8, <1>9, <1>10, <1>11, <1>12, <1>13
        DEF LifecycleNext

-----------------------------------------------------------------------------
(* The backend under the lifecycle. *)

\* The page drives the backend through its own operations, and reconnects it.
LEMMA BackendSteps ==
    ASSUME [LifecycleNext]_lifecycleVars
    PROVE  BackendNext \/ FinishConnectBackend \/ UNCHANGED backendVars
<1>1. CASE StartUp \/ UseBackend
  BY Zenon, <1>1 DEF StartUp, UseBackend, BackendNext
<1>2. ASSUME NEW a \in Action, StartLifecycleAction(a) PROVE UNCHANGED backendVars
  BY Zenon, <1>2 DEF StartLifecycleAction, backend
<1>3. CASE ConnectBackend \/ RequestLifecycleCancel \/ QueryProbe
  BY Zenon, <1>3 DEF ConnectBackend, RequestLifecycleCancel, QueryProbe, backend
<1>4. CASE LockFails \/ PollConnect \/ PollLaunch \/ PollLifecycleAction
  BY Zenon, <1>4 DEF LockFails, PollConnect, PollLaunch, PollLifecycleAction, LockAllWrites,
              BackendNext, backend
<1>5. CASE TaskStep
  BY Zenon, <1>5 DEF TaskStep, BeginTask, SimpleCall, Query, Bring, LabStage, OpenBackend,
              OpenProbe, Verify, RestoreProbe, RestoreDriver, taskFrame, backend
<1>6. ASSUME NEW s \in Service, Unload(s) PROVE UNCHANGED backendVars
  BY Zenon, <1>6 DEF Unload, backend
<1>7. CASE UNCHANGED lifecycleVars
  BY Zenon, <1>7 DEF lifecycleVars
<1> QED BY Zenon, <1>1, <1>2, <1>3, <1>4, <1>5, <1>6, <1>7 DEF LifecycleNext

\* A reconnected backend starts with a closed mirror.
LEMMA Reconnect ==
    ASSUME FinishConnectBackend
    PROVE  Founded' /\ last'.op = "Open"
<1>1. PICK ok \in BOOLEAN :
        /\ connected' = ok
        /\ driver_gate' = FALSE /\ write_enabled' = FALSE /\ origin' = "none"
        /\ next_transaction_id' = 1
        /\ last' = [op |-> "Open", result |-> Outcome(ok), id |-> 0]
  BY Zenon DEF FinishConnectBackend
<1>2. 0 \in 0 .. IdLimit - 1 /\ 1 \in 0 .. IdLimit - 1
  BY BackendAssumption
<1>3. Outcome(ok) \in {"Success", "Failure"} /\ "Open" \in Op
  BY Zenon DEF Outcome, Op
<1>4. /\ last' \in [op : Op, result : {"Success", "Failure"}, id : 0 .. IdLimit - 1]
      /\ last'.op = "Open"
  BY Zenon, <1>1, <1>2, <1>3
<1> QED BY Zenon, <1>1, <1>2, <1>4 DEF Founded, Inv, BackendTypeOK, MirrorSound

\* The backend's invariant holds whatever the lifecycle does to the connection.
LEMMA LifecycleFounded == LifecycleSpec => []Founded
<1>1. LifecycleInit => Founded
  BY Zenon, InitInv DEF LifecycleInit, BackendInit, Founded
<1>2. Founded /\ [LifecycleNext]_lifecycleVars => Founded'
  BY Zenon, BackendSteps, Reconnect, FoundedNext
<1> QED BY <1>1, <1>2, PTL DEF LifecycleSpec

-----------------------------------------------------------------------------
(* The theorems about the driver page. *)

\* The inductive invariant holds in every state of the lifecycle page.
LEMMA LifecycleInvariant == LifecycleSpec => [](TaskInv /\ GateInv)
<1>1. LifecycleInit => TaskInv /\ GateInv
  <2> SUFFICES ASSUME LifecycleInit PROVE TaskInv /\ GateInv
    BY Zenon
  <2>1. NoTask \in Task /\ NoTask.pc = "idle" /\ NoTask.rollback = "none" /\ NoTask.action = "None"
    BY Zenon, NewTask DEF NoTask
  <2>2. task = NoTask /\ service \in [Service -> Good]
    BY Zenon, Configs DEF LifecycleInit
  <2>3. TaskInv
    BY Zenon, <2>1, <2>2 DEF TaskInv, LifecycleTypeOK, Stages, Established, OnlineIsNew,
                      RollbackTruthful, LabPc, RestorePc
  <2>4. GateInv
    BY Zenon, <2>1 DEF LifecycleInit, BackendInit, GateInv, GateClosedInLifecycle, ChangesKdbg
  <2> QED BY Zenon, <2>3, <2>4
<1>2. TaskInv /\ GateInv /\ [LifecycleNext]_lifecycleVars => TaskInv' /\ GateInv'
  BY Zenon, TaskStays, GateStays DEF TaskInv
<1> QED BY <1>1, <1>2, PTL DEF LifecycleSpec

\* Bring Online's rollback report is true: when it says that the prior
\* configuration was restored, both services have the path and the state they
\* were found in, and the image they run is the one they are configured with.
THEOREM RollbackStaysTruthful == LifecycleSpec => []RollbackTruthful
BY LifecycleInvariant, PTL DEF TaskInv

\* After a successful Bring Online both running images are the installed ones.
THEOREM OnlineStaysNew == LifecycleSpec => []OnlineIsNew
BY LifecycleInvariant, PTL DEF TaskInv

\* While an action that changes the KDBG service is in flight, the window's
\* handle has no open write gate.
THEOREM GateStaysClosed == LifecycleSpec => []GateClosedInLifecycle
BY LifecycleInvariant, PTL DEF GateInv

\* With the lifecycle page closing, locking and reopening the connection, an
\* open mirror still means an open handle with an open gate.
THEOREM LifecycleMirrorSound == LifecycleSpec => []MirrorSound
<1>1. Founded => MirrorSound
  BY Zenon DEF Founded, Inv
<1> QED BY LifecycleFounded, <1>1, PTL

\* A reported disable has closed the gate, whichever page asked for it.
THEOREM LifecycleCloseTruthful == LifecycleSpec => CloseTruthful
<1>1. Founded /\ [LifecycleNext]_lifecycleVars => [CloseStep]_backendVars
  BY Zenon, BackendSteps, Reconnect, CloseSteps DEF Founded, CloseStep
<1> QED BY LifecycleFounded, <1>1, PTL DEF LifecycleSpec, CloseTruthful, CloseStep

\* No reconnection carries an authorization over: every write that is sent
\* rests on an enable, or a status report, of the same connection.
THEOREM LifecycleWritesFounded == LifecycleSpec => WritesFounded
<1>1. Founded /\ [LifecycleNext]_lifecycleVars => [SendStep]_backendVars
  BY Zenon, BackendSteps, Reconnect, SendSteps DEF SendStep
<1> QED BY LifecycleFounded, <1>1, PTL DEF LifecycleSpec, WritesFounded, SendStep

-----------------------------------------------------------------------------
(* The kernel explorer. *)

PanelFields == {"modules", "symbols", "last_read_address", "read_exact", "resolved",
                "module", "read", "symbol", "resolve"}

\* A refresh, a symbol load and a resolution exclude each other.
Exclusive(p) ==
    /\ Valid(p.module) => ~Valid(p.symbol) /\ ~Valid(p.resolve)
    /\ Valid(p.symbol) => ~Valid(p.resolve)

\* What is loaded, being loaded or about to be taken over was built from the
\* catalogue on display.
FromCatalogue(p) ==
    /\ p.modules.contains \subseteq KernelVa
    /\ p.module.pc = "ready" /\ p.module.out.ok => p.module.out.value.contains \subseteq KernelVa
    /\ p.symbols = NoSymbols \/ p.symbols.stamp = p.modules.stamp
    /\ p.symbol.pc = "running" => p.symbol.arg.stamp = p.modules.stamp
    /\ p.symbol.pc = "ready" /\ p.symbol.out.ok =>
         p.symbol.out.value # NoSymbols /\ p.symbol.out.value.stamp = p.modules.stamp

\* A resolution is one of the loaded resolver; a result of the one before is
\* only left where a new resolution is under way or nothing was read.
FromResolver(p) ==
    /\ p.resolve.pc = "running" => p.resolve.arg.id = p.symbols.id
    /\ p.resolve.pc = "ready" /\ p.resolve.out.ok => p.resolve.out.value.id = p.symbols.id
    /\ p.resolved.ok =>
         \/ p.resolved.value.id = p.symbols.id
         \/ p.last_read_address = NoVa
         \/ Valid(p.resolve)

KernelInv(p) ==
    DOMAIN p = PanelFields /\ Exclusive(p) /\ FromCatalogue(p) /\ FromResolver(p)

\* The futures and optional fields of the panel hold what they are set to.
LEMMA JobFields ==
    /\ NoJob.pc = "idle" /\ ~Valid(NoJob) /\ ~Nothing.ok
    /\ \A a : Working(a).pc = "running" /\ Working(a).arg = a /\ Valid(Working(a))
    /\ \A o : Ready(o).pc = "ready" /\ Ready(o).out = o /\ Valid(Ready(o))
    /\ \A v : Given(v).ok /\ Given(v).value = v
BY Zenon DEF NoJob, Working, Ready, Nothing, Given, Valid

\* The job that is stored for a load of symbols.
LEMMA SymbolFields ==
    ASSUME NEW i, NEW st, NEW pr
    PROVE  /\ Symbols(i, st, pr).id = i /\ Symbols(i, st, pr).stamp = st
           /\ Symbols(i, st, pr).proofs = pr
           /\ pr # {} => Symbols(i, st, pr) # NoSymbols
BY Zenon DEF Symbols, NoSymbols

\* Start functions: one that finds another operation in its way does nothing.
LEMMA StartsOK ==
    ASSUME NEW p, KernelInv(p)
    PROVE  /\ KernelInv(StartModuleRefresh(p))
           /\ \A va : KernelInv(StartRead(p, va))
           /\ KernelInv(StartSymbolLoad(p))
<1>1. KernelInv(StartModuleRefresh(p))
  <2>1. CASE Valid(p.module) \/ Valid(p.symbol) \/ Valid(p.resolve)
    BY Zenon, <2>1 DEF StartModuleRefresh
  <2>2. CASE ~(Valid(p.module) \/ Valid(p.symbol) \/ Valid(p.resolve))
    <3> DEFINE j == Working(NoVa)
               q == [p EXCEPT !.module = j]
    <3>1. StartModuleRefresh(p) = q
      BY Zenon, <2>2 DEF StartModuleRefresh
    <3>2. Valid(j) /\ j.pc = "running"
      BY Zenon, JobFields
    <3> HIDE DEF j
    <3>3. /\ DOMAIN q = PanelFields /\ q.module = j
          /\ q.modules = p.modules /\ q.symbols = p.symbols
          /\ q.last_read_address = p.last_read_address /\ q.resolved = p.resolved
          /\ q.symbol = p.symbol /\ q.resolve = p.resolve
      BY Zenon DEF KernelInv, PanelFields
    <3> HIDE DEF q
    <3> QED BY <2>2, <3>1, <3>2, <3>3 DEF KernelInv, Exclusive, FromCatalogue, FromResolver
  <2> QED BY Zenon, <2>1, <2>2
<1>2. ASSUME NEW va PROVE KernelInv(StartRead(p, va))
  <2> DEFINE q == [p EXCEPT !.read = Working(va)]
  <2>1. StartRead(p, va) \in {p, q}
    BY Zenon DEF StartRead
  <2>2. /\ DOMAIN q = PanelFields
        /\ q.modules = p.modules /\ q.symbols = p.symbols
        /\ q.last_read_address = p.last_read_address /\ q.resolved = p.resolved
        /\ q.module = p.module /\ q.symbol = p.symbol /\ q.resolve = p.resolve
    BY Zenon DEF KernelInv, PanelFields
  <2> HIDE DEF q
  <2> QED BY SMTT(20), <2>1, <2>2 DEF KernelInv, Exclusive, FromCatalogue, FromResolver
<1>3. KernelInv(StartSymbolLoad(p))
  <2> DEFINE j == Working(p.modules)
             q == [p EXCEPT !.symbol = j]
  <2>1. \/ StartSymbolLoad(p) = p
        \/ /\ StartSymbolLoad(p) = q
           /\ ~Valid(p.module) /\ ~Valid(p.symbol) /\ ~Valid(p.resolve)
    BY Zenon DEF StartSymbolLoad
  <2>2. Valid(j) /\ j.pc = "running" /\ j.arg = p.modules
    BY Zenon, JobFields
  <2> HIDE DEF j
  <2>3. /\ DOMAIN q = PanelFields /\ q.symbol = j
        /\ q.modules = p.modules /\ q.symbols = p.symbols
        /\ q.last_read_address = p.last_read_address /\ q.resolved = p.resolved
        /\ q.module = p.module /\ q.resolve = p.resolve
    BY Zenon DEF KernelInv, PanelFields
  <2> HIDE DEF q
  <2> QED BY <2>1, <2>2, <2>3 DEF KernelInv, Exclusive, FromCatalogue, FromResolver
<1> QED BY Zenon, <1>1, <1>2, <1>3

\* A resolution starts with the resolver that is loaded, when nothing is in its
\* way.  (Stated for a panel whose last result may be of another resolver.)
LEMMA ResolveOK ==
    ASSUME NEW p, DOMAIN p = PanelFields, Exclusive(p), FromCatalogue(p),
           p.resolve.pc = "running" => p.resolve.arg.id = p.symbols.id,
           p.resolve.pc = "ready" /\ p.resolve.out.ok => p.resolve.out.value.id = p.symbols.id,
           \/ FromResolver(p)
           \/ /\ ~Valid(p.resolve) /\ ~Valid(p.symbol) /\ ~Valid(p.module)
              /\ p.symbols # NoSymbols,
           NEW x
    PROVE  KernelInv(Resolve(p, x))
<1> DEFINE j == Working([id |-> p.symbols.id, query |-> x])
           q == [p EXCEPT !.resolve = j]
<1>1. \/ Resolve(p, x) = p /\ FromResolver(p)
      \/ /\ Resolve(p, x) = q
         /\ ~Valid(p.module) /\ ~Valid(p.symbol) /\ ~Valid(p.resolve)
  BY Zenon DEF Resolve
<1>2. Valid(j) /\ j.pc = "running" /\ j.arg.id = p.symbols.id
  BY SMTT(20), JobFields
<1> HIDE DEF j
<1>3. /\ DOMAIN q = PanelFields /\ q.resolve = j
      /\ q.modules = p.modules /\ q.symbols = p.symbols
      /\ q.last_read_address = p.last_read_address /\ q.resolved = p.resolved
      /\ q.module = p.module /\ q.symbol = p.symbol
  BY Zenon DEF PanelFields
<1> HIDE DEF q
<1> QED BY SMTT(20), <1>1, <1>2, <1>3 DEF KernelInv, Exclusive, FromCatalogue, FromResolver

\* The four polls of a frame.  A new catalogue takes the symbols with it.
LEMMA PollModuleOK ==
    ASSUME NEW p, KernelInv(p)
    PROVE  KernelInv(PollModule(p))
<1>1. CASE p.module.pc # "ready"
  BY Zenon, <1>1 DEF PollModule
<1>2. CASE p.module.pc = "ready"
  <2> DEFINE q == [p EXCEPT !.module = NoJob]
             r == [q EXCEPT !.modules = p.module.out.value, !.symbols = NoSymbols,
                            !.resolved = Nothing]
  <2>1. \/ PollModule(p) = q
        \/ PollModule(p) = r /\ p.module.out.ok
    BY Zenon, <1>2 DEF PollModule
  <2>2. Valid(p.module) /\ ~Valid(p.symbol) /\ ~Valid(p.resolve)
    BY Zenon, <1>2 DEF Valid, KernelInv, Exclusive
  <2>3. /\ DOMAIN q = PanelFields /\ q.module = NoJob
        /\ q.modules = p.modules /\ q.symbols = p.symbols
        /\ q.last_read_address = p.last_read_address /\ q.resolved = p.resolved
        /\ q.symbol = p.symbol /\ q.resolve = p.resolve
    BY Zenon DEF KernelInv, PanelFields
  <2> HIDE DEF q
  <2>4. /\ DOMAIN r = PanelFields /\ r.module = NoJob
        /\ r.modules = p.module.out.value /\ r.symbols = NoSymbols
        /\ r.resolved = Nothing /\ r.symbol = p.symbol /\ r.resolve = p.resolve
    BY Zenon, <2>3 DEF PanelFields
  <2> HIDE DEF r
  <2>5. KernelInv(q)
    BY <2>3, JobFields DEF KernelInv, Exclusive, FromCatalogue, FromResolver
  <2>6. ASSUME p.module.out.ok PROVE KernelInv(r)
    <3>1. p.module.out.value.contains \subseteq KernelVa
      BY Zenon, <1>2, <2>6 DEF KernelInv, FromCatalogue
    <3>2. r.symbol.pc = "idle" /\ r.resolve.pc = "idle"
      BY Zenon, <2>2, <2>4 DEF Valid
    <3> QED BY Zenon, <2>2, <2>4, <3>1, <3>2, JobFields
         DEF KernelInv, Exclusive, FromCatalogue, FromResolver
  <2> QED BY Zenon, <2>1, <2>5, <2>6
<1> QED BY Zenon, <1>1, <1>2

\* A read drops the last result before it asks for a new one.
LEMMA PollReadOK ==
    ASSUME NEW p, KernelInv(p)
    PROVE  KernelInv(PollRead(p))
<1>1. CASE p.read.pc # "ready"
  BY Zenon, <1>1 DEF PollRead
<1>2. CASE p.read.pc = "ready"
  <2> DEFINE q == [p EXCEPT !.read = NoJob, !.resolved = Nothing]
             f == [q EXCEPT !.read_exact = FALSE]
             r == [q EXCEPT !.last_read_address = p.read.out.value.address,
                            !.read_exact = p.read.out.value.exact]
  <2>1. PollRead(p) \in {f, r, StartAddressResolve(r, r.last_read_address)}
    BY Zenon, <1>2 DEF PollRead
  <2>2. /\ DOMAIN q = PanelFields /\ q.module = p.module /\ q.resolved = Nothing
        /\ q.modules = p.modules /\ q.symbols = p.symbols
        /\ q.symbol = p.symbol /\ q.resolve = p.resolve
    BY Zenon DEF KernelInv, PanelFields
  <2> HIDE DEF q
  <2>3. ASSUME NEW t \in {f, r}
        PROVE  KernelInv(t)
    <3>1. /\ DOMAIN t = PanelFields /\ t.module = p.module /\ t.resolved = Nothing
          /\ t.modules = p.modules /\ t.symbols = p.symbols
          /\ t.symbol = p.symbol /\ t.resolve = p.resolve
      BY Zenon, <2>2 DEF PanelFields
    <3> HIDE DEF f, r
    <3> QED BY <3>1, JobFields DEF KernelInv, Exclusive, FromCatalogue, FromResolver
  <2> HIDE DEF f, r
  <2>4. KernelInv(StartAddressResolve(r, r.last_read_address))
    <3>1. KernelInv(r)
      BY Zenon, <2>3
    <3>2. \A x : KernelInv(Resolve(r, x))
      BY Zenon, <3>1, ResolveOK DEF KernelInv, FromResolver
    <3> QED BY Zenon, <3>2 DEF StartAddressResolve
  <2> QED BY Zenon, <2>1, <2>3, <2>4
<1> QED BY Zenon, <1>1, <1>2

\* New symbols for the address that was read are asked for its name at once,
\* so that a name of the old ones is not taken for theirs.
LEMMA PollSymbolOK ==
    ASSUME NEW p, KernelInv(p)
    PROVE  KernelInv(PollSymbol(p))
<1>1. CASE p.symbol.pc # "ready"
  BY Zenon, <1>1 DEF PollSymbol
<1>2. CASE p.symbol.pc = "ready"
  <2> DEFINE q == [p EXCEPT !.symbol = NoJob]
             r == [q EXCEPT !.symbols = p.symbol.out.value]
  <2>1. Valid(p.symbol) /\ ~Valid(p.module) /\ ~Valid(p.resolve)
    BY Zenon, <1>2 DEF Valid, KernelInv, Exclusive
  <2>2. /\ DOMAIN q = PanelFields /\ q.module = p.module
        /\ q.last_read_address = p.last_read_address /\ q.resolved = p.resolved
        /\ q.modules = p.modules /\ q.symbols = p.symbols
        /\ q.symbol = NoJob /\ q.resolve = p.resolve
    BY Zenon DEF KernelInv, PanelFields
  <2>3. /\ DOMAIN r = PanelFields /\ r.module = p.module
        /\ r.last_read_address = p.last_read_address /\ r.resolved = p.resolved
        /\ r.modules = p.modules /\ r.symbols = p.symbol.out.value
        /\ r.symbol = NoJob /\ r.resolve = p.resolve
    <3> HIDE DEF q
    <3> QED BY Zenon, <2>2 DEF PanelFields
  <2>4. \/ PollSymbol(p) = q
        \/ /\ p.symbol.out.ok
           /\ \/ PollSymbol(p) = r /\ r.last_read_address = NoVa
              \/ PollSymbol(p) = StartAddressResolve(r, r.last_read_address)
    <3>1. CASE ~p.symbol.out.ok
      BY Zenon, <1>2, <3>1 DEF PollSymbol
    <3>2. CASE p.symbol.out.ok
      <4>1. PollSymbol(p) = IF r.last_read_address = NoVa \/ Valid(r.resolve) THEN r
                            ELSE StartAddressResolve(r, r.last_read_address)
        BY Zenon, <1>2, <3>2 DEF PollSymbol
      <4> HIDE DEF r
      <4> QED BY Zenon, <2>1, <2>3, <3>2, <4>1
    <3> QED BY Zenon, <3>1, <3>2
  <2> HIDE DEF q, r
  <2>5. KernelInv(q)
    BY Zenon, <2>2, JobFields DEF KernelInv, Exclusive, FromCatalogue, FromResolver
  <2>6. ASSUME p.symbol.out.ok
        PROVE  /\ DOMAIN r = PanelFields /\ Exclusive(r) /\ FromCatalogue(r)
               /\ r.symbols # NoSymbols
               /\ ~Valid(r.module) /\ ~Valid(r.symbol) /\ ~Valid(r.resolve)
               /\ r.resolve.pc = "idle"
    <3>1. /\ p.symbol.out.value # NoSymbols
          /\ p.symbol.out.value.stamp = p.modules.stamp
      BY Zenon, <1>2, <2>6 DEF KernelInv, FromCatalogue
    <3>2. r.resolve.pc = "idle"
      BY Zenon, <2>1, <2>3 DEF Valid
    <3> QED BY <2>1, <2>3, <3>1, <3>2, JobFields DEF KernelInv, Exclusive, FromCatalogue
  <2>7. ASSUME p.symbol.out.ok, r.last_read_address = NoVa PROVE KernelInv(r)
    BY Zenon, <2>6, <2>7 DEF KernelInv, FromResolver
  <2>8. ASSUME p.symbol.out.ok
        PROVE  KernelInv(StartAddressResolve(r, r.last_read_address))
    <3>1. \A x : KernelInv(Resolve(r, x))
      BY Zenon, <2>6, <2>8, ResolveOK
    <3> QED BY Zenon, <3>1 DEF StartAddressResolve
  <2> QED BY Zenon, <2>4, <2>5, <2>7, <2>8
<1> QED BY Zenon, <1>1, <1>2

\* PollResolve: a result is taken over for the symbol that was asked for.
LEMMA PollResolveOK ==
    ASSUME NEW p, KernelInv(p)
    PROVE  KernelInv(PollResolve(p))
<1>1. CASE p.resolve.pc # "ready"
  BY Zenon, <1>1 DEF PollResolve
<1>2. CASE p.resolve.pc = "ready"
  <2> DEFINE q == [p EXCEPT !.resolve = NoJob, !.resolved = p.resolve.out]
  <2>1. PollResolve(p) = q
    BY Zenon, <1>2 DEF PollResolve
  <2>2. /\ DOMAIN q = PanelFields /\ q.module = p.module
        /\ q.resolved = p.resolve.out
        /\ q.modules = p.modules /\ q.symbols = p.symbols
        /\ q.symbol = p.symbol /\ q.resolve = NoJob
    BY Zenon DEF KernelInv, PanelFields
  <2> HIDE DEF q
  <2>3. p.resolve.out.ok => p.resolve.out.value.id = p.symbols.id
    BY Zenon, <1>2 DEF KernelInv, FromResolver
  <2> QED BY Zenon, <2>1, <2>2, <2>3, JobFields DEF KernelInv, Exclusive, FromCatalogue, FromResolver
<1> QED BY Zenon, <1>1, <1>2

\* A worker that ends hands over what it was given, or nothing.
LEMMA WorkerEndsOK ==
    ASSUME KernelInv(panel), NEW which \in {"module", "read", "symbol", "resolve"},
           NEW outcomes, WorkerEnds(which, outcomes),
           \A v \in outcomes :
               /\ which = "module" => v.contains \subseteq KernelVa
               /\ which = "symbol" => v # NoSymbols /\ v.stamp = panel.symbol.arg.stamp
               /\ which = "resolve" => v = panel.resolve.arg
    PROVE  KernelInv(panel')
<1>1. PICK out \in {Nothing} \cup {Given(v) : v \in outcomes} :
          panel' = [panel EXCEPT ![which] = Ready(out)]
  BY Zenon DEF WorkerEnds
<1>2. \/ ~out.ok
      \/ out.ok /\ out.value \in outcomes
  BY JobFields
<1> DEFINE j == Ready(out)
<1>3. Valid(j) /\ j.pc = "ready" /\ j.out = out
  BY Zenon, JobFields
<1>4. panel' = [panel EXCEPT ![which] = j]
  BY Zenon, <1>1
<1> HIDE DEF j
<1>5. panel[which].pc = "running" /\ Valid(panel[which])
  BY Zenon DEF WorkerEnds, Valid
<1>6. DOMAIN panel = PanelFields
  BY Zenon DEF KernelInv
<1>7. CASE which = "module"
  <2>1. /\ DOMAIN panel' = PanelFields /\ panel'.module = j
        /\ panel'.modules = panel.modules /\ panel'.symbols = panel.symbols
        /\ panel'.last_read_address = panel.last_read_address
        /\ panel'.resolved = panel.resolved
        /\ panel'.symbol = panel.symbol /\ panel'.resolve = panel.resolve
    BY Zenon, <1>4, <1>6, <1>7 DEF PanelFields
  <2> QED BY <1>2, <1>3, <1>5, <1>7, <2>1
       DEF KernelInv, Exclusive, FromCatalogue, FromResolver
<1>8. CASE which = "read"
  <2>1. /\ DOMAIN panel' = PanelFields /\ panel'.module = panel.module
        /\ panel'.modules = panel.modules /\ panel'.symbols = panel.symbols
        /\ panel'.last_read_address = panel.last_read_address
        /\ panel'.resolved = panel.resolved
        /\ panel'.symbol = panel.symbol /\ panel'.resolve = panel.resolve
    BY Zenon, <1>4, <1>6, <1>8 DEF PanelFields
  <2> QED BY SMTT(20), <2>1 DEF KernelInv, Exclusive, FromCatalogue, FromResolver
<1>9. CASE which = "symbol"
  <2>1. /\ DOMAIN panel' = PanelFields /\ panel'.module = panel.module
        /\ panel'.modules = panel.modules /\ panel'.symbols = panel.symbols
        /\ panel'.last_read_address = panel.last_read_address
        /\ panel'.resolved = panel.resolved
        /\ panel'.symbol = j /\ panel'.resolve = panel.resolve
    BY Zenon, <1>4, <1>6, <1>9 DEF PanelFields
  <2> QED BY <1>2, <1>3, <1>5, <1>9, <2>1
       DEF KernelInv, Exclusive, FromCatalogue, FromResolver
<1>10. CASE which = "resolve"
  <2>1. /\ DOMAIN panel' = PanelFields /\ panel'.module = panel.module
        /\ panel'.modules = panel.modules /\ panel'.symbols = panel.symbols
        /\ panel'.last_read_address = panel.last_read_address
        /\ panel'.resolved = panel.resolved
        /\ panel'.symbol = panel.symbol /\ panel'.resolve = j
    BY Zenon, <1>4, <1>6, <1>10 DEF PanelFields
  <2> QED BY <1>2, <1>3, <1>5, <1>10, <2>1
       DEF KernelInv, Exclusive, FromCatalogue, FromResolver
<1> QED BY Zenon, <1>7, <1>8, <1>9, <1>10

\* The panel starts with no job and nothing on display.
LEMMA KernelInit == KInit => KernelInv(panel)
<1> SUFFICES ASSUME KInit PROVE KernelInv(panel)
  BY Zenon
<1>1. /\ DOMAIN panel = PanelFields
      /\ panel.module = NoJob /\ panel.symbol = NoJob /\ panel.resolve = NoJob
      /\ panel.symbols = NoSymbols /\ panel.resolved = Nothing
      /\ panel.modules.contains = {}
  BY Zenon DEF KInit, PanelFields
<1> QED BY Zenon, <1>1, JobFields DEF KernelInv, Exclusive, FromCatalogue, FromResolver

\* Every step of the panel and of its four workers keeps the invariant.
LEMMA KernelNext == KernelInv(panel) /\ [KNext]_panel => KernelInv(panel')
<1> SUFFICES ASSUME KernelInv(panel), [KNext]_panel PROVE KernelInv(panel')
  BY Zenon
<1>1. CASE Frame
  BY Zenon, <1>1, PollModuleOK, PollReadOK, PollSymbolOK, PollResolveOK DEF Frame, PollJobs
<1>2. CASE Click
  <2>1. \A x : KernelInv(Resolve(panel, x))
    BY Zenon, ResolveOK DEF KernelInv, FromResolver
  <2> QED BY Zenon, <1>2, <2>1, StartsOK DEF Click, StartAddressResolve, StartNameResolve
<1>3. CASE ModuleWorker
  BY Zenon, <1>3, WorkerEndsOK DEF ModuleWorker
<1>4. CASE ReadWorker
  BY Zenon, <1>4, WorkerEndsOK DEF ReadWorker
<1>5. CASE SymbolWorker
  <2> DEFINE with(proofs) == Symbols(Fresh(panel), panel.symbol.arg.stamp, proofs)
             some == (SUBSET panel.symbol.arg.contains) \ {{}}
  <2>1. \A proofs \in some :
            with(proofs) # NoSymbols /\ with(proofs).stamp = panel.symbol.arg.stamp
    <3> SUFFICES ASSUME NEW proofs \in some
                 PROVE  with(proofs) # NoSymbols /\ with(proofs).stamp = panel.symbol.arg.stamp
      BY Zenon
    <3>1. proofs # {}
      BY Zenon
    <3> QED BY <3>1, SymbolFields
  <2>2. WorkerEnds("symbol", {with(proofs) : proofs \in some})
    BY Zenon, <1>5 DEF SymbolWorker
  <2> HIDE DEF with, some
  <2>3. \A v \in {with(proofs) : proofs \in some} :
            v # NoSymbols /\ v.stamp = panel.symbol.arg.stamp
    BY Zenon, <2>1
  <2> QED BY Zenon, <2>2, <2>3, WorkerEndsOK
<1>6. CASE ResolveWorker
  BY Zenon, <1>6, WorkerEndsOK DEF ResolveWorker
<1>7. CASE UNCHANGED panel
  BY Zenon, <1>7
<1> QED BY Zenon, <1>1, <1>2, <1>3, <1>4, <1>5, <1>6, <1>7 DEF KNext

\* KernelExplorer: no symbol worker outlives the resolver it was given, and the
\* evidence on display is of one session, although refreshes, loads and
\* resolutions finish in any order (SymbolsBound).
THEOREM SymbolsStayBound == KSpec => []SymbolsBound
<1>1. KernelInv(panel) => SymbolsBound
  <2> SUFFICES ASSUME KernelInv(panel) PROVE SymbolsBound
    BY Zenon
  <2>1. panel.resolve.pc = "running" => panel.resolve.arg.id = panel.symbols.id
    BY Zenon DEF KernelInv, FromResolver
  <2>2. ASSUME CurrentEvidence(panel)
        PROVE  /\ panel.resolved.value.id = panel.symbols.id
               /\ panel.symbols.stamp = panel.modules.stamp
    <3>1. panel.last_read_address # NoVa /\ ~Valid(panel.resolve)
      BY Zenon, <2>2, KernelAssumption DEF CurrentEvidence, KernelBusy, KernelInv, FromCatalogue
    <3> QED BY Zenon, <2>2, <3>1 DEF CurrentEvidence, KernelInv, FromCatalogue, FromResolver
  <2> QED BY Zenon, <2>1, <2>2 DEF SymbolsBound
<1>2. KernelInv(panel) /\ [KNext]_panel => KernelInv(panel)'
  BY Zenon, KernelNext
<1> QED BY <1>1, <1>2, KernelInit, PTL DEF KSpec

-----------------------------------------------------------------------------
(* The page frame queries. *)

PipeRecord == {"MAP", "KDBG_PFN_RESULT", "END", "text"} \X (Pfn \cup {NoPfn})
PipeText == Seq(PipeRecord)

\* t is the beginning of s.
Begins(t, s) == Len(t) <= Len(s) /\ \A i \in 1 .. Len(t) : t[i] = s[i]

\* A query whose bridge was started and not yet given up.
Supervised == job # NoPfn /\ job.pc \in {"drain", "check", "wait", "exited", "terminate"}

\* What was read and what is in the pipe begin one of the scripts, and a bridge
\* that runs will write the rest of it.
Told ==
    /\ output \in PipeText /\ pipe \in PipeText
    /\ \E a \in Answers(job.pfn) \cup LibraryPrints(job.pfn) :
         /\ Begins(output \o pipe, a.script)
         /\ bridge.alive => /\ bridge.script \in PipeText
                            /\ (output \o pipe) \o bridge.script = a.script

\* A result is the whole answer for the frame it names.
WholeResult(r) == r # NoPfn /\ r.ok => r.mappings = <<Mapping(r.pfn)>>

UsageInv ==
    /\ loaded \in Pfn \cup {NoPfn}
    /\ job # NoPfn =>
         DOMAIN job = {"pc", "pfn", "stop", "late", "fresh"} /\ job.pfn \in Pfn \cup {NoPfn}
    /\ DOMAIN bridge = {"alive", "script", "code"}
    /\ Supervised => Told
    /\ WholeResult(reply)
    /\ AnswerWhole

\* Every script is a sequence of records; the one that is well formed for the
\* frame as a whole is well formed in no other part.
LEMMA Scripts ==
    ASSUME NEW p \in Pfn \cup {NoPfn}, NEW a \in Answers(p) \cup LibraryPrints(p)
    PROVE  a.script \in PipeText
<1>1. Header(p) \in PipeRecord /\ Mapping(p) \in PipeRecord /\ End \in PipeRecord /\ Text \in PipeRecord
  BY Zenon DEF Header, Mapping, End, Text, PipeRecord
<1> DEFINE flood == [i \in 1 .. (MaxBridgeOutput + 1) |-> Text]
<1>2. flood \in PipeText
  BY <1>1, UsageAssumption DEF PipeText
<1> HIDE DEF flood
<1>3. a.script \in {<<Header(p), Mapping(p), End>>, <<Header(p), Text>>, <<Text>>,
                    <<Text, Header(p), Mapping(p), End>>, flood}
  BY DEF Answers, LibraryPrints, flood
<1>4. <<Header(p), Mapping(p), End>> \in PipeText /\ <<Header(p), Text>> \in PipeText
  BY <1>1 DEF PipeText
<1>5. <<Text>> \in PipeText /\ <<Text, Header(p), Mapping(p), End>> \in PipeText
  BY <1>1 DEF PipeText
<1> QED BY Zenon, <1>2, <1>3, <1>4, <1>5

\* The record at i is the part of the text from i to i.
LEMMA OneRecord ==
    ASSUME NEW s \in PipeText, NEW i \in 1 .. Len(s)
    PROVE  SubSeq(s, i, i) = <<s[i]>>
<1> DEFINE u == SubSeq(s, i, i)
           v == <<s[i]>>
<1>1. v \in PipeText /\ Len(v) = 1 /\ v[1] = s[i]
  BY DEF PipeText
<1>2. u \in PipeText
  BY DEF PipeText
<1>3. Len(u) = 1
  BY DEF PipeText
<1>4. u[1] = s[i]
  BY <1>3 DEF PipeText
<1> HIDE DEF u, v
<1>5. u = v
  BY <1>1, <1>2, <1>3, <1>4 DEF PipeText
<1> QED BY Zenon, <1>5 DEF u, v

\* A text is its first record and the rest.
LEMMA FirstAndRest ==
    ASSUME NEW t \in PipeText, t # <<>>
    PROVE  /\ Head(t) \in PipeRecord /\ Tail(t) \in PipeText /\ <<Head(t)>> \in PipeText
           /\ t = <<Head(t)>> \o Tail(t)
<1>1. Len(t) \in Nat \ {0}
  BY DEF PipeText
<1>2. Head(t) \in PipeRecord /\ Tail(t) \in PipeText /\ Head(t) = t[1]
  BY <1>1 DEF PipeText
<1>3. t = <<Head(t)>> \o Tail(t)
  BY <1>1, <1>2 DEF PipeText
<1>4. <<Head(t)>> \in PipeText
  BY <1>2 DEF PipeText
<1> QED BY Zenon, <1>2, <1>3, <1>4

\* Two texts are joined to a text ...
LEMMA Joining ==
    ASSUME NEW a \in PipeText, NEW b \in PipeText
    PROVE  a \o b \in PipeText
BY DEF PipeText

\* Joining the first two of three first makes no difference.
Regrouped(a, b, c) == (a \o b) \o c = a \o (b \o c)

\* ... and it does not matter which two of three are joined first.
LEMMA JoiningOrder ==
    ASSUME NEW a \in PipeText, NEW b \in PipeText, NEW c \in PipeText
    PROVE  Regrouped(a, b, c)
BY DEF PipeText, Regrouped

\* Nothing adds nothing.
LEMMA NothingWritten ==
    <<>> \in PipeText /\ \A a \in PipeText : a \o <<>> = a /\ <<>> \o a = a
BY DEF PipeText

\* What is well formed for the frame and begins a script is the answer as a
\* whole: a prefix of it lacks the END, and text of the library is refused.
LEMMA WholeAnswer ==
    ASSUME NEW p \in Pfn \cup {NoPfn}, NEW a \in Answers(p) \cup LibraryPrints(p),
           NEW out \in PipeText, Begins(out, a.script), WellFormed(p, out)
    PROVE  Mappings(out) = <<Mapping(p)>>
<1>1. Header(p) # Text /\ Mapping(p) # End /\ Text # End
  BY Zenon DEF Header, Mapping, End, Text
<1>2. /\ out[1] = Header(p) /\ Len(out) \in Nat /\ Len(out) > 1
      /\ out[Len(out)] = End
      /\ \A i \in 1 .. Len(out) : out[i] = a.script[i]
      /\ Len(out) <= Len(a.script)
  BY DEF WellFormed, Begins, PipeText
<1>3. out[1] = a.script[1] /\ out[2] = a.script[2] /\ out[Len(out)] = a.script[Len(out)]
  BY <1>2
<1> DEFINE flood == [i \in 1 .. (MaxBridgeOutput + 1) |-> Text]
<1>4. flood[1] = Text
  BY UsageAssumption
<1> HIDE DEF flood
<1>5. a.script \in {<<Header(p), Mapping(p), End>>, <<Header(p), Text>>, <<Text>>,
                    <<Text, Header(p), Mapping(p), End>>, flood}
  BY DEF Answers, LibraryPrints, flood
<1>6. CASE a.script = <<Header(p), Mapping(p), End>>
  <2>1. Len(a.script) = 3 /\ a.script[2] = Mapping(p)
    BY <1>6
  <2>2. out[2] = Mapping(p)
    BY Zenon, <1>3, <2>1
  <2>3. Len(out) # 2
    <3>1. out[Len(out)] = End
      BY Zenon, <1>2
    <3> QED BY Zenon, <1>1, <2>2, <3>1
  <2>4. Len(out) = 3
    <3>1. Len(out) \in Nat /\ Len(out) > 1 /\ Len(out) <= 3
      BY Zenon, <1>2, <2>1
    <3>2. \A n \in Nat : n > 1 /\ n <= 3 /\ n # 2 => n = 3
      OBVIOUS
    <3> QED BY Zenon, <2>3, <3>1, <3>2
  <2>5. Mappings(out) = SubSeq(out, 2, 2)
    BY <2>4 DEF Mappings
  <2>6. 2 \in 1 .. Len(out)
    BY <2>4
  <2>7. SubSeq(out, 2, 2) = <<out[2]>>
    BY Zenon, <2>6, OneRecord
  <2> QED BY Zenon, <2>2, <2>5, <2>7
<1>7. CASE a.script = <<Header(p), Text>>
  BY <1>1, <1>2, <1>3, <1>7
<1>8. CASE a.script = <<Text>>
  BY <1>2, <1>8
<1>9. CASE a.script = <<Text, Header(p), Mapping(p), End>>
  BY <1>1, <1>2, <1>3, <1>9
<1>10. CASE a.script = flood
  BY Zenon, <1>1, <1>2, <1>3, <1>4, <1>10
<1> QED BY Zenon, <1>5, <1>6, <1>7, <1>8, <1>9, <1>10

\* What ParseOutput accepts of what a bridge wrote is the whole answer.
LEMMA ParsedWhole ==
    ASSUME job.pfn \in Pfn \cup {NoPfn}, Told
    PROVE  LET r == ParseOutput(job.pfn, output \o pipe)
           IN  r.ok => r.mappings = <<Mapping(r.pfn)>>
<1> DEFINE out == output \o pipe
<1>1. PICK a \in Answers(job.pfn) \cup LibraryPrints(job.pfn) : Begins(out, a.script)
  BY Zenon DEF Told
<1>2. out \in PipeText
  BY DEF Told, PipeText
<1> HIDE DEF out
<1>3. WellFormed(job.pfn, out) => Mappings(out) = <<Mapping(job.pfn)>>
  BY Zenon, <1>1, <1>2, WholeAnswer
<1>4. ParseOutput(job.pfn, out).ok =>
        ParseOutput(job.pfn, out).mappings = <<Mapping(ParseOutput(job.pfn, out).pfn)>>
  BY Zenon, <1>3 DEF ParseOutput, Success, Failure
<1> QED BY Zenon, <1>4 DEF out

\* A sequence begins its concatenation with another.
LEMMA BeginsConcat ==
    ASSUME NEW l \in PipeText, NEW u \in PipeText
    PROVE  Begins(l, l \o u)
<1>1. /\ Len(l \o u) = Len(l) + Len(u)
      /\ \A i \in 1 .. Len(l) + Len(u) : (l \o u)[i] = IF i <= Len(l) THEN l[i] ELSE u[i - Len(l)]
  BY DEF PipeText
<1>2. Len(l) \in Nat /\ Len(u) \in Nat
  BY DEF PipeText
<1>3. ASSUME NEW i \in 1 .. Len(l)
      PROVE  l[i] = (l \o u)[i]
  <2>1. i \in 1 .. Len(l) + Len(u) /\ i <= Len(l)
    BY <1>2
  <2> QED BY Zenon, <1>1, <2>1
<1>4. Len(l) <= Len(l \o u)
  BY <1>1, <1>2
<1> QED BY Zenon, <1>3, <1>4 DEF Begins

\* The bridge moves one record from its script to the pipe.
LEMMA MoveRecord ==
    ASSUME NEW o \in PipeText, NEW q \in PipeText, NEW t \in PipeText, t # <<>>,
           NEW s, (o \o q) \o t = s
    PROVE  /\ Append(q, Head(t)) \in PipeText /\ Tail(t) \in PipeText
           /\ (o \o Append(q, Head(t))) \o Tail(t) = s
           /\ Begins(o \o Append(q, Head(t)), s)
<1> DEFINE h == <<Head(t)>>
           r == Tail(t)
<1>1. Head(t) \in PipeRecord /\ r \in PipeText /\ h \in PipeText /\ t = h \o r
  BY Zenon, FirstAndRest
<1>2. Append(q, Head(t)) = q \o h
  BY <1>1 DEF PipeText
<1> HIDE DEF h, r
<1>3. o \o q \in PipeText /\ q \o h \in PipeText /\ o \o (q \o h) \in PipeText
  BY Zenon, <1>1, Joining
<1>4. Regrouped(o, q, h)
  BY Zenon, <1>1, JoiningOrder
<1>5. Regrouped(o \o q, h, r)
  BY Zenon, <1>1, <1>3, JoiningOrder
<1>6. (o \o (q \o h)) \o r = s
  BY Zenon, <1>1, <1>4, <1>5 DEF Regrouped
<1>7. Begins(o \o (q \o h), s)
  BY Zenon, <1>1, <1>3, <1>6, BeginsConcat
<1> QED BY Zenon, <1>1, <1>2, <1>3, <1>6, <1>7 DEF r

\* The worker moves on, is told to stop or runs late; its frame stays.
LEMMA JobStep ==
    ASSUME UsageInv, job # NoPfn,
           DOMAIN job' = DOMAIN job, job'.pfn = job.pfn,
           job'.pc = job.pc \/ ~(Supervised'),
           UNCHANGED <<bridge, pipe, output, reply, keepPanel>>
    PROVE  UsageInv'
<1>1. Supervised' => Supervised
  BY Zenon DEF Supervised
<1>2. Supervised' => Told'
  BY Zenon, <1>1 DEF UsageInv, Told
<1> QED BY Zenon, <1>2 DEF UsageInv, WholeResult, AnswerWhole, keepPanel

\* Publish: what the worker leaves for the UI thread.
LEMMA Published ==
    ASSUME UsageInv, job # NoPfn, NEW r, Publish(r),
           DOMAIN r = {"ok", "pfn", "mappings"}, r.ok \in BOOLEAN,
           r.ok => r.mappings = <<Mapping(r.pfn)>>,
           DOMAIN bridge' = {"alive", "script", "code"},
           UNCHANGED keepPanel
    PROVE  UsageInv'
<1>1. DOMAIN job' = DOMAIN job /\ job'.pfn = job.pfn /\ job'.pc = "done"
  BY Zenon DEF UsageInv, Publish
<1>2. ~(Supervised')
  BY Zenon, <1>1 DEF Supervised
<1>3. WholeResult(reply')
  <2>1. CASE ~job.fresh
    BY Zenon, <2>1 DEF Publish, UsageInv
  <2>2. CASE job.fresh /\ r.ok /\ r.pfn # job.pfn
    <3>1. reply' = [r EXCEPT !.ok = FALSE]
      BY Zenon, <2>2 DEF Publish
    <3>2. ~reply'.ok
      BY Zenon, <3>1
    <3> QED BY Zenon, <3>2 DEF WholeResult
  <2>3. CASE job.fresh /\ ~(r.ok /\ r.pfn # job.pfn)
    <3>1. reply' = r
      BY Zenon, <2>3 DEF Publish
    <3> QED BY Zenon, <3>1 DEF WholeResult
  <2> QED BY Zenon, <2>1, <2>2, <2>3
<1> QED BY Zenon, <1>1, <1>2, <1>3 DEF UsageInv, WholeResult, AnswerWhole, keepPanel

\* Publishing an error ends the query and shows no mapping.
LEMMA FailedQuery ==
    ASSUME UsageInv, job # NoPfn, Publish(Failure),
           DOMAIN bridge' = {"alive", "script", "code"}, UNCHANGED keepPanel
    PROVE  UsageInv'
<1>1. DOMAIN Failure = {"ok", "pfn", "mappings"} /\ Failure.ok = FALSE
  BY Zenon DEF Failure
<1> HIDE DEF Failure
<1> QED BY Zenon, <1>1, Published

\* Execute starts the bridge: nothing is read and nothing is in the pipe.
LEMMA LaunchInv ==
    ASSUME UsageInv, Launch
    PROVE  UsageInv'
<1>0. job # NoPfn /\ UNCHANGED keepPanel /\ pipe' = <<>> /\ output' = <<>>
  BY Zenon DEF Launch, At
<1>1. CASE Publish(Failure) /\ UNCHANGED bridge
  BY Zenon, <1>0, <1>1, FailedQuery DEF UsageInv
<1>2. ASSUME NEW a \in Answers(job.pfn) \cup LibraryPrints(job.pfn),
             bridge' = [alive |-> TRUE, script |-> a.script, code |-> a.code],
             job' = [job EXCEPT !.pc = "drain"], reply' = reply
      PROVE  UsageInv'
  <2>1. DOMAIN job' = DOMAIN job /\ job'.pfn = job.pfn
    BY <1>2
  <2>2. a.script \in PipeText
    BY Zenon, <1>0, Scripts DEF UsageInv
  <2>3. <<>> \in PipeText /\ <<>> \o <<>> = <<>> /\ <<>> \o a.script = a.script
    BY Zenon, <2>2, NothingWritten
  <2>4. Begins(<<>>, a.script)
    BY Zenon, <2>2, <2>3, BeginsConcat
  <2>5. DOMAIN bridge' = {"alive", "script", "code"} /\ bridge'.script = a.script
    BY Zenon, <1>2
  <2>6. Told'
    BY Zenon, <1>0, <2>1, <2>2, <2>3, <2>4, <2>5 DEF Told
  <2> QED BY Zenon, <1>0, <1>2, <2>1, <2>5, <2>6 DEF UsageInv, WholeResult, AnswerWhole, keepPanel
<1> QED BY Zenon, <1>1, <1>2 DEF Launch
\* Everything the bridge wrote so far is still there after a drain.
LEMMA SuperviseInv ==
    ASSUME UsageInv, SuperviseDrain \/ SuperviseCheck \/ SuperviseWait \/ SuperviseFails
    PROVE  UsageInv'
<1>1. job # NoPfn /\ Supervised /\ UNCHANGED <<bridge, reply, keepPanel>>
  BY Zenon DEF SuperviseDrain, SuperviseCheck, SuperviseWait, SuperviseFails, At, Supervised,
         keepBridge
<1>2. DOMAIN job' = DOMAIN job /\ job'.pfn = job.pfn
  BY Zenon, <1>1 DEF SuperviseDrain, SuperviseCheck, SuperviseWait, SuperviseFails, UsageInv
<1>3. /\ output \in PipeText /\ pipe \in PipeText
      /\ output' \in PipeText /\ pipe' \in PipeText /\ output' \o pipe' = output \o pipe
  <2>1. output \in PipeText /\ pipe \in PipeText
    BY Zenon, <1>1 DEF UsageInv, Told
  <2>2. CASE Drain
    <3>1. output \o pipe \in PipeText /\ <<>> \in PipeText
          /\ (output \o pipe) \o <<>> = output \o pipe
      BY Zenon, <2>1, Joining, NothingWritten
    <3> QED BY Zenon, <2>1, <2>2, <3>1 DEF Drain
  <2>3. CASE UNCHANGED <<pipe, output>>
    BY Zenon, <2>1, <2>3
  <2> QED BY Zenon, <2>2, <2>3
          DEF SuperviseDrain, SuperviseCheck, SuperviseWait, SuperviseFails, keepBridge
<1>4. Told'
  <2>1. PICK a \in Answers(job.pfn) \cup LibraryPrints(job.pfn) :
          /\ Begins(output \o pipe, a.script)
          /\ bridge.alive => /\ bridge.script \in PipeText
                             /\ (output \o pipe) \o bridge.script = a.script
    BY Zenon, <1>1 DEF UsageInv, Told
  <2>2. /\ Begins(output' \o pipe', a.script)
        /\ bridge'.alive => /\ bridge'.script \in PipeText
                            /\ (output' \o pipe') \o bridge'.script = a.script
    BY Zenon, <1>1, <1>3, <2>1
  <2> QED BY Zenon, <1>2, <1>3, <2>2 DEF Told
<1> QED BY Zenon, <1>1, <1>2, <1>4 DEF UsageInv, WholeResult, AnswerWhole, keepPanel

\* The end of Execute: terminated, or the rest of the pipe parsed.
LEMMA EndOfQueryInv ==
    ASSUME UsageInv, Terminate \/ FinalDrain
    PROVE  UsageInv'
<1>1. job # NoPfn /\ UNCHANGED keepPanel /\ bridge' = NoBridge /\ Supervised
  BY Zenon DEF Terminate, FinalDrain, At, Supervised
<1>2. DOMAIN bridge' = {"alive", "script", "code"}
  BY Zenon, <1>1 DEF NoBridge
<1>3. CASE Publish(Failure)
  BY Zenon, <1>1, <1>2, <1>3, FailedQuery
<1>4. CASE Publish(ParseOutput(job.pfn, output \o pipe))
  <2> DEFINE r == ParseOutput(job.pfn, output \o pipe)
  <2>1. DOMAIN r = {"ok", "pfn", "mappings"} /\ r.ok \in BOOLEAN
    BY Zenon DEF ParseOutput, Success, Failure
  <2>2. r.ok => r.mappings = <<Mapping(r.pfn)>>
    BY Zenon, <1>1, ParsedWhole DEF UsageInv
  <2>3. Publish(r)
    BY Zenon, <1>4
  <2> HIDE DEF r
  <2> QED BY Zenon, <1>1, <1>2, <2>1, <2>2, <2>3, Published
<1> QED BY Zenon, <1>3, <1>4 DEF Terminate, FinalDrain

\* The worker of StartReverseMap, which uses no bridge.
LEMMA ReverseMapInv ==
    ASSUME UsageInv, ReadContext \/ WalkTables
    PROVE  UsageInv'
<1>1. job # NoPfn /\ UNCHANGED <<keepPanel, keepBridge>> /\ ~Supervised
  BY Zenon DEF ReadContext, WalkTables, At, Supervised
<1>2. DOMAIN bridge' = {"alive", "script", "code"}
  BY Zenon, <1>1 DEF keepBridge, UsageInv
<1>3. CASE Publish(Failure)
  BY Zenon, <1>1, <1>2, <1>3, FailedQuery
<1>4. CASE Publish(Success(job.pfn, <<Mapping(job.pfn)>>))
  <2> DEFINE r == Success(job.pfn, <<Mapping(job.pfn)>>)
  <2>1. /\ DOMAIN r = {"ok", "pfn", "mappings"} /\ r.ok \in BOOLEAN
        /\ r.mappings = <<Mapping(r.pfn)>>
    BY Zenon DEF Success
  <2>2. Publish(r)
    BY Zenon, <1>4
  <2> HIDE DEF r
  <2> QED BY Zenon, <1>1, <1>2, <2>1, <2>2, Published
<1>5. CASE job' = [job EXCEPT !.pc = "walk"] /\ reply' = reply
  <2>1. DOMAIN job' = DOMAIN job /\ job'.pfn = job.pfn /\ job'.pc = "walk"
    BY <1>5 DEF UsageInv
  <2>2. ~(Supervised')
    BY Zenon, <2>1 DEF Supervised
  <2> QED BY Zenon, <1>1, <1>5, <2>1, <2>2, JobStep DEF keepBridge
<1> QED BY Zenon, <1>3, <1>4, <1>5 DEF ReadContext, WalkTables

\* The bridge writes, ends or crashes between any two steps.
LEMMA BridgeInv ==
    ASSUME UsageInv, BridgeWrites \/ BridgeReturns \/ BridgeDies
    PROVE  UsageInv'
<1>1. bridge.alive /\ UNCHANGED <<job, output, reply, keepPanel>>
  BY Zenon DEF BridgeWrites, BridgeReturns, BridgeDies
<1>2. DOMAIN bridge' = {"alive", "script", "code"}
  BY Zenon DEF BridgeWrites, BridgeReturns, BridgeDies, UsageInv
<1>3. ASSUME Supervised
      PROVE  Told'
  <2>1. PICK a \in Answers(job.pfn) \cup LibraryPrints(job.pfn) :
          /\ Begins(output \o pipe, a.script)
          /\ bridge.script \in PipeText
          /\ (output \o pipe) \o bridge.script = a.script
    BY Zenon, <1>1, <1>3 DEF UsageInv, Told
  <2>2. output \in PipeText /\ pipe \in PipeText
    BY Zenon, <1>3 DEF UsageInv, Told
  <2>3. CASE BridgeWrites
    <3>1. /\ bridge.script # <<>> /\ pipe' = Append(pipe, Head(bridge.script))
          /\ bridge'.script = Tail(bridge.script)
      BY Zenon, <2>3 DEF BridgeWrites, UsageInv
    <3>2. /\ pipe' \in PipeText /\ bridge'.script \in PipeText
          /\ (output \o pipe') \o bridge'.script = a.script
          /\ Begins(output \o pipe', a.script)
      <4> DEFINE t == bridge.script
      <4>1. /\ Append(pipe, Head(t)) \in PipeText /\ Tail(t) \in PipeText
            /\ (output \o Append(pipe, Head(t))) \o Tail(t) = a.script
            /\ Begins(output \o Append(pipe, Head(t)), a.script)
        <5>1. t \in PipeText /\ t # <<>> /\ (output \o pipe) \o t = a.script
          BY Zenon, <2>1, <3>1
        <5> HIDE DEF t
        <5> QED BY Zenon, <2>2, <5>1, MoveRecord
      <4> QED BY Zenon, <3>1, <4>1
    <3> QED BY Zenon, <1>1, <2>2, <3>2 DEF Told
  <2>4. CASE BridgeReturns \/ BridgeDies
    <3>1. pipe' = pipe
      BY Zenon, <2>4 DEF BridgeReturns, BridgeDies
    <3>2. bridge'.alive = FALSE
      <4>1. CASE BridgeReturns
        BY Zenon, <4>1 DEF BridgeReturns, UsageInv
      <4>2. CASE BridgeDies
        <5>1. PICK code \in {0, 2} : bridge' = [alive |-> FALSE, script |-> <<>>, code |-> code]
          BY Zenon, <4>2 DEF BridgeDies
        <5> QED BY Zenon, <5>1
      <4> QED BY Zenon, <2>4, <4>1, <4>2
    <3> QED BY Zenon, <1>1, <2>1, <2>2, <3>1, <3>2 DEF Told
  <2> QED BY Zenon, <2>3, <2>4
<1>4. Supervised' => Told'
  BY Zenon, <1>1, <1>3 DEF Supervised
<1> QED BY Zenon, <1>1, <1>2, <1>4 DEF UsageInv, WholeResult, AnswerWhole, keepPanel

\* The steps of the UI thread (starting a query, consuming its answer, joining,
\* loading a page, following a mapping) keep the invariant.
LEMMA PanelInv ==
    ASSUME UsageInv,
           StartMemProcFs \/ StartReverseMap \/ ConsumeUsage \/ Joined \/ LoadPage
             \/ Navigate \/ ConsumeNavigation
    PROVE  UsageInv'
<1>0. UNCHANGED keepBridge
  BY Zenon DEF StartMemProcFs, StartReverseMap, StartQuery, ConsumeUsage, Joined, LoadPage,
         Navigate, ConsumeNavigation
<1>1. ASSUME NEW pc \in {"launch", "context"}, StartQuery(pc)
      PROVE  UsageInv'
  <2>1. /\ DOMAIN job' = {"pc", "pfn", "stop", "late", "fresh"}
        /\ job'.pc = pc /\ job'.pfn = loaded /\ reply' = NoPfn /\ UNCHANGED keepPanel
    BY Zenon, <1>1 DEF StartQuery
  <2>2. ~(Supervised')
    BY Zenon, <2>1 DEF Supervised
  <2> QED BY Zenon, <1>0, <2>1, <2>2 DEF UsageInv, WholeResult, AnswerWhole, keepPanel, keepBridge
<1>2. CASE ConsumeUsage
  <2>1. job' = NoPfn /\ reply' = NoPfn /\ UNCHANGED <<loaded, navigation>>
    BY Zenon, <1>2 DEF ConsumeUsage
  <2>2. published' # NoPfn => published'.mappings = <<Mapping(published'.pfn)>>
    BY Zenon, <1>2 DEF ConsumeUsage, UsageInv, WholeResult, AnswerWhole
  <2> QED BY Zenon, <1>0, <2>1, <2>2 DEF UsageInv, WholeResult, AnswerWhole, keepBridge, Supervised
<1>3. CASE Joined
  BY Zenon, <1>3 DEF Joined, UsageInv, WholeResult, AnswerWhole, keepPanel, keepBridge, Supervised
<1>4. CASE LoadPage
  BY Zenon, <1>4 DEF LoadPage, UiFree, UsageInv, WholeResult, AnswerWhole, keepBridge,
              Supervised, Told
<1>5. CASE Navigate
  <2>1. /\ published.mappings = <<Mapping(loaded)>>
        /\ UNCHANGED <<loaded, job, keepBridge, reply, published>>
    BY Zenon, <1>5 DEF Navigate, NotStale, UsageInv, AnswerWhole
  <2>2. PICK i \in 1 .. Len(published.mappings) : navigation' = published.mappings[i]
    BY Zenon, <1>5 DEF Navigate
  <2>3. navigation' = Mapping(loaded)
    BY <2>1, <2>2
  <2> QED BY Zenon, <2>1, <2>3 DEF UsageInv, WholeResult, AnswerWhole, keepBridge, Supervised, Told
<1>6. CASE ConsumeNavigation
  BY Zenon, <1>6 DEF ConsumeNavigation, UsageInv, WholeResult, AnswerWhole, keepBridge,
              Supervised, Told
<1> QED BY Zenon, <1>1, <1>2, <1>3, <1>4, <1>5, <1>6 DEF StartMemProcFs, StartReverseMap

\* A stop request and the passing of the deadline change no answer.
LEMMA RequestInv ==
    ASSUME UsageInv, Timeout \/ CancelQuery \/ CancelAndWait
    PROVE  UsageInv'
<1>1. /\ job # NoPfn /\ DOMAIN job' = DOMAIN job /\ job'.pfn = job.pfn
      /\ job'.pc = job.pc /\ UNCHANGED <<keepBridge, reply, keepPanel>>
  BY Zenon DEF Timeout, CancelQuery, CancelAndWait, QueryBusy, UsageInv
<1> QED BY Zenon, <1>1, JobStep DEF keepBridge

\* The panel starts with no query and no answer.
LEMMA UsageInit == UInit => UsageInv
BY Zenon DEF UInit, UsageInv, NoBridge, Supervised, WholeResult, AnswerWhole

\* Every step of the panel, its worker and the bridge keeps the invariant.
LEMMA UsageNext ==
    ASSUME UsageInv, [UNext]_uvars
    PROVE  UsageInv'
<1>1. CASE UNCHANGED uvars
  BY Zenon, <1>1 DEF uvars, UsageInv, Supervised, Told, WholeResult, AnswerWhole
<1> QED BY Zenon, <1>1, LaunchInv, SuperviseInv, EndOfQueryInv, ReverseMapInv, BridgeInv,
           PanelInv, RequestInv DEF UNext, Supervise

\* ProcessUsagePanel: the mappings on display are the whole answer for the
\* frame they are labelled with, and a click leads to a mapping of the loaded one,
\* whatever the bridge process does and whenever it dies.
THEOREM AnswerStaysWhole == USpec => []AnswerWhole
<1>1. UsageInv => AnswerWhole
  BY Zenon DEF UsageInv
<1> QED BY <1>1, UsageInit, UsageNext, PTL DEF USpec

-----------------------------------------------------------------------------
(* The saving of files: TableSurvives for any number of instances, names     *)
(* and saves.  The strengthening says what a save may rely on between its    *)
(* steps although other instances save, fail, are killed and lose power:     *)
(* its temporary file bears its own process identifier, so nobody else       *)
(* touches it.                                                               *)

File == [seen : Data, disk : Data]
Save == [pc : {"create", "write", "flush", "replace"}, name : Name, content : Content]

\* A save in progress, and what it has done to its temporary file.
SaveInv(p) ==
    saver[p] # NotSaving =>
        /\ saver[p].name[1] = p
        /\ saver[p].pc = "flush" => files[saver[p].name].seen = saver[p].content
        /\ saver[p].pc = "replace" =>
               files[saver[p].name] = [seen |-> saver[p].content, disk |-> saver[p].content]

FileInv ==
    /\ files \in [Name -> File]
    /\ saver \in [Pid -> Save \cup {NotSaving}]
    /\ \A p \in Pid : SaveInv(p)
    /\ TableSurvives

\* The start of the program: no save, and a whole table or none.
LEMMA FileInitInv == FileInit => FileInv
BY DEF FileInit, NoSave, FileInv, SaveInv, TableSurvives, NoFile, File, Data

\* A step of p that changes at most the save of p and the temporary files of p
\* keeps what is known of the other saves.
LEMMA OthersKept ==
    ASSUME FileInv, NEW p \in Pid, NEW q \in Pid, q # p,
           saver'[q] = saver[q],
           \A n \in Name : n[1] = q => files'[n] = files[n]
    PROVE  SaveInv(q)'
<1>1. SaveInv(q) /\ saver[q] \in Save \cup {NotSaving}
  BY Zenon DEF FileInv
<1>2. CASE saver[q] = NotSaving
  BY Zenon, <1>2 DEF SaveInv
<1>3. CASE saver[q] # NotSaving
  <2>1. saver[q].name \in Name /\ saver[q].name[1] = q
    BY Zenon, <1>1, <1>3 DEF SaveInv, Save
  <2>2. files'[saver[q].name] = files[saver[q].name]
    BY Zenon, <2>1
  <2> QED BY Zenon, <1>1, <2>2 DEF SaveInv
<1> QED BY Zenon, <1>2, <1>3

\* A step of p that moves its save to s and its temporary file n to f.
LEMMA OwnStep ==
    ASSUME FileInv, NEW p \in Pid, NEW n \in Name, n[1] = p, NEW f \in File,
           NEW s \in Save \cup {NotSaving},
           saver' = [saver EXCEPT ![p] = s],
           files' = [files EXCEPT ![n] = f],
           s # NotSaving =>
               /\ s.name = n
               /\ s.pc = "flush" => f.seen = s.content
               /\ s.pc = "replace" => f = [seen |-> s.content, disk |-> s.content],
           TableSurvives'
    PROVE  FileInv'
<1>1. files' \in [Name -> File] /\ saver' \in [Pid -> Save \cup {NotSaving}]
  BY Zenon DEF FileInv
<1>2. SaveInv(p)'
  <2>1. saver'[p] = s /\ files'[n] = f
    BY Zenon DEF FileInv
  <2> QED BY Zenon, <2>1 DEF SaveInv
<1>3. ASSUME NEW q \in Pid, q # p PROVE SaveInv(q)'
  <2>1. saver'[q] = saver[q] /\ \A m \in Name : m[1] = q => files'[m] = files[m]
    BY Zenon, <1>3 DEF FileInv
  <2> QED BY Zenon, <1>3, <2>1, OthersKept
<1> QED BY Zenon, <1>1, <1>2, <1>3 DEF FileInv

\* Where a save stands that is not idle.
LEMMA Saving ==
    ASSUME FileInv, NEW p \in Pid, saver[p].pc # "idle"
    PROVE  /\ saver[p] \in Save /\ saver[p] # NotSaving
           /\ saver[p].name \in Name /\ saver[p].name[1] = p
           /\ files[saver[p].name] \in File
           /\ saver[p].pc = "flush" => files[saver[p].name].seen = saver[p].content
           /\ saver[p].pc = "replace" =>
                  files[saver[p].name] = [seen |-> saver[p].content, disk |-> saver[p].content]
<1>1. saver[p] \in Save \cup {NotSaving} /\ SaveInv(p)
  BY Zenon DEF FileInv
<1>2. saver[p] # NotSaving
  BY DEF NotSaving
<1>3. saver[p] \in Save
  BY Zenon, <1>1, <1>2
<1>4. saver[p].name \in Name
  BY Zenon, <1>3 DEF Save
<1> QED BY Zenon, <1>1, <1>2, <1>3, <1>4 DEF SaveInv, FileInv

\* Every step of a save, whole or failed, of a killed instance and of the power.
LEMMA FileStepInv == FileInv /\ [FileNext]_fileVars => FileInv'
<1> SUFFICES ASSUME FileInv, [FileNext]_fileVars PROVE FileInv'
  BY Zenon
<1>0. TableSurvives /\ (UNCHANGED <<table, whole>> => TableSurvives')
  BY Zenon DEF FileInv, TableSurvives
<1>1. ASSUME NEW p \in Pid, NEW c \in Content, StartSave(p, c)
      PROVE  FileInv'
  <2>1. PICK o \in 0 .. MaxOrdinal :
            saver' = [saver EXCEPT ![p] =
                         [pc |-> "create", name |-> <<p, o>>, content |-> c]]
    BY Zenon, <1>1 DEF StartSave, TemporarySibling
  <2> DEFINE n == <<p, o>>
             s == [pc |-> "create", name |-> n, content |-> c]
  <2>2. n \in Name /\ n[1] = p
    BY Zenon DEF Name
  <2>3. files[n] \in File /\ files' = [files EXCEPT ![n] = files[n]]
    BY Zenon, <1>1, <2>2 DEF StartSave, FileInv
  <2>4. s \in Save /\ s.name = n /\ s.pc = "create"
    BY Zenon, <2>2 DEF Save
  <2>5. TableSurvives'
    BY Zenon, <1>0, <1>1 DEF StartSave
  <2>6. saver' = [saver EXCEPT ![p] = s]
    BY Zenon, <2>1
  <2> HIDE DEF n, s
  <2> QED BY Zenon, <2>2, <2>3, <2>4, <2>5, <2>6, OwnStep
<1>2. ASSUME NEW p \in Pid, Create(p)
      PROVE  FileInv'
  <2> DEFINE n == saver[p].name
             f == [files[n] EXCEPT !.seen = "torn"]
             s == [saver[p] EXCEPT !.pc = "write"]
  <2>1. n \in Name /\ n[1] = p /\ files[n] \in File /\ saver[p] \in Save
    BY Zenon, <1>2, Saving DEF Create
  <2>2. f \in File
    BY Zenon, <2>1 DEF File, Data
  <2>3. s \in Save /\ s.name = n /\ s.pc = "write"
    BY Zenon, <2>1 DEF Save
  <2>4. saver' = [saver EXCEPT ![p] = s] /\ files' = [files EXCEPT ![n] = f]
    BY Zenon, <1>2 DEF Create, Goto
  <2>5. TableSurvives'
    BY Zenon, <1>0, <1>2 DEF Create
  <2> HIDE DEF n, f, s
  <2> QED BY Zenon, <2>1, <2>2, <2>3, <2>4, <2>5, OwnStep
<1>3. ASSUME NEW p \in Pid, WriteRows(p)
      PROVE  FileInv'
  <2> DEFINE n == saver[p].name
             f == [files[n] EXCEPT !.seen = saver[p].content]
             s == [saver[p] EXCEPT !.pc = "flush"]
  <2>1. n \in Name /\ n[1] = p /\ files[n] \in File /\ saver[p] \in Save
    BY Zenon, <1>3, Saving DEF WriteRows
  <2>2. f \in File /\ f.seen = saver[p].content
    BY Zenon, <2>1 DEF File, Data, Save
  <2>3. s \in Save /\ s.name = n /\ s.pc = "flush" /\ s.content = saver[p].content
    BY Zenon, <2>1 DEF Save
  <2>4. saver' = [saver EXCEPT ![p] = s] /\ files' = [files EXCEPT ![n] = f]
    BY Zenon, <1>3 DEF WriteRows, Goto
  <2>5. TableSurvives'
    BY Zenon, <1>0, <1>3 DEF WriteRows
  <2> HIDE DEF n, f, s
  <2> QED BY Zenon, <2>1, <2>2, <2>3, <2>4, <2>5, OwnStep
<1>4. ASSUME NEW p \in Pid, FlushFileToDisk(p)
      PROVE  FileInv'
  <2> DEFINE n == saver[p].name
             f == Flushed(files[n])
             s == [saver[p] EXCEPT !.pc = "replace"]
  <2>1. /\ n \in Name /\ n[1] = p /\ files[n] \in File /\ saver[p] \in Save
        /\ files[n].seen = saver[p].content
    BY Zenon, <1>4, Saving DEF FlushFileToDisk
  <2>2. f \in File /\ f = [seen |-> saver[p].content, disk |-> saver[p].content]
    BY <2>1 DEF File, Flushed
  <2>3. s \in Save /\ s.name = n /\ s.pc = "replace" /\ s.content = saver[p].content
    BY Zenon, <2>1 DEF Save
  <2>4. saver' = [saver EXCEPT ![p] = s] /\ files' = [files EXCEPT ![n] = f]
    BY Zenon, <1>4 DEF FlushFileToDisk, Goto
  <2>5. TableSurvives'
    BY Zenon, <1>0, <1>4 DEF FlushFileToDisk
  <2> HIDE DEF n, f, s
  <2> QED BY Zenon, <2>1, <2>2, <2>3, <2>4, <2>5, OwnStep
<1>5. ASSUME NEW p \in Pid, ReplaceAtomically(p)
      PROVE  FileInv'
  <2> DEFINE n == saver[p].name
  <2>1. /\ n \in Name /\ n[1] = p
        /\ files[n] = [seen |-> saver[p].content, disk |-> saver[p].content]
    BY Zenon, <1>5, Saving DEF ReplaceAtomically
  <2>2. TableSurvives'
    BY Zenon, <1>5, <2>1 DEF ReplaceAtomically, TableSurvives
  <2>3. NoFile \in File
    BY Zenon DEF NoFile, File, Data
  <2> HIDE DEF n
  <2> QED BY Zenon, <1>5, <2>1, <2>2, <2>3, OwnStep DEF ReplaceAtomically, n
<1>6. ASSUME NEW p \in Pid, FailSave(p) \/ Kill(p)
      PROVE  FileInv'
  <2> DEFINE n == saver[p].name
  <2>1. n \in Name /\ n[1] = p /\ files[n] \in File
    BY Zenon, <1>6, Saving DEF FailSave, Kill
  <2>2. NoFile \in File
    BY Zenon DEF NoFile, File, Data
  <2>3. files = [files EXCEPT ![n] = files[n]]
    BY Zenon DEF FileInv
  <2>4. PICK f \in File : files' = [files EXCEPT ![n] = f]
    BY Zenon, <1>6, <2>1, <2>2, <2>3 DEF FailSave, Kill
  <2>5. saver' = [saver EXCEPT ![p] = NotSaving] /\ UNCHANGED <<table, whole>>
    BY Zenon, <1>6 DEF FailSave, Kill, AfterFailure
  <2> HIDE DEF n
  <2> QED BY Zenon, <1>0, <2>1, <2>4, <2>5, OwnStep
<1>7. CASE PowerFailure
  <2>1. \A f \in File : Remains(f) \subseteq File
    BY DEF Remains, File, Data
  <2>2. files' \in [Name -> File]
    BY Zenon, <1>7, <2>1 DEF PowerFailure, FileInv
  <2>3. TableSurvives'
    BY Zenon, <1>7 DEF PowerFailure, TableSurvives, FileInv, Remains
  <2> QED BY Zenon, <1>7, <2>2, <2>3 DEF PowerFailure, FileInv, SaveInv
<1>8. CASE UNCHANGED fileVars
  BY Zenon, <1>8 DEF fileVars, FileInv, SaveInv, TableSurvives
<1> QED BY Zenon, <1>1, <1>2, <1>3, <1>4, <1>5, <1>6, <1>7, <1>8 DEF FileNext

\* The table is a whole saved content, the last one whose save succeeded, at
\* every moment and after every crash, for any number of programs that save.
THEOREM TableAlwaysSurvives == FileSpec => []TableSurvives
<1>1. FileInv => TableSurvives
  BY Zenon DEF FileInv
<1> QED BY FileInitInv, FileStepInv, <1>1, PTL DEF FileSpec
=============================================================================
