----------------------------- MODULE KDbgBackend -----------------------------
(***************************************************************************)
(* The user-mode client of the KDBG driver (core/memory/KDbgBackend.cpp):  *)
(* one device handle, the driver's one-shot write gate of that handle, and *)
(* the client's own mirror of the gate, which decides whether a write is   *)
(* sent at all.  A recursive mutex makes every public operation atomic, so *)
(* an operation is one action; what is not atomic is the exchange with the *)
(* driver, where each request may be lost before it takes effect, or may   *)
(* take effect and have its answer lost or rejected by the client.         *)
(*                                                                         *)
(* Page contents and the transaction's own outcome (applied, conflict,     *)
(* failed) are the subject of KDbgDriver and PhysicalPageSession; here an  *)
(* answer is only accepted or rejected.                                    *)
(***************************************************************************)
EXTENDS Integers

CONSTANT IdLimit  \* 2^64 in the code: transaction ids wrap at this value

ASSUME BackendAssumption == IdLimit \in Nat /\ IdLimit > 2

VARIABLES
    connected,           \* Impl::connected, equal to "the device handle is open"
    driver_gate,         \* the driver's write gate of that handle
    write_enabled,       \* Impl::write_enabled, the mirror
    next_transaction_id, \* Impl::next_transaction_id
    last,                \* the operation that just returned
    origin               \* history: what the open mirror rests on, since the
                         \* last close, failure or write

backendVars == <<connected, driver_gate, write_enabled, next_transaction_id, last, origin>>

\* A write is "Send" when its request went to the driver, "Write" when not.
Op == {"none", "Open", "Close", "QuerySessionStatus", "Enable", "Disable", "Write", "Send"}

\* The type invariant.
BackendTypeOK ==
    /\ connected \in BOOLEAN
    /\ driver_gate \in BOOLEAN
    /\ write_enabled \in BOOLEAN
    /\ next_transaction_id \in 0 .. IdLimit - 1
    /\ last \in [op : Op, result : {"Success", "Failure"}, id : 0 .. IdLimit - 1]
    /\ origin \in {"none", "enable", "status"}

BackendInit ==
    /\ connected = FALSE
    /\ driver_gate = FALSE
    /\ write_enabled = FALSE
    /\ next_transaction_id = 1
    /\ last = [op |-> "none", result |-> "Success", id |-> 0]
    /\ origin = "none"

Outcome(ok) == IF ok THEN "Success" ELSE "Failure"

Return(op, ok) == last' = [op |-> op, result |-> Outcome(ok), id |-> last.id]

-----------------------------------------------------------------------------
(* The exchange with the driver: ok says that the client accepted the      *)
(* answer, g and h are the gate before and after.                          *)

\* SET_WRITE_MODE: lost, or executed with its answer accepted or not.  A
\* request the driver rejects closes the gate.
BackendSetWriteMode(enable, g, ok, h) ==
    IF ok THEN connected /\ h = enable
    ELSE h \in IF connected THEN {g, FALSE, enable} ELSE {g}

\* A write request: the driver consumes the gate before anything else, so
\* only a request that never reached it leaves the gate open.
WriteRequest(g, ok, h) ==
    IF ok THEN h = FALSE ELSE h \in {g, FALSE}

\* GET_SESSION_STATUS answered with a well-formed response, or not.
StatusAnswered == IF connected THEN BOOLEAN ELSE {FALSE}

\* faulty variant: an answer is proof enough
StatusProves(answered, h) == answered

\* ForceWriteGateClosed proves the gate closed by the status alone, whatever
\* the disable request answered.
Proven(answered, h) == answered /\ ~h

ForceWriteGateClosed(g, ok, h) ==
    \E disabled \in BOOLEAN, answered \in StatusAnswered :
        /\ BackendSetWriteMode(FALSE, g, disabled, h)
        /\ ok = Proven(answered, h)

\* The mirror after ForceWriteGateClosed, proven or not.
ForcedMirror(g) == FALSE

-----------------------------------------------------------------------------
(* The public operations. *)

\* Open: a new handle, whose gate the driver creates closed; the version
\* and status exchanges succeed, or the handle is closed again.
Open ==
    /\ IF connected
       THEN /\ Return("Open", FALSE)
            /\ UNCHANGED <<connected, driver_gate, write_enabled, next_transaction_id, origin>>
       ELSE \E ok \in BOOLEAN :
                /\ connected' = ok
                /\ driver_gate' = FALSE
                /\ write_enabled' = FALSE
                /\ next_transaction_id' = IF ok THEN next_transaction_id ELSE 1
                /\ origin' = "none"
                /\ Return("Open", ok)

\* Close: the disable request's outcome is ignored, because closing the
\* handle runs the driver's cleanup.
CloseBackend ==
    /\ connected' = FALSE
    /\ driver_gate' = FALSE
    /\ write_enabled' = FALSE
    /\ next_transaction_id' = 1
    /\ origin' = "none"
    /\ last' = [op |-> "Close", result |-> "Success", id |-> 0]

\* The mirror takes the value the driver reports, also when the window's
\* "Query Driver Counters" button asks.
Reported(answered) == IF answered THEN driver_gate ELSE write_enabled

QuerySessionStatus ==
    /\ \E answered \in StatusAnswered :
           /\ write_enabled' = Reported(answered)
           /\ Return("QuerySessionStatus", answered)
           /\ origin' = IF answered /\ driver_gate /\ origin = "none" THEN "status" ELSE origin
    /\ UNCHANGED <<connected, driver_gate, next_transaction_id>>

\* SetWriteEnabled(true): an answer that is not accepted is followed by
\* ForceWriteGateClosed.
Enable ==
    /\ \/ /\ BackendSetWriteMode(TRUE, driver_gate, TRUE, TRUE)
          /\ driver_gate' = TRUE
          /\ write_enabled' = TRUE
          /\ origin' = "enable"
          /\ Return("Enable", TRUE)
       \/ /\ \E h, k, ok \in BOOLEAN :
                 /\ BackendSetWriteMode(TRUE, driver_gate, FALSE, h)
                 /\ ForceWriteGateClosed(h, ok, k)
                 /\ driver_gate' = k
          /\ write_enabled' = ForcedMirror(driver_gate')
          /\ origin' = "none"
          /\ Return("Enable", FALSE)
    /\ UNCHANGED <<connected, next_transaction_id>>

\* ForceWriteGateClosed as the whole operation: SetWriteEnabled(false), and
\* what a write request of the wrong shape leads to.
Disable(op) ==
    /\ \E h, ok \in BOOLEAN :
           /\ ForceWriteGateClosed(driver_gate, ok, h)
           /\ driver_gate' = h
           /\ Return(op, op = "Disable" /\ ok)
    /\ write_enabled' = ForcedMirror(driver_gate')
    /\ origin' = "none"
    /\ UNCHANGED <<connected, next_transaction_id>>

\* next_transaction_id++, and what it leaves for the next call.
After(id) == (id + 1) % IdLimit

\* The id of a transaction: 0 is skipped.
TransactionId(id) == IF id = 0 THEN After(id) ELSE id

\* faulty variant: the mirror is cleared only when the write succeeded
ClearOnSuccess(ok) == IF ok THEN FALSE ELSE write_enabled

\* The mirror once a write request has been sent, before its answer is read.
Consumed(ok) == FALSE

\* A write the mirror lets through: an accepted answer (of a transaction, or of
\* a write and its read-back) ends the operation, any other outcome is
\* followed by ForceWriteGateClosed.  An authorization is good for one write.
Send(id) ==
    \E answered, accepted, h \in BOOLEAN :
        LET ok == answered /\ accepted
        IN  /\ WriteRequest(driver_gate, answered, h)
            /\ last' = [op |-> "Send", result |-> Outcome(ok), id |-> id]
            /\ write_enabled' = Consumed(ok)
            /\ IF ok THEN driver_gate' = h
               ELSE \E k, closed \in BOOLEAN :
                        ForceWriteGateClosed(h, closed, k) /\ driver_gate' = k
            /\ origin' = "none"

\* A write with the mirror closed is refused without reaching the driver.
Refuse ==
    /\ ~write_enabled
    /\ Return("Write", FALSE)
    /\ UNCHANGED <<connected, driver_gate, write_enabled, next_transaction_id, origin>>

\* A request of the wrong shape closes the gate instead.
RejectInvalid ==
    /\ write_enabled
    /\ Disable("Write")

\* faulty variant: the mirror is not consulted
WriteUnchecked ==
    /\ Send(last.id)
    /\ UNCHANGED <<connected, next_transaction_id>>

\* WritePhysical and WriteProcessVirtual, which carry no transaction id.
WritePhysical ==
    /\ write_enabled
    /\ Send(last.id)
    /\ UNCHANGED <<connected, next_transaction_id>>

CompareWritePhysicalPage ==
    /\ write_enabled
    /\ LET id == TransactionId(next_transaction_id)
       IN  /\ Send(id)
           /\ next_transaction_id' = After(id)
    /\ UNCHANGED connected

BackendNext ==
    \/ Open
    \/ CloseBackend
    \/ QuerySessionStatus
    \/ Enable
    \/ Disable("Disable")
    \/ Refuse
    \/ RejectInvalid
    \/ WritePhysical
    \/ CompareWritePhysicalPage

BackendSpec == BackendInit /\ [][BackendNext]_backendVars

-----------------------------------------------------------------------------
(* Properties. *)

\* The mirror never lets through a write that the driver would refuse for a
\* closed gate: whatever requests and answers were lost, an open mirror means
\* an open handle with an open gate.
MirrorSound == write_enabled => connected /\ driver_gate

\* SetWriteEnabled(false) reports success only for a gate that is closed, even
\* when the disable request or its answer was lost (ForceWriteGateClosed).
CloseTruthful ==
    [][last'.op = "Disable" /\ last'.result = "Success" => ~driver_gate']_backendVars

\* An enable, disable or write that fails leaves the mirror closed, so no
\* failure path can let a second write through ("Mirror that state before
\* inspecting the response", WritePhysical).
FailClosed ==
    [][/\ last'.op \in {"Enable", "Disable", "Write", "Send"}
       /\ last'.result = "Failure"
       => ~write_enabled']_backendVars

\* Every write that is sent rests on an enable that succeeded, or on a status
\* report of an open gate, since the last close, failure or write of this
\* backend ("Never let an uncertain kernel state authorize another write
\* through this backend instance", ForceWriteGateClosed).
WritesFounded ==
    [][last'.op = "Send" => origin # "none"]_backendVars
=============================================================================
