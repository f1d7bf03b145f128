----------------------------- MODULE KDbgDriver -----------------------------
(***************************************************************************)
(* KDbgDriver.sys: controller ownership, the per-handle one-shot write     *)
(* gate and the physical page transactions, as they interleave when        *)
(* several threads have requests in flight.                                *)
(*                                                                         *)
(* A thread runs one dispatch routine at a time; pc[t] is the place it has *)
(* reached in it.  A step is what the routine does between two points      *)
(* where another thread can see or change the same state: a lock it has to *)
(* wait for, an interlocked access made outside a lock, one byte of a      *)
(* copy.  OwnerLock is never held across such a point, so its critical     *)
(* sections are single steps; WriteLock and PhysicalTransactionLock are.   *)
(*                                                                         *)
(* One physical page stands for physical memory: PhysicalTransactionLock   *)
(* is global, so requests for different pages only interfere less.         *)
(***************************************************************************)
EXTENDS Integers, FiniteSets

CONSTANTS
    Process,          \* PEPROCESS values that reach the device
    Handle,           \* file objects of the device
    Thread,           \* threads that carry an IRP
    Offset,           \* byte offsets of the page
    Byte,             \* byte values
    Requested,        \* IOCTL codes the clients use
    None,             \* nullptr: no process, no lock holder, no page
    MaxRequests,      \* bound: IOCTLs issued in a behaviour
    Synchronous,      \* file objects opened without FILE_FLAG_OVERLAPPED
    ExternalWriters   \* the OS, devices or a process write the page too

Page == [Offset -> Byte]

ASSUME ConstantsAssumption ==
    /\ Requested \subseteq {"SET_WRITE_MODE", "READ_PHYSICAL", "WRITE_PHYSICAL",
                            "COMPARE_WRITE_PHYSICAL_PAGE", "WRITE_PROCESS_MEMORY"}
    /\ IsFiniteSet(Handle)
    /\ None \notin Process \cup Thread \cup Page
    /\ MaxRequests \in Nat
    /\ Synchronous \in BOOLEAN
    /\ ExternalWriters \in BOOLEAN

VARIABLES
    file,             \* I/O manager: life of each file object
    ctxOwner,         \* FileContext.OwnerProcess, None when FsContext is null
    CleanedUp,        \* FileContext.CleanedUp
    WriteEnabled,     \* FileContext.WriteEnabled: the one-shot gate
    WriteLock,        \* FileContext.WriteLock: the thread that holds it
    OwnerProcess,     \* g_state.OwnerProcess
    OpenHandleCount,  \* g_state.OpenHandleCount
    TxLock,           \* g_state.PhysicalTransactionLock
    SuccessfulWrites, \* g_state.SuccessfulWrites
    RejectedWrites,   \* g_state.RejectedWrites
    writeStage,       \* g_state.LastPhysicalWriteStage
    writeStatus,      \* g_state.LastPhysicalWriteStatus
    page,             \* the physical page
    pc,               \* where a thread is in its dispatch routine
    irp,              \* the request a thread carries, None when it has none
    todo,             \* offsets the copy of a thread has still to write
    result,           \* what the last IOCTL of a thread returned
    data,             \* the page in that answer, None when it carries none
    issued,           \* IOCTLs issued so far, for MaxRequests
    \* History, read by properties only:
    spent,            \* gates consumed on a handle since its last enable
    applied, refused, \* write requests completed with and without success
    before            \* the page when the current copy began

ctxVars == <<file, ctxOwner, CleanedUp>>
ownVars == <<OwnerProcess, OpenHandleCount>>
gateVars == <<WriteEnabled, spent>>
statVars == <<SuccessfulWrites, RejectedWrites>>
histVars == <<applied, refused>>
diagVars == <<writeStage, writeStatus>>
lockVars == <<WriteLock, TxLock>>
pageVars == <<page, before>>
reqVars == <<pc, irp, todo, result, data, issued, histVars>>
vars == <<ctxVars, ownVars, gateVars, statVars, diagVars, lockVars, pageVars,
          reqVars>>

PhysicalWriteCode == {"WRITE_PHYSICAL", "COMPARE_WRITE_PHYSICAL_PAGE"}
WriteCode == PhysicalWriteCode \cup {"WRITE_PROCESS_MEMORY"}
Code == WriteCode \cup {"SET_WRITE_MODE", "READ_PHYSICAL", "CLEANUP"}

\* The fields of a request that the driver's control flow depends on.  span is
\* the part of the page a write covers; a compare-write covers all of it.
Irp == [handle : Handle, process : Process, code : Code,
        expected : Page \cup {None}, desired : Page \cup {None},
        span : SUBSET Offset]

ASSUME NoneAssumption ==
    /\ None \notin Irp
    /\ None \notin [code : Code, expected : Page \cup {None}, desired : Page \cup {None},
                    span : SUBSET Offset]

\* A request carries the pages its code uses.
Request ==
    {r \in Irp :
        /\ r.code \in Requested
        /\ r.code \in WriteCode <=> r.desired # None
        /\ r.code \in WriteCode <=> r.span # {}
        /\ r.code = "COMPARE_WRITE_PHYSICAL_PAGE" <=> r.expected # None
        /\ r.code = "COMPARE_WRITE_PHYSICAL_PAGE" => r.span = Offset}

HoldsTx == {"compare", "copy", "readback"}
HoldsWrite == HoldsTx \cup {"physical", "process"}
InCleanup == {"cleanupGate", "cleanupOwner"}
PC == HoldsWrite \cup InCleanup \cup {"idle", "dispatch", "denied", "entry"}

Result == {"none", "ok", "rejected", "APPLIED", "CONFLICT", "FAILED", "error"}
Stage == {"NONE", "VALIDATION", "MAPPING", "COPYING", "COMPLETE", "COMPARING",
          "READBACK"}
Status == {"SUCCESS", "PENDING", "ERROR", "REVISION_MISMATCH"}

ContextsOK ==
    /\ file \in [Handle -> {"free", "open", "closing", "cleaned"}]
    /\ ctxOwner \in [Handle -> Process \cup {None}]
    /\ CleanedUp \in [Handle -> BOOLEAN]
OwnerOK == OwnerProcess \in Process \cup {None} /\ OpenHandleCount \in Nat
GatesOK == WriteEnabled \in [Handle -> BOOLEAN] /\ spent \in [Handle -> Nat]
CountersOK == SuccessfulWrites \in Nat /\ RejectedWrites \in Nat
DiagnosticsOK == writeStage \in Stage /\ writeStatus \in Status
LocksOK ==
    /\ WriteLock \in [Handle -> Thread \cup {None}]
    /\ TxLock \in Thread \cup {None}
PagesOK == page \in Page /\ before \in Page
RequestsOK ==
    /\ pc \in [Thread -> PC]
    /\ irp \in [Thread -> Irp \cup {None}]
    /\ todo \in [Thread -> SUBSET Offset]
    /\ result \in [Thread -> Result]
    /\ data \in [Thread -> Page \cup {None}]
    /\ issued \in 0..MaxRequests
    /\ applied \in Nat
    /\ refused \in Nat

\* The state is well formed: no dispatch routine leaves a context, a counter, a
\* lock word, a diagnostic field or a request outside its range.
TypeOK ==
    /\ ContextsOK
    /\ OwnerOK
    /\ GatesOK
    /\ CountersOK
    /\ DiagnosticsOK
    /\ LocksOK
    /\ PagesOK
    /\ RequestsOK

\* DriverEntry: a zeroed g_state and two initialised mutexes.
Init ==
    /\ file = [h \in Handle |-> "free"]
    /\ ctxOwner = [h \in Handle |-> None]
    /\ CleanedUp = [h \in Handle |-> FALSE]
    /\ WriteEnabled = [h \in Handle |-> FALSE]
    /\ WriteLock = [h \in Handle |-> None]
    /\ OwnerProcess = None
    /\ OpenHandleCount = 0
    /\ TxLock = None
    /\ SuccessfulWrites = 0
    /\ RejectedWrites = 0
    /\ writeStage = "NONE"
    /\ writeStatus = "SUCCESS"
    /\ page \in Page
    /\ before = page
    /\ pc = [t \in Thread |-> "idle"]
    /\ irp = [t \in Thread |-> None]
    /\ todo = [t \in Thread |-> {}]
    /\ result = [t \in Thread |-> "none"]
    /\ data = [t \in Thread |-> None]
    /\ issued = 0
    /\ spent = [h \in Handle |-> 0]
    /\ applied = 0
    /\ refused = 0
-----------------------------------------------------------------------------
\* Threads with a request on file object h.
InFlight(h) == {t \in Thread : irp[t] # None /\ irp[t].handle = h}

\* Complete(irp, status, information): the request leaves the driver.
Complete(t, r, d) ==
    /\ pc' = [pc EXCEPT ![t] = "idle"]
    /\ irp' = [irp EXCEPT ![t] = None]
    /\ todo' = [todo EXCEPT ![t] = {}]
    /\ result' = [result EXCEPT ![t] = r]
    /\ data' = [data EXCEPT ![t] = d]
    /\ applied' = IF irp[t].code \in WriteCode /\ r \in {"ok", "APPLIED"}
                  THEN applied + 1 ELSE applied
    /\ refused' = IF \/ irp[t].code \in WriteCode /\ r \notin {"ok", "APPLIED"}
                     \/ irp[t].code = "SET_WRITE_MODE" /\ r # "ok"
                  THEN refused + 1 ELSE refused
    /\ UNCHANGED issued

Goto(t, l) ==
    /\ pc' = [pc EXCEPT ![t] = l]
    /\ UNCHANGED <<irp, result, data, issued, histVars>>

\* InterlockedExchange(&context->WriteEnabled, 0).
CloseGate(h) ==
    /\ WriteEnabled' = [WriteEnabled EXCEPT ![h] = FALSE]
    /\ UNCHANGED spent

\* InterlockedCompareExchange(&context->WriteEnabled, 0, 1) == 1.
TestGate(h) ==                                                \* faulty variant
    /\ WriteEnabled[h]
    /\ spent' = [spent EXCEPT ![h] = @ + 1]
    /\ UNCHANGED WriteEnabled
ConsumeGate(h) ==
    /\ WriteEnabled[h]
    /\ WriteEnabled' = [WriteEnabled EXCEPT ![h] = FALSE]
    /\ spent' = [spent EXCEPT ![h] = @ + 1]

\* InterlockedExchange(&context->WriteEnabled, 1).
OpenGate(h) ==
    /\ WriteEnabled' = [WriteEnabled EXCEPT ![h] = TRUE]
    /\ spent' = [spent EXCEPT ![h] = 0]

CountRejected ==
    /\ RejectedWrites' = RejectedWrites + 1
    /\ UNCHANGED SuccessfulWrites

CountSuccessful ==
    /\ SuccessfulWrites' = SuccessfulWrites + 1
    /\ UNCHANGED RejectedWrites

\* SetPhysicalWriteStage and SetPhysicalWriteResult.
Diagnose(stage, status) == writeStage' = stage /\ writeStatus' = status

\* FastMutexGuard: the constructors and destructors of a write path.
AcquireTxUnguarded(t) == TxLock' = t                          \* faulty variant
AcquireTx(t) == TxLock = None /\ TxLock' = t
ReleaseWrite(h) == WriteLock' = [WriteLock EXCEPT ![h] = None]
ReleaseWriteOnly(h) == ReleaseWrite(h) /\ UNCHANGED TxLock    \* faulty variant
ReleaseBoth(h) == ReleaseWrite(h) /\ TxLock' = None

\* A write path that fails before the gate is consumed closes the gate.
RejectAndClose(t, stage, status) ==
    /\ CloseGate(irp[t].handle)
    /\ CountRejected
    /\ Diagnose(stage, status)
    /\ Complete(t, "rejected", None)
-----------------------------------------------------------------------------
\* IRP_MJ_CREATE.  The first opener becomes the controller; a request by
\* another process while there is one is refused and leaves no trace.
DispatchCreate(p, h) ==
    /\ file[h] = "free"
    /\ OwnerProcess \in {None, p}
    /\ file' = [file EXCEPT ![h] = "open"]
    /\ ctxOwner' = [ctxOwner EXCEPT ![h] = p]
    /\ CleanedUp' = [CleanedUp EXCEPT ![h] = FALSE]
    /\ WriteEnabled' = [WriteEnabled EXCEPT ![h] = FALSE]
    /\ spent' = [spent EXCEPT ![h] = 0]
    /\ OwnerProcess' = p
    /\ OpenHandleCount' = OpenHandleCount + 1
    /\ UNCHANGED <<statVars, diagVars, lockVars, pageVars, reqVars>>

\* IRP_MJ_CLEANUP: the last user handle of h is closed, by any process.  The
\* I/O manager waits for the request in flight of a synchronous file object.
DispatchCleanup(t, p, h) ==
    /\ pc[t] = "idle"
    /\ file[h] = "open"
    /\ Synchronous => InFlight(h) = {}
    /\ file' = [file EXCEPT ![h] = "closing"]
    /\ irp' = [irp EXCEPT ![t] = [handle |-> h, process |-> p,
                                  code |-> "CLEANUP", expected |-> None,
                                  desired |-> None, span |-> {}]]
    /\ CleanedUp' = [CleanedUp EXCEPT ![h] = TRUE]
    /\ pc' = [pc EXCEPT ![t] = "cleanupGate"]
    /\ UNCHANGED <<ctxOwner, ownVars, gateVars, statVars, diagVars, lockVars,
                   pageVars, todo, result, data, issued, histVars>>

\* CleanupFileContext, first critical section: close the gate.
CleanupCloseGate(t) ==
    /\ pc[t] = "cleanupGate"
    /\ WriteLock[irp[t].handle] = None
    /\ CloseGate(irp[t].handle)
    /\ Goto(t, "cleanupOwner")
    /\ UNCHANGED <<ctxVars, ownVars, statVars, diagVars, lockVars, pageVars,
                   todo>>

\* The OwnerLock section of CleanupFileContext.
ReleaseOwnerEarly ==                                          \* faulty variant
    /\ OpenHandleCount' = OpenHandleCount - 1
    /\ OwnerProcess' = None
ReleaseOwner ==
    LET count == IF OpenHandleCount > 0 THEN OpenHandleCount - 1
                                        ELSE OpenHandleCount
    IN  /\ OpenHandleCount' = count
        /\ OwnerProcess' = IF count = 0 THEN None ELSE OwnerProcess

\* CleanupFileContext, second critical section: give up ownership.
CleanupReleaseOwner(t) ==
    /\ pc[t] = "cleanupOwner"
    /\ file' = [file EXCEPT ![irp[t].handle] = "cleaned"]
    /\ ReleaseOwner
    /\ Complete(t, result[t], data[t])
    /\ UNCHANGED <<ctxOwner, CleanedUp, gateVars, statVars, diagVars, lockVars,
                   pageVars>>

\* IRP_MJ_CLOSE: sent when no request refers to the file object any more.
\* CleanupFileContext returns early, CleanedUp being set.
DispatchClose(h) ==
    /\ file[h] = "cleaned"
    /\ InFlight(h) = {}
    /\ file' = [file EXCEPT ![h] = "free"]
    /\ ctxOwner' = [ctxOwner EXCEPT ![h] = None]
    /\ UNCHANGED <<CleanedUp, ownVars, gateVars, statVars, diagVars, lockVars,
                   pageVars, reqVars>>
-----------------------------------------------------------------------------
\* A thread of process p issues a request on h.  p need not be the process
\* that opened h: the handle may have been duplicated or inherited.
Issue(t, r) ==
    /\ pc[t] = "idle"
    /\ issued < MaxRequests
    /\ file[r.handle] = "open"
    /\ Synchronous => InFlight(r.handle) = {}
    /\ pc' = [pc EXCEPT ![t] = "dispatch"]
    /\ irp' = [irp EXCEPT ![t] = r]
    /\ result' = [result EXCEPT ![t] = "none"]
    /\ data' = [data EXCEPT ![t] = None]
    /\ issued' = issued + 1
    /\ UNCHANGED <<ctxVars, ownVars, gateVars, statVars, diagVars, lockVars,
                   pageVars, todo, histVars>>

\* IsControllerContext.
IsLiveContext(t) == ~CleanedUp[irp[t].handle]                 \* faulty variant
IsControllerContext(t) ==
    /\ ~CleanedUp[irp[t].handle]
    /\ ctxOwner[irp[t].handle] = irp[t].process

\* DispatchDeviceControl up to the switch.  A refused read completes at once.
DispatchDeviceControl(t) ==
    /\ pc[t] = "dispatch"
    /\ \/ IsControllerContext(t) /\ Goto(t, "entry") /\ UNCHANGED todo
       \/ /\ ~IsControllerContext(t)
          /\ IF irp[t].code = "READ_PHYSICAL"
             THEN Complete(t, "rejected", None)
             ELSE Goto(t, "denied") /\ UNCHANGED todo
    /\ UNCHANGED <<ctxVars, ownVars, gateVars, statVars, diagVars, lockVars,
                   pageVars>>

\* A write request from a context that is not the controller's closes the gate.
DenyForeignWrite(t) ==
    /\ pc[t] = "denied"
    /\ WriteLock[irp[t].handle] = None
    /\ RejectAndClose(t, writeStage, writeStatus)
    /\ UNCHANGED <<ctxVars, ownVars, lockVars, pageVars>>

\* IOCTL_KDBG_SET_WRITE_MODE.  A malformed request closes the gate.
SetWriteMode(t) ==
    /\ pc[t] = "entry"
    /\ irp[t].code = "SET_WRITE_MODE"
    /\ WriteLock[irp[t].handle] = None
    /\ \/ RejectAndClose(t, writeStage, writeStatus)
       \/ /\ OpenGate(irp[t].handle) \/ CloseGate(irp[t].handle)
          /\ Complete(t, "ok", None)
          /\ UNCHANGED <<statVars, diagVars>>
    /\ UNCHANGED <<ctxVars, ownVars, lockVars, pageVars>>

\* IOCTL_KDBG_READ_PHYSICAL: MmCopyMemory under PhysicalTransactionLock.
ReadPhysicalUnlocked(t) ==                                    \* faulty variant
    /\ pc[t] = "entry"
    /\ irp[t].code = "READ_PHYSICAL"
    /\ Complete(t, "ok", page) \/ Complete(t, "error", None)
    /\ UNCHANGED <<ctxVars, ownVars, gateVars, statVars, diagVars, lockVars,
                   pageVars>>
ReadPhysical(t) ==
    /\ pc[t] = "entry"
    /\ irp[t].code = "READ_PHYSICAL"
    /\ TxLock = None
    /\ Complete(t, "ok", page) \/ Complete(t, "error", None)
    /\ UNCHANGED <<ctxVars, ownVars, gateVars, statVars, diagVars, lockVars,
                   pageVars>>
-----------------------------------------------------------------------------
\* A write IOCTL takes WriteLock and validates the request (lengths, flags,
\* acknowledgement magic, page bounds, transaction buffer).
ValidateWrite(t) ==
    /\ pc[t] = "entry"
    /\ irp[t].code \in WriteCode
    /\ WriteLock[irp[t].handle] = None
    /\ LET physical == irp[t].code \in PhysicalWriteCode
       IN  \/ /\ RejectAndClose(t, IF physical THEN "VALIDATION" ELSE writeStage,
                                IF physical THEN "ERROR" ELSE writeStatus)
              /\ UNCHANGED WriteLock
           \/ /\ WriteLock' = [WriteLock EXCEPT ![irp[t].handle] = t]
              /\ IF physical
                 THEN Goto(t, "physical") /\ Diagnose("VALIDATION", "PENDING")
                 ELSE Goto(t, "process") /\ UNCHANGED diagVars
              /\ UNCHANGED <<gateVars, statVars, todo>>
    /\ UNCHANGED <<ctxVars, ownVars, TxLock, pageVars>>

\* PhysicalTransactionLock, fresh RAM ranges, then the gate is consumed.
ConsumeGateForPhysical(t) ==
    /\ pc[t] = "physical"
    /\ LET h == irp[t].handle
           compare == irp[t].code = "COMPARE_WRITE_PHYSICAL_PAGE"
       IN  \/ /\ TxLock = None
              /\ \/ RejectAndClose(t, writeStage, "ERROR")
                 \/ /\ ~WriteEnabled[h]
                    /\ CountRejected
                    /\ Diagnose(writeStage, "ERROR")
                    /\ Complete(t, "rejected", None)
                    /\ UNCHANGED gateVars
              /\ ReleaseWrite(h)
              /\ UNCHANGED <<TxLock, before>>
           \/ /\ AcquireTx(t)
              /\ ConsumeGate(h)
              /\ Goto(t, IF compare THEN "compare" ELSE "copy")
              /\ todo' = [todo EXCEPT ![t] = irp[t].span]
              /\ writeStage' = IF compare THEN "COMPARING" ELSE "MAPPING"
              /\ before' = page
              /\ UNCHANGED <<WriteLock, statVars, writeStatus>>
    /\ UNCHANGED <<ctxVars, ownVars, page>>

\* The baseline compare of a page transaction.
CompareBaseline(t) ==
    /\ pc[t] = "compare"
    /\ LET h == irp[t].handle
       IN  \/ /\ \/ Complete(t, "error", None) /\ Diagnose(writeStage, "ERROR")
                 \/ /\ page # irp[t].expected
                    /\ Complete(t, "CONFLICT", page)
                    /\ Diagnose(writeStage, "REVISION_MISMATCH")
              /\ CountRejected
              /\ ReleaseBoth(h)
              /\ UNCHANGED before
           \/ /\ page = irp[t].expected
              /\ Goto(t, "copy")
              /\ before' = page
              /\ writeStage' = "MAPPING"
              /\ UNCHANGED <<lockVars, statVars, todo, writeStatus>>
    /\ UNCHANGED <<ctxVars, ownVars, gateVars, page>>

\* WriteValidatedPhysicalRange, one byte of RtlCopyMemory.
CopyByte(t, o) ==
    /\ pc[t] = "copy"
    /\ o \in todo[t]
    /\ page' = [page EXCEPT ![o] = irp[t].desired[o]]
    /\ todo' = [todo EXCEPT ![t] = @ \ {o}]
    /\ writeStage' = "COPYING"
    /\ UNCHANGED <<ctxVars, ownVars, gateVars, statVars, writeStatus, lockVars,
                   before, pc, irp, result, data, issued, histVars>>

\* The copy of a page transaction ends, complete (todo is empty) or because
\* the mapping failed or the copy raised an exception; then comes the read-back.
EndTransactionCopy(t) ==
    /\ pc[t] = "copy"
    /\ irp[t].code = "COMPARE_WRITE_PHYSICAL_PAGE"
    /\ Goto(t, "readback")
    /\ writeStage' = "READBACK"
    /\ UNCHANGED <<ctxVars, ownVars, gateVars, statVars, writeStatus, lockVars,
                   pageVars, todo>>

\* The read-back of a page transaction and its response.
ReadbackAndRespond(t) ==
    /\ pc[t] = "readback"
    /\ \/ /\ Complete(t, "error", None)
          /\ Diagnose(writeStage, "ERROR")
          /\ CountRejected
       \/ /\ todo[t] = {} /\ page = irp[t].desired
          /\ Complete(t, "APPLIED", page)
          /\ Diagnose("COMPLETE", "SUCCESS")
          /\ CountSuccessful
       \/ /\ todo[t] # {} \/ page # irp[t].desired
          /\ Complete(t, "FAILED", page)
          /\ Diagnose(writeStage, "ERROR")
          /\ CountRejected
    /\ ReleaseBoth(irp[t].handle)
    /\ UNCHANGED <<ctxVars, ownVars, gateVars, pageVars>>

\* The end of IOCTL_KDBG_WRITE_PHYSICAL.
FinishWritePhysical(t) ==
    /\ pc[t] = "copy"
    /\ irp[t].code = "WRITE_PHYSICAL"
    /\ \/ /\ todo[t] = {}
          /\ Complete(t, "ok", None)
          /\ CountSuccessful
          /\ Diagnose("COMPLETE", "SUCCESS")
          /\ UNCHANGED gateVars
       \/ /\ todo[t] # {}
          /\ CloseGate(irp[t].handle)
          /\ Complete(t, "FAILED", None)
          /\ CountRejected
          /\ Diagnose(writeStage, "ERROR")
    /\ ReleaseBoth(irp[t].handle)
    /\ UNCHANGED <<ctxVars, ownVars, pageVars>>

\* IOCTL_KDBG_WRITE_PROCESS_MEMORY after validation: reference the process,
\* consume the gate, copy.  PhysicalTransactionLock is not taken, so where the
\* target maps the page it is one of the external writers.
WriteProcessMemory(t) ==
    /\ pc[t] = "process"
    /\ LET h == irp[t].handle
       IN  /\ \/ /\ CloseGate(h)
                 /\ CountRejected /\ Complete(t, "rejected", None)
                 /\ UNCHANGED page
              \/ /\ ~WriteEnabled[h]
                 /\ CountRejected /\ Complete(t, "rejected", None)
                 /\ UNCHANGED <<gateVars, page>>
              \/ /\ ConsumeGate(h)
                 /\ \/ CountRejected /\ Complete(t, "FAILED", None) /\ UNCHANGED page
                    \/ /\ CountSuccessful /\ Complete(t, "ok", None)
                       /\ page' \in {page} \cup
                            (IF ExternalWriters
                             THEN {[o \in Offset |-> IF o \in irp[t].span
                                        THEN irp[t].desired[o] ELSE page[o]]}
                             ELSE {})
           /\ ReleaseWrite(h)
    /\ UNCHANGED <<ctxVars, ownVars, diagVars, TxLock, before>>

\* Anything outside the driver that writes the page.
ExternalWrite(o, b) ==
    /\ ExternalWriters
    /\ page' = [page EXCEPT ![o] = b]
    /\ UNCHANGED <<ctxVars, ownVars, gateVars, statVars, diagVars, lockVars,
                   before, reqVars>>
-----------------------------------------------------------------------------
ThreadStep(t) ==
    \/ CleanupCloseGate(t)
    \/ CleanupReleaseOwner(t)
    \/ DispatchDeviceControl(t)
    \/ DenyForeignWrite(t)
    \/ SetWriteMode(t)
    \/ ReadPhysical(t)
    \/ ValidateWrite(t)
    \/ ConsumeGateForPhysical(t)
    \/ CompareBaseline(t)
    \/ \E o \in Offset : CopyByte(t, o)
    \/ EndTransactionCopy(t)
    \/ ReadbackAndRespond(t)
    \/ FinishWritePhysical(t)
    \/ WriteProcessMemory(t)

Next ==
    \/ \E p \in Process, h \in Handle : DispatchCreate(p, h)
    \/ \E t \in Thread, p \in Process, h \in Handle : DispatchCleanup(t, p, h)
    \/ \E h \in Handle : DispatchClose(h)
    \/ \E t \in Thread, r \in Request : Issue(t, r)
    \/ \E t \in Thread : ThreadStep(t)
    \/ \E o \in Offset, b \in Byte : ExternalWrite(o, b)

Spec == Init /\ [][Next]_vars

\* A thread inside the driver keeps running: nothing it does waits for user
\* mode, and a FAST_MUTEX that is released is granted to a waiter.
Fairness == \A t \in Thread : WF_vars(ThreadStep(t))
FairSpec == Spec /\ Fairness
-----------------------------------------------------------------------------
\* Every handle that is open or being cleaned up counts towards ownership.
Counted == {h \in Handle : file[h] \in {"open", "closing"}}

\* The device has one controller: OpenHandleCount is exact under concurrent
\* creates and cleanups, the owner is set while it is positive and cleared with
\* it, and every counted handle was opened by that owner.
OwnershipConsistent ==
    /\ OpenHandleCount = Cardinality(Counted)
    /\ OwnerProcess = None <=> Counted = {}
    /\ \A h \in Counted : ctxOwner[h] = OwnerProcess

\* One acknowledgement buys at most one write: since the last accepted
\* SET_WRITE_MODE(1) of a handle at most one request consumed its gate, and the
\* gate is not open again afterwards, whatever fails in between.
OneShotGate ==
    \A h \in Handle : spent[h] + (IF WriteEnabled[h] THEN 1 ELSE 0) <= 1

\* PhysicalTransactionLock isolates a physical write from every other physical
\* request: until it completes, the page is what it was when the copy began,
\* overwritten by the bytes copied so far; and a page transaction that has
\* passed its compare began from its expected page.
CopyIsolated ==
    ~ExternalWriters =>
    \A t \in Thread :
        pc[t] \in {"copy", "readback"} =>
        /\ \A o \in Offset : page[o] = IF o \in irp[t].span \ todo[t]
                                       THEN irp[t].desired[o] ELSE before[o]
        /\ irp[t].code = "COMPARE_WRITE_PHYSICAL_PAGE" => before = irp[t].expected

\* On synchronous file objects, which is how KDbgBackend opens the device, no
\* request outlives the ownership under which it was accepted: a write path past
\* its lock belongs to a thread of the current controller, and no late
\* SET_WRITE_MODE opens the gate of a handle that went through cleanup.
ControllerOnlyWrites ==
    Synchronous =>
        /\ \A t \in Thread : pc[t] \in HoldsWrite => irp[t].process = OwnerProcess
        /\ \A h \in Handle : file[h] = "cleaned" => ~WriteEnabled[h]

\* Every write request is counted exactly once, in the counter of its verdict,
\* on every early exit of the three write IOCTLs and of SET_WRITE_MODE.
Accounting == SuccessfulWrites = applied /\ RejectedWrites = refused

\* The page as other requests can see it: a copy in progress is invisible.
CommittedPage ==
    IF TxLock # None /\ pc[TxLock] \in {"copy", "readback"} THEN before ELSE page

\* The IOCTLs in flight, without the fields that only the gate depends on.
Pending ==
    [t \in Thread |->
        IF irp[t] = None \/ irp[t].code = "CLEANUP" THEN None
        ELSE [code |-> irp[t].code, expected |-> irp[t].expected,
              desired |-> irp[t].desired, span |-> irp[t].span]]

Store == INSTANCE PageStore
            WITH page <- CommittedPage, req <- Pending, reply <- result

\* When nobody else writes the page, the driver implements PageStore: physical
\* requests from any number of handles behave as if executed one at a time,
\* and a compare-write is an atomic compare and swap.
ImplementsPageStore == Store!Spec

\* No lock order deadlocks and no path forgets a lock or a counter: every request
\* that enters the driver leaves it, counted once (Accounting).
RequestsComplete ==
    /\ []Accounting
    /\ \A t \in Thread : pc[t] # "idle" ~> pc[t] = "idle"
=============================================================================
