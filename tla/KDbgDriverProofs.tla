-------------------------- MODULE KDbgDriverProofs --------------------------
(***************************************************************************)
(* Theorems about KDbgDriver, for every set of processes, handles, threads *)
(* and bytes.                                                              *)
(***************************************************************************)
EXTENDS KDbgDriver, FiniteSetTheorems, TLAPS

\* A thread carries a request exactly while it is inside the driver, and the
\* place l it has reached fits the code of its request r.
CarriedAt(l, r) ==
    /\ r = None <=> l = "idle"
    /\ l \in InCleanup => r \in Irp /\ r.code = "CLEANUP"
    /\ l \notin InCleanup \cup {"idle"} => r \in Request
    /\ l \in HoldsTx \cup {"physical"} => r.code \in PhysicalWriteCode
    /\ l \in {"compare", "readback"} => r.code = "COMPARE_WRITE_PHYSICAL_PAGE"
    /\ l = "process" => r.code = "WRITE_PROCESS_MEMORY"
    /\ l = "denied" => r.code # "READ_PHYSICAL"

Carry == \A t \in Thread : CarriedAt(pc[t], irp[t])

\* A part of the state that a step leaves alone stays well formed.
LEMMA Frame ==
    /\ ContextsOK /\ UNCHANGED ctxVars => ContextsOK'
    /\ OwnerOK /\ UNCHANGED ownVars => OwnerOK'
    /\ GatesOK /\ UNCHANGED gateVars => GatesOK'
    /\ CountersOK /\ UNCHANGED statVars => CountersOK'
    /\ DiagnosticsOK /\ UNCHANGED diagVars => DiagnosticsOK'
    /\ LocksOK /\ UNCHANGED lockVars => LocksOK'
    /\ PagesOK /\ UNCHANGED pageVars => PagesOK'
    /\ RequestsOK /\ UNCHANGED reqVars => RequestsOK'
BY Zenon DEF ContextsOK, ctxVars, OwnerOK, ownVars, GatesOK, gateVars, CountersOK,
       statVars, DiagnosticsOK, diagVars, LocksOK, lockVars, PagesOK, pageVars,
       RequestsOK, reqVars, histVars

\* The gate, the counters and the locks stay well formed under the primitives
\* the write paths are built from.
LEMMA Primitives ==
    ASSUME TypeOK, NEW h, NEW t \in Thread
    PROVE  /\ CloseGate(h) => GatesOK'
           /\ ConsumeGate(h) => GatesOK'
           /\ OpenGate(h) => GatesOK'
           /\ CountRejected => CountersOK'
           /\ CountSuccessful => CountersOK'
           /\ ReleaseWrite(h) /\ UNCHANGED TxLock => LocksOK'
           /\ ReleaseBoth(h) => LocksOK'
           /\ AcquireTx(t) /\ UNCHANGED WriteLock => LocksOK'
           /\ ReleaseOwner => OwnerOK'
<1> USE DEF TypeOK
<1>0. /\ [WriteEnabled EXCEPT ![h] = FALSE] \in [Handle -> BOOLEAN]
      /\ [WriteEnabled EXCEPT ![h] = TRUE] \in [Handle -> BOOLEAN]
      /\ [spent EXCEPT ![h] = @ + 1] \in [Handle -> Nat]
      /\ [spent EXCEPT ![h] = 0] \in [Handle -> Nat]
  <2>1. [WriteEnabled EXCEPT ![h] = FALSE] \in [Handle -> BOOLEAN]
    BY Zenon DEF GatesOK
  <2>4. [WriteEnabled EXCEPT ![h] = TRUE] \in [Handle -> BOOLEAN]
    BY Zenon DEF GatesOK
  <2>2. [spent EXCEPT ![h] = @ + 1] \in [Handle -> Nat]
    <3>1. CASE h \in Handle
      BY <3>1 DEF GatesOK
    <3>2. CASE h \notin Handle
      BY Zenon, <3>2 DEF GatesOK
    <3> QED
      BY Zenon, <3>1, <3>2
  <2>3. [spent EXCEPT ![h] = 0] \in [Handle -> Nat]
    BY Zenon DEF GatesOK
  <2> QED
    BY Zenon, <2>1, <2>2, <2>3, <2>4
<1>1. /\ CloseGate(h) => GatesOK'
      /\ ConsumeGate(h) => GatesOK'
      /\ OpenGate(h) => GatesOK'
  BY Zenon, <1>0 DEF GatesOK, CloseGate, ConsumeGate, OpenGate
<1>2. (CountRejected => CountersOK') /\ (CountSuccessful => CountersOK')
  BY DEF CountersOK, CountRejected, CountSuccessful
<1>3. /\ ReleaseWrite(h) /\ UNCHANGED TxLock => LocksOK'
      /\ ReleaseBoth(h) => LocksOK'
      /\ AcquireTx(t) /\ UNCHANGED WriteLock => LocksOK'
  BY Zenon DEF LocksOK, ReleaseWrite, ReleaseBoth, AcquireTx
<1>4. ReleaseOwner => OwnerOK'
  BY DEF OwnerOK, ReleaseOwner
<1> QED
  BY Zenon, <1>1, <1>2, <1>3, <1>4

\* A completed request leaves its thread idle, without a request.
LEMMA CompleteType ==
    ASSUME TypeOK, NEW t \in Thread, NEW r \in Result,
           NEW d \in Page \cup {None}, Complete(t, r, d)
    PROVE  RequestsOK'
<1>1. applied' \in Nat
  BY DEF Complete, TypeOK, RequestsOK
<1>2. refused' \in Nat
  BY DEF Complete, TypeOK, RequestsOK
<1> QED
  BY Zenon, <1>1, <1>2 DEF Complete, TypeOK, RequestsOK, PC

\* Moving on inside a dispatch routine keeps the request.
LEMMA GotoType ==
    ASSUME TypeOK, NEW t \in Thread, NEW l \in PC, Goto(t, l),
           todo' \in [Thread -> SUBSET Offset]
    PROVE  RequestsOK'
BY Zenon DEF Goto, TypeOK, RequestsOK, histVars

\* The constants the dispatch routines use are in range.
LEMMA Constants ==
    /\ \A l \in {"idle", "dispatch", "denied", "entry", "physical", "process",
                 "compare", "copy", "readback", "cleanupGate", "cleanupOwner"} :
           l \in PC
    /\ \A r \in {"none", "ok", "rejected", "APPLIED", "CONFLICT", "FAILED",
                 "error"} : r \in Result
    /\ \A s \in {"VALIDATION", "MAPPING", "COPYING", "COMPLETE", "COMPARING",
                 "READBACK"} : s \in Stage
    /\ \A s \in {"SUCCESS", "PENDING", "ERROR", "REVISION_MISMATCH"} :
           s \in Status
BY Zenon DEF PC, HoldsWrite, HoldsTx, InCleanup, Result, Stage, Status

\* A request that is refused with its gate closed leaves the state well formed.
LEMMA RejectType ==
    ASSUME TypeOK, NEW t \in Thread, NEW stage \in Stage, NEW status \in Status,
           RejectAndClose(t, stage, status)
    PROVE  GatesOK' /\ CountersOK' /\ DiagnosticsOK' /\ RequestsOK'
<1>1. Complete(t, "rejected", None)
  BY Zenon DEF RejectAndClose
<1>2. RequestsOK'
  BY Zenon, <1>1, CompleteType, Constants
<1>3. GatesOK' /\ CountersOK'
  BY Zenon, Primitives DEF RejectAndClose
<1>4. DiagnosticsOK'
  BY Zenon DEF RejectAndClose, Diagnose, DiagnosticsOK
<1> QED
  BY Zenon, <1>2, <1>3, <1>4

\* The shape of the state is preserved by every dispatch routine.
LEMMA TypeStep == TypeOK /\ Carry /\ [Next]_vars => TypeOK'
<1> SUFFICES ASSUME TypeOK, Carry, [Next]_vars PROVE TypeOK'
  BY Zenon
<1>a. /\ ContextsOK /\ OwnerOK /\ GatesOK /\ CountersOK
      /\ DiagnosticsOK /\ LocksOK /\ PagesOK /\ RequestsOK
  BY Zenon DEF TypeOK
<1>b. /\ \A t \in Thread : result[t] \in Result /\ data[t] \in Page \cup {None}
      /\ page \in Page
      /\ todo \in [Thread -> SUBSET Offset]
      /\ writeStage \in Stage /\ writeStatus \in Status
  BY Zenon, <1>a DEF RequestsOK, PagesOK, DiagnosticsOK
<1>1. ASSUME NEW p \in Process, NEW h \in Handle, DispatchCreate(p, h)
      PROVE TypeOK'
  <2>1. ContextsOK'
    BY Zenon, <1>a, <1>1 DEF DispatchCreate, ContextsOK
  <2>2. GatesOK' /\ OwnerOK'
    BY <1>a, <1>1 DEF DispatchCreate, GatesOK, OwnerOK
  <2> QED
    BY Zenon, <1>a, <1>1, <2>1, <2>2, Frame DEF DispatchCreate, TypeOK
<1>2. ASSUME NEW t \in Thread, NEW p \in Process, NEW h \in Handle,
             DispatchCleanup(t, p, h)
      PROVE TypeOK'
  <2>1. ContextsOK'
    BY Zenon, <1>a, <1>2 DEF DispatchCleanup, ContextsOK
  <2>2. [handle |-> h, process |-> p, code |-> "CLEANUP", expected |-> None,
         desired |-> None, span |-> {}] \in Irp
    BY Zenon DEF Irp, Code
  <2>3. RequestsOK'
    BY Zenon, <1>a, <1>2, <2>2, Constants DEF DispatchCleanup, RequestsOK, histVars
  <2> QED
    BY Zenon, <1>a, <1>2, <2>1, <2>3, Frame DEF DispatchCleanup, TypeOK
<1>3. ASSUME NEW h \in Handle, DispatchClose(h) PROVE TypeOK'
  <2>1. ContextsOK'
    BY Zenon, <1>a, <1>3 DEF DispatchClose, ContextsOK
  <2> QED
    BY Zenon, <1>a, <1>3, <2>1, Frame DEF DispatchClose, TypeOK
<1>4. ASSUME NEW t \in Thread, NEW r \in Request, Issue(t, r) PROVE TypeOK'
  <2>1. RequestsOK'
    BY <1>a, <1>4, Constants, ConstantsAssumption
    DEF Issue, RequestsOK, histVars, Request
  <2> QED
    BY Zenon, <1>a, <1>4, <2>1, Frame DEF Issue, TypeOK
<1>5. ASSUME NEW t \in Thread, CleanupCloseGate(t) PROVE TypeOK'
  <2>1. RequestsOK'
    BY Zenon, <1>b, <1>5, GotoType, Constants DEF CleanupCloseGate
  <2>2. GatesOK'
    BY Zenon, <1>5, Primitives DEF CleanupCloseGate
  <2> QED
    BY Zenon, <1>a, <1>5, <2>1, <2>2, Frame DEF CleanupCloseGate, TypeOK
<1>6. ASSUME NEW t \in Thread, CleanupReleaseOwner(t) PROVE TypeOK'
  <2>1. RequestsOK'
    BY Zenon, <1>b, <1>6, CompleteType DEF CleanupReleaseOwner
  <2>2. OwnerOK'
    BY Zenon, <1>6, Primitives DEF CleanupReleaseOwner
  <2>3. ContextsOK'
    BY Zenon, <1>a, <1>6 DEF CleanupReleaseOwner, ContextsOK
  <2> QED
    BY Zenon, <1>a, <1>6, <2>1, <2>2, <2>3, Frame DEF CleanupReleaseOwner, TypeOK
<1>7. ASSUME NEW t \in Thread, DispatchDeviceControl(t) PROVE TypeOK'
  <2>1. RequestsOK'
    BY Zenon, <1>b, <1>7, GotoType, CompleteType, Constants DEF DispatchDeviceControl
  <2> QED
    BY Zenon, <1>a, <1>7, <2>1, Frame DEF DispatchDeviceControl, TypeOK
<1>8. ASSUME NEW t \in Thread, DenyForeignWrite(t) PROVE TypeOK'
  <2>1. GatesOK' /\ CountersOK' /\ DiagnosticsOK' /\ RequestsOK'
    BY Zenon, <1>b, <1>8, RejectType DEF DenyForeignWrite
  <2> QED
    BY Zenon, <1>a, <1>8, <2>1, Frame DEF DenyForeignWrite, TypeOK
<1>9. ASSUME NEW t \in Thread, SetWriteMode(t) PROVE TypeOK'
  <2>1. CASE RejectAndClose(t, writeStage, writeStatus)
    <3>1. GatesOK' /\ CountersOK' /\ DiagnosticsOK' /\ RequestsOK'
      BY Zenon, <1>b, <2>1, RejectType
    <3> QED
      BY Zenon, <1>a, <1>9, <3>1, Frame DEF SetWriteMode, TypeOK
  <2>2. CASE ~RejectAndClose(t, writeStage, writeStatus)
    <3>1. RequestsOK'
      BY Zenon, <1>9, <2>2, CompleteType, Constants DEF SetWriteMode
    <3>2. GatesOK'
      BY Zenon, <1>a, <1>9, <2>2, Primitives DEF SetWriteMode, GatesOK
    <3> QED
      BY Zenon, <1>a, <1>9, <2>2, <3>1, <3>2, Frame DEF SetWriteMode, TypeOK
  <2> QED
    BY Zenon, <2>1, <2>2
<1>10. ASSUME NEW t \in Thread, ReadPhysical(t) PROVE TypeOK'
  <2>1. RequestsOK'
    BY Zenon, <1>b, <1>10, CompleteType, Constants DEF ReadPhysical
  <2> QED
    BY Zenon, <1>a, <1>10, <2>1, Frame DEF ReadPhysical, TypeOK
<1>11. ASSUME NEW t \in Thread, ValidateWrite(t) PROVE TypeOK'
  <2> DEFINE physical == irp[t].code \in PhysicalWriteCode
             stage == IF physical THEN "VALIDATION" ELSE writeStage
             status == IF physical THEN "ERROR" ELSE writeStatus
  <2>0. stage \in Stage /\ status \in Status
    BY Zenon, <1>b, Constants
  <2> HIDE DEF stage, status
  <2>1. CASE RejectAndClose(t, stage, status) /\ UNCHANGED WriteLock
    <3>1. GatesOK' /\ CountersOK' /\ DiagnosticsOK' /\ RequestsOK'
      BY Zenon, <2>0, <2>1, RejectType
    <3>2. UNCHANGED lockVars
      BY Zenon, <1>11, <2>1 DEF ValidateWrite, lockVars
    <3> QED
      BY Zenon, <1>a, <1>11, <3>1, <3>2, Frame DEF ValidateWrite, TypeOK
  <2>2. CASE /\ WriteLock' = [WriteLock EXCEPT ![irp[t].handle] = t]
             /\ IF physical
                THEN Goto(t, "physical") /\ Diagnose("VALIDATION", "PENDING")
                ELSE Goto(t, "process") /\ UNCHANGED diagVars
             /\ UNCHANGED <<gateVars, statVars, todo>>
    <3>1. RequestsOK'
      BY Zenon, <1>b, <2>2, GotoType, Constants
    <3>2. LocksOK'
      BY Zenon, <1>a, <1>11, <2>2 DEF ValidateWrite, LocksOK
    <3>3. DiagnosticsOK'
      BY Zenon, <1>a, <2>2, Frame, Constants DEF Diagnose, DiagnosticsOK
    <3> QED
      BY Zenon, <1>a, <1>11, <2>2, <3>1, <3>2, <3>3, Frame DEF ValidateWrite, TypeOK
  <2> QED
    BY Zenon, <1>11, <2>1, <2>2 DEF ValidateWrite, stage, status
<1>12. ASSUME NEW t \in Thread, ConsumeGateForPhysical(t) PROVE TypeOK'
  <2> DEFINE h == irp[t].handle
             compare == irp[t].code = "COMPARE_WRITE_PHYSICAL_PAGE"
  <2>1. CASE /\ RejectAndClose(t, writeStage, "ERROR")
             /\ ReleaseWrite(h) /\ UNCHANGED <<TxLock, before>>
    <3>1. GatesOK' /\ CountersOK' /\ DiagnosticsOK' /\ RequestsOK'
      BY Zenon, <1>b, <2>1, RejectType, Constants
    <3>2. LocksOK' /\ UNCHANGED pageVars
      BY Zenon, <1>12, <2>1, Primitives DEF ConsumeGateForPhysical, pageVars
    <3> QED
      BY Zenon, <1>a, <1>12, <3>1, <3>2, Frame DEF ConsumeGateForPhysical, TypeOK
  <2>2. CASE /\ CountRejected /\ Diagnose(writeStage, "ERROR")
             /\ Complete(t, "rejected", None)
             /\ UNCHANGED gateVars
             /\ ReleaseWrite(h) /\ UNCHANGED <<TxLock, before>>
    <3>1. RequestsOK' /\ CountersOK'
      BY Zenon, <2>2, CompleteType, Primitives, Constants
    <3>2. DiagnosticsOK'
      BY Zenon, <1>b, <2>2, Constants DEF Diagnose, DiagnosticsOK
    <3>3. LocksOK' /\ UNCHANGED pageVars
      BY Zenon, <1>12, <2>2, Primitives DEF ConsumeGateForPhysical, pageVars
    <3> QED
      BY Zenon, <1>a, <1>12, <2>2, <3>1, <3>2, <3>3, Frame
      DEF ConsumeGateForPhysical, TypeOK
  <2>3. CASE /\ AcquireTx(t) /\ ConsumeGate(h)
             /\ Goto(t, IF compare THEN "compare" ELSE "copy")
             /\ todo' = [todo EXCEPT ![t] = irp[t].span]
             /\ writeStage' = IF compare THEN "COMPARING" ELSE "MAPPING"
             /\ before' = page
             /\ UNCHANGED <<WriteLock, statVars, writeStatus>>
    <3>1. irp[t].span \subseteq Offset
      BY Zenon, <1>12, <1>a DEF ConsumeGateForPhysical, Carry, CarriedAt, InCleanup, Request, Irp
    <3>2. todo' \in [Thread -> SUBSET Offset]
      BY Zenon, <1>b, <2>3, <3>1
    <3>3. RequestsOK'
      BY Zenon, <2>3, <3>2, GotoType, Constants
    <3>4. GatesOK' /\ LocksOK'
      BY Zenon, <2>3, Primitives
    <3>5. DiagnosticsOK' /\ PagesOK'
      BY Zenon, <1>12, <1>b, <2>3, Constants
      DEF ConsumeGateForPhysical, DiagnosticsOK, PagesOK
    <3> QED
      BY Zenon, <1>a, <1>12, <2>3, <3>3, <3>4, <3>5, Frame
      DEF ConsumeGateForPhysical, TypeOK
  <2> QED
    BY Zenon, <1>12, <2>1, <2>2, <2>3 DEF ConsumeGateForPhysical
<1>13. ASSUME NEW t \in Thread, CompareBaseline(t) PROVE TypeOK'
  <2> DEFINE h == irp[t].handle
  <2>1. CASE /\ Complete(t, "error", None) /\ Diagnose(writeStage, "ERROR")
             /\ CountRejected /\ ReleaseBoth(h) /\ UNCHANGED before
    <3>1. RequestsOK' /\ CountersOK' /\ LocksOK'
      BY Zenon, <2>1, CompleteType, Primitives, Constants
    <3>2. DiagnosticsOK' /\ UNCHANGED pageVars
      BY Zenon, <1>13, <1>b, <2>1, Constants
      DEF CompareBaseline, Diagnose, DiagnosticsOK, pageVars
    <3> QED
      BY Zenon, <1>a, <1>13, <3>1, <3>2, Frame DEF CompareBaseline, TypeOK
  <2>2. CASE /\ Complete(t, "CONFLICT", page)
             /\ Diagnose(writeStage, "REVISION_MISMATCH")
             /\ CountRejected /\ ReleaseBoth(h) /\ UNCHANGED before
    <3>1. RequestsOK' /\ CountersOK' /\ LocksOK'
      BY Zenon, <1>b, <2>2, CompleteType, Primitives, Constants
    <3>2. DiagnosticsOK' /\ UNCHANGED pageVars
      BY Zenon, <1>13, <1>b, <2>2, Constants
      DEF CompareBaseline, Diagnose, DiagnosticsOK, pageVars
    <3> QED
      BY Zenon, <1>a, <1>13, <3>1, <3>2, Frame DEF CompareBaseline, TypeOK
  <2>3. CASE /\ Goto(t, "copy") /\ before' = page /\ writeStage' = "MAPPING"
             /\ UNCHANGED <<lockVars, statVars, todo, writeStatus>>
    <3>1. RequestsOK'
      BY Zenon, <1>b, <2>3, GotoType, Constants
    <3>2. DiagnosticsOK' /\ PagesOK'
      BY Zenon, <1>13, <1>b, <2>3, Constants
      DEF CompareBaseline, DiagnosticsOK, PagesOK
    <3> QED
      BY Zenon, <1>a, <1>13, <2>3, <3>1, <3>2, Frame DEF CompareBaseline, TypeOK
  <2> QED
    BY Zenon, <1>13, <2>1, <2>2, <2>3 DEF CompareBaseline
<1>14. ASSUME NEW t \in Thread, NEW o \in Offset, CopyByte(t, o) PROVE TypeOK'
  <2>1. irp[t].desired \in Page
    <3>1. irp[t] \in Request /\ irp[t].code \in WriteCode
      BY Zenon, <1>14 DEF CopyByte, Carry, CarriedAt, InCleanup, HoldsTx, WriteCode
    <3> QED
      BY Zenon, <3>1 DEF Request, Irp
  <2>2. PagesOK'
    BY Zenon, <1>14, <1>b, <1>a, <2>1 DEF CopyByte, Page, PagesOK
  <2>3. DiagnosticsOK'
    BY Zenon, <1>14, <1>b, Constants DEF CopyByte, DiagnosticsOK
  <2>4. RequestsOK'
    BY Zenon, <1>14, <1>a DEF CopyByte, RequestsOK, histVars
  <2> QED
    BY Zenon, <1>a, <1>14, <2>2, <2>3, <2>4, Frame DEF CopyByte, TypeOK
<1>15. ASSUME NEW t \in Thread, EndTransactionCopy(t) PROVE TypeOK'
  <2>1. RequestsOK'
    BY Zenon, <1>b, <1>15, GotoType, Constants DEF EndTransactionCopy
  <2>2. DiagnosticsOK'
    BY Zenon, <1>b, <1>15, Constants DEF EndTransactionCopy, DiagnosticsOK
  <2> QED
    BY Zenon, <1>a, <1>15, <2>1, <2>2, Frame DEF EndTransactionCopy, TypeOK
<1>16. ASSUME NEW t \in Thread, ReadbackAndRespond(t) PROVE TypeOK'
  <2>1. RequestsOK'
    BY Zenon, <1>b, <1>16, CompleteType, Constants DEF ReadbackAndRespond
  <2>2. CountersOK' /\ LocksOK'
    BY Zenon, <1>16, Primitives DEF ReadbackAndRespond
  <2>3. DiagnosticsOK'
    BY Zenon, <1>b, <1>16, Constants DEF ReadbackAndRespond, Diagnose, DiagnosticsOK
  <2> QED
    BY Zenon, <1>a, <1>16, <2>1, <2>2, <2>3, Frame DEF ReadbackAndRespond, TypeOK
<1>17. ASSUME NEW t \in Thread, FinishWritePhysical(t) PROVE TypeOK'
  <2>1. RequestsOK'
    BY Zenon, <1>17, CompleteType, Constants DEF FinishWritePhysical
  <2>2. CountersOK' /\ LocksOK' /\ GatesOK'
    BY Zenon, <1>a, <1>17, Primitives, Frame DEF FinishWritePhysical
  <2>3. DiagnosticsOK'
    BY Zenon, <1>b, <1>17, Constants DEF FinishWritePhysical, Diagnose, DiagnosticsOK
  <2> QED
    BY Zenon, <1>a, <1>17, <2>1, <2>2, <2>3, Frame DEF FinishWritePhysical, TypeOK
<1>18. ASSUME NEW t \in Thread, WriteProcessMemory(t) PROVE TypeOK'
  <2>1. irp[t].desired \in Page
    <3>1. irp[t] \in Request /\ irp[t].code \in WriteCode
      BY Zenon, <1>18 DEF WriteProcessMemory, Carry, CarriedAt, InCleanup, WriteCode
    <3> QED
      BY Zenon, <3>1 DEF Request, Irp
  <2>2. RequestsOK'
    BY Zenon, <1>18, CompleteType, Constants DEF WriteProcessMemory
  <2>3. CountersOK' /\ LocksOK' /\ GatesOK'
    BY Zenon, <1>a, <1>18, Primitives, Frame DEF WriteProcessMemory
  <2>4. [o \in Offset |-> IF o \in irp[t].span
                         THEN irp[t].desired[o] ELSE page[o]] \in Page
    BY Zenon, <1>b, <2>1 DEF Page
  <2>5. PagesOK'
    BY Zenon, <1>a, <1>18, <2>4 DEF WriteProcessMemory, PagesOK
  <2> QED
    BY Zenon, <1>a, <1>18, <2>2, <2>3, <2>5, Frame DEF WriteProcessMemory, TypeOK
<1>19. ASSUME NEW o \in Offset, NEW b \in Byte, ExternalWrite(o, b) PROVE TypeOK'
  <2>1. PagesOK'
    BY Zenon, <1>a, <1>19 DEF ExternalWrite, PagesOK, Page
  <2> QED
    BY Zenon, <1>a, <1>19, <2>1, Frame DEF ExternalWrite, TypeOK
<1>20. CASE UNCHANGED vars
  BY Zenon, <1>a, <1>20, Frame DEF TypeOK, vars
<1> QED
  BY <1>1, <1>2, <1>3, <1>4, <1>5, <1>6, <1>7, <1>8, <1>9, <1>10, <1>11,
     <1>12, <1>13, <1>14, <1>15, <1>16, <1>17, <1>18, <1>19, <1>20
  DEF Next, ThreadStep

\* One thread moves, the others keep the place and the request they have.
LEMMA CarryMove ==
    ASSUME TypeOK, Carry, NEW t \in Thread, NEW l, NEW r, CarriedAt(l, r),
           pc' = [pc EXCEPT ![t] = l], irp' = [irp EXCEPT ![t] = r]
    PROVE  Carry'
<1> SUFFICES ASSUME NEW u \in Thread PROVE CarriedAt(pc'[u], irp'[u])
  BY Zenon DEF Carry
<1>1. CASE u = t
  <2>1. pc'[u] = l /\ irp'[u] = r
    BY Zenon, <1>1 DEF TypeOK, RequestsOK
  <2> QED
    BY Zenon, <2>1
<1>2. CASE u # t
  <2>1. pc'[u] = pc[u] /\ irp'[u] = irp[u]
    BY Zenon, <1>2 DEF TypeOK, RequestsOK
  <2> QED
    BY Zenon, <2>1 DEF Carry
<1> QED
  BY Zenon, <1>1, <1>2

\* A completed request is no longer carried.
LEMMA CarryComplete ==
    ASSUME TypeOK, Carry, NEW t \in Thread, NEW r, NEW d, Complete(t, r, d)
    PROVE  Carry'
<1>1. CarriedAt("idle", None)
  BY Zenon DEF CarriedAt, InCleanup, HoldsTx
<1> QED
  BY Zenon, <1>1, CarryMove DEF Complete

\* A request that moves on to a place that fits its code is still carried.
LEMMA CarryGoto ==
    ASSUME TypeOK, Carry, NEW t \in Thread, NEW l, Goto(t, l),
           CarriedAt(l, irp[t])
    PROVE  Carry'
<1>1. irp' = [irp EXCEPT ![t] = irp[t]]
  BY Zenon DEF Goto, TypeOK, RequestsOK
<1> QED
  BY Zenon, <1>1, CarryMove DEF Goto

\* Where a thread is always fits the request it carries.
LEMMA CarryStep == TypeOK /\ Carry /\ [Next]_vars => Carry'
<1> SUFFICES ASSUME TypeOK, Carry, [Next]_vars PROVE Carry'
  BY Zenon
<1> USE ConstantsAssumption, NoneAssumption
<1>a. ASSUME pc' = pc, irp' = irp PROVE Carry'
  BY Zenon, <1>a DEF Carry
<1>1. ASSUME NEW p \in Process, NEW h \in Handle, DispatchCreate(p, h)
      PROVE Carry'
  BY Zenon, <1>1, <1>a DEF DispatchCreate, reqVars
<1>2. ASSUME NEW t \in Thread, NEW p \in Process, NEW h \in Handle,
             DispatchCleanup(t, p, h)
      PROVE Carry'
  <2> DEFINE r == [handle |-> h, process |-> p, code |-> "CLEANUP",
                   expected |-> None, desired |-> None, span |-> {}]
  <2>1. r \in Irp /\ r.code = "CLEANUP"
    BY Zenon DEF Irp, Code
  <2>2. pc' = [pc EXCEPT ![t] = "cleanupGate"] /\ irp' = [irp EXCEPT ![t] = r]
    BY Zenon, <1>2 DEF DispatchCleanup
  <2> HIDE DEF r
  <2>3. CarriedAt("cleanupGate", r)
    BY Zenon, <2>1 DEF CarriedAt, InCleanup, HoldsTx
  <2> QED
    BY Zenon, <2>2, <2>3, CarryMove
<1>3. ASSUME NEW h \in Handle, DispatchClose(h) PROVE Carry'
  BY Zenon, <1>3, <1>a DEF DispatchClose, reqVars
<1>4. ASSUME NEW t \in Thread, NEW r \in Request, Issue(t, r) PROVE Carry'
  <2>1. CarriedAt("dispatch", r)
    BY Zenon DEF CarriedAt, InCleanup, HoldsTx, Request
  <2> QED
    BY Zenon, <1>4, <2>1, CarryMove DEF Issue
<1>5. ASSUME NEW t \in Thread, CleanupCloseGate(t) PROVE Carry'
  <2>1. CarriedAt("cleanupOwner", irp[t])
    BY Zenon, <1>5 DEF CleanupCloseGate, Carry, CarriedAt, InCleanup, HoldsTx
  <2> QED
    BY Zenon, <1>5, <2>1, CarryGoto DEF CleanupCloseGate
<1>6. ASSUME NEW t \in Thread, CleanupReleaseOwner(t) PROVE Carry'
  BY Zenon, <1>6, CarryComplete DEF CleanupReleaseOwner
<1>7. ASSUME NEW t \in Thread, DispatchDeviceControl(t) PROVE Carry'
  <2>1. /\ CarriedAt("entry", irp[t])
        /\ irp[t].code # "READ_PHYSICAL" => CarriedAt("denied", irp[t])
    BY Zenon, <1>7 DEF DispatchDeviceControl, Carry, CarriedAt, InCleanup, HoldsTx
  <2> QED
    BY Zenon, <1>7, <2>1, CarryGoto, CarryComplete DEF DispatchDeviceControl
<1>8. ASSUME NEW t \in Thread, DenyForeignWrite(t) PROVE Carry'
  BY Zenon, <1>8, CarryComplete DEF DenyForeignWrite, RejectAndClose
<1>9. ASSUME NEW t \in Thread, SetWriteMode(t) PROVE Carry'
  BY Zenon, <1>9, CarryComplete DEF SetWriteMode, RejectAndClose
<1>10. ASSUME NEW t \in Thread, ReadPhysical(t) PROVE Carry'
  BY Zenon, <1>10, CarryComplete DEF ReadPhysical
<1>11. ASSUME NEW t \in Thread, ValidateWrite(t) PROVE Carry'
  <2>1. irp[t].code \in PhysicalWriteCode => CarriedAt("physical", irp[t])
    BY Zenon, <1>11 DEF ValidateWrite, Carry, CarriedAt, InCleanup, HoldsTx
  <2>2. irp[t].code \notin PhysicalWriteCode => CarriedAt("process", irp[t])
    BY Zenon, <1>11 DEF ValidateWrite, Carry, CarriedAt, InCleanup, HoldsTx, WriteCode
  <2> QED
    BY Zenon, <1>11, <2>1, <2>2, CarryGoto, CarryComplete
    DEF ValidateWrite, RejectAndClose
<1>12. ASSUME NEW t \in Thread, ConsumeGateForPhysical(t) PROVE Carry'
  <2>1. CarriedAt(IF irp[t].code = "COMPARE_WRITE_PHYSICAL_PAGE"
                  THEN "compare" ELSE "copy", irp[t])
    BY Zenon, <1>12 DEF ConsumeGateForPhysical, Carry, CarriedAt, InCleanup, HoldsTx
  <2> QED
    BY Zenon, <1>12, <2>1, CarryGoto, CarryComplete
    DEF ConsumeGateForPhysical, RejectAndClose
<1>13. ASSUME NEW t \in Thread, CompareBaseline(t) PROVE Carry'
  <2>1. CarriedAt("copy", irp[t])
    BY Zenon, <1>13 DEF CompareBaseline, Carry, CarriedAt, InCleanup, HoldsTx
  <2> QED
    BY Zenon, <1>13, <2>1, CarryGoto, CarryComplete DEF CompareBaseline
<1>14. ASSUME NEW t \in Thread, NEW o \in Offset, CopyByte(t, o) PROVE Carry'
  BY Zenon, <1>14, <1>a DEF CopyByte
<1>15. ASSUME NEW t \in Thread, EndTransactionCopy(t) PROVE Carry'
  <2>1. CarriedAt("readback", irp[t])
    BY Zenon, <1>15 DEF EndTransactionCopy, Carry, CarriedAt, InCleanup, HoldsTx
  <2> QED
    BY Zenon, <1>15, <2>1, CarryGoto DEF EndTransactionCopy
<1>16. ASSUME NEW t \in Thread, ReadbackAndRespond(t) PROVE Carry'
  BY Zenon, <1>16, CarryComplete DEF ReadbackAndRespond
<1>17. ASSUME NEW t \in Thread, FinishWritePhysical(t) PROVE Carry'
  BY Zenon, <1>17, CarryComplete DEF FinishWritePhysical
<1>18. ASSUME NEW t \in Thread, WriteProcessMemory(t) PROVE Carry'
  BY Zenon, <1>18, CarryComplete DEF WriteProcessMemory
<1>19. ASSUME NEW o \in Offset, NEW b \in Byte, ExternalWrite(o, b) PROVE Carry'
  BY Zenon, <1>19, <1>a DEF ExternalWrite, reqVars
<1>20. CASE UNCHANGED vars
  BY Zenon, <1>20, <1>a DEF vars, reqVars
<1> QED
  BY <1>1, <1>2, <1>3, <1>4, <1>5, <1>6, <1>7, <1>8, <1>9, <1>10, <1>11,
     <1>12, <1>13, <1>14, <1>15, <1>16, <1>17, <1>18, <1>19, <1>20
  DEF Next, ThreadStep

\* The driver starts in a well-formed state.
LEMMA TypeInit == Init => TypeOK /\ Carry
<1> SUFFICES ASSUME Init PROVE TypeOK /\ Carry
  BY Zenon
<1> USE ConstantsAssumption
<1>1. ContextsOK /\ OwnerOK /\ GatesOK /\ CountersOK /\ LocksOK /\ PagesOK
  BY Zenon DEF Init, ContextsOK, OwnerOK, GatesOK, CountersOK, LocksOK, PagesOK
<1>2. DiagnosticsOK
  BY Zenon DEF Init, DiagnosticsOK, Stage, Status
<1>3. RequestsOK
  BY Constants DEF Init, RequestsOK
<1>4. Carry
  BY Zenon DEF Init, Carry, CarriedAt, InCleanup, HoldsTx
<1> QED
  BY Zenon, <1>1, <1>2, <1>3, <1>4 DEF TypeOK

\* Every reachable state of the driver is well formed: no interleaving of
\* dispatch routines leaves a context, a counter, a lock word, a diagnostic
\* field or a request outside its range (OpenHandleCount never goes below 0).
THEOREM TypeCorrect == Spec => [](TypeOK /\ Carry)
<1>1. TypeOK /\ Carry /\ [Next]_vars => (TypeOK /\ Carry)'
  BY Zenon, TypeStep, CarryStep
<1> QED
  BY TypeInit, <1>1, PTL DEF Spec

\* The gate and the number of writes it has paid for, under every step.
LEMMA GateStep == TypeOK /\ OneShotGate /\ [Next]_vars => OneShotGate'
<1> SUFFICES ASSUME TypeOK, OneShotGate, [Next]_vars PROVE OneShotGate'
  BY Zenon
<1>0. GatesOK
  BY Zenon DEF TypeOK
<1>a. UNCHANGED gateVars => OneShotGate'
  BY Zenon DEF OneShotGate, gateVars
<1>b. ASSUME NEW h, CloseGate(h) \/ ConsumeGate(h) \/ OpenGate(h)
      PROVE  OneShotGate'
  BY <1>0, <1>b DEF OneShotGate, GatesOK, CloseGate, ConsumeGate, OpenGate
<1>1. ASSUME NEW p \in Process, NEW h \in Handle, DispatchCreate(p, h)
      PROVE OneShotGate'
  BY <1>0, <1>1 DEF DispatchCreate, OneShotGate, GatesOK
<1>2. ASSUME NEW t \in Thread, ThreadStep(t) PROVE OneShotGate'
  BY Zenon, <1>2, <1>a, <1>b
  DEF ThreadStep, CleanupCloseGate, CleanupReleaseOwner, DispatchDeviceControl,
      DenyForeignWrite, SetWriteMode, ReadPhysical, ValidateWrite,
      ConsumeGateForPhysical, CompareBaseline, CopyByte, EndTransactionCopy,
      ReadbackAndRespond, FinishWritePhysical, WriteProcessMemory,
      RejectAndClose
<1>3. CASE \/ \E t \in Thread, p \in Process, h \in Handle : DispatchCleanup(t, p, h)
           \/ \E h \in Handle : DispatchClose(h)
           \/ \E t \in Thread, r \in Request : Issue(t, r)
           \/ \E o \in Offset, b \in Byte : ExternalWrite(o, b)
           \/ UNCHANGED vars
  BY Zenon, <1>3, <1>a DEF DispatchCleanup, DispatchClose, Issue, ExternalWrite, vars
<1> QED
  BY Zenon, <1>1, <1>2, <1>3 DEF Next

\* One accepted SET_WRITE_MODE(1) pays for at most one write, for any number of
\* handles, threads and requests in flight, on synchronous and on overlapped
\* file objects: the gate is consumed by an interlocked compare-exchange.
THEOREM OneShotGateHolds == Spec => []OneShotGate
<1>1. Init => OneShotGate
  BY DEF Init, OneShotGate
<1>2. TypeOK /\ Carry /\ [Next]_vars => (TypeOK /\ Carry)'
  BY Zenon, TypeStep, CarryStep
<1> QED
  BY TypeInit, <1>1, <1>2, GateStep, PTL DEF Spec

\* A thread inside CleanupFileContext is alone in it for its file object, whose
\* handle count it has not given up yet.
Cleaning ==
    /\ \A t \in Thread : pc[t] \in InCleanup => file[irp[t].handle] = "closing"
    /\ \A t, u \in Thread :
          (pc[t] \in InCleanup /\ pc[u] \in InCleanup
              /\ irp[t].handle = irp[u].handle) => t = u

\* A step after which the threads in cleanup are where they were keeps them so.
LEMMA CleaningFrame ==
    ASSUME TypeOK, Cleaning, UNCHANGED file,
           \A u \in Thread : pc'[u] \in InCleanup =>
               pc[u] \in InCleanup /\ irp'[u] = irp[u]
    PROVE  Cleaning'
BY Zenon DEF Cleaning

\* The steps of a request outside CleanupFileContext leave the contexts and the
\* ownership alone and put no thread into cleanup.
LEMMA NotCleanup ==
    ASSUME TypeOK, NEW t \in Thread, ThreadStep(t),
           ~CleanupCloseGate(t), ~CleanupReleaseOwner(t)
    PROVE  /\ UNCHANGED <<ctxVars, ownVars>>
           /\ \A u \in Thread : pc'[u] \in InCleanup =>
                  pc[u] \in InCleanup /\ irp'[u] = irp[u]
<1>0. RequestsOK
  BY Zenon DEF TypeOK
<1>1. UNCHANGED <<ctxVars, ownVars>>
  BY Zenon DEF ThreadStep, DispatchDeviceControl, DenyForeignWrite, SetWriteMode,
         ReadPhysical, ValidateWrite, ConsumeGateForPhysical, CompareBaseline,
         CopyByte, EndTransactionCopy, ReadbackAndRespond, FinishWritePhysical,
         WriteProcessMemory
<1>2. \/ \E r, d : Complete(t, r, d)
      \/ \E l : Goto(t, l) /\ l \notin InCleanup
      \/ UNCHANGED <<pc, irp>>
  <2>1. CASE DispatchDeviceControl(t)
    BY <2>1 DEF DispatchDeviceControl, InCleanup
  <2>2. CASE DenyForeignWrite(t)
    BY Zenon, <2>2 DEF DenyForeignWrite, RejectAndClose
  <2>3. CASE SetWriteMode(t)
    BY Zenon, <2>3 DEF SetWriteMode, RejectAndClose
  <2>4. CASE ReadPhysical(t)
    BY Zenon, <2>4 DEF ReadPhysical
  <2>5. CASE ValidateWrite(t)
    BY SMTT(20), <2>5 DEF ValidateWrite, RejectAndClose, InCleanup
  <2>6. CASE ConsumeGateForPhysical(t)
    <3>1. \/ \E r, d : Complete(t, r, d)
          \/ Goto(t, "compare")
          \/ Goto(t, "copy")
      BY Zenon, <2>6 DEF ConsumeGateForPhysical, RejectAndClose
    <3>2. "compare" \notin InCleanup /\ "copy" \notin InCleanup
      BY Zenon DEF InCleanup
    <3> QED
      BY Zenon, <3>1, <3>2
  <2>7. CASE CompareBaseline(t)
    BY SMTT(20), <2>7 DEF CompareBaseline, InCleanup
  <2>8. CASE \E o \in Offset : CopyByte(t, o)
    BY Zenon, <2>8 DEF CopyByte, InCleanup
  <2>9. CASE EndTransactionCopy(t)
    BY SMTT(20), <2>9 DEF EndTransactionCopy, InCleanup
  <2>10. CASE ReadbackAndRespond(t)
    BY Zenon, <2>10 DEF ReadbackAndRespond
  <2>11. CASE FinishWritePhysical(t)
    BY Zenon, <2>11 DEF FinishWritePhysical
  <2>12. CASE WriteProcessMemory(t)
    BY Zenon, <2>12 DEF WriteProcessMemory
  <2> QED
    BY Zenon, <2>1, <2>2, <2>3, <2>4, <2>5, <2>6, <2>7, <2>8, <2>9, <2>10, <2>11, <2>12 DEF ThreadStep
<1>3. ASSUME NEW u \in Thread, pc'[u] \in InCleanup
      PROVE  pc[u] \in InCleanup /\ irp'[u] = irp[u]
  <2>1. CASE \E r, d : Complete(t, r, d)
    BY Zenon, <1>0, <1>3, <2>1 DEF Complete, RequestsOK, InCleanup
  <2>2. CASE \E l : Goto(t, l) /\ l \notin InCleanup
    BY Zenon, <1>0, <1>3, <2>2 DEF Goto, RequestsOK
  <2>3. CASE UNCHANGED <<pc, irp>>
    BY Zenon, <1>3, <2>3
  <2> QED
    BY Zenon, <1>2, <2>1, <2>2, <2>3
<1> QED
  BY Zenon, <1>1, <1>3

\* The ownership survives a step that touches neither contexts nor owner.
LEMMA OwnerFrame ==
    ASSUME OwnershipConsistent, UNCHANGED <<ctxVars, ownVars>>
    PROVE  OwnershipConsistent'
<1>1. Counted' = Counted
  BY Zenon DEF Counted, ctxVars
<1> QED
  BY Zenon, <1>1 DEF OwnershipConsistent, ctxVars, ownVars

\* A create adds one counted handle, a cleanup gives one up, and nothing else
\* changes the set of counted handles.
LEMMA OwnerStep ==
    TypeOK /\ Carry /\ Cleaning /\ OwnershipConsistent /\ [Next]_vars
        => Cleaning' /\ OwnershipConsistent'
<1> SUFFICES ASSUME TypeOK, Carry, Cleaning, OwnershipConsistent, [Next]_vars
             PROVE  Cleaning' /\ OwnershipConsistent'
  BY Zenon
<1>0. ContextsOK /\ OwnerOK /\ RequestsOK
  BY Zenon DEF TypeOK
<1>a. IsFiniteSet(Counted) /\ Counted \subseteq Handle
  <2>1. Counted \subseteq Handle
    BY Zenon DEF Counted
  <2> QED
    BY Zenon, <2>1, FS_Subset, ConstantsAssumption
<1>1. ASSUME NEW p \in Process, NEW h \in Handle, DispatchCreate(p, h)
      PROVE  Cleaning' /\ OwnershipConsistent'
  <2>1. file[h] = "free" /\ file' = [file EXCEPT ![h] = "open"] /\ UNCHANGED <<pc, irp>>
    BY Zenon, <1>1 DEF DispatchCreate, reqVars
  <2>2. Cleaning'
    BY <1>0, <2>1 DEF Cleaning, ContextsOK
  <2>3. Counted' = Counted \cup {h} /\ h \notin Counted
    BY Zenon, <1>0, <2>1 DEF Counted, ContextsOK
  <2>4. Cardinality(Counted') = Cardinality(Counted) + 1
    BY Zenon, <1>a, <2>3, FS_AddElement
  <2>5. p # None
    BY Zenon, ConstantsAssumption
  <2>6. \A g \in Counted' : ctxOwner'[g] = p
    <3> SUFFICES ASSUME NEW g \in Counted' PROVE ctxOwner'[g] = p
      BY Zenon
    <3>1. CASE g = h
      BY Zenon, <1>0, <1>1, <3>1 DEF DispatchCreate, ContextsOK
    <3>2. CASE g # h
      BY Zenon, <1>0, <1>1, <1>a, <2>3, <3>2
      DEF DispatchCreate, ContextsOK, OwnershipConsistent
    <3> QED
      BY Zenon, <3>1, <3>2
  <2>7. OwnerProcess' = p /\ OpenHandleCount' = OpenHandleCount + 1
    BY Zenon, <1>1 DEF DispatchCreate
  <2> QED
    BY Zenon, <2>2, <2>3, <2>4, <2>5, <2>6, <2>7 DEF OwnershipConsistent
<1>2. ASSUME NEW t \in Thread, NEW p \in Process, NEW h \in Handle,
             DispatchCleanup(t, p, h)
      PROVE  Cleaning' /\ OwnershipConsistent'
  <2>1. /\ file[h] = "open" /\ file' = [file EXCEPT ![h] = "closing"]
        /\ pc' = [pc EXCEPT ![t] = "cleanupGate"]
        /\ irp'[t].handle = h
        /\ \A u \in Thread \ {t} : irp'[u] = irp[u] /\ pc'[u] = pc[u]
    BY Zenon, <1>0, <1>2 DEF DispatchCleanup, RequestsOK
  <2>2. Cleaning'
    BY <1>0, <2>1 DEF Cleaning, ContextsOK, RequestsOK
  <2>3. Counted' = Counted
    BY Zenon, <1>0, <2>1 DEF Counted, ContextsOK
  <2>4. UNCHANGED <<ctxOwner, ownVars>>
    BY Zenon, <1>2 DEF DispatchCleanup
  <2> QED
    BY Zenon, <2>2, <2>3, <2>4 DEF OwnershipConsistent, ownVars
<1>3. ASSUME NEW h \in Handle, DispatchClose(h)
      PROVE  Cleaning' /\ OwnershipConsistent'
  <2>1. /\ file[h] = "cleaned" /\ file' = [file EXCEPT ![h] = "free"]
        /\ ctxOwner' = [ctxOwner EXCEPT ![h] = None]
        /\ UNCHANGED <<pc, irp, ownVars>>
    BY Zenon, <1>3 DEF DispatchClose, reqVars
  <2>2. Cleaning'
    BY SMTT(20), <1>0, <2>1 DEF Cleaning, ContextsOK
  <2>3. Counted' = Counted /\ h \notin Counted
    BY Zenon, <1>0, <2>1 DEF Counted, ContextsOK
  <2>4. \A g \in Counted : ctxOwner'[g] = ctxOwner[g]
    BY Zenon, <1>0, <1>a, <2>1, <2>3 DEF ContextsOK
  <2> QED
    BY Zenon, <2>1, <2>2, <2>3, <2>4 DEF OwnershipConsistent, ownVars
<1>4. ASSUME NEW t \in Thread, NEW r \in Request, Issue(t, r)
      PROVE  Cleaning' /\ OwnershipConsistent'
  <2>1. UNCHANGED <<ctxVars, ownVars>>
    BY Zenon, <1>4 DEF Issue
  <2>2. \A u \in Thread : pc'[u] \in InCleanup =>
            pc[u] \in InCleanup /\ irp'[u] = irp[u]
    BY Zenon, <1>0, <1>4 DEF Issue, RequestsOK, InCleanup
  <2> QED
    BY Zenon, <2>1, <2>2, CleaningFrame, OwnerFrame DEF ctxVars
<1>5. ASSUME NEW t \in Thread, CleanupCloseGate(t)
      PROVE  Cleaning' /\ OwnershipConsistent'
  <2>1. UNCHANGED <<ctxVars, ownVars>>
    BY Zenon, <1>5 DEF CleanupCloseGate
  <2>2. \A u \in Thread : pc'[u] \in InCleanup =>
            pc[u] \in InCleanup /\ irp'[u] = irp[u]
    BY Zenon, <1>0, <1>5 DEF CleanupCloseGate, Goto, RequestsOK, InCleanup
  <2> QED
    BY Zenon, <2>1, <2>2, CleaningFrame, OwnerFrame DEF ctxVars
<1>6. ASSUME NEW t \in Thread, CleanupReleaseOwner(t)
      PROVE  Cleaning' /\ OwnershipConsistent'
  <2> DEFINE h == irp[t].handle
  <2>1. /\ h \in Handle /\ file[h] = "closing" /\ pc[t] \in InCleanup
        /\ file' = [file EXCEPT ![h] = "cleaned"]
        /\ pc' = [pc EXCEPT ![t] = "idle"]
        /\ irp' = [irp EXCEPT ![t] = None]
        /\ UNCHANGED ctxOwner
    BY Zenon, <1>0, <1>6
    DEF CleanupReleaseOwner, Carry, CarriedAt, InCleanup, Irp, Cleaning, Complete
  <2>2. \A u \in Thread : pc'[u] \in InCleanup =>
            u # t /\ pc[u] \in InCleanup /\ irp'[u] = irp[u]
    BY Zenon, <1>0, <2>1 DEF RequestsOK, InCleanup
  <2>3. \A u \in Thread : pc'[u] \in InCleanup => irp[u].handle # h
    BY Zenon, <2>1, <2>2 DEF Cleaning
  <2>4. Cleaning'
    BY <1>0, <2>1, <2>2, <2>3 DEF Cleaning, ContextsOK
  <2>5. Counted' = Counted \ {h} /\ h \in Counted
    BY Zenon, <1>0, <2>1 DEF Counted, ContextsOK
  <2>6. Cardinality(Counted') = Cardinality(Counted) - 1 /\ IsFiniteSet(Counted')
    BY Zenon, <1>a, <2>5, FS_RemoveElement
  <2>7. Cardinality(Counted') \in Nat /\ (Cardinality(Counted') = 0 <=> Counted' = {})
    BY Zenon, <2>6, FS_CardinalityType, FS_EmptySet
  <2>8. /\ OpenHandleCount' = Cardinality(Counted')
        /\ OwnerProcess' = IF Counted' = {} THEN None ELSE OwnerProcess
    BY <1>0, <1>6, <2>6, <2>7
    DEF CleanupReleaseOwner, ReleaseOwner, OwnershipConsistent, OwnerOK
  <2>9. OwnerProcess # None
    BY Zenon, <2>5 DEF OwnershipConsistent
  <2> QED
    BY Zenon, <2>1, <2>4, <2>5, <2>8, <2>9 DEF OwnershipConsistent
<1>7. ASSUME NEW t \in Thread, ThreadStep(t), ~CleanupCloseGate(t),
             ~CleanupReleaseOwner(t)
      PROVE  Cleaning' /\ OwnershipConsistent'
  BY Zenon, <1>7, NotCleanup, CleaningFrame, OwnerFrame DEF ctxVars
<1>8. CASE (\E o \in Offset, b \in Byte : ExternalWrite(o, b)) \/ UNCHANGED vars
  <2>1. UNCHANGED <<ctxVars, ownVars, pc, irp>>
    BY Zenon, <1>8 DEF ExternalWrite, vars, reqVars
  <2> QED
    BY Zenon, <2>1, CleaningFrame, OwnerFrame DEF ctxVars
<1> QED
  BY Zenon, <1>1, <1>2, <1>3, <1>4, <1>5, <1>6, <1>7, <1>8 DEF Next

\* A driver nobody has opened has no owner.
LEMMA OwnerInit == Init => Cleaning /\ OwnershipConsistent
<1> SUFFICES ASSUME Init PROVE Cleaning /\ OwnershipConsistent
  BY Zenon
<1>1. Cleaning
  BY Zenon DEF Init, Cleaning, InCleanup
<1>2. Counted = {}
  BY Zenon DEF Init, Counted
<1> QED
  BY Zenon, <1>1, <1>2, FS_EmptySet DEF Init, OwnershipConsistent

\* The device has one controller at a time, whatever creates, cleanups and
\* closes race: the handle count is exact, the owner is set exactly while it is
\* positive, and every counted handle was opened by that owner.
THEOREM OwnershipHolds == Spec => []OwnershipConsistent
<1>1. TypeOK /\ Carry /\ [Next]_vars => (TypeOK /\ Carry)'
  BY Zenon, TypeStep, CarryStep
<1> QED
  BY TypeInit, OwnerInit, <1>1, OwnerStep, PTL DEF Spec

\* PhysicalTransactionLock is held by the thread that is between its acquire
\* and its release, and by nobody else.
TxHeld == \A t \in Thread : TxLock = t <=> pc[t] \in HoldsTx

\* A page transaction in its compare has copied nothing yet, and a copy stays
\* within the span of its request.
WithinSpan ==
    \A t \in Thread :
        /\ pc[t] = "compare" => todo[t] = irp[t].span
        /\ pc[t] \in {"copy", "readback"} => todo[t] \subseteq irp[t].span

\* The physical state a copy works on.
Isolation == TxHeld /\ WithinSpan /\ CopyIsolated

\* A thread that stays where it is, with the page and the copy as they were,
\* is as isolated as before.
LEMMA IsolationFrame ==
    ASSUME TypeOK, Isolation, UNCHANGED <<TxLock, page, before>>,
           \A u \in Thread : /\ pc'[u] \in HoldsTx <=> pc[u] \in HoldsTx
                             /\ pc'[u] \in HoldsTx => pc'[u] = pc[u]
                                    /\ irp'[u] = irp[u] /\ todo'[u] = todo[u]
    PROVE  Isolation'
<1>1. TxHeld'
  BY Zenon DEF Isolation, TxHeld
<1>2. WithinSpan'
  BY Zenon DEF Isolation, WithinSpan, HoldsTx
<1>3. CopyIsolated'
  BY Zenon DEF Isolation, CopyIsolated, HoldsTx
<1> QED
  BY Zenon, <1>1, <1>2, <1>3 DEF Isolation

\* A thread outside the transaction lock that moves to another place outside it.
LEMMA IsolationOutside ==
    ASSUME TypeOK, Isolation, NEW t \in Thread, pc[t] \notin HoldsTx,
           UNCHANGED <<TxLock, page, before>>,
           (\E r, d : Complete(t, r, d))
              \/ (\E l : l \notin HoldsTx /\ Goto(t, l) /\ UNCHANGED todo)
    PROVE  Isolation'
<1>0. RequestsOK
  BY Zenon DEF TypeOK
<1>1. \A u \in Thread : /\ pc'[u] \in HoldsTx <=> pc[u] \in HoldsTx
                        /\ pc'[u] \in HoldsTx => pc'[u] = pc[u]
                               /\ irp'[u] = irp[u] /\ todo'[u] = todo[u]
  <2>1. CASE \E r, d : Complete(t, r, d)
    BY <1>0, <2>1 DEF Complete, RequestsOK, HoldsTx
  <2>2. CASE \E l : l \notin HoldsTx /\ Goto(t, l) /\ UNCHANGED todo
    BY Zenon, <1>0, <2>2 DEF Goto, RequestsOK
  <2> QED
    BY Zenon, <2>1, <2>2
<1> QED
  BY Zenon, <1>1, IsolationFrame

\* The holder of the transaction lock that completes gives it up.
LEMMA IsolationRelease ==
    ASSUME TypeOK, Isolation, NEW t \in Thread, pc[t] \in HoldsTx,
           NEW r, NEW d, Complete(t, r, d), TxLock' = None
    PROVE  Isolation'
<1>0. RequestsOK
  BY Zenon DEF TypeOK
<1>1. \A u \in Thread : pc'[u] \notin HoldsTx
  BY Zenon, <1>0 DEF Complete, RequestsOK, HoldsTx, Isolation, TxHeld
<1>2. TxHeld'
  BY Zenon, <1>1, ConstantsAssumption DEF TxHeld
<1>3. WithinSpan' /\ CopyIsolated'
  BY Zenon, <1>1 DEF WithinSpan, CopyIsolated, HoldsTx
<1> QED
  BY Zenon, <1>2, <1>3 DEF Isolation

\* While a thread holds the transaction lock it is the only one in a copy.
LEMMA IsolationStep ==
    TypeOK /\ Carry /\ Isolation /\ [Next]_vars => Isolation'
<1> SUFFICES ASSUME TypeOK, Carry, Isolation, [Next]_vars PROVE Isolation'
  BY Zenon
<1>0. RequestsOK /\ PagesOK
  BY Zenon DEF TypeOK
<1>a. ASSUME UNCHANGED <<TxLock, page, before, pc, irp, todo>> PROVE Isolation'
  BY Zenon, <1>a, IsolationFrame
<1>1. ASSUME NEW p \in Process, NEW h \in Handle, DispatchCreate(p, h)
      PROVE Isolation'
  BY Zenon, <1>1, <1>a DEF DispatchCreate, lockVars, pageVars, reqVars
<1>2. ASSUME NEW t \in Thread, NEW p \in Process, NEW h \in Handle,
             DispatchCleanup(t, p, h)
      PROVE Isolation'
  <2>1. \A u \in Thread : /\ pc'[u] \in HoldsTx <=> pc[u] \in HoldsTx
                          /\ pc'[u] \in HoldsTx => pc'[u] = pc[u]
                                 /\ irp'[u] = irp[u] /\ todo'[u] = todo[u]
    BY Zenon, <1>0, <1>2 DEF DispatchCleanup, RequestsOK, HoldsTx
  <2> QED
    BY Zenon, <1>2, <2>1, IsolationFrame DEF DispatchCleanup, lockVars, pageVars
<1>3. ASSUME NEW h \in Handle, DispatchClose(h) PROVE Isolation'
  BY Zenon, <1>3, <1>a DEF DispatchClose, lockVars, pageVars, reqVars
<1>4. ASSUME NEW t \in Thread, NEW r \in Request, Issue(t, r) PROVE Isolation'
  <2>1. \A u \in Thread : /\ pc'[u] \in HoldsTx <=> pc[u] \in HoldsTx
                          /\ pc'[u] \in HoldsTx => pc'[u] = pc[u]
                                 /\ irp'[u] = irp[u] /\ todo'[u] = todo[u]
    BY Zenon, <1>0, <1>4 DEF Issue, RequestsOK, HoldsTx
  <2> QED
    BY Zenon, <1>4, <2>1, IsolationFrame DEF Issue, lockVars, pageVars
<1>5. ASSUME NEW t \in Thread,
             \/ CleanupCloseGate(t) \/ CleanupReleaseOwner(t)
             \/ DispatchDeviceControl(t) \/ DenyForeignWrite(t)
             \/ SetWriteMode(t) \/ ReadPhysical(t) \/ ValidateWrite(t)
      PROVE Isolation'
  <2>1. pc[t] \notin HoldsTx
    BY Zenon, <1>5
    DEF CleanupCloseGate, CleanupReleaseOwner, DispatchDeviceControl,
        DenyForeignWrite, SetWriteMode, ReadPhysical, ValidateWrite, HoldsTx
  <2>2. UNCHANGED <<TxLock, page, before>>
    BY Zenon, <1>5
    DEF CleanupCloseGate, CleanupReleaseOwner, DispatchDeviceControl,
        DenyForeignWrite, SetWriteMode, ReadPhysical, ValidateWrite,
        lockVars, pageVars
  <2>3. \/ \E r, d : Complete(t, r, d)
        \/ \E l : l \notin HoldsTx /\ Goto(t, l) /\ UNCHANGED todo
    BY Zenon, <1>5
    DEF CleanupCloseGate, CleanupReleaseOwner, DispatchDeviceControl,
        DenyForeignWrite, SetWriteMode, ReadPhysical, ValidateWrite,
        RejectAndClose, HoldsTx
  <2> QED
    BY Zenon, <2>1, <2>2, <2>3, IsolationOutside
<1>6. ASSUME NEW t \in Thread, ConsumeGateForPhysical(t) PROVE Isolation'
  <2> DEFINE compare == irp[t].code = "COMPARE_WRITE_PHYSICAL_PAGE"
  <2>1. CASE /\ \E r, d : Complete(t, r, d)
             /\ UNCHANGED <<TxLock, before>>
    <3>1. pc[t] \notin HoldsTx /\ UNCHANGED page
      BY Zenon, <1>6 DEF ConsumeGateForPhysical, HoldsTx
    <3> QED
      BY Zenon, <2>1, <3>1, IsolationOutside
  <2>2. CASE /\ AcquireTx(t) /\ Goto(t, IF compare THEN "compare" ELSE "copy")
             /\ todo' = [todo EXCEPT ![t] = irp[t].span]
             /\ before' = page
    <3>1. /\ pc' = [pc EXCEPT ![t] = IF compare THEN "compare" ELSE "copy"]
          /\ irp' = irp /\ page' = page /\ TxLock = None /\ TxLock' = t
      BY Zenon, <1>6, <2>2 DEF ConsumeGateForPhysical, AcquireTx, Goto
    <3>2. \A u \in Thread : pc[u] \notin HoldsTx
      BY Zenon, <3>1, ConstantsAssumption DEF Isolation, TxHeld
    <3>3. \A u \in Thread : pc'[u] \in HoldsTx <=> u = t
      BY Zenon, <1>0, <3>1, <3>2 DEF RequestsOK, HoldsTx
    <3>4. TxHeld'
      BY Zenon, <3>1, <3>3 DEF TxHeld
    <3>5. todo'[t] = irp'[t].span /\ before' = page'
      BY Zenon, <1>0, <2>2, <3>1 DEF RequestsOK
    <3>6. WithinSpan'
      BY Zenon, <3>3, <3>5 DEF WithinSpan, HoldsTx
    <3>7. pc'[t] = "copy" => irp'[t].code # "COMPARE_WRITE_PHYSICAL_PAGE"
      BY Zenon, <1>0, <3>1 DEF RequestsOK
    <3>8. pc'[t] # "readback"
      BY Zenon, <1>0, <3>1 DEF RequestsOK
    <3>9. CopyIsolated'
      BY Zenon, <3>3, <3>5, <3>7, <3>8 DEF CopyIsolated, HoldsTx
    <3> QED
      BY Zenon, <3>4, <3>6, <3>9 DEF Isolation
  <2> QED
    BY Zenon, <1>6, <2>1, <2>2 DEF ConsumeGateForPhysical, RejectAndClose
<1>7. ASSUME NEW t \in Thread, CompareBaseline(t) PROVE Isolation'
  <2>1. pc[t] = "compare"
    BY Zenon, <1>7 DEF CompareBaseline
  <2>2. CASE (\E r, d : Complete(t, r, d)) /\ TxLock' = None
    BY Zenon, <2>1, <2>2, IsolationRelease DEF HoldsTx
  <2>3. CASE /\ page = irp[t].expected /\ Goto(t, "copy") /\ before' = page
             /\ UNCHANGED <<lockVars, todo>>
    <3>1. /\ pc' = [pc EXCEPT ![t] = "copy"] /\ irp' = irp /\ todo' = todo
          /\ page' = page /\ TxLock' = TxLock
      BY Zenon, <1>7, <2>3 DEF CompareBaseline, Goto, lockVars
    <3>2. \A u \in Thread : pc[u] \in HoldsTx <=> u = t
      BY Zenon, <2>1 DEF Isolation, TxHeld, HoldsTx
    <3>3. \A u \in Thread : pc'[u] \in HoldsTx <=> u = t
      BY Zenon, <1>0, <3>1, <3>2 DEF RequestsOK, HoldsTx
    <3>4. TxHeld'
      BY Zenon, <2>1, <3>1, <3>2, <3>3 DEF TxHeld, Isolation
    <3>5. todo'[t] = irp'[t].span /\ before' = page' /\ page = irp'[t].expected
      BY Zenon, <2>1, <2>3, <3>1 DEF Isolation, WithinSpan
    <3>6. WithinSpan'
      BY Zenon, <1>0, <3>1, <3>3, <3>5 DEF WithinSpan, HoldsTx, RequestsOK
    <3>7. CopyIsolated'
      BY Zenon, <3>3, <3>5, <3>1 DEF CopyIsolated, HoldsTx
    <3> QED
      BY Zenon, <3>4, <3>6, <3>7 DEF Isolation
  <2> QED
    BY Zenon, <1>7, <2>2, <2>3 DEF CompareBaseline, ReleaseBoth
<1>8. ASSUME NEW t \in Thread, NEW o \in Offset, CopyByte(t, o) PROVE Isolation'
  <2>1. /\ pc[t] = "copy" /\ o \in todo[t]
        /\ page' = [page EXCEPT ![o] = irp[t].desired[o]]
        /\ todo' = [todo EXCEPT ![t] = todo[t] \ {o}]
        /\ UNCHANGED <<TxLock, before, pc, irp>>
    BY Zenon, <1>8 DEF CopyByte, lockVars
  <2>2. \A u \in Thread : pc[u] \in HoldsTx <=> u = t
    BY Zenon, <2>1 DEF Isolation, TxHeld, HoldsTx
  <2>3. TxHeld' /\ WithinSpan'
    BY Zenon, <1>0, <2>1, <2>2 DEF Isolation, TxHeld, WithinSpan, HoldsTx, RequestsOK
  <2>4. o \in irp[t].span
    BY Zenon, <2>1 DEF Isolation, WithinSpan
  <2>5. CopyIsolated'
    <3> SUFFICES ASSUME ~ExternalWriters
        PROVE /\ \A q \in Offset : page'[q] = IF q \in irp[t].span \ todo'[t]
                                       THEN irp[t].desired[q] ELSE before[q]
              /\ irp[t].code = "COMPARE_WRITE_PHYSICAL_PAGE" => before = irp[t].expected
      BY Zenon, <2>1, <2>2 DEF CopyIsolated, HoldsTx
    <3>1. /\ \A q \in Offset : page[q] = IF q \in irp[t].span \ todo[t]
                                 THEN irp[t].desired[q] ELSE before[q]
          /\ irp[t].code = "COMPARE_WRITE_PHYSICAL_PAGE" => before = irp[t].expected
      BY Zenon, <2>1 DEF Isolation, CopyIsolated
    <3>2. todo'[t] = todo[t] \ {o}
      BY Zenon, <1>0, <2>1 DEF RequestsOK
    <3> QED
      BY Zenon, <1>0, <2>1, <2>4, <3>1, <3>2 DEF PagesOK, Page
  <2> QED
    BY Zenon, <2>3, <2>5 DEF Isolation
<1>9. ASSUME NEW t \in Thread, EndTransactionCopy(t) PROVE Isolation'
  <2>1. /\ pc[t] = "copy" /\ pc' = [pc EXCEPT ![t] = "readback"]
        /\ UNCHANGED <<TxLock, page, before, irp, todo>>
    BY Zenon, <1>9 DEF EndTransactionCopy, Goto, lockVars, pageVars
  <2>2. \A u \in Thread : pc[u] \in HoldsTx <=> u = t
    BY Zenon, <2>1 DEF Isolation, TxHeld, HoldsTx
  <2>3. \A u \in Thread : pc'[u] = IF u = t THEN "readback" ELSE pc[u]
    BY Zenon, <1>0, <2>1 DEF RequestsOK
  <2>4. TxHeld' /\ WithinSpan'
    BY SMTT(20), <2>1, <2>2, <2>3 DEF Isolation, TxHeld, WithinSpan, HoldsTx
  <2>5. CopyIsolated'
    BY <2>1, <2>2, <2>3 DEF Isolation, CopyIsolated, HoldsTx
  <2> QED
    BY Zenon, <2>4, <2>5 DEF Isolation
<1>10. ASSUME NEW t \in Thread, ReadbackAndRespond(t) \/ FinishWritePhysical(t)
       PROVE Isolation'
  <2>1. pc[t] \in HoldsTx /\ (\E r, d : Complete(t, r, d)) /\ TxLock' = None
    BY Zenon, <1>10 DEF ReadbackAndRespond, FinishWritePhysical, ReleaseBoth, HoldsTx
  <2> QED
    BY Zenon, <2>1, IsolationRelease
<1>11. ASSUME NEW t \in Thread, WriteProcessMemory(t) PROVE Isolation'
  <2>1. pc[t] = "process" /\ UNCHANGED <<TxLock, before>>
        /\ \E r, d : Complete(t, r, d)
    BY Zenon, <1>11 DEF WriteProcessMemory
  <2>2. \A u \in Thread : /\ pc'[u] \in HoldsTx <=> pc[u] \in HoldsTx
                          /\ pc'[u] \in HoldsTx => pc'[u] = pc[u]
                                 /\ irp'[u] = irp[u] /\ todo'[u] = todo[u]
    BY <1>0, <2>1 DEF Complete, RequestsOK, HoldsTx
  <2>3. ~ExternalWriters => UNCHANGED page
    BY Zenon, <1>11 DEF WriteProcessMemory
  <2>4. CASE UNCHANGED page
    BY Zenon, <2>1, <2>2, <2>4, IsolationFrame
  <2>5. CASE ExternalWriters
    BY <2>1, <2>2, <2>5
    DEF Isolation, TxHeld, WithinSpan, CopyIsolated, HoldsTx
  <2> QED
    BY Zenon, <2>3, <2>4, <2>5
<1>12. ASSUME NEW o \in Offset, NEW b \in Byte, ExternalWrite(o, b)
       PROVE Isolation'
  BY Zenon, <1>12 DEF ExternalWrite, lockVars, reqVars, Isolation, TxHeld, WithinSpan,
               CopyIsolated
<1>13. CASE UNCHANGED vars
  BY Zenon, <1>13, <1>a DEF vars, lockVars, pageVars, reqVars
<1> QED
  BY <1>1, <1>2, <1>3, <1>4, <1>5, <1>6, <1>7, <1>8, <1>9, <1>10, <1>11,
     <1>12, <1>13
  DEF Next, ThreadStep

\* At first no request is in flight, so no copy disturbs another.
LEMMA IsolationInit == Init => Isolation
BY ConstantsAssumption
DEF Init, Isolation, TxHeld, WithinSpan, CopyIsolated, HoldsTx

\* PhysicalTransactionLock isolates every physical write: with no writer outside
\* the driver, the page a request is copying into is the page it began with
\* overwritten by its own bytes, and a page transaction that copies began from
\* the page it expected.
THEOREM CopyIsolatedHolds == Spec => []CopyIsolated
<1>1. TypeOK /\ Carry /\ [Next]_vars => (TypeOK /\ Carry)'
  BY Zenon, TypeStep, CarryStep
<1>2. Isolation => CopyIsolated
  BY Zenon DEF Isolation
<1> QED
  BY TypeInit, IsolationInit, <1>1, <1>2, IsolationStep, PTL DEF Spec

-----------------------------------------------------------------------------
(* On synchronous file objects only the controller writes. *)

\* Past IsControllerContext.
Accepted == HoldsWrite \cup {"entry"}

\* On synchronous file objects a request has its file object to itself, open
\* until the request is done, and the gate stays closed from cleanup on.
Serial ==
    Synchronous =>
        /\ \A t \in Thread : pc[t] \notin InCleanup \cup {"idle"} =>
               file[irp[t].handle] = "open"
        /\ \A t, u \in Thread :
               (pc[t] # "idle" /\ pc[u] # "idle" /\ irp[t].handle = irp[u].handle) => t = u
        /\ \A t \in Thread : pc[t] \in Accepted =>
               ctxOwner[irp[t].handle] = irp[t].process
        /\ \A t \in Thread : pc[t] = "cleanupOwner" => ~WriteEnabled[irp[t].handle]
        /\ \A h \in Handle : file[h] = "cleaned" => ~WriteEnabled[h]

\* A thread in the driver carries a request on one of its handles.
LEMMA HandleOf ==
    ASSUME Carry, NEW t \in Thread, pc[t] # "idle"
    PROVE  irp[t] \in Irp /\ irp[t].handle \in Handle
<1>1. irp[t] \in Irp
  BY Zenon DEF Carry, CarriedAt, Request
<1> QED BY Zenon, <1>1 DEF Irp

\* A step of one request on its own handle.
LEMMA SerialMove ==
    ASSUME TypeOK, Carry, Serial, NEW t \in Thread, pc[t] \notin InCleanup \cup {"idle"},
           UNCHANGED ctxVars,
           \A h \in Handle : h # irp[t].handle => WriteEnabled'[h] = WriteEnabled[h],
           \A u \in Thread : u # t => pc'[u] = pc[u] /\ irp'[u] = irp[u],
           \/ pc'[t] = "idle"
           \/ /\ irp'[t] = irp[t] /\ pc'[t] \notin InCleanup
              /\ pc'[t] \in Accepted => pc[t] \in Accepted \/ IsControllerContext(t)
    PROVE  Serial'
<1> SUFFICES ASSUME Synchronous PROVE Serial'
  BY Zenon DEF Serial
<1>0. \A u \in Thread : pc[u] # "idle" => irp[u].handle \in Handle
  BY Zenon, HandleOf
<1> DEFINE g == irp[t].handle
<1>1. g \in Handle /\ file[g] = "open" /\ (\A u \in Thread : u # t /\ pc[u] # "idle" => irp[u].handle # g)
  BY Zenon, <1>0 DEF Serial
<1>2. /\ \A u \in Thread : pc'[u] \notin InCleanup \cup {"idle"} => file'[irp'[u].handle] = "open"
      /\ \A u, v \in Thread :
               (pc'[u] # "idle" /\ pc'[v] # "idle" /\ irp'[u].handle = irp'[v].handle) => u = v
  BY SMTT(20), <1>1 DEF Serial, ctxVars
<1>3. \A u \in Thread : pc'[u] \in Accepted => ctxOwner'[irp'[u].handle] = irp'[u].process
  <2> SUFFICES ASSUME NEW u \in Thread, pc'[u] \in Accepted
               PROVE  ctxOwner[irp'[u].handle] = irp'[u].process
    BY Zenon DEF ctxVars
  <2>1. CASE u # t
    BY Zenon, <2>1 DEF Serial
  <2>2. CASE u = t
    BY Zenon, <2>2 DEF Serial, IsControllerContext, Accepted, HoldsWrite, HoldsTx
  <2> QED BY Zenon, <2>1, <2>2
<1>4. \A u \in Thread : pc'[u] = "cleanupOwner" => ~WriteEnabled'[irp'[u].handle]
  <2> SUFFICES ASSUME NEW u \in Thread, pc'[u] = "cleanupOwner"
               PROVE  ~WriteEnabled'[irp'[u].handle]
    BY Zenon
  <2>1. u # t
    BY Zenon DEF InCleanup
  <2>2. pc[u] = "cleanupOwner" /\ irp'[u] = irp[u] /\ irp[u].handle # g /\ irp[u].handle \in Handle
    BY Zenon, <1>0, <1>1, <2>1
  <2> QED BY SMTT(20), <2>2 DEF Serial
<1>5. \A h \in Handle : file'[h] = "cleaned" => ~WriteEnabled'[h]
  BY Zenon, <1>1 DEF Serial, ctxVars
<1> QED BY Zenon, <1>2, <1>3, <1>4, <1>5 DEF Serial

\* The gate of a handle is the only one a primitive touches.
LEMMA OneGate ==
    ASSUME TypeOK, NEW g, CloseGate(g) \/ ConsumeGate(g) \/ OpenGate(g) \/ UNCHANGED gateVars
    PROVE  \A h \in Handle : h # g => WriteEnabled'[h] = WriteEnabled[h]
BY Zenon DEF TypeOK, GatesOK, CloseGate, ConsumeGate, OpenGate, gateVars

\* A request that completes or moves on, seen from all threads.
LEMMA Moves ==
    ASSUME TypeOK, NEW t \in Thread
    PROVE  /\ (\E r, d : Complete(t, r, d)) =>
                  /\ pc'[t] = "idle" /\ irp'[t] = None
                  /\ \A u \in Thread : u # t => pc'[u] = pc[u] /\ irp'[u] = irp[u]
           /\ \A l : Goto(t, l) =>
                  /\ pc'[t] = l /\ irp'[t] = irp[t]
                  /\ \A u \in Thread : u # t => pc'[u] = pc[u] /\ irp'[u] = irp[u]
BY Zenon DEF TypeOK, RequestsOK, Complete, Goto

\* No step lets a second request at a handle, or reopens the gate of one that is
\* being cleaned up.
LEMMA SerialStep ==
    ASSUME TypeOK, Carry, Cleaning, Serial, [Next]_vars
    PROVE  Serial'
<1>0. ContextsOK /\ GatesOK /\ RequestsOK
  BY Zenon DEF TypeOK
<1>00. \A u \in Thread : pc[u] # "idle" => irp[u].handle \in Handle
  BY Zenon, HandleOf
<1>a. ASSUME UNCHANGED <<file, ctxOwner, WriteEnabled, pc, irp>> PROVE Serial'
  BY Zenon, <1>a DEF Serial
<1>1. ASSUME NEW p \in Process, NEW h \in Handle, DispatchCreate(p, h)
      PROVE Serial'
  <2>1. /\ file[h] = "free" /\ file' = [file EXCEPT ![h] = "open"]
        /\ ctxOwner' = [ctxOwner EXCEPT ![h] = p]
        /\ WriteEnabled' = [WriteEnabled EXCEPT ![h] = FALSE] /\ UNCHANGED <<pc, irp>>
    BY Zenon, <1>1 DEF DispatchCreate, reqVars
  <2>2. Synchronous => \A u \in Thread : pc[u] # "idle" => irp[u].handle # h
    BY Zenon, <2>1 DEF Serial, Cleaning
  <2> QED BY <1>0, <1>00, <2>1, <2>2 DEF Serial, ContextsOK, GatesOK, InCleanup, Accepted, HoldsWrite, HoldsTx
<1>2. ASSUME NEW t \in Thread, NEW p \in Process, NEW h \in Handle,
             DispatchCleanup(t, p, h)
      PROVE Serial'
  <2>1. /\ file[h] = "open" /\ file' = [file EXCEPT ![h] = "closing"]
        /\ UNCHANGED <<ctxOwner, WriteEnabled>>
        /\ pc[t] = "idle" /\ pc'[t] = "cleanupGate" /\ irp'[t].handle = h
        /\ \A u \in Thread : u # t => irp'[u] = irp[u] /\ pc'[u] = pc[u]
    BY Zenon, <1>0, <1>2 DEF DispatchCleanup, RequestsOK, gateVars
  <2>2. Synchronous => \A u \in Thread : pc[u] # "idle" => irp[u].handle # h
    BY Zenon, <1>2 DEF DispatchCleanup, InFlight, Carry, CarriedAt
  <2> QED BY SMTT(20), <1>0, <1>00, <2>1, <2>2 DEF Serial, ContextsOK, InCleanup,
               Accepted, HoldsWrite, HoldsTx
<1>3. ASSUME NEW h \in Handle, DispatchClose(h) PROVE Serial'
  <2>1. /\ file[h] = "cleaned" /\ file' = [file EXCEPT ![h] = "free"]
        /\ ctxOwner' = [ctxOwner EXCEPT ![h] = None]
        /\ UNCHANGED <<WriteEnabled, pc, irp>>
    BY Zenon, <1>3 DEF DispatchClose, reqVars, gateVars
  <2>2. Synchronous => \A u \in Thread : pc[u] # "idle" => irp[u].handle # h
    BY Zenon, <2>1 DEF Serial, Cleaning
  <2> QED BY <1>0, <1>00, <2>1, <2>2 DEF Serial, ContextsOK, InCleanup, Accepted, HoldsWrite, HoldsTx
<1>4. ASSUME NEW t \in Thread, NEW r \in Request, Issue(t, r) PROVE Serial'
  <2>1. /\ file[r.handle] = "open" /\ UNCHANGED <<file, ctxOwner, WriteEnabled>>
        /\ pc[t] = "idle" /\ pc'[t] = "dispatch" /\ irp'[t] = r
        /\ \A u \in Thread : u # t => irp'[u] = irp[u] /\ pc'[u] = pc[u]
    BY Zenon, <1>0, <1>4 DEF Issue, RequestsOK, ctxVars, gateVars
  <2>2. Synchronous => \A u \in Thread : pc[u] # "idle" => irp[u].handle # r.handle
    BY Zenon, <1>4 DEF Issue, InFlight, Carry, CarriedAt
  <2> QED BY SMTT(20), <1>0, <1>00, <2>1, <2>2 DEF Serial, ContextsOK, InCleanup,
               Accepted, HoldsWrite, HoldsTx
<1>5. ASSUME NEW t \in Thread, CleanupCloseGate(t) PROVE Serial'
  <2>1. /\ pc[t] = "cleanupGate" /\ CloseGate(irp[t].handle)
        /\ UNCHANGED <<file, ctxOwner>>
        /\ pc'[t] = "cleanupOwner" /\ irp'[t] = irp[t]
        /\ \A u \in Thread : u # t => irp'[u] = irp[u] /\ pc'[u] = pc[u]
    BY Zenon, <1>5, Moves DEF CleanupCloseGate, ctxVars
  <2>2. \A h \in Handle : WriteEnabled'[h] => WriteEnabled[h] /\ h # irp[t].handle
    BY Zenon, <1>0, <2>1 DEF CloseGate, GatesOK
  <2> QED BY SMTT(20), <1>00, <2>1, <2>2 DEF Serial, InCleanup, Accepted, HoldsWrite,
               HoldsTx
<1>6. ASSUME NEW t \in Thread, CleanupReleaseOwner(t) PROVE Serial'
  <2> DEFINE g == irp[t].handle
  <2>1. /\ pc[t] = "cleanupOwner" /\ file' = [file EXCEPT ![g] = "cleaned"]
        /\ UNCHANGED <<ctxOwner, WriteEnabled>>
        /\ pc'[t] = "idle"
        /\ \A u \in Thread : u # t => irp'[u] = irp[u] /\ pc'[u] = pc[u]
    BY Zenon, <1>6, Moves DEF CleanupReleaseOwner, gateVars
  <2>2. Synchronous => \A u \in Thread : u # t /\ pc[u] # "idle" => irp[u].handle # g
    BY Zenon, <2>1 DEF Serial
  <2> QED BY SMTT(20), <1>0, <1>00, <2>1, <2>2 DEF Serial, ContextsOK, InCleanup,
               Accepted, HoldsWrite, HoldsTx
<1>7. ASSUME NEW t \in Thread,
             \/ DispatchDeviceControl(t) \/ DenyForeignWrite(t)
             \/ SetWriteMode(t) \/ ReadPhysical(t) \/ ValidateWrite(t)
             \/ ConsumeGateForPhysical(t) \/ CompareBaseline(t)
             \/ (\E o \in Offset : CopyByte(t, o)) \/ EndTransactionCopy(t)
             \/ ReadbackAndRespond(t) \/ FinishWritePhysical(t) \/ WriteProcessMemory(t)
      PROVE Serial'
  <2>1. pc[t] \notin InCleanup \cup {"idle"} /\ UNCHANGED ctxVars
    BY Zenon, <1>7
    DEF DispatchDeviceControl, DenyForeignWrite, SetWriteMode, ReadPhysical, ValidateWrite,
        ConsumeGateForPhysical, CompareBaseline, CopyByte, EndTransactionCopy,
        ReadbackAndRespond, FinishWritePhysical, WriteProcessMemory, InCleanup
  <2>2. \A h \in Handle : h # irp[t].handle => WriteEnabled'[h] = WriteEnabled[h]
    <3> DEFINE g == irp[t].handle
    <3>1. CloseGate(g) \/ ConsumeGate(g) \/ OpenGate(g) \/ UNCHANGED gateVars
      BY Zenon, <1>7
      DEF DispatchDeviceControl, DenyForeignWrite, SetWriteMode, ReadPhysical,
          ValidateWrite, ConsumeGateForPhysical, CompareBaseline, CopyByte,
          EndTransactionCopy, ReadbackAndRespond, FinishWritePhysical,
          WriteProcessMemory, RejectAndClose
    <3> QED BY Zenon, <3>1, OneGate
  <2>3. \/ \E r, d : Complete(t, r, d)
        \/ pc[t] \in Accepted /\ (\E l : Goto(t, l) /\ l \notin InCleanup)
        \/ Goto(t, "entry") /\ IsControllerContext(t)
        \/ Goto(t, "denied")
        \/ UNCHANGED <<pc, irp>>
    <3>1. CASE DispatchDeviceControl(t)
      BY Zenon, <3>1 DEF DispatchDeviceControl
    <3>2. CASE DenyForeignWrite(t) \/ SetWriteMode(t) \/ ReadPhysical(t)
      BY Zenon, <3>2 DEF DenyForeignWrite, SetWriteMode, ReadPhysical, RejectAndClose
    <3>3. CASE ValidateWrite(t) \/ ConsumeGateForPhysical(t)
      BY SMTT(20), <3>3 DEF ValidateWrite, ConsumeGateForPhysical, RejectAndClose,
           Accepted, HoldsWrite, InCleanup
    <3>4. CASE CompareBaseline(t) \/ EndTransactionCopy(t)
      BY SMTT(20), <3>4 DEF CompareBaseline, EndTransactionCopy, Accepted, HoldsWrite,
           HoldsTx, InCleanup
    <3>5. CASE \E o \in Offset : CopyByte(t, o)
      BY Zenon, <3>5 DEF CopyByte
    <3>6. CASE ReadbackAndRespond(t) \/ FinishWritePhysical(t) \/ WriteProcessMemory(t)
      BY Zenon, <3>6 DEF ReadbackAndRespond, FinishWritePhysical, WriteProcessMemory
    <3> QED BY <1>7, <3>1, <3>2, <3>3, <3>4, <3>5, <3>6
  <2>4. /\ \A u \in Thread : u # t => pc'[u] = pc[u] /\ irp'[u] = irp[u]
        /\ \/ pc'[t] = "idle"
           \/ /\ irp'[t] = irp[t] /\ pc'[t] \notin InCleanup
              /\ pc'[t] \in Accepted => pc[t] \in Accepted \/ IsControllerContext(t)
    <3>1. "entry" \notin InCleanup /\ "denied" \notin InCleanup /\ "denied" \notin Accepted
      BY Zenon DEF InCleanup, Accepted, HoldsWrite, HoldsTx
    <3> QED BY Zenon, <2>1, <2>3, <3>1, Moves
  <2> QED BY Zenon, <2>1, <2>2, <2>4, SerialMove
<1>8. CASE (\E o \in Offset, b \in Byte : ExternalWrite(o, b)) \/ UNCHANGED vars
  BY Zenon, <1>8, <1>a DEF ExternalWrite, vars, ctxVars, gateVars, reqVars
<1> QED BY <1>1, <1>2, <1>3, <1>4, <1>5, <1>6, <1>7, <1>8 DEF Next, ThreadStep

\* On synchronous file objects no write path outlives the ownership under which
\* its request was accepted, and no gate of a cleaned-up handle is open.
THEOREM ControllerOnlyWritesHolds == Spec => []ControllerOnlyWrites
<1> DEFINE I == TypeOK /\ Carry /\ Cleaning /\ OwnershipConsistent /\ Serial
<1>1. Init => Cleaning /\ OwnershipConsistent /\ Serial
  <2>1. Init => Serial
    BY Zenon DEF Init, Serial, Accepted, HoldsWrite, HoldsTx, InCleanup
  <2> QED BY Zenon, <2>1, OwnerInit
<1>2. I /\ [Next]_vars => I'
  BY Zenon, TypeStep, CarryStep, OwnerStep, SerialStep
<1>3. I => ControllerOnlyWrites
  <2> SUFFICES ASSUME I, Synchronous PROVE ControllerOnlyWrites
    BY Zenon DEF ControllerOnlyWrites
  <2>1. ASSUME NEW t \in Thread, pc[t] \in HoldsWrite PROVE irp[t].process = OwnerProcess
    <3>1. pc[t] \in Accepted /\ pc[t] \notin InCleanup \cup {"idle"}
      BY Zenon, <2>1 DEF Accepted, HoldsWrite, HoldsTx, InCleanup
    <3>2. irp[t].handle \in Counted
      BY Zenon, <3>1, HandleOf DEF Serial, Counted
    <3> QED BY Zenon, <3>1, <3>2 DEF Serial, OwnershipConsistent
  <2> QED BY Zenon, <2>1 DEF ControllerOnlyWrites, Serial
<1> QED BY TypeInit, <1>1, <1>2, <1>3, PTL DEF Spec

-----------------------------------------------------------------------------
(* Every request is counted once. *)

\* The history of verdicts and the counters, side by side.
LEMMA Verdicts ==
    ASSUME TypeOK, Accounting, NEW t \in Thread, NEW r, NEW d, Complete(t, r, d)
    PROVE  /\ irp[t].code \in WriteCode /\ r \in {"ok", "APPLIED"} /\ CountSuccessful
                  => Accounting'
           /\ irp[t].code \in WriteCode /\ r \notin {"ok", "APPLIED"} /\ CountRejected
                  => Accounting'
           /\ irp[t].code = "SET_WRITE_MODE" /\ r # "ok" /\ CountRejected => Accounting'
           /\ irp[t].code \notin WriteCode \cup {"SET_WRITE_MODE"} /\ UNCHANGED statVars
                  => Accounting'
           /\ irp[t].code = "SET_WRITE_MODE" /\ r = "ok" /\ UNCHANGED statVars => Accounting'
<1>1. "SET_WRITE_MODE" \notin WriteCode
  BY Zenon DEF WriteCode, PhysicalWriteCode
<1>2. /\ applied' = IF irp[t].code \in WriteCode /\ r \in {"ok", "APPLIED"}
                    THEN applied + 1 ELSE applied
      /\ refused' = IF \/ irp[t].code \in WriteCode /\ r \notin {"ok", "APPLIED"}
                       \/ irp[t].code = "SET_WRITE_MODE" /\ r # "ok"
                    THEN refused + 1 ELSE refused
  BY Zenon DEF Complete
<1> QED BY Zenon, <1>1, <1>2 DEF Accounting, CountSuccessful, CountRejected, statVars

\* A step that completes nothing counts nothing.
LEMMA NoVerdict ==
    ASSUME Accounting, UNCHANGED <<statVars, histVars>>
    PROVE  Accounting'
BY Zenon DEF Accounting, statVars, histVars

\* Every early exit of the write IOCTLs counts its request in one counter.
LEMMA AccountingStep ==
    ASSUME TypeOK, Carry, Accounting, [Next]_vars
    PROVE  Accounting'
<1>0. \A t \in Thread : pc[t] \in HoldsWrite => irp[t].code \in WriteCode
  BY Zenon DEF Carry, CarriedAt, HoldsWrite, WriteCode
<1>1. CASE \/ \E p \in Process, h \in Handle : DispatchCreate(p, h)
           \/ \E t \in Thread, p \in Process, h \in Handle : DispatchCleanup(t, p, h)
           \/ \E h \in Handle : DispatchClose(h)
           \/ \E t \in Thread, r \in Request : Issue(t, r)
           \/ \E o \in Offset, b \in Byte : ExternalWrite(o, b)
           \/ UNCHANGED vars
  <2>1. UNCHANGED <<statVars, histVars>>
    BY Zenon, <1>1 DEF DispatchCreate, DispatchCleanup, DispatchClose, Issue, ExternalWrite,
                vars, reqVars
  <2> QED BY Zenon, <2>1, NoVerdict
<1>3. ASSUME NEW t \in Thread, CleanupCloseGate(t) \/ EndTransactionCopy(t)
                                 \/ \E o \in Offset : CopyByte(t, o)
      PROVE Accounting'
  <2>1. UNCHANGED <<statVars, histVars>>
    BY Zenon, <1>3 DEF CleanupCloseGate, EndTransactionCopy, CopyByte, Goto
  <2> QED BY Zenon, <2>1, NoVerdict
<1>4. ASSUME NEW t \in Thread, CleanupReleaseOwner(t) PROVE Accounting'
  <2>1. irp[t].code = "CLEANUP"
    BY Zenon, <1>4 DEF CleanupReleaseOwner, Carry, CarriedAt, InCleanup
  <2>2. Complete(t, result[t], data[t]) /\ UNCHANGED statVars
    BY Zenon, <1>4 DEF CleanupReleaseOwner
  <2>3. irp[t].code \notin WriteCode \cup {"SET_WRITE_MODE"}
    BY Zenon, <2>1 DEF WriteCode, PhysicalWriteCode
  <2> QED BY Zenon, <2>2, <2>3, Verdicts
<1>5. ASSUME NEW t \in Thread, DispatchDeviceControl(t) PROVE Accounting'
  <2>1. CASE UNCHANGED <<statVars, histVars>>
    BY Zenon, <2>1, NoVerdict
  <2>2. CASE irp[t].code = "READ_PHYSICAL" /\ Complete(t, "rejected", None) /\ UNCHANGED statVars
    <3>1. irp[t].code \notin WriteCode \cup {"SET_WRITE_MODE"}
      BY Zenon, <2>2 DEF WriteCode, PhysicalWriteCode
    <3> QED BY Zenon, <2>2, <3>1, Verdicts
  <2> QED BY Zenon, <1>5, <2>1, <2>2 DEF DispatchDeviceControl, Goto
<1>6. ASSUME NEW t \in Thread, DenyForeignWrite(t) PROVE Accounting'
  <2>1. irp[t].code \in WriteCode \/ irp[t].code = "SET_WRITE_MODE"
    <3>1. irp[t] \in Request /\ irp[t].code # "READ_PHYSICAL"
      BY Zenon, <1>6 DEF DenyForeignWrite, Carry, CarriedAt, InCleanup
    <3> QED BY Zenon, <3>1, ConstantsAssumption DEF Request, WriteCode, PhysicalWriteCode
  <2>2. Complete(t, "rejected", None) /\ CountRejected
    BY Zenon, <1>6 DEF DenyForeignWrite, RejectAndClose
  <2> QED BY SMTT(20), <2>1, <2>2, Verdicts
<1>7. ASSUME NEW t \in Thread, SetWriteMode(t) PROVE Accounting'
  <2>1. /\ irp[t].code = "SET_WRITE_MODE"
        /\ \/ Complete(t, "rejected", None) /\ CountRejected
           \/ Complete(t, "ok", None) /\ UNCHANGED statVars
    BY Zenon, <1>7 DEF SetWriteMode, RejectAndClose
  <2> QED BY SMTT(20), <2>1, Verdicts
<1>8. ASSUME NEW t \in Thread, ReadPhysical(t) PROVE Accounting'
  <2>1. /\ irp[t].code = "READ_PHYSICAL" /\ UNCHANGED statVars
        /\ Complete(t, "ok", page) \/ Complete(t, "error", None)
    BY Zenon, <1>8 DEF ReadPhysical
  <2>2. irp[t].code \notin WriteCode \cup {"SET_WRITE_MODE"}
    BY Zenon, <2>1 DEF WriteCode, PhysicalWriteCode
  <2> QED BY Zenon, <2>1, <2>2, Verdicts
<1>9. ASSUME NEW t \in Thread, ValidateWrite(t) PROVE Accounting'
  <2>1. CASE UNCHANGED <<statVars, histVars>>
    BY Zenon, <2>1, NoVerdict
  <2>2. CASE Complete(t, "rejected", None) /\ CountRejected
    BY SMTT(20), <1>9, <2>2, Verdicts DEF ValidateWrite
  <2> QED BY Zenon, <1>9, <2>1, <2>2 DEF ValidateWrite, RejectAndClose, Goto
<1>10. ASSUME NEW t \in Thread, ConsumeGateForPhysical(t) \/ CompareBaseline(t) PROVE Accounting'
  <2>1. CASE UNCHANGED <<statVars, histVars>>
    BY Zenon, <2>1, NoVerdict
  <2>2. irp[t].code \in WriteCode
    BY Zenon, <1>0, <1>10 DEF ConsumeGateForPhysical, CompareBaseline, HoldsWrite, HoldsTx
  <2>3. CASE /\ \/ Complete(t, "rejected", None) \/ Complete(t, "error", None)
                \/ Complete(t, "CONFLICT", page)
             /\ CountRejected
    BY SMTT(20), <2>2, <2>3, Verdicts
  <2> QED BY Zenon, <1>10, <2>1, <2>3
          DEF ConsumeGateForPhysical, CompareBaseline, RejectAndClose, Goto
<1>11. ASSUME NEW t \in Thread,
              ReadbackAndRespond(t) \/ FinishWritePhysical(t) \/ WriteProcessMemory(t)
       PROVE Accounting'
  <2>1. irp[t].code \in WriteCode
    BY Zenon, <1>0, <1>11 DEF ReadbackAndRespond, FinishWritePhysical, WriteProcessMemory,
                       HoldsWrite, HoldsTx
  <2>2. \/ /\ \/ Complete(t, "rejected", None) \/ Complete(t, "error", None)
              \/ Complete(t, "FAILED", None) \/ Complete(t, "FAILED", page)
           /\ CountRejected
        \/ /\ Complete(t, "ok", None) \/ Complete(t, "APPLIED", page)
           /\ CountSuccessful
    BY Zenon, <1>11 DEF ReadbackAndRespond, FinishWritePhysical, WriteProcessMemory
  <2> QED BY SMTT(20), <2>1, <2>2, Verdicts
<1> QED BY <1>1, <1>3, <1>4, <1>5, <1>6, <1>7, <1>8, <1>9, <1>10, <1>11
        DEF Next, ThreadStep

\* Every write request and every refused SET_WRITE_MODE is counted exactly once,
\* in the counter of its verdict, whichever way it leaves the driver.
THEOREM AccountingHolds == Spec => []Accounting
<1>1. Init => Accounting
  BY Zenon DEF Init, Accounting
<1>2. TypeOK /\ Carry /\ [Next]_vars => (TypeOK /\ Carry)'
  BY Zenon, TypeStep, CarryStep
<1> QED BY TypeInit, <1>1, <1>2, AccountingStep, PTL DEF Spec

-----------------------------------------------------------------------------
(* The driver implements PageStore. *)

\* A thread whose IOCTL the store sees.
Seen(t) == pc[t] \notin InCleanup \cup {"idle"}

\* PageStore sees a request of the driver exactly from its dispatch until its
\* verdict, with the code, the pages and the span it was issued with.
LEMMA PendingOf ==
    ASSUME TypeOK, Carry, NEW t \in Thread
    PROVE  /\ ~Seen(t) => Pending[t] = None
           /\ Seen(t) => /\ Pending[t] # None
                         /\ Pending[t] \in Store!Request
                         /\ Pending[t].code = irp[t].code
                         /\ Pending[t].expected = irp[t].expected
                         /\ Pending[t].desired = irp[t].desired
                         /\ Pending[t].span = irp[t].span
<1> DEFINE q == [code |-> irp[t].code, expected |-> irp[t].expected,
                 desired |-> irp[t].desired, span |-> irp[t].span]
<1>1. Pending[t] = IF irp[t] = None \/ irp[t].code = "CLEANUP" THEN None ELSE q
  BY Zenon DEF Pending
<1>2. CASE ~Seen(t)
  <2>1. irp[t] = None \/ irp[t].code = "CLEANUP"
    BY Zenon, <1>2 DEF Seen, Carry, CarriedAt
  <2> QED BY Zenon, <1>1, <1>2, <2>1
<1>3. CASE Seen(t)
  <2>1. irp[t] \in Irp /\ irp[t] # None /\ irp[t].code # "CLEANUP"
    BY Zenon, <1>3, ConstantsAssumption DEF Seen, Carry, CarriedAt, Request
  <2>2. q \in Store!Request
    BY Zenon, <2>1 DEF Irp, Store!Request, Page
  <2>3. None \notin Store!Request
    BY Zenon, NoneAssumption DEF Store!Request, Page
  <2>4. Pending[t] = q
    BY Zenon, <1>1, <2>1
  <2> QED BY SMTT(20), <1>3, <2>2, <2>3, <2>4
<1> QED BY Zenon, <1>2, <1>3

\* A completed request is answered in the store.
LEMMA Answer ==
    ASSUME TypeOK, Carry, NEW t \in Thread, Seen(t), NEW r, NEW d, Complete(t, r, d)
    PROVE  Store!Reply(t, r, d)
<1>1. irp' = [irp EXCEPT ![t] = None] /\ RequestsOK
  BY Zenon DEF Complete, TypeOK
<1>2. Pending' = [Pending EXCEPT ![t] = None]
  BY Zenon, <1>1 DEF Pending, RequestsOK
<1>3. Pending[t] # None
  BY Zenon, PendingOf
<1> QED BY Zenon, <1>2, <1>3 DEF Store!Reply, Complete

\* A request that stays in the driver is still the same one.
LEMMA StillPending ==
    ASSUME irp' = irp
    PROVE  Pending' = Pending
BY Zenon DEF Pending

\* The page others see, by who holds PhysicalTransactionLock.
LEMMA Committed ==
    ASSUME TypeOK, Isolation
    PROVE  /\ (\A t \in Thread : pc[t] \notin {"copy", "readback"}) => CommittedPage = page
           /\ \A t \in Thread : pc[t] \in {"copy", "readback"} => CommittedPage = before
BY Zenon, ConstantsAssumption DEF CommittedPage, Isolation, TxHeld, HoldsTx, TypeOK, LocksOK

\* A step that neither copies nor takes or gives up PhysicalTransactionLock
\* leaves the page that others see.
LEMMA CommittedFrame ==
    ASSUME TypeOK, Isolation, UNCHANGED <<TxLock, page, before>>,
           \A u \in Thread : pc'[u] \in {"copy", "readback"} <=> pc[u] \in {"copy", "readback"}
    PROVE  CommittedPage' = CommittedPage
BY Zenon, ConstantsAssumption DEF CommittedPage, TypeOK, LocksOK

\* A request outside the transaction lock that completes or moves on outside it.
LEMMA CommittedOutside ==
    ASSUME TypeOK, Isolation, NEW t \in Thread, pc[t] \notin {"copy", "readback"},
           UNCHANGED <<TxLock, page, before>>,
           (\E r, d : Complete(t, r, d))
              \/ (\E l : l \notin {"copy", "readback"} /\ Goto(t, l))
    PROVE  CommittedPage' = CommittedPage
<1>1. \A u \in Thread : pc'[u] \in {"copy", "readback"} <=> pc[u] \in {"copy", "readback"}
  BY Zenon, Moves
<1> QED BY Zenon, <1>1, CommittedFrame

\* The state a step of the driver starts from and ends in.
Ready == TypeOK /\ Carry /\ Isolation

\* A request outside PhysicalTransactionLock that is answered without the page.
LEMMA PassStep ==
    ASSUME Ready, NEW t \in Thread, Seen(t), pc[t] \notin {"copy", "readback"},
           UNCHANGED <<TxLock, page, before>>,
           \/ Complete(t, "rejected", None) \/ Complete(t, "error", None)
           \/ Complete(t, "ok", None) /\ irp[t].code \in {"SET_WRITE_MODE", "WRITE_PROCESS_MEMORY"}
           \/ Complete(t, "FAILED", None) /\ irp[t].code = "WRITE_PROCESS_MEMORY"
    PROVE  Store!Pass(t)
<1>1. CommittedPage' = CommittedPage
  BY Zenon, CommittedOutside DEF Ready
<1>2. Pending[t].code = irp[t].code
  BY Zenon, PendingOf DEF Ready
<1> QED BY Zenon, <1>1, <1>2, Answer DEF Ready, Store!Pass

\* A step of a request that the store does not see.
LEMMA Stutter ==
    ASSUME CommittedPage' = CommittedPage, UNCHANGED <<irp, result, data>>
    PROVE  UNCHANGED Store!vars
BY Zenon, StillPending DEF Store!vars

\* What a copy has left on the page is the committed page with the copied part
\* of the desired one over it.
LEMMA CopiedPage ==
    ASSUME ~ExternalWriters, Ready, NEW t \in Thread, pc[t] \in {"copy", "readback"}
    PROVE  /\ page = Store!Overlay(t, irp[t].span \ todo[t])
           /\ todo[t] \subseteq irp[t].span
           /\ irp[t].code = "COMPARE_WRITE_PHYSICAL_PAGE" => CommittedPage = irp[t].expected
<1>1. CommittedPage = before
  BY Zenon, Committed DEF Ready
<1>2. Pending[t].desired = irp[t].desired
  BY Zenon, PendingOf DEF Ready, Seen, InCleanup
<1>3. /\ \A o \in Offset : page[o] = IF o \in irp[t].span \ todo[t]
                                     THEN irp[t].desired[o] ELSE before[o]
      /\ irp[t].code = "COMPARE_WRITE_PHYSICAL_PAGE" => before = irp[t].expected
      /\ todo[t] \subseteq irp[t].span
  BY Zenon DEF Ready, Isolation, CopyIsolated, WithinSpan
<1>4. page \in [Offset -> Byte]
  BY Zenon DEF Ready, TypeOK, PagesOK, Page
<1>5. page = [o \in Offset |-> IF o \in irp[t].span \ todo[t]
                               THEN irp[t].desired[o] ELSE before[o]]
  BY Zenon, <1>3, <1>4
<1> QED BY Zenon, <1>1, <1>2, <1>3, <1>5 DEF Store!Overlay

\* A page transaction that ends its read-back is one compare and swap of the
\* store, complete or cut short.
LEMMA ReadbackImplements ==
    ASSUME ~ExternalWriters, Ready, NEW t \in Thread, ReadbackAndRespond(t)
    PROVE  Store!CompareWrite(t)
<1> DEFINE S == irp[t].span \ todo[t]
<1>1. pc[t] = "readback" /\ Seen(t) /\ TxLock' = None /\ page' = page
  BY Zenon DEF ReadbackAndRespond, Seen, InCleanup, ReleaseBoth, pageVars
<1>2. irp[t] \in Request /\ irp[t].code = "COMPARE_WRITE_PHYSICAL_PAGE"
  BY Zenon, <1>1 DEF Ready, Carry, CarriedAt, InCleanup
<1>3. irp[t].span = Offset /\ irp[t].desired \in Page
  BY Zenon, <1>2 DEF Request, Irp, WriteCode, PhysicalWriteCode
<1>4. /\ page = Store!Overlay(t, S) /\ todo[t] \subseteq Offset
      /\ CommittedPage = irp[t].expected
  BY Zenon, <1>1, <1>2, <1>3, CopiedPage
<1>5. CommittedPage' = page
  BY Zenon, <1>1 DEF CommittedPage
<1>6. /\ Pending[t] # None /\ Pending[t].code = irp[t].code
      /\ Pending[t].expected = irp[t].expected /\ Pending[t].desired = irp[t].desired
  BY Zenon, <1>1, PendingOf DEF Ready
<1>7. \A r, d : Complete(t, r, d) => Store!Reply(t, r, d)
  BY Zenon, <1>1, Answer DEF Ready
<1>8. S = Offset => page = irp[t].desired
  BY Zenon, <1>3, <1>4, <1>6 DEF Store!Overlay, Page
<1>9. S \in SUBSET Offset
  BY Zenon, <1>3
<1>10. CASE Complete(t, "error", None)
  BY Zenon, <1>2, <1>4, <1>5, <1>6, <1>7, <1>9, <1>10 DEF Store!CompareWrite
<1>11. CASE page = irp[t].desired /\ Complete(t, "APPLIED", page)
  <2>1. Store!Reply(t, "APPLIED", Pending[t].desired)
    BY Zenon, <1>6, <1>7, <1>11
  <2> QED BY Zenon, <1>2, <1>4, <1>5, <1>6, <1>11, <2>1 DEF Store!CompareWrite
<1>12. CASE (todo[t] # {} \/ page # irp[t].desired) /\ Complete(t, "FAILED", page)
  <2>1. S # Offset
    BY Zenon, <1>3, <1>4, <1>8, <1>12
  <2>2. Store!Reply(t, "FAILED", Store!Overlay(t, S))
    BY Zenon, <1>4, <1>7, <1>12
  <2>3. CommittedPage' = Store!Overlay(t, S)
    BY Zenon, <1>4, <1>5
  <2> HIDE DEF S
  <2> QED BY Zenon, <1>2, <1>4, <1>6, <1>9, <2>1, <2>2, <2>3 DEF Store!CompareWrite
<1> QED BY Zenon, <1>10, <1>11, <1>12 DEF ReadbackAndRespond

\* A WRITE_PHYSICAL that ends is one write of the store, whole or in part.
LEMMA WriteImplements ==
    ASSUME ~ExternalWriters, Ready, NEW t \in Thread, FinishWritePhysical(t)
    PROVE  Store!WritePhysical(t)
<1> DEFINE S == irp[t].span \ todo[t]
<1>1. /\ pc[t] = "copy" /\ Seen(t) /\ TxLock' = None /\ page' = page
      /\ irp[t].code = "WRITE_PHYSICAL"
  BY Zenon DEF FinishWritePhysical, Seen, InCleanup, ReleaseBoth, pageVars
<1>4. page = Store!Overlay(t, S) /\ todo[t] \subseteq irp[t].span
  BY Zenon, <1>1, CopiedPage
<1>5. CommittedPage' = page
  BY Zenon, <1>1 DEF CommittedPage
<1>6. /\ Pending[t] # None /\ Pending[t].code = irp[t].code /\ Pending[t].span = irp[t].span
  BY Zenon, <1>1, PendingOf DEF Ready
<1>7. \A r, d : Complete(t, r, d) => Store!Reply(t, r, d)
  BY Zenon, <1>1, Answer DEF Ready
<1>8. CASE todo[t] = {} /\ Complete(t, "ok", None)
  <2>1. S = irp[t].span
    BY Zenon, <1>8
  <2>2. CommittedPage' = Store!Overlay(t, Pending[t].span)
    BY Zenon, <1>4, <1>5, <1>6, <2>1
  <2>3. Store!Reply(t, "ok", None)
    BY Zenon, <1>7, <1>8
  <2> QED BY Zenon, <1>1, <1>6, <2>2, <2>3 DEF Store!WritePhysical
<1>9. CASE todo[t] # {} /\ Complete(t, "FAILED", None)
  <2>1. S # Pending[t].span /\ S \in SUBSET Pending[t].span
    BY Zenon, <1>4, <1>6, <1>9
  <2>2. CommittedPage' = Store!Overlay(t, S)
    BY Zenon, <1>4, <1>5
  <2>3. Store!Reply(t, "FAILED", None)
    BY Zenon, <1>7, <1>9
  <2> HIDE DEF S
  <2> QED BY Zenon, <1>1, <1>6, <2>1, <2>2, <2>3 DEF Store!WritePhysical
<1> QED BY Zenon, <1>8, <1>9 DEF FinishWritePhysical

\* A request enters the store when it is issued.
LEMMA IssueImplements ==
    ASSUME Ready, NEW t \in Thread, NEW r \in Request, Issue(t, r)
    PROVE  Store!Invoke(t)
<1> DEFINE q == [code |-> r.code, expected |-> r.expected, desired |-> r.desired,
                 span |-> r.span]
<1>1. /\ pc[t] = "idle" /\ pc' = [pc EXCEPT ![t] = "dispatch"]
      /\ irp' = [irp EXCEPT ![t] = r] /\ result' = [result EXCEPT ![t] = "none"]
      /\ data' = [data EXCEPT ![t] = None] /\ UNCHANGED <<TxLock, page, before>>
  BY Zenon DEF Issue, lockVars, pageVars
<1>2. RequestsOK /\ TypeOK /\ Carry /\ Isolation
  BY Zenon DEF Ready, TypeOK
<1>3. Pending[t] = None
  BY Zenon, <1>1, <1>2, PendingOf DEF Seen
<1>4. r \in Irp /\ r # None /\ r.code # "CLEANUP"
  BY Zenon, ConstantsAssumption, NoneAssumption DEF Request
<1>5. Pending' = [Pending EXCEPT ![t] = q]
  BY Zenon, <1>1, <1>2, <1>4 DEF Pending, RequestsOK
<1>6. q \in Store!Request
  BY Zenon, <1>4 DEF Irp, Store!Request, Page
<1>7. \A u \in Thread : pc'[u] \in {"copy", "readback"} <=> pc[u] \in {"copy", "readback"}
  BY Zenon, <1>1, <1>2 DEF RequestsOK
<1>8. CommittedPage' = CommittedPage
  BY Zenon, <1>1, <1>2, <1>7, CommittedFrame
<1>9. Pending'[t] = q
  BY Zenon, <1>5 DEF Pending
<1> HIDE DEF q
<1> QED BY Zenon, <1>1, <1>3, <1>5, <1>6, <1>8, <1>9 DEF Store!Invoke

\* A cleanup is nothing the store knows about.
LEMMA CleanupStutters ==
    ASSUME Ready, NEW t \in Thread,
           \/ \E p \in Process, h \in Handle : DispatchCleanup(t, p, h)
           \/ CleanupCloseGate(t) \/ CleanupReleaseOwner(t)
    PROVE  UNCHANGED Store!vars
<1>1. RequestsOK /\ TypeOK /\ Carry /\ Isolation
  BY Zenon DEF Ready, TypeOK
<1>2. UNCHANGED <<TxLock, page, before>>
  BY Zenon DEF DispatchCleanup, CleanupCloseGate, CleanupReleaseOwner, lockVars, pageVars
<1>3. \A u \in Thread : pc'[u] \in {"copy", "readback"} <=> pc[u] \in {"copy", "readback"}
  <2>1. /\ pc[t] \in {"idle", "cleanupGate", "cleanupOwner"}
        /\ \E l \in {"idle", "cleanupGate", "cleanupOwner"} : pc' = [pc EXCEPT ![t] = l]
    BY Zenon DEF DispatchCleanup, CleanupCloseGate, CleanupReleaseOwner, Goto, Complete
  <2> QED BY Zenon, <1>1, <2>1 DEF RequestsOK
<1>4. CommittedPage' = CommittedPage
  BY Zenon, <1>1, <1>2, <1>3, CommittedFrame
<1>5. UNCHANGED <<result, data>>
  BY <1>1 DEF DispatchCleanup, CleanupCloseGate, CleanupReleaseOwner, Goto, Complete, RequestsOK
<1>6. irp[t] = None \/ irp[t].code = "CLEANUP"
  BY Zenon, <1>1 DEF DispatchCleanup, CleanupCloseGate, CleanupReleaseOwner, Carry, CarriedAt, InCleanup
<1>7. /\ irp'[t] = None \/ irp'[t].code = "CLEANUP"
      /\ \A u \in Thread : u # t => irp'[u] = irp[u]
  <2>1. CASE \E p \in Process, h \in Handle : DispatchCleanup(t, p, h)
    BY SMTT(20), <1>1, <2>1 DEF DispatchCleanup, RequestsOK
  <2>2. CASE CleanupCloseGate(t)
    BY Zenon, <1>1, <1>6, <2>2, Moves DEF CleanupCloseGate
  <2>3. CASE CleanupReleaseOwner(t)
    BY Zenon, <1>1, <2>3, Moves DEF CleanupReleaseOwner
  <2> QED BY Zenon, <2>1, <2>2, <2>3
<1>8. Pending' = Pending
  BY Zenon, <1>6, <1>7 DEF Pending
<1> QED BY Zenon, <1>4, <1>5, <1>8 DEF Store!vars

\* Taking PhysicalTransactionLock is not seen: no copy is in progress, and the
\* one that begins has written nothing.
LEMMA AcquireImplements ==
    ASSUME Ready, NEW t \in Thread, ConsumeGateForPhysical(t)
    PROVE  Store!Pass(t) \/ UNCHANGED Store!vars
<1>1. RequestsOK /\ TypeOK /\ Carry /\ Isolation
  BY Zenon DEF Ready, TypeOK
<1>2. Seen(t) /\ pc[t] = "physical" /\ page' = page
  BY Zenon DEF ConsumeGateForPhysical, Seen, InCleanup
<1>3. CASE Complete(t, "rejected", None) /\ UNCHANGED <<TxLock, before>>
  BY Zenon, <1>2, <1>3, PassStep
<1>4. CASE AcquireTx(t) /\ (\E l : Goto(t, l)) /\ before' = page
  <2>1. TxLock = None /\ UNCHANGED <<irp, result, data>>
    BY Zenon, <1>4 DEF AcquireTx, Goto
  <2>2. CommittedPage = page
    BY Zenon, <2>1 DEF CommittedPage
  <2>3. CommittedPage' = page
    BY Zenon, <1>2, <1>4 DEF CommittedPage
  <2> QED BY Zenon, <2>1, <2>2, <2>3, Stutter
<1> QED BY Zenon, <1>3, <1>4 DEF ConsumeGateForPhysical, RejectAndClose

\* A conflict is an answer of the store; passing the compare is not seen.
LEMMA CompareImplements ==
    ASSUME Ready, NEW t \in Thread, CompareBaseline(t)
    PROVE  Store!Pass(t) \/ Store!CompareWrite(t) \/ UNCHANGED Store!vars
<1>1. RequestsOK /\ TypeOK /\ Carry /\ Isolation
  BY Zenon DEF Ready, TypeOK
<1>2. Seen(t) /\ pc[t] = "compare" /\ page' = page
  BY Zenon DEF CompareBaseline, Seen, InCleanup
<1>3. irp[t].code = "COMPARE_WRITE_PHYSICAL_PAGE"
  BY Zenon, <1>1, <1>2 DEF Carry, CarriedAt
<1>4. TxLock = t /\ CommittedPage = page
  BY Zenon, <1>1, <1>2 DEF Isolation, TxHeld, HoldsTx, CommittedPage
<1>5. /\ Pending[t] # None /\ Pending[t].code = irp[t].code
      /\ Pending[t].expected = irp[t].expected
  BY Zenon, <1>1, <1>2, PendingOf
<1>6. \A r, d : Complete(t, r, d) => Store!Reply(t, r, d)
  BY Zenon, <1>1, <1>2, Answer
<1>7. CASE TxLock' = None
  <2>1. CommittedPage' = CommittedPage
    BY Zenon, <1>2, <1>4, <1>7 DEF CommittedPage
  <2>2. CASE Complete(t, "error", None)
    BY Zenon, <1>6, <2>1, <2>2 DEF Store!Pass
  <2>3. CASE page # irp[t].expected /\ Complete(t, "CONFLICT", page)
    <3>1. Store!Reply(t, "CONFLICT", CommittedPage)
      BY Zenon, <1>4, <1>6, <2>3
    <3> QED BY Zenon, <1>3, <1>4, <1>5, <2>1, <2>3, <3>1 DEF Store!CompareWrite
  <2>4. t # None
    BY Zenon, ConstantsAssumption
  <2> QED BY Zenon, <1>4, <1>7, <2>2, <2>3, <2>4 DEF CompareBaseline, lockVars
<1>8. CASE Goto(t, "copy") /\ before' = page
  <2>1. CommittedPage' = page /\ UNCHANGED <<irp, result, data>>
    BY Zenon, <1>2, <1>8 DEF CommittedPage, Goto
  <2> QED BY Zenon, <1>4, <2>1, Stutter
<1> QED BY Zenon, <1>7, <1>8 DEF CompareBaseline, ReleaseBoth

\* Every step of the driver is a step of the store, or one it does not see.
LEMMA Simulation ==
    ASSUME ~ExternalWriters, Ready, [Next]_vars
    PROVE  Store!Next \/ UNCHANGED Store!vars
<1>1. RequestsOK /\ TypeOK /\ Carry /\ Isolation
  BY Zenon DEF Ready, TypeOK
<1>2. CASE \/ \E p \in Process, h \in Handle : DispatchCreate(p, h)
           \/ \E h \in Handle : DispatchClose(h)
           \/ UNCHANGED vars
  <2>1. UNCHANGED <<TxLock, page, before, pc, irp, result, data>>
    BY Zenon, <1>2 DEF DispatchCreate, DispatchClose, vars, lockVars, pageVars, reqVars
  <2>2. CommittedPage' = CommittedPage
    BY Zenon, <2>1 DEF CommittedPage
  <2> QED BY Zenon, <2>1, <2>2, Stutter
<1>3. ASSUME NEW t \in Thread, NEW r \in Request, Issue(t, r) PROVE Store!Next
  BY Zenon, <1>3, IssueImplements DEF Store!Next
<1>4. ASSUME NEW t \in Thread,
             \/ \E p \in Process, h \in Handle : DispatchCleanup(t, p, h)
             \/ CleanupCloseGate(t) \/ CleanupReleaseOwner(t)
      PROVE  UNCHANGED Store!vars
  BY Zenon, <1>4, CleanupStutters
<1>5. ASSUME NEW t \in Thread,
             \/ DispatchDeviceControl(t) \/ DenyForeignWrite(t) \/ SetWriteMode(t)
             \/ ValidateWrite(t) \/ WriteProcessMemory(t)
      PROVE  Store!Next \/ UNCHANGED Store!vars
  <2>1. Seen(t) /\ pc[t] \notin {"copy", "readback"}
    BY Zenon, <1>5 DEF DispatchDeviceControl, DenyForeignWrite, SetWriteMode, ValidateWrite,
                WriteProcessMemory, Seen, InCleanup
  <2>2. UNCHANGED <<TxLock, page, before>>
    BY Zenon, <1>5 DEF DispatchDeviceControl, DenyForeignWrite, SetWriteMode, ValidateWrite,
                WriteProcessMemory, lockVars, pageVars
  <2>3. pc[t] = "process" => irp[t].code = "WRITE_PROCESS_MEMORY"
    BY Zenon, <1>1 DEF Carry, CarriedAt
  <2>4. \/ Complete(t, "rejected", None)
        \/ Complete(t, "ok", None) /\ irp[t].code \in {"SET_WRITE_MODE", "WRITE_PROCESS_MEMORY"}
        \/ Complete(t, "FAILED", None) /\ irp[t].code = "WRITE_PROCESS_MEMORY"
        \/ Goto(t, "entry") \/ Goto(t, "denied") \/ Goto(t, "physical") \/ Goto(t, "process")
    BY Zenon, <1>5, <2>3 DEF DispatchDeviceControl, DenyForeignWrite, SetWriteMode, ValidateWrite,
                      WriteProcessMemory, RejectAndClose
  <2>5. CASE Goto(t, "entry") \/ Goto(t, "denied") \/ Goto(t, "physical") \/ Goto(t, "process")
    <3>1. CommittedPage' = CommittedPage
      BY Zenon, <1>1, <2>1, <2>2, <2>5, CommittedOutside
    <3> QED BY Zenon, <2>5, <3>1, Stutter DEF Goto
  <2>6. CASE ~(Goto(t, "entry") \/ Goto(t, "denied") \/ Goto(t, "physical") \/ Goto(t, "process"))
    <3>1. Store!Pass(t)
      BY Zenon, <2>1, <2>2, <2>4, <2>6, PassStep
    <3> QED BY Zenon, <3>1 DEF Store!Next
  <2> QED BY Zenon, <2>5, <2>6
<1>6. ASSUME NEW t \in Thread, ReadPhysical(t) PROVE Store!Next
  <2>1. /\ Seen(t) /\ pc[t] \notin {"copy", "readback"} /\ TxLock = None
        /\ UNCHANGED <<TxLock, page, before>> /\ irp[t].code = "READ_PHYSICAL"
    BY Zenon, <1>6 DEF ReadPhysical, Seen, InCleanup, lockVars, pageVars
  <2>2. CASE Complete(t, "error", None)
    BY Zenon, <2>1, <2>2, PassStep DEF Store!Next
  <2>3. CASE Complete(t, "ok", page)
    <3>1. CommittedPage = page /\ CommittedPage' = CommittedPage
      BY Zenon, <2>1 DEF CommittedPage
    <3>2. Store!Reply(t, "ok", CommittedPage)
      BY Zenon, <1>1, <2>1, <2>3, <3>1, Answer
    <3>3. Pending[t] # None /\ Pending[t].code = "READ_PHYSICAL"
      BY Zenon, <1>1, <2>1, PendingOf
    <3>4. Store!ReadPhysical(t)
      BY Zenon, <3>1, <3>2, <3>3 DEF Store!ReadPhysical
    <3> QED BY Zenon, <3>4 DEF Store!Next
  <2> QED BY Zenon, <1>6, <2>2, <2>3 DEF ReadPhysical
<1>7. ASSUME NEW t \in Thread, ConsumeGateForPhysical(t) \/ CompareBaseline(t)
      PROVE  Store!Next \/ UNCHANGED Store!vars
  BY Zenon, <1>7, AcquireImplements, CompareImplements DEF Store!Next
<1>8. ASSUME NEW t \in Thread, EndTransactionCopy(t) \/ \E o \in Offset : CopyByte(t, o)
      PROVE  UNCHANGED Store!vars
  <2>1. /\ pc[t] = "copy" /\ UNCHANGED <<TxLock, before, irp, result, data>>
        /\ pc' = pc \/ pc' = [pc EXCEPT ![t] = "readback"]
    BY Zenon, <1>8 DEF EndTransactionCopy, CopyByte, Goto, lockVars, pageVars
  <2>2. pc'[t] \in {"copy", "readback"} /\ TxLock = t
    BY Zenon, <1>1, <2>1 DEF RequestsOK, Isolation, TxHeld, HoldsTx
  <2>3. CommittedPage = before /\ CommittedPage' = before
    BY Zenon, <2>1, <2>2, ConstantsAssumption DEF CommittedPage
  <2> QED BY Zenon, <2>1, <2>3, Stutter
<1>9. ASSUME NEW t \in Thread, ReadbackAndRespond(t) \/ FinishWritePhysical(t)
      PROVE  Store!Next
  BY Zenon, <1>9, ReadbackImplements, WriteImplements DEF Store!Next
<1>10. ~\E o \in Offset, b \in Byte : ExternalWrite(o, b)
  BY Zenon DEF ExternalWrite
<1> QED BY <1>2, <1>3, <1>4, <1>5, <1>6, <1>7, <1>8, <1>9, <1>10 DEF Next, ThreadStep

\* The driver starts as a store without requests.
LEMMA StoreInit == Init => Store!Init
<1> SUFFICES ASSUME Init PROVE Store!Init
  BY Zenon
<1>1. CommittedPage = page
  BY Zenon DEF Init, CommittedPage
<1>2. Pending = [t \in Thread |-> None]
  BY Zenon DEF Init, Pending
<1> QED BY Zenon, <1>1, <1>2 DEF Init, Store!Init, Page

\* When nobody else writes the page, the driver implements PageStore: every
\* request, from any number of handles and threads, takes effect at one instant,
\* and a compare-write is an atomic compare and swap.
THEOREM DriverImplementsPageStore ==
    ASSUME ~ExternalWriters
    PROVE  Spec => ImplementsPageStore
<1>1. Init => Ready
  BY Zenon, TypeInit, IsolationInit DEF Ready
<1>2. Ready /\ [Next]_vars => Ready'
  BY Zenon, TypeStep, CarryStep, IsolationStep DEF Ready
<1>3. Ready /\ [Next]_vars => [Store!Next]_(Store!vars)
  BY Zenon, Simulation
<1> QED BY <1>1, <1>2, <1>3, StoreInit, PTL DEF Spec, ImplementsPageStore, Store!Spec
=============================================================================
