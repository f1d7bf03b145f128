------------------------ MODULE PhysicalPageWorkflow ------------------------
(***************************************************************************)
(* PhysicalPageSession as MainWindow uses it: the buttons of the physical  *)
(* memory tab are disabled in some states of the session.  The target and  *)
(* probe validations of the handlers read only; when they fail the handler *)
(* does nothing.                                                           *)
(***************************************************************************)
EXTENDS PhysicalPageSession

VARIABLE written   \* history: how the last apply that answered and wrote the
                   \* page ended, until it is rolled back or found undone

wvars == <<page, gate, session, result, reviewed, trimmed, written>>

WInit == Init /\ written = "none"

Pending(s) == CanRollback(s) \/ s.recovery_required

\* PFN navigation, the translated-PFN and the Probe load.
DrawPhysicalMemoryTab ==
    /\ ~Pending(session) /\ session.dirty = {}
    /\ Load
    /\ written' = "none"

\* The hex editor and the undo, redo and revert buttons are always enabled.
DrawLocalEdits == LocalEdit /\ UNCHANGED written

\* Both "Unlock One Physical Apply" and "Apply" need it.
AnyDirty(s) == s.dirty # {}                                   \* faulty variant
CanApply(s) == s.dirty # {} /\ ~s.recovery_required

DrawUnlockApply == CanApply(session) /\ UnlockForOneApply /\ UNCHANGED written

Apply ==
    /\ CanApply(session)
    /\ ApplyAndVerify
    /\ written' = CASE ~session'.target -> "none"
                    [] session'.last_apply_verified -> "verified"
                    [] /\ session'.state = "VerificationFailed"
                       /\ ~session'.recovery_required -> "mismatch"
                    [] OTHER -> written

Reload ==
    /\ Pending(session)
    /\ ReloadPreservingRollback
    /\ written' = IF session'.rollback_snapshot = None THEN "none" ELSE written

DrawUnlockRollback ==
    ~session.write_unlocked /\ UnlockForRollback /\ UNCHANGED written

Rollback ==
    /\ RollbackBaseline
    /\ written' = IF session'.rollback_snapshot = None THEN "none" ELSE written

\* Someone else writes the page while the window waits.
OthersWrite ==
    /\ ExternalWriters
    /\ \E o \in Offset, b \in Byte : page' = [page EXCEPT ![o] = b]
    /\ UNCHANGED <<gate, session, result, reviewed, trimmed, written>>

WNext ==
    \/ DrawPhysicalMemoryTab
    \/ DrawLocalEdits
    \/ DrawUnlockApply
    \/ Apply
    \/ Reload
    \/ DrawUnlockRollback
    \/ Rollback
    \/ OthersWrite

WSpec == WInit /\ [][WNext]_wvars
-----------------------------------------------------------------------------
\* The window never leaves a snapshot behind that can neither be rolled back
\* nor observed: the Apply that the class allows during recovery is disabled.
SnapshotUsable == session.rollback_snapshot # None => Pending(session)

\* "Reload the exact 4096-byte page before any further write": while the result
\* of a transaction is uncertain nothing the window offers writes the page.
ObserveBeforeWrite ==
    [][session.recovery_required => page' = page \/ OthersWrite]_wvars

\* FR-006: the baseline of a successful apply is kept until it is rolled back.
SuccessfulApplyKept == written = "verified" => Pending(session)
=============================================================================
