------------------------ MODULE PhysicalPageSession ------------------------
(***************************************************************************)
(* PhysicalPageSession: the user-mode editor of one physical page.  It     *)
(* stages edits against a baseline, pushes them in one compare-write       *)
(* transaction under the driver's write gate, and keeps what it needs to   *)
(* roll the page back.                                                     *)
(*                                                                         *)
(* Each method is one step: it touches the live page in one backend call,  *)
(* and the driver makes that call atomic (PageStore).  Every backend call  *)
(* may fail; a transaction that fails without an answer may have been      *)
(* executed or not.  A call that is refused by the guards of the method    *)
(* returns an error and changes nothing.                                   *)
(*                                                                         *)
(* revision_, the offset lists and the error texts are only displayed.     *)
(***************************************************************************)
EXTENDS Integers, Sequences, FiniteSets

CONSTANTS
    Offset,           \* byte offsets of the page
    Byte,             \* byte values
    Zero,             \* the byte ClearPageData fills the buffers with
    None,             \* std::nullopt
    MaxEditHistory,   \* kMaxEditHistory
    ExternalWriters   \* someone else writes the page too

Page == [Offset -> Byte]
Maybe == Page \cup {None}

ASSUME SessionAssumption ==
    /\ Zero \in Byte
    /\ None \notin Page
    /\ MaxEditHistory \in Nat \ {0}
    /\ ExternalWriters \in BOOLEAN

VARIABLES
    page,       \* the live physical page
    gate,       \* the driver's write gate
    session,    \* the fields of the PhysicalPageSession
    result,     \* what the last call returned; "none" when it made no backend call
    \* History, read by properties only:
    reviewed,   \* what was current when the user unlocked, while it is unlocked
    trimmed     \* undo_stack_ lost its oldest edit since it was last cleared

vars == <<page, gate, session, result, reviewed, trimmed>>

Evidence == [baseline : Maybe, preflight : Maybe, expected_after : Maybe,
             readback : Maybe, independent_reload : Maybe, rollback : Maybe]
State == {"Empty", "Clean", "Dirty", "Conflict", "VerificationFailed", "Error"}
ByteEdit == [offset : Offset, before : Byte, after : Byte]
Session == [target : BOOLEAN, baseline : Page, working : Page,
            rollback_snapshot : Maybe, rollback_expected : Maybe,
            evidence : Evidence, dirty : SUBSET Offset,
            undo_stack : Seq(ByteEdit), redo_stack : Seq(ByteEdit),
            state : State, write_unlocked : BOOLEAN,
            last_apply_verified : BOOLEAN, recovery_required : BOOLEAN]

\* The session's fields stay in range, and the histories within their bound.
TypeOK ==
    /\ page \in Page
    /\ gate \in BOOLEAN
    /\ session \in Session
    /\ result \in {"none", "ok", "failed", "gate"}
    /\ reviewed \in Maybe \X Maybe \X Maybe \X Maybe
    /\ trimmed \in BOOLEAN

Unreviewed == <<None, None, None, None>>

NoEvidence == [baseline |-> None, preflight |-> None, expected_after |-> None,
               readback |-> None, independent_reload |-> None, rollback |-> None]

\* ClearPageData on a locked session.
Cleared == [target |-> FALSE, baseline |-> [o \in Offset |-> Zero],
            working |-> [o \in Offset |-> Zero],
            rollback_snapshot |-> None, rollback_expected |-> None,
            evidence |-> NoEvidence, dirty |-> {}, undo_stack |-> <<>>,
            redo_stack |-> <<>>, state |-> "Empty", write_unlocked |-> FALSE,
            last_apply_verified |-> FALSE, recovery_required |-> FALSE]

Init ==
    /\ page \in Page
    /\ gate = FALSE
    /\ session = Cleared
    /\ result = "none"
    /\ reviewed = Unreviewed
    /\ trimmed = FALSE
-----------------------------------------------------------------------------
CanRollback(s) == s.rollback_snapshot # None /\ s.rollback_expected # None

\* LockWrite.
KeepUnlocked(s) == s                                          \* faulty variant
LockWrite(s) == [s EXCEPT !.write_unlocked = FALSE]

\* The live page is p: baseline and working copy agree and the history is empty.
Promote(s, p) ==
    [s EXCEPT !.baseline = p, !.working = p, !.dirty = {}, !.undo_stack = <<>>,
              !.redo_stack = <<>>, !.state = "Clean"]

\* What a failed range query or gate call leaves: the session is invalidated
\* when the backend is disconnected.
AfterFailure(s) == {[s EXCEPT !.state = "Error"], Cleared}

Local == result' = "none" /\ UNCHANGED <<page, gate>>
ForgetHistory ==
    trimmed' = (trimmed /\ (session'.undo_stack # <<>> \/ session'.dirty # {}))
KeepReview ==
    reviewed' = IF session'.write_unlocked THEN reviewed ELSE Unreviewed

\* Load: every failure leaves an empty session in state Error.
Load ==
    /\ \/ /\ session' = [Cleared EXCEPT !.state = "Error"]
          /\ result' = "failed"
       \/ /\ session' = [Promote(Cleared, page) EXCEPT
                            !.target = TRUE, !.evidence.baseline = page]
          /\ result' = "ok"
    /\ ForgetHistory /\ KeepReview
    /\ UNCHANGED <<page, gate>>

Invalidate ==
    /\ session' = Cleared
    /\ Local /\ ForgetHistory /\ KeepReview

\* The read of ReloadPreservingRollback, after the guards and the range query.
Observe(s) ==
    LET seen == [s EXCEPT !.evidence.independent_reload = page]
    IN  IF s.recovery_required
        THEN [Promote(seen, page) EXCEPT
                 !.recovery_required = FALSE,
                 !.rollback_expected =
                     IF page = s.rollback_snapshot THEN None ELSE page,
                 !.rollback_snapshot = IF page = @ THEN None ELSE @]
        ELSE IF page = s.baseline THEN Promote(seen, page)
             ELSE [seen EXCEPT !.state = "VerificationFailed"]

ReloadPreservingRollback ==
    /\ session.target
    /\ session.dirty = {} \/ session.recovery_required
    /\ session.rollback_snapshot # None
    /\ LET s == [LockWrite(session) EXCEPT !.evidence.independent_reload = None]
       IN  \/ /\ session' \in AfterFailure(s)
                              \cup {[s EXCEPT !.state = "VerificationFailed"]}
              /\ result' = "failed"
           \/ /\ session' = Observe(s)
              /\ result' = IF session'.state = "Clean" THEN "ok" ELSE "failed"
    /\ ForgetHistory /\ KeepReview
    /\ UNCHANGED <<page, gate>>
-----------------------------------------------------------------------------
\* ApplyLocalEdit, after its guards, for a value that differs.
MarkDirty(s, o, b) ==
    IF s.baseline[o] # b THEN s.dirty \cup {o} ELSE s.dirty \ {o}
ApplyLocalEdit(s, o, b) ==
    LET dirty == MarkDirty(s, o, b)
    IN  LockWrite([s EXCEPT !.working[o] = b, !.dirty = dirty,
                            !.state = IF dirty # {} THEN "Dirty" ELSE "Clean"])

\* undo_stack_.push_back, trimmed at the front; an edit clears the redo stack.
KeepRedo(s, e) == [s EXCEPT !.undo_stack = Append(@, e)]      \* faulty variant
RecordEdit(s, e) ==
    LET stack == Append(s.undo_stack, e)
    IN  [s EXCEPT !.undo_stack = IF Len(stack) > MaxEditHistory
                                 THEN Tail(stack) ELSE stack,
                  !.redo_stack = <<>>]

EditByte(o, b) ==
    /\ session.target
    /\ session.working[o] # b
    /\ session' = ApplyLocalEdit(
           RecordEdit(session, [offset |-> o, before |-> session.working[o],
                                after |-> b]), o, b)
    /\ trimmed' = (trimmed \/ Len(session.undo_stack) = MaxEditHistory)
    /\ Local /\ KeepReview

RevertByte(o) == EditByte(o, session.baseline[o])

Front(s) == SubSeq(s, 1, Len(s) - 1)
Last(s) == s[Len(s)]

Undo ==
    /\ session.undo_stack # <<>>
    /\ LET e == Last(session.undo_stack)
       IN  session' = ApplyLocalEdit(
               [session EXCEPT !.undo_stack = Front(@),
                               !.redo_stack = Append(@, e)], e.offset, e.before)
    /\ Local /\ KeepReview /\ UNCHANGED trimmed

Redo ==
    /\ session.redo_stack # <<>>
    /\ LET e == Last(session.redo_stack)
       IN  session' = ApplyLocalEdit(
               [session EXCEPT !.redo_stack = Front(@),
                               !.undo_stack = Append(@, e)], e.offset, e.after)
    /\ Local /\ KeepReview /\ UNCHANGED trimmed

RevertAll ==
    /\ session.target
    /\ session' = LockWrite(Promote(session, session.baseline))
    /\ Local /\ ForgetHistory /\ KeepReview
-----------------------------------------------------------------------------
Current(s) == <<s.baseline, s.working, s.rollback_snapshot, s.rollback_expected>>

Unlock ==
    /\ session' = [session EXCEPT !.write_unlocked = TRUE]
    /\ reviewed' = Current(session)
    /\ Local /\ UNCHANGED trimmed

\* The PFN was retyped correctly; a wrong one is refused.
UnlockForOneApply == session.target /\ session.dirty # {} /\ Unlock

UnlockForRollback == session.target /\ CanRollback(session) /\ Unlock

\* CompareWritePhysicalPage(expected, desired).  A failed copy leaves a mixture;
\* an error leaves the page as it was or as any of the other outcomes does.
Landed(expected, desired) ==
    IF ExternalWriters THEN Page
    ELSE {[o \in Offset |-> IF o \in S THEN desired[o] ELSE expected[o]] :
              S \in SUBSET Offset}

CompareWrite(expected, desired, outcome) ==
    CASE outcome = "Applied"  -> page = expected /\ page' = desired
      [] outcome = "Conflict" -> page # expected /\ page' = page
      [] outcome = "Failure"  -> page = expected /\ page' \in Landed(expected, desired)
      [] outcome = "error"    -> page' \in {page} \cup
                                    (IF page = expected
                                     THEN Landed(expected, desired) ELSE {})

\* Another attempt to close the gate, which may fail: the guard's destructor
\* and the SetWriteEnabled(false) after every operation of the page.
Relock(open) == gate' \in {FALSE, open}

\* WriteGateGuard::Close and the attempts after it; open says whether the driver
\* may still hold the gate open.
MaskClose(open, r) == Relock(open) /\ result' = r             \* faulty variant
Close(open, r) ==
    \/ gate' = FALSE /\ result' = r
    \/ Relock(open) /\ result' = "gate"

\* WriteGateGuard::Enable fails: it closes the gate and, when that fails too,
\* reports the failed close.
EnableFails == Close(TRUE, "failed")

\* The range query or the enable of an operation fails; the page is untouched.
BeforeTransaction(s, gated) ==
    /\ session' \in AfterFailure(s)
    /\ IF gated THEN EnableFails ELSE result' = "failed" /\ Relock(gate)
    /\ UNCHANGED page

\* A transaction without an answer: the page is unknown until it is observed.
KeepExpected(s) ==                                            \* faulty variant
    /\ session' = [s EXCEPT !.recovery_required = TRUE,
                            !.state = "VerificationFailed"]
    /\ Close(TRUE, "failed")
NoAnswer(s) ==
    /\ session' = [s EXCEPT !.rollback_expected = None,
                            !.recovery_required = TRUE,
                            !.state = "VerificationFailed"]
    /\ Close(TRUE, "failed")

\* An answered transaction ends in state a when the gate closes, else in Error.
Answered(s, a) ==
    /\ Close(FALSE, IF a.state = "Clean" THEN "ok" ELSE "failed")
    /\ session' = IF result' = "gate" THEN [s EXCEPT !.state = "Error"] ELSE a
-----------------------------------------------------------------------------
\* ClearEvidence at the start of an apply.
KeepEvidence(s) == s                                          \* faulty variant
ClearEvidence(s) == [s EXCEPT !.evidence = NoEvidence]

\* What an answer leaves: a conflict wrote nothing, any other answer wrote what
\* was read back.
ExpectWorking(s, outcome, readback) ==                        \* faulty variant
    [s EXCEPT !.evidence.readback = readback,
              !.rollback_expected = s.working]
ApplyAnswer(s, outcome, readback) ==
    IF outcome = "Conflict"
    THEN [s EXCEPT !.evidence.readback = readback,
                   !.evidence.preflight = readback,
                   !.rollback_snapshot = None]
    ELSE [s EXCEPT !.evidence.readback = readback,
                   !.evidence.preflight = s.baseline,
                   !.rollback_expected = readback]

ApplyAndVerify ==
    /\ session.target /\ session.dirty # {} /\ session.write_unlocked
    /\ LET s == [ClearEvidence(LockWrite(session)) EXCEPT
                    !.last_apply_verified = FALSE,
                    !.recovery_required = FALSE,
                    !.evidence.baseline = session.baseline]
           t == [s EXCEPT !.rollback_snapshot = s.baseline,
                          !.rollback_expected = None,
                          !.evidence.expected_after = s.working]
       IN  \/ BeforeTransaction(s, FALSE)
           \/ BeforeTransaction([t EXCEPT !.rollback_snapshot = None], TRUE)
           \/ CompareWrite(s.baseline, s.working, "error") /\ NoAnswer(t)
           \/ \E outcome \in {"Applied", "Conflict", "Failure"} :
                /\ CompareWrite(s.baseline, s.working, outcome)
                /\ LET a == ApplyAnswer(t, outcome, page')
                   IN  Answered(a,
                         CASE outcome = "Conflict" ->
                                [a EXCEPT !.state = "Conflict"]
                           [] outcome = "Failure" ->
                                [a EXCEPT !.state = "VerificationFailed"]
                           [] OTHER ->
                                [Promote(a, page') EXCEPT
                                    !.last_apply_verified = TRUE])
    /\ ForgetHistory /\ KeepReview

RollbackBaseline ==
    /\ session.target /\ CanRollback(session) /\ session.write_unlocked
    /\ LET s == [LockWrite(session) EXCEPT !.evidence.rollback = None]
           expected == s.rollback_expected
           desired == s.rollback_snapshot
       IN  \/ \E gated \in BOOLEAN : BeforeTransaction(s, gated)
           \/ CompareWrite(expected, desired, "error") /\ NoAnswer(s)
           \/ \E outcome \in {"Applied", "Conflict", "Failure"} :
                /\ CompareWrite(expected, desired, outcome)
                /\ LET a == [s EXCEPT !.evidence.rollback = page',
                                !.rollback_expected =
                                    IF outcome = "Conflict" THEN @ ELSE page']
                   IN  Answered(a,
                         CASE outcome = "Conflict" ->
                                [a EXCEPT !.state = "Conflict"]
                           [] outcome = "Failure" ->
                                [a EXCEPT !.state = "VerificationFailed"]
                           [] OTHER ->
                                [Promote(a, page') EXCEPT
                                    !.rollback_snapshot = None,
                                    !.rollback_expected = None,
                                    !.recovery_required = FALSE,
                                    !.last_apply_verified = FALSE])
    /\ ForgetHistory /\ KeepReview

LocalEdit ==
    \/ \E o \in Offset, b \in Byte : EditByte(o, b)
    \/ \E o \in Offset : RevertByte(o)
    \/ Undo
    \/ Redo
    \/ RevertAll

\* Any caller of the class, in any order.
Next ==
    \/ Load
    \/ Invalidate
    \/ ReloadPreservingRollback
    \/ LocalEdit
    \/ UnlockForOneApply
    \/ UnlockForRollback
    \/ ApplyAndVerify
    \/ RollbackBaseline

Spec == Init /\ [][Next]_vars
-----------------------------------------------------------------------------
\* The dirty bitmap is exactly the set of bytes that differ from the baseline,
\* and Clean and Dirty say whether there are any.
DirtyExact ==
    /\ session.dirty = {o \in Offset : session.baseline[o] # session.working[o]}
    /\ session.state = "Clean" => session.dirty = {}
    /\ session.state = "Dirty" => session.dirty # {}

\* What undoing all edits of the stack, newest first, makes of page p.
Unwind(p, stack) ==
    LET f[n \in 0..Len(stack)] ==
            IF n = Len(stack) THEN p
            ELSE [f[n + 1] EXCEPT ![stack[n + 1].offset] = stack[n + 1].before]
    IN  f[0]

\* The local edits stay exact through every edit, undo, redo, failed apply,
\* conflict, observation and rollback.  The dirty bitmap is right (DirtyExact);
\* unless the history overflowed, undoing everything arrives at the baseline;
\* the redo stack always continues from the working copy; and both stacks
\* together stay within the limit.
HistoryExact ==
    /\ DirtyExact
    /\ Len(session.undo_stack) + Len(session.redo_stack) <= MaxEditHistory
    /\ session.target /\ ~trimmed =>
           Unwind(session.working, session.undo_stack) = session.baseline
    /\ session.redo_stack # <<>> =>
           LET e == Last(session.redo_stack)
           IN  session.working[e.offset] = e.before

\* With no other writer an available rollback is bound to the live page, so it
\* never conflicts, whatever failed, half-finished or lost its answer before.
RollbackExact ==
    ~ExternalWriters /\ CanRollback(session) => session.rollback_expected = page

\* What a successful operation writes is what was reviewed: it turns the page
\* the user saw into the page the user saw, whoever else writes in between.
ReviewedWritesOnly ==
    [][page' # page /\ session' # session /\ result' = "ok" =>
           <<page, page'>> \in {<<reviewed[1], reviewed[2]>>,
                               <<reviewed[4], reviewed[3]>>}]_vars

\* PhysicalPageEvidence::Complete.
Complete(e) ==
    /\ \A f \in DOMAIN e : e[f] # None
    /\ e.preflight = e.baseline
    /\ e.readback = e.expected_after
    /\ e.independent_reload = e.expected_after
    /\ e.rollback = e.baseline

\* With no other writer a complete evidence bundle certifies a page that is
\* back at its baseline.
EvidenceSound ==
    ~ExternalWriters /\ Complete(session.evidence)
        => page = session.evidence.baseline

\* An uncertain transaction can always be observed: the snapshot is kept, so
\* ReloadPreservingRollback does not refuse, and no rollback is offered before.
RecoveryObservable ==
    session.recovery_required =>
        /\ session.target
        /\ session.rollback_snapshot # None
        /\ session.rollback_expected = None

\* A gate that may be left open is never masked: an operation that ends with
\* the gate open returns the failure of the gate, not its own result.
OpenGateReported == [][gate' /\ ~gate => result' = "gate"]_vars
=============================================================================
