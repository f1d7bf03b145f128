---------------------- MODULE PhysicalPageSessionProofs ----------------------
(***************************************************************************)
(* Proofs about PhysicalPageSession and the two programs that use it,      *)
(* PhysicalPageWorkflow and LiveVerify, for pages and histories of any     *)
(* size.  First what each call does to the fields (the Effect lemmas),     *)
(* then the history of edits, then the invariant:                          *)
(*                                                                         *)
(*   ReviewCurrent   an unlocked session is the one that was reviewed;     *)
(*   RollbackLive    without other writers the page a rollback read back   *)
(*                   is still live, which makes EvidenceSound inductive;   *)
(*   History         there is a chain of working copies the two stacks     *)
(*                   lead through, from the baseline unless the oldest     *)
(*                   edits were dropped.                                   *)
(*                                                                         *)
(* RecoveryObservable and RollbackExact are inductive together with these. *)
(* CallerInv is the part that also holds when the page is written behind   *)
(* the session's back.                                                     *)
(*                                                                         *)
(* The properties of LiveVerify speak of the end of a run; ToolInv adds    *)
(* what every stage of a run that has reported no error has established:   *)
(* the verified write and its four pages, then the independent reload,     *)
(* then the rollback.  Nothing is claimed of the live page before the      *)
(* rollback succeeded: it may be written, or the fixture reset, between    *)
(* any two calls.                                                          *)
(***************************************************************************)
EXTENDS PhysicalPageWorkflow, LiveVerify, TLAPS, WellFoundedInduction

-----------------------------------------------------------------------------
(* What the calls that are not local edits do to the fields. *)

\* The staged edits of s are those of t, in a state that promises nothing new.
EditsKept(s, t) ==
    /\ t.target = s.target
    /\ t.baseline = s.baseline
    /\ t.working = s.working
    /\ t.dirty = s.dirty
    /\ t.undo_stack = s.undo_stack
    /\ t.redo_stack = s.redo_stack
    /\ t.state \in {s.state, "Error", "Conflict", "VerificationFailed"}

\* Nothing is staged.
NoEdits(t) ==
    /\ t.working = t.baseline
    /\ t.dirty = {}
    /\ t.undo_stack = <<>>
    /\ t.redo_stack = <<>>
    /\ t.state # "Dirty"

\* What a session has for a rollback.
SameRollback(s, t) ==
    /\ t.rollback_snapshot = s.rollback_snapshot
    /\ t.rollback_expected = s.rollback_expected
    /\ t.recovery_required = s.recovery_required

\* Without a snapshot there is neither a rollback nor anything to recover.
NoRollback(t) ==
    /\ t.rollback_snapshot = None
    /\ t.rollback_expected = None
    /\ ~t.recovery_required

\* The values the calls reset fields to are in range.
LEMMA Basics ==
    /\ <<>> \in Seq(ByteEdit)
    /\ {} \in SUBSET Offset
    /\ None \in Maybe
    /\ \A p \in Page : p \in Maybe /\ p # None
    /\ NoEvidence \in Evidence
BY SessionAssumption DEF Maybe, NoEvidence, Evidence

\* ClearPageData leaves nothing staged, nothing to roll back and no evidence.
LEMMA ClearedFields ==
    /\ Cleared \in Session /\ [Cleared EXCEPT !.state = "Error"] \in Session
    /\ \A t \in {Cleared, [Cleared EXCEPT !.state = "Error"]} :
         /\ NoEdits(t) /\ NoRollback(t) /\ ~t.target /\ ~t.write_unlocked
         /\ t.evidence = NoEvidence
<1>1. Cleared \in Session
  BY SessionAssumption DEF Cleared, Session, State, Page, Maybe, Evidence, NoEvidence
<1>2. /\ NoEdits(Cleared) /\ NoRollback(Cleared) /\ ~Cleared.target
      /\ ~Cleared.write_unlocked /\ Cleared.evidence = NoEvidence
  BY Zenon DEF Cleared, NoEdits, NoRollback
<1> QED BY Zenon, <1>1, <1>2 DEF Session, State, NoEdits, NoRollback

\* Taking the live page as baseline empties the history and keeps the rollback.
LEMMA PromoteFields ==
    ASSUME NEW s \in Session, NEW p \in Page
    PROVE  LET t == Promote(s, p)
           IN  /\ t \in Session /\ NoEdits(t) /\ t.state = "Clean"
               /\ t.baseline = p /\ t.target = s.target
               /\ t.rollback_snapshot = s.rollback_snapshot
               /\ t.rollback_expected = s.rollback_expected
               /\ t.evidence = s.evidence /\ t.write_unlocked = s.write_unlocked
               /\ t.recovery_required = s.recovery_required
               /\ t.last_apply_verified = s.last_apply_verified
<1>1. Promote(s, p) \in Session
  BY Zenon, Basics, "Clean" \in State DEF Promote, Session, State
<1> QED BY Zenon, <1>1 DEF Promote, Session, NoEdits

\* Load: whatever it finds, the session starts afresh and the page is only read.
LEMMA LoadEffect ==
    ASSUME TypeOK, Load
    PROVE  /\ session' \in Session /\ NoEdits(session') /\ NoRollback(session')
           /\ session'.evidence.rollback = None /\ ~session'.write_unlocked
           /\ page' = page /\ gate' = gate
<1>1. CASE session' = [Cleared EXCEPT !.state = "Error"]
  BY <1>1, ClearedFields DEF Load, NoEvidence
<1>2. CASE session' = [Promote(Cleared, page) EXCEPT
                            !.target = TRUE, !.evidence.baseline = page]
  <2>1. page \in Page
    BY Zenon DEF TypeOK
  <2> DEFINE q == Promote(Cleared, page)
  <2>2. /\ q \in Session /\ NoEdits(q) /\ NoRollback(q)
        /\ q.evidence = NoEvidence /\ ~q.write_unlocked
    BY <2>1, ClearedFields, PromoteFields DEF NoRollback
  <2> HIDE DEF q
  <2>3. session' \in Session
    BY Zenon, <1>2, <2>1, <2>2, Basics DEF Session, Evidence, q
  <2>4. /\ NoEdits(session') /\ NoRollback(session') /\ ~session'.write_unlocked
        /\ session'.evidence = [NoEvidence EXCEPT !.baseline = page]
    BY Zenon, <1>2, <2>2 DEF Session, NoEdits, NoRollback, q
  <2> QED BY Zenon, <2>3, <2>4 DEF NoEvidence, Load
<1> QED BY Zenon, <1>1, <1>2 DEF Load

\* A failed range query or gate call: page, edits and rollback are kept, or the
\* session is empty.
LEMMA AfterFailureFields ==
    ASSUME NEW s \in Session, NEW t \in AfterFailure(s)
    PROVE  /\ t \in Session
           /\ \/ t = Cleared
              \/ /\ EditsKept(s, t) /\ SameRollback(s, t)
                 /\ t.evidence = s.evidence /\ t.write_unlocked = s.write_unlocked
BY ZenonT(30), ClearedFields DEF AfterFailure, EditsKept, SameRollback, Session, State

\* A step that leaves the session in state st and everything else alone.
LEMMA StateFields ==
    ASSUME NEW s \in Session, NEW st \in {"Error", "Conflict", "VerificationFailed"}
    PROVE  LET t == [s EXCEPT !.state = st]
           IN  /\ t \in Session /\ EditsKept(s, t) /\ SameRollback(s, t)
               /\ t.evidence = s.evidence /\ t.write_unlocked = s.write_unlocked
BY Zenon DEF EditsKept, SameRollback, Session, State

\* ReloadPreservingRollback: the page is not touched.  It fails with edits and
\* rollback as they were, or the session is gone; or it finds what is live.
LEMMA ReloadEffect ==
    ASSUME TypeOK, ReloadPreservingRollback
    PROVE  /\ session' \in Session /\ ~session'.write_unlocked
           /\ page' = page /\ gate' = gate
           /\ session'.evidence.rollback \in {session.evidence.rollback, None}
           /\ \/ NoEdits(session') /\ NoRollback(session')
              \/ EditsKept(session, session') /\ SameRollback(session, session')
              \/ NoEdits(session') /\ SameRollback(session, session') /\ session'.target
              \/ /\ NoEdits(session') /\ ~session'.recovery_required
                 /\ session'.target
                 /\ session'.rollback_snapshot = session.rollback_snapshot
                 /\ session'.rollback_expected = page
<1> DEFINE s == [LockWrite(session) EXCEPT !.evidence.independent_reload = None]
           seen == [s EXCEPT !.evidence.independent_reload = page]
<1>0. session \in Session /\ page \in Page /\ session.target
  BY Zenon DEF TypeOK, ReloadPreservingRollback
<1>1. /\ s \in Session /\ EditsKept(session, s) /\ SameRollback(session, s)
      /\ ~s.write_unlocked /\ s.evidence.rollback = session.evidence.rollback
  BY Zenon, <1>0, Basics DEF LockWrite, Session, Evidence, EditsKept, SameRollback
<1>2. /\ seen \in Session /\ EditsKept(session, seen) /\ SameRollback(session, seen)
      /\ ~seen.write_unlocked /\ seen.evidence.rollback = session.evidence.rollback
  BY ZenonT(30), <1>0, <1>1, Basics DEF Session, Evidence, EditsKept, SameRollback
<1>3. page' = page /\ gate' = gate
  BY Zenon DEF ReloadPreservingRollback
<1>4. \/ session' \in AfterFailure(s) \cup {[s EXCEPT !.state = "VerificationFailed"]}
      \/ session' = Observe(s)
  BY Zenon DEF ReloadPreservingRollback
<1> HIDE DEF s
<1>5. CASE session' \in AfterFailure(s)
  BY <1>1, <1>3, <1>5, AfterFailureFields, ClearedFields
     DEF EditsKept, SameRollback, NoEvidence
<1>6. CASE session' = [s EXCEPT !.state = "VerificationFailed"]
  BY Zenon, <1>1, <1>3, <1>6, StateFields DEF EditsKept, SameRollback
<1>7. CASE session' = Observe(s)
  <2> DEFINE q == Promote(seen, page)
  <2>1. /\ q \in Session /\ NoEdits(q) /\ SameRollback(session, q) /\ q.target
        /\ ~q.write_unlocked /\ q.evidence.rollback = session.evidence.rollback
    BY ZenonT(30), <1>0, <1>2, PromoteFields DEF SameRollback, EditsKept
  <2> HIDE DEF q, seen
  <2>2. CASE s.recovery_required
    <3>1. session' = [q EXCEPT
                 !.recovery_required = FALSE,
                 !.rollback_expected =
                     IF page = s.rollback_snapshot THEN None ELSE page,
                 !.rollback_snapshot = IF page = @ THEN None ELSE @]
      BY Zenon, <1>7, <2>2 DEF Observe, q, seen
    <3>2. s.rollback_snapshot = q.rollback_snapshot
      BY Zenon, <1>1, <2>1 DEF SameRollback
    <3>3. session' \in Session
      BY ZenonT(30), <1>0, <2>1, <3>1, <3>2, Basics DEF Session
    <3>4. /\ NoEdits(session') /\ ~session'.recovery_required /\ session'.target
          /\ ~session'.write_unlocked
          /\ session'.evidence.rollback = session.evidence.rollback
      BY Zenon, <2>1, <3>1 DEF Session, NoEdits
    <3>5. CASE page = s.rollback_snapshot
      <4>1. NoRollback(session')
        BY Zenon, <2>1, <3>1, <3>2, <3>5 DEF Session, NoRollback
      <4> QED BY Zenon, <1>3, <3>3, <3>4, <4>1
    <3>6. CASE page # s.rollback_snapshot
      <4>1. /\ session'.rollback_snapshot = session.rollback_snapshot
            /\ session'.rollback_expected = page
        BY Zenon, <2>1, <3>1, <3>2, <3>6 DEF Session, SameRollback
      <4> QED BY Zenon, <1>3, <3>3, <3>4, <4>1
    <3> QED BY Zenon, <3>5, <3>6
  <2>3. CASE ~s.recovery_required /\ page = s.baseline
    <3>1. session' = q
      BY Zenon, <1>7, <2>3 DEF Observe, q, seen
    <3> QED BY Zenon, <1>3, <2>1, <3>1
  <2>4. CASE ~s.recovery_required /\ page # s.baseline
    <3>1. session' = [seen EXCEPT !.state = "VerificationFailed"]
      BY Zenon, <1>7, <2>4 DEF Observe, seen
    <3> QED BY Zenon, <1>2, <1>3, <3>1, StateFields DEF EditsKept, SameRollback
  <2> QED BY Zenon, <2>2, <2>3, <2>4
<1> QED BY Zenon, <1>4, <1>5, <1>6, <1>7

\* A transaction leaves a page, the one it was given when it applied it, and
\* the one that was there when it conflicted.
LEMMA CompareWriteEffect ==
    ASSUME page \in Page, NEW expected \in Page, NEW desired \in Page,
           NEW outcome \in {"Applied", "Conflict", "Failure", "error"},
           CompareWrite(expected, desired, outcome)
    PROVE  /\ page' \in Page
           /\ outcome = "Applied" => page = expected /\ page' = desired
           /\ outcome = "Conflict" => page # expected /\ page' = page
<1>1. Landed(expected, desired) \subseteq Page
  BY Zenon DEF Landed, Page
<1>2. CASE outcome = "Applied"
  BY Zenon, <1>2 DEF CompareWrite
<1>3. CASE outcome = "Conflict"
  BY Zenon, <1>3 DEF CompareWrite
<1>4. CASE outcome = "Failure"
  BY Zenon, <1>1, <1>4 DEF CompareWrite
<1>5. CASE outcome = "error"
  BY Zenon, <1>1, <1>5 DEF CompareWrite
<1> QED BY Zenon, <1>2, <1>3, <1>4, <1>5

\* An answered transaction reports success only from a clean session, and a gate
\* that did not close leaves the session in Error.
LEMMA AnsweredEffect ==
    ASSUME NEW s \in Session, NEW a \in Session, Answered(s, a)
    PROVE  \/ session' = a /\ result' = IF a.state = "Clean" THEN "ok" ELSE "failed"
           \/ session' = [s EXCEPT !.state = "Error"] /\ result' = "gate"
BY Zenon DEF Answered, Close

\* ApplyAndVerify: nothing was sent; or the transaction has no answer; or it
\* conflicted; or it wrote something else; or it wrote what was staged.
LEMMA ApplyEffect ==
    ASSUME TypeOK, ApplyAndVerify
    PROVE  /\ session' \in Session /\ page' \in Page /\ ~session'.write_unlocked
           /\ session'.evidence.rollback = None
           /\ \/ /\ page' = page /\ result' # "ok"
                 /\ NoEdits(session') /\ NoRollback(session')
              \/ /\ page' = page /\ result' # "ok"
                 /\ EditsKept(session, session') /\ NoRollback(session')
              \/ /\ page' = page /\ result' # "ok"
                 /\ EditsKept(session, session') /\ ~session'.recovery_required
                 /\ session'.rollback_snapshot = session.rollback_snapshot
                 /\ session'.rollback_expected = session.rollback_expected
              \/ /\ result' # "ok" /\ EditsKept(session, session')
                 /\ session'.recovery_required
                 /\ session'.rollback_snapshot = session.baseline
                 /\ session'.rollback_expected = None
              \/ /\ result' # "ok" /\ EditsKept(session, session')
                 /\ ~session'.recovery_required
                 /\ session'.rollback_snapshot = session.baseline
                 /\ session'.rollback_expected = page'
              \/ /\ page = session.baseline /\ page' = session.working
                 /\ NoEdits(session') /\ ~session'.recovery_required
                 /\ session'.rollback_snapshot = session.baseline
                 /\ session'.rollback_expected = page'
<1> DEFINE s == [ClearEvidence(LockWrite(session)) EXCEPT
                    !.last_apply_verified = FALSE,
                    !.recovery_required = FALSE,
                    !.evidence.baseline = session.baseline]
           t == [s EXCEPT !.rollback_snapshot = s.baseline,
                          !.rollback_expected = None,
                          !.evidence.expected_after = s.working]
           u == [t EXCEPT !.rollback_snapshot = None]
<1>0. session \in Session /\ page \in Page /\ session.baseline \in Page
      /\ session.working \in Page
  BY Zenon DEF TypeOK, Session
<1>1. /\ s \in Session /\ EditsKept(session, s) /\ ~s.recovery_required
      /\ s.rollback_snapshot = session.rollback_snapshot
      /\ s.rollback_expected = session.rollback_expected
      /\ ~s.write_unlocked /\ s.evidence.rollback = None
  BY Zenon, <1>0, Basics
     DEF Session, Evidence, NoEvidence, ClearEvidence, LockWrite, EditsKept
<1>2. s.baseline = session.baseline /\ s.working = session.working
  BY Zenon, <1>1 DEF EditsKept
<1>3. /\ t \in Session /\ EditsKept(session, t) /\ ~t.recovery_required
      /\ t.rollback_snapshot = session.baseline
      /\ t.rollback_expected = None
      /\ ~t.write_unlocked /\ t.evidence.rollback = None
  <2> HIDE DEF s
  <2>1. s.baseline \in Maybe /\ s.working \in Maybe
    BY Zenon, <1>0, <1>2, Basics
  <2>2. t \in Session
    BY Zenon, <1>1, <2>1, Basics DEF Session, Evidence
  <2> QED BY <1>1, <1>2, <2>2 DEF Session, Evidence, EditsKept
<1>4. /\ u \in Session /\ EditsKept(session, u) /\ NoRollback(u)
      /\ ~u.write_unlocked /\ u.evidence.rollback = None
  BY ZenonT(40), <1>3, Basics DEF Session, EditsKept, NoRollback
<1>5. \/ BeforeTransaction(s, FALSE)
      \/ BeforeTransaction(u, TRUE)
      \/ CompareWrite(s.baseline, s.working, "error") /\ NoAnswer(t)
      \/ \E outcome \in {"Applied", "Conflict", "Failure"} :
                /\ CompareWrite(s.baseline, s.working, outcome)
                /\ LET a == ApplyAnswer(t, outcome, page')
                   IN  Answered(a,
                         CASE outcome = "Conflict" ->
                                [a EXCEPT !.state = "Conflict"]
                           [] outcome = "Failure" ->
                                [a EXCEPT !.state = "VerificationFailed"]
                           [] OTHER ->
                                [Promote(a, page') EXCEPT
                                    !.last_apply_verified = TRUE])
  BY Zenon DEF ApplyAndVerify
<1> HIDE DEF s, t, u
<1>6. CASE BeforeTransaction(s, FALSE)
  <2>1. session' \in AfterFailure(s) /\ page' = page /\ result' # "ok"
    BY Zenon, <1>6 DEF BeforeTransaction
  <2> QED BY <1>0, <1>1, <2>1, AfterFailureFields, ClearedFields
          DEF EditsKept, SameRollback, NoEvidence
<1>7. CASE BeforeTransaction(u, TRUE)
  <2>1. session' \in AfterFailure(u) /\ page' = page /\ result' # "ok"
    BY Zenon, <1>7 DEF BeforeTransaction, EnableFails, Close
  <2> QED BY <1>0, <1>4, <2>1, AfterFailureFields, ClearedFields
          DEF EditsKept, SameRollback, NoRollback, NoEvidence
<1>8. CASE CompareWrite(s.baseline, s.working, "error") /\ NoAnswer(t)
  <2>1. page' \in Page
    BY Zenon, <1>0, <1>2, <1>8, CompareWriteEffect
  <2>2. session' = [t EXCEPT !.rollback_expected = None,
                            !.recovery_required = TRUE,
                            !.state = "VerificationFailed"]
        /\ result' # "ok"
    BY Zenon, <1>8 DEF NoAnswer, Close
  <2>3. session' \in Session
    BY Zenon, <1>3, <2>2, Basics DEF Session, State
  <2> QED BY Zenon, <1>3, <2>1, <2>2, <2>3 DEF Session, EditsKept
<1>9. ASSUME NEW outcome \in {"Applied", "Conflict", "Failure"},
             CompareWrite(s.baseline, s.working, outcome),
             LET a == ApplyAnswer(t, outcome, page')
             IN  Answered(a,
                         CASE outcome = "Conflict" ->
                                [a EXCEPT !.state = "Conflict"]
                           [] outcome = "Failure" ->
                                [a EXCEPT !.state = "VerificationFailed"]
                           [] OTHER ->
                                [Promote(a, page') EXCEPT
                                    !.last_apply_verified = TRUE])
      PROVE  /\ session' \in Session /\ page' \in Page /\ ~session'.write_unlocked
             /\ session'.evidence.rollback = None
             /\ \/ /\ page' = page /\ result' # "ok"
                   /\ EditsKept(session, session') /\ NoRollback(session')
                \/ /\ result' # "ok" /\ EditsKept(session, session')
                   /\ ~session'.recovery_required
                   /\ session'.rollback_snapshot = session.baseline
                   /\ session'.rollback_expected = page'
                \/ /\ page = session.baseline /\ page' = session.working
                   /\ NoEdits(session') /\ ~session'.recovery_required
                   /\ session'.rollback_snapshot = session.baseline
                   /\ session'.rollback_expected = page'
  <2> DEFINE a == ApplyAnswer(t, outcome, page')
  <2>1. /\ page' \in Page
        /\ outcome = "Applied" => page = session.baseline /\ page' = session.working
        /\ outcome = "Conflict" => page' = page
    BY Zenon, <1>0, <1>2, <1>9, CompareWriteEffect
  <2>2. /\ a \in Session /\ EditsKept(session, a) /\ ~a.recovery_required
        /\ ~a.write_unlocked /\ a.evidence.rollback = None
        /\ outcome = "Conflict" => NoRollback(a)
        /\ outcome # "Conflict" =>
               a.rollback_snapshot = session.baseline /\ a.rollback_expected = page'
    <3>1. CASE outcome = "Conflict"
      BY ZenonT(30), <1>3, <2>1, <3>1, Basics
         DEF ApplyAnswer, Session, Evidence, EditsKept, NoRollback
    <3>2. CASE outcome # "Conflict"
      <4>1. t.baseline \in Maybe
        BY Zenon, <1>3, Basics DEF Session
      <4> QED BY Zenon, <1>3, <2>1, <3>2, <4>1, Basics
              DEF ApplyAnswer, Session, Evidence, EditsKept
    <3> QED BY Zenon, <3>1, <3>2
  <2> HIDE DEF a
  <2>3. CASE outcome = "Conflict"
    <3>1. Answered(a, [a EXCEPT !.state = "Conflict"])
      BY Zenon, <1>9, <2>3 DEF a
    <3>2. [a EXCEPT !.state = "Conflict"] \in Session
          /\ [a EXCEPT !.state = "Conflict"].state # "Clean"
      BY Zenon, <2>2 DEF Session, State
    <3>3. \E st \in {"Conflict", "Error"} :
              session' = [a EXCEPT !.state = st] /\ result' # "ok"
      BY Zenon, <2>2, <3>1, <3>2, AnsweredEffect
    <3>4. /\ session' \in Session /\ EditsKept(a, session') /\ SameRollback(a, session')
          /\ session'.evidence = a.evidence /\ ~session'.write_unlocked
      BY ZenonT(40), <2>2, <3>3, StateFields
    <3> QED BY Zenon, <2>1, <2>2, <2>3, <3>3, <3>4 DEF EditsKept, SameRollback, NoRollback
  <2>4. CASE outcome = "Failure"
    <3>1. Answered(a, [a EXCEPT !.state = "VerificationFailed"])
      BY Zenon, <1>9, <2>4 DEF a
    <3>2. [a EXCEPT !.state = "VerificationFailed"] \in Session
          /\ [a EXCEPT !.state = "VerificationFailed"].state # "Clean"
      BY Zenon, <2>2 DEF Session, State
    <3>3. \E st \in {"VerificationFailed", "Error"} :
              session' = [a EXCEPT !.state = st] /\ result' # "ok"
      BY Zenon, <2>2, <3>1, <3>2, AnsweredEffect
    <3>4. /\ session' \in Session /\ EditsKept(a, session') /\ SameRollback(a, session')
          /\ session'.evidence = a.evidence /\ ~session'.write_unlocked
      BY ZenonT(30), <2>2, <3>3, StateFields
    <3> QED BY Zenon, <2>1, <2>2, <2>4, <3>3, <3>4 DEF EditsKept, SameRollback
  <2>5. CASE outcome = "Applied"
    <3> DEFINE m == Promote(a, page')
               q == [m EXCEPT !.last_apply_verified = TRUE]
    <3>1. Answered(a, q)
      BY Zenon, <1>9, <2>5 DEF a
    <3>2. /\ q \in Session /\ NoEdits(q) /\ ~q.recovery_required
          /\ q.rollback_snapshot = a.rollback_snapshot
          /\ q.rollback_expected = a.rollback_expected
          /\ ~q.write_unlocked /\ q.evidence = a.evidence
      <4>1. /\ m \in Session /\ NoEdits(m) /\ ~m.recovery_required
            /\ m.rollback_snapshot = a.rollback_snapshot
            /\ m.rollback_expected = a.rollback_expected
            /\ ~m.write_unlocked /\ m.evidence = a.evidence
        BY Zenon, <2>1, <2>2, PromoteFields
      <4> HIDE DEF m
      <4> QED BY Zenon, <4>1 DEF Session, NoEdits
    <3> HIDE DEF q
    <3>3. CASE session' = q
      BY Zenon, <2>1, <2>2, <2>5, <3>2, <3>3
    <3>4. CASE session' = [a EXCEPT !.state = "Error"] /\ result' = "gate"
      BY ZenonT(30), <2>1, <2>2, <2>5, <3>4, StateFields DEF EditsKept, SameRollback
    <3> QED BY Zenon, <2>2, <3>1, <3>2, <3>3, <3>4, AnsweredEffect
  <2> QED BY Zenon, <2>3, <2>4, <2>5
<1> QED BY Zenon, <1>5, <1>6, <1>7, <1>8, <1>9

\* RollbackBaseline: nothing was sent; or the transaction has no answer; or it
\* conflicted; or it wrote something else; or the page is back.
LEMMA RollbackEffect ==
    ASSUME TypeOK, RollbackBaseline
    PROVE  /\ session' \in Session /\ page' \in Page /\ ~session'.write_unlocked
           /\ session'.evidence.rollback \in {None, page'}
           /\ \/ /\ page' = page /\ result' # "ok"
                 /\ NoEdits(session') /\ NoRollback(session')
              \/ /\ page' = page /\ result' # "ok"
                 /\ EditsKept(session, session') /\ SameRollback(session, session')
              \/ /\ result' # "ok" /\ EditsKept(session, session')
                 /\ session'.recovery_required
                 /\ session'.rollback_snapshot = session.rollback_snapshot
                 /\ session'.rollback_expected = None
              \/ /\ result' # "ok" /\ EditsKept(session, session')
                 /\ session'.recovery_required = session.recovery_required
                 /\ session'.rollback_snapshot = session.rollback_snapshot
                 /\ session'.rollback_expected = page'
              \/ /\ page = session.rollback_expected
                 /\ page' = session.rollback_snapshot
                 /\ NoEdits(session') /\ NoRollback(session')
<1> DEFINE s == [LockWrite(session) EXCEPT !.evidence.rollback = None]
<1>0. /\ session \in Session /\ page \in Page
      /\ session.rollback_expected \in Page /\ session.rollback_snapshot \in Page
  BY Zenon DEF TypeOK, Session, Maybe, RollbackBaseline, CanRollback
<1>1. /\ s \in Session /\ EditsKept(session, s) /\ SameRollback(session, s)
      /\ ~s.write_unlocked /\ s.evidence.rollback = None
  BY Zenon, <1>0, Basics DEF LockWrite, Session, Evidence, EditsKept, SameRollback
<1>2. /\ s.rollback_expected = session.rollback_expected
      /\ s.rollback_snapshot = session.rollback_snapshot
  BY Zenon, <1>1 DEF SameRollback
<1>3. \/ \E gated \in BOOLEAN : BeforeTransaction(s, gated)
      \/ CompareWrite(s.rollback_expected, s.rollback_snapshot, "error") /\ NoAnswer(s)
      \/ \E outcome \in {"Applied", "Conflict", "Failure"} :
                /\ CompareWrite(s.rollback_expected, s.rollback_snapshot, outcome)
                /\ LET a == [s EXCEPT !.evidence.rollback = page',
                                !.rollback_expected =
                                    IF outcome = "Conflict" THEN @ ELSE page']
                   IN  Answered(a,
                         CASE outcome = "Conflict" ->
                                [a EXCEPT !.state = "Conflict"]
                           [] outcome = "Failure" ->
                                [a EXCEPT !.state = "VerificationFailed"]
                           [] OTHER ->
                                [Promote(a, page') EXCEPT
                                    !.rollback_snapshot = None,
                                    !.rollback_expected = None,
                                    !.recovery_required = FALSE,
                                    !.last_apply_verified = FALSE])
  BY Zenon DEF RollbackBaseline
<1> HIDE DEF s
<1>4. CASE \E gated \in BOOLEAN : BeforeTransaction(s, gated)
  <2>1. session' \in AfterFailure(s) /\ page' = page /\ result' # "ok"
    BY Zenon, <1>4 DEF BeforeTransaction, EnableFails, Close
  <2> QED BY <1>0, <1>1, <2>1, AfterFailureFields, ClearedFields
          DEF EditsKept, SameRollback, NoEvidence
<1>5. CASE CompareWrite(s.rollback_expected, s.rollback_snapshot, "error") /\ NoAnswer(s)
  <2>1. page' \in Page
    BY Zenon, <1>0, <1>2, <1>5, CompareWriteEffect
  <2>2. session' = [s EXCEPT !.rollback_expected = None,
                            !.recovery_required = TRUE,
                            !.state = "VerificationFailed"]
        /\ result' # "ok"
    BY Zenon, <1>5 DEF NoAnswer, Close
  <2>3. session' \in Session
    BY Zenon, <1>1, <2>2, Basics DEF Session, State
  <2> QED BY Zenon, <1>1, <1>2, <2>1, <2>2, <2>3 DEF Session, EditsKept
<1>6. ASSUME NEW outcome \in {"Applied", "Conflict", "Failure"},
             CompareWrite(s.rollback_expected, s.rollback_snapshot, outcome),
             LET a == [s EXCEPT !.evidence.rollback = page',
                                !.rollback_expected =
                                    IF outcome = "Conflict" THEN @ ELSE page']
             IN  Answered(a,
                         CASE outcome = "Conflict" ->
                                [a EXCEPT !.state = "Conflict"]
                           [] outcome = "Failure" ->
                                [a EXCEPT !.state = "VerificationFailed"]
                           [] OTHER ->
                                [Promote(a, page') EXCEPT
                                    !.rollback_snapshot = None,
                                    !.rollback_expected = None,
                                    !.recovery_required = FALSE,
                                    !.last_apply_verified = FALSE])
      PROVE  /\ session' \in Session /\ page' \in Page /\ ~session'.write_unlocked
             /\ session'.evidence.rollback = page'
             /\ \/ /\ page' = page /\ result' # "ok"
                   /\ EditsKept(session, session') /\ SameRollback(session, session')
                \/ /\ result' # "ok" /\ EditsKept(session, session')
                   /\ session'.recovery_required = session.recovery_required
                   /\ session'.rollback_snapshot = session.rollback_snapshot
                   /\ session'.rollback_expected = page'
                \/ /\ page = session.rollback_expected
                   /\ page' = session.rollback_snapshot
                   /\ NoEdits(session') /\ NoRollback(session')
  <2> DEFINE a == [s EXCEPT !.evidence.rollback = page',
                            !.rollback_expected =
                                IF outcome = "Conflict" THEN @ ELSE page']
  <2>1. /\ page' \in Page
        /\ outcome = "Applied" => /\ page = session.rollback_expected
                                  /\ page' = session.rollback_snapshot
        /\ outcome = "Conflict" => page' = page
    BY Zenon, <1>0, <1>2, <1>6, CompareWriteEffect
  <2>2. /\ a \in Session /\ EditsKept(session, a)
        /\ a.recovery_required = session.recovery_required
        /\ a.rollback_snapshot = session.rollback_snapshot
        /\ a.rollback_expected = IF outcome = "Conflict"
                                 THEN session.rollback_expected ELSE page'
        /\ ~a.write_unlocked /\ a.evidence.rollback = page'
    <3>1. page' \in Maybe
      BY Zenon, <2>1, Basics
    <3>2. a \in Session
      BY Zenon, <1>1, <3>1 DEF Session, Evidence
    <3> QED BY <1>1, <1>2, <3>2 DEF Session, Evidence, EditsKept, SameRollback
  <2> HIDE DEF a
  <2>3. CASE outcome \in {"Conflict", "Failure"}
    <3> DEFINE st == IF outcome = "Conflict" THEN "Conflict" ELSE "VerificationFailed"
    <3>1. Answered(a, [a EXCEPT !.state = st])
      <4>1. CASE outcome = "Conflict"
        BY Zenon, <1>6, <4>1 DEF a
      <4>2. CASE outcome = "Failure"
        BY Zenon, <1>6, <4>2 DEF a
      <4> QED BY Zenon, <2>3, <4>1, <4>2
    <3>2. [a EXCEPT !.state = st] \in Session /\ [a EXCEPT !.state = st].state # "Clean"
      BY Zenon, <2>2 DEF Session, State
    <3>3. PICK x \in {"Conflict", "VerificationFailed", "Error"} :
              session' = [a EXCEPT !.state = x] /\ result' # "ok"
      BY Zenon, <2>2, <3>1, <3>2, AnsweredEffect
    <3>4. /\ session' \in Session /\ EditsKept(a, session') /\ SameRollback(a, session')
          /\ session'.evidence = a.evidence /\ ~session'.write_unlocked
      BY Zenon, <2>2, <3>3, StateFields
    <3> QED BY <2>1, <2>2, <2>3, <3>3, <3>4 DEF EditsKept, SameRollback
  <2>4. CASE outcome = "Applied"
    <3> DEFINE m == Promote(a, page')
               q == [m EXCEPT !.rollback_snapshot = None,
                              !.rollback_expected = None,
                              !.recovery_required = FALSE,
                              !.last_apply_verified = FALSE]
    <3>1. Answered(a, q)
      BY Zenon, <1>6, <2>4 DEF a
    <3>2. /\ q \in Session /\ NoEdits(q) /\ NoRollback(q)
          /\ ~q.write_unlocked /\ q.evidence = a.evidence
      <4>1. /\ m \in Session /\ NoEdits(m) /\ ~m.write_unlocked
            /\ m.evidence = a.evidence
        BY <2>1, <2>2, PromoteFields
      <4> HIDE DEF m
      <4> QED BY Zenon, <4>1, Basics DEF Session, NoEdits, NoRollback
    <3> HIDE DEF q
    <3>3. CASE session' = q
      BY Zenon, <2>1, <2>2, <2>4, <3>2, <3>3
    <3>4. CASE session' = [a EXCEPT !.state = "Error"] /\ result' = "gate"
      <4>1. /\ session' \in Session /\ EditsKept(a, session') /\ SameRollback(a, session')
            /\ session'.evidence = a.evidence /\ ~session'.write_unlocked
        BY Zenon, <2>2, <3>4, StateFields
      <4> QED BY Zenon, <2>1, <2>2, <2>4, <3>4, <4>1 DEF EditsKept, SameRollback
    <3> QED BY Zenon, <2>2, <3>1, <3>2, <3>3, <3>4, AnsweredEffect
  <2> QED BY Zenon, <2>3, <2>4
<1> QED BY Zenon, <1>3, <1>4, <1>5, <1>6
-----------------------------------------------------------------------------
(* The history of edits.                                                    *)

\* A nonempty set of numbers has a least element: induction over the length of
\* a stack takes the least counterexample.
LEMMA Least ==
    ASSUME NEW T, T \subseteq Nat, T # {}
    PROVE  \E x \in T : \A y \in T : x <= y
<1>1. \E x \in T : \A y \in T : ~ (<<y, x>> \in OpToRel(<,Nat))
  BY Zenon, NatLessThanWellFounded, WFMin
<1>2. PICK x \in T : \A y \in T : ~ (<<y, x>> \in OpToRel(<,Nat))
  BY Zenon, <1>1
<1>3. \A y \in T : ~(y < x)
  BY Zenon, <1>2 DEF OpToRel
<1> QED BY <1>3

\* Edit e turns page p into page q.
Step(e, p, q) ==
    /\ p[e.offset] = e.before
    /\ q = [p EXCEPT ![e.offset] = e.after]

\* Writing back the byte an edit replaced undoes the edit.
LEMMA StepBack ==
    ASSUME NEW e \in ByteEdit, NEW p \in Page, NEW q \in Page, Step(e, p, q)
    PROVE  [q EXCEPT ![e.offset] = e.before] = p
BY Zenon DEF Step, Page, ByteEdit

\* Undoing all of a stack whose edits lead through w arrives at the first page
\* of w.  The pages of w solve the recursion of Unwind, and by induction from
\* the newest edit they are its only solution.
LEMMA UnwindChain ==
    ASSUME NEW u \in Seq(ByteEdit), NEW w,
           \A i \in 0..Len(u) : w[i] \in Page,
           \A i \in 1..Len(u) : Step(u[i], w[i - 1], w[i])
    PROVE  Unwind(w[Len(u)], u) = w[0]
<1> DEFINE L == Len(u)
           Rec(g) == g = [n \in 0..L |->
                            IF n = L THEN w[L]
                            ELSE [g[n + 1] EXCEPT ![u[n + 1].offset] = u[n + 1].before]]
           v == [n \in 0..L |-> w[n]]
<1>0. L \in Nat /\ \A i \in 1..L : u[i] \in ByteEdit
  OBVIOUS
<1>1. Rec(v)
  <2>1. ASSUME NEW n \in 0..L, n # L
        PROVE  v[n] = [v[n + 1] EXCEPT ![u[n + 1].offset] = u[n + 1].before]
    <3>1. n + 1 \in 1..L /\ n + 1 \in 0..L /\ (n + 1) - 1 = n
      BY <1>0, <2>1
    <3>2. Step(u[n + 1], w[n], w[n + 1]) /\ u[n + 1] \in ByteEdit
          /\ w[n] \in Page /\ w[n + 1] \in Page
      BY Zenon, <1>0, <3>1
    <3> QED BY Zenon, <3>1, <3>2, StepBack
  <2> QED BY Zenon, <1>0, <2>1
<1>2. ASSUME NEW g, Rec(g)
      PROVE  g[0] = w[0]
  <2> DEFINE T == {k \in Nat : k <= L /\ g[L - k] # w[L - k]}
  <2>1. SUFFICES T = {}
    <3>1. L \notin T
      BY Zenon, <2>1
    <3> QED BY <1>0, <3>1
  <2>2. SUFFICES ASSUME T # {} PROVE FALSE
    BY Zenon
  <2>3. PICK k \in T : \A y \in T : k <= y
    BY Zenon, <2>2, Least
  <2>4. k # 0
    <3>1. L \in 0..L
      BY <1>0
    <3>2. g[L] = w[L]
      BY Zenon, <1>2, <3>1
    <3> HIDE DEF Rec
    <3> QED BY <1>0, <2>3, <3>2
  <2>5. k - 1 \in Nat /\ k - 1 <= L /\ k - 1 \notin T
    <3>1. k \in Nat /\ k <= L
      BY Zenon, <2>3
    <3> HIDE DEF T
    <3> QED BY <1>0, <2>3, <2>4, <3>1
  <2>6. g[L - (k - 1)] = w[L - (k - 1)] 
    BY Zenon, <2>5
  <2> DEFINE n == L - k
  <2>7. n \in 0..L /\ n # L /\ L - (k - 1) = n + 1 /\ n + 1 \in 0..L /\ n + 1 \in 1..L /\ (n + 1) - 1 = n
    BY <1>0, <2>3, <2>4
  <2> HIDE DEF n
  <2>8. g[n] = [g[n + 1] EXCEPT ![u[n + 1].offset] = u[n + 1].before]
    BY Zenon, <1>2, <2>7
  <2>9. g[n + 1] = w[n + 1]
    BY Zenon, <2>6, <2>7
  <2>10. Step(u[n + 1], w[n], w[n + 1]) /\ u[n + 1] \in ByteEdit
          /\ w[n] \in Page /\ w[n + 1] \in Page
    BY Zenon, <1>0, <2>7
  <2>11. g[n] = w[n]
    BY Zenon, <2>8, <2>9, <2>10, StepBack
  <2> QED BY Zenon, <2>3, <2>11 DEF n
<1> HIDE DEF v
<1>3. Unwind(w[L], u) = (CHOOSE g : Rec(g))[0]
  BY Zenon DEF Unwind
<1>4. Rec(CHOOSE g : Rec(g))
  BY Zenon, <1>1
<1> QED BY Zenon, <1>2, <1>3, <1>4

\* w lists the working copies the two stacks lead through, from the oldest that
\* an undo reaches to the newest that a redo reaches.
Chain(s, w, lost) ==
    LET u == s.undo_stack
        r == s.redo_stack
        n == Len(u) + Len(r)
    IN  /\ w \in [0..n -> Page]
        /\ w[Len(u)] = s.working
        /\ ~lost => w[0] = s.baseline
        /\ \A i \in 1..Len(u) : Step(u[i], w[i - 1], w[i])
        /\ \A j \in 1..Len(r) : Step(r[j], w[n - j], w[(n - j) + 1])

\* The limit of the histories, and that they are such a chain.
Bounded == Len(session.undo_stack) + Len(session.redo_stack) <= MaxEditHistory
History == \E w : Chain(session, w, trimmed)

EditInv == DirtyExact /\ Bounded /\ History

\* A session without edits has the history that is its working copy.
LEMMA NoEditsHistory ==
    ASSUME NEW t \in Session, NoEdits(t), NEW lost
    PROVE  \E w : Chain(t, w, lost)
<1> DEFINE w == [i \in 0..0 |-> t.working]
<1>1. Len(t.undo_stack) = 0 /\ Len(t.redo_stack) = 0 /\ t.working \in Page
  BY Zenon DEF NoEdits, Session
<1>2. w \in [0..0 -> Page] /\ w[0] = t.working
  BY <1>1
<1> HIDE DEF w
<1>3. Chain(t, w, lost)
  BY <1>1, <1>2 DEF Chain, NoEdits
<1> QED BY Zenon, <1>3

\* A call that drops all edits leaves an exact history.
LEMMA EmptyEdits ==
    ASSUME session' \in Session, NoEdits(session')
    PROVE  EditInv'
<1>1. History'
  BY Zenon, NoEditsHistory DEF History
<1>2. Bounded'
  BY SessionAssumption DEF Bounded, NoEdits
<1>3. DirtyExact'
  BY Zenon DEF DirtyExact, NoEdits
<1> QED BY Zenon, <1>1, <1>2, <1>3 DEF EditInv

\* A call that keeps the edits, as every failed one does, keeps the history
\* exact, also when ForgetHistory finds that nothing is left of it.
LEMMA KeptEdits ==
    ASSUME TypeOK, EditInv, EditsKept(session, session'), ForgetHistory
    PROVE  EditInv'
<1>1. DirtyExact'
  BY Zenon DEF EditInv, DirtyExact, EditsKept
<1>2. Bounded'
  BY Zenon DEF EditInv, Bounded, EditsKept
<1>3. PICK w : Chain(session, w, trimmed)
  BY Zenon DEF EditInv, History
<1>4. ~trimmed' => w[0] = session.baseline
  <2>1. SUFFICES ASSUME trimmed, ~trimmed' PROVE w[0] = session.baseline
    BY Zenon, <1>3 DEF Chain
  <2>2. session.undo_stack = <<>> /\ session.dirty = {}
    BY Zenon, <2>1 DEF ForgetHistory, EditsKept
  <2>3. session.working = session.baseline
    BY <2>2 DEF TypeOK, Session, Page, EditInv, DirtyExact
  <2> QED BY Zenon, <1>3, <2>2, <2>3 DEF Chain
<1>5. Chain(session', w, trimmed')
  BY Zenon, <1>3, <1>4 DEF Chain, EditsKept
<1> QED BY Zenon, <1>1, <1>2, <1>5 DEF EditInv, History

\* ApplyLocalEdit sets one byte of the working copy, keeps the dirty bitmap
\* exact for it, locks the session again and leaves baseline and rollback alone.
LEMMA LocalEditFields ==
    ASSUME NEW s \in Session, NEW o \in Offset, NEW b \in Byte
    PROVE  LET t == ApplyLocalEdit(s, o, b)
           IN  /\ t \in Session /\ ~t.write_unlocked
               /\ t.working = [s.working EXCEPT ![o] = b]
               /\ t.baseline = s.baseline /\ t.target = s.target
               /\ t.undo_stack = s.undo_stack /\ t.redo_stack = s.redo_stack
               /\ t.evidence = s.evidence /\ SameRollback(s, t)
               /\ t.dirty = MarkDirty(s, o, b)
               /\ t.state = IF t.dirty # {} THEN "Dirty" ELSE "Clean"
<1> DEFINE dirty == MarkDirty(s, o, b)
           st == IF dirty # {} THEN "Dirty" ELSE "Clean"
           work == [s.working EXCEPT ![o] = b]
<1>1. dirty \in SUBSET Offset /\ st \in State /\ work \in Page
  BY Zenon DEF MarkDirty, Session, State, Page
<1>2. ApplyLocalEdit(s, o, b) =
        [s EXCEPT !.working = work, !.dirty = dirty, !.state = st, !.write_unlocked = FALSE]
  <2> HIDE DEF work, dirty
  <2> QED BY Zenon DEF ApplyLocalEdit, LockWrite, Session, work, dirty
<1> HIDE DEF dirty, st, work
<1>3. ApplyLocalEdit(s, o, b) \in Session
  BY ZenonT(30), <1>1, <1>2 DEF Session
<1>4. /\ [s EXCEPT !.working = work, !.dirty = dirty, !.state = st, !.write_unlocked = FALSE].dirty = dirty
      /\ [s EXCEPT !.working = work, !.dirty = dirty, !.state = st, !.write_unlocked = FALSE].state = st
      /\ [s EXCEPT !.working = work, !.dirty = dirty, !.state = st, !.write_unlocked = FALSE].working = work
  BY Zenon DEF Session
<1>5. st = IF dirty # {} THEN "Dirty" ELSE "Clean"
  BY Zenon DEF st
<1> QED BY Zenon, <1>2, <1>3, <1>4, <1>5 DEF Session, SameRollback, dirty, work

\* ApplyLocalEdit keeps the dirty bitmap exact.
LEMMA LocalEditDirty ==
    ASSUME NEW s \in Session, NEW o \in Offset, NEW b \in Byte,
           s.dirty = {i \in Offset : s.baseline[i] # s.working[i]},
           session' = ApplyLocalEdit(s, o, b)
    PROVE  DirtyExact'
<1>1. /\ session'.working = [s.working EXCEPT ![o] = b]
      /\ session'.baseline = s.baseline
      /\ session'.dirty = MarkDirty(s, o, b)
      /\ session'.state = IF session'.dirty # {} THEN "Dirty" ELSE "Clean"
  BY LocalEditFields
<1>2. session'.dirty = {i \in Offset : session'.baseline[i] # session'.working[i]}
  BY <1>1 DEF MarkDirty, Session, Page
<1> QED BY Zenon, <1>1, <1>2 DEF DirtyExact

\* What an edit, an undo and a redo leave alone.
LocalFrame ==
    /\ session' \in Session /\ ~session'.write_unlocked
    /\ SameRollback(session, session') /\ session'.evidence = session.evidence
    /\ session'.target = session.target /\ session'.baseline = session.baseline
    /\ page' = page /\ gate' = gate

\* A history that ends at the working copy.
LEMMA ChainWithoutRedo ==
    ASSUME NEW t, t.undo_stack \in Seq(ByteEdit), t.redo_stack = <<>>,
           NEW v \in [0..Len(t.undo_stack) -> Page],
           v[Len(t.undo_stack)] = t.working,
           NEW lost, ~lost => v[0] = t.baseline,
           \A i \in 1..Len(t.undo_stack) : Step(t.undo_stack[i], v[i - 1], v[i])
    PROVE  Chain(t, v, lost)
<1>1. Len(t.redo_stack) = 0 /\ Len(t.undo_stack) \in Nat
  OBVIOUS
<1>2. Len(t.undo_stack) + Len(t.redo_stack) = Len(t.undo_stack)
  BY <1>1
<1>3. 1..Len(t.redo_stack) = {}
  BY <1>1
<1> QED BY Zenon, <1>2, <1>3 DEF Chain

\* An edit extends the history, or shifts it when it is full, and ends it.
LEMMA EditByteEffect ==
    ASSUME TypeOK, EditInv, NEW o \in Offset, NEW b \in Byte, EditByte(o, b)
    PROVE  LocalFrame /\ EditInv'
<1> DEFINE u == session.undo_stack
           e == [offset |-> o, before |-> session.working[o], after |-> b]
           stack == Append(u, e)
           kept == IF Len(stack) > MaxEditHistory THEN Tail(stack) ELSE stack
           s == RecordEdit(session, e)
<1>0. session \in Session /\ session.working \in Page /\ u \in Seq(ByteEdit)
  BY Zenon DEF TypeOK, Session
<1>1. e \in ByteEdit /\ e.offset = o /\ e.before = session.working[o] /\ e.after = b
  BY Zenon, <1>0 DEF ByteEdit, Page
<1> HIDE DEF e
<1>2. /\ stack \in Seq(ByteEdit) /\ Len(stack) = Len(u) + 1 /\ Len(u) \in Nat
      /\ \A i \in 1..Len(u) : stack[i] = u[i]
      /\ stack[Len(u) + 1] = e
  BY <1>0, <1>1
<1> HIDE DEF u
<1>3. Len(u) <= MaxEditHistory
  <2>1. Len(session.redo_stack) \in Nat
    BY <1>0 DEF Session
  <2>2. Len(u) + Len(session.redo_stack) <= MaxEditHistory
    BY Zenon DEF EditInv, Bounded, u
  <2> QED BY <1>2, <2>1, <2>2, SessionAssumption
<1> HIDE DEF stack
<1>4. /\ kept \in Seq(ByteEdit)
      /\ Len(u) < MaxEditHistory => kept = stack
      /\ Len(u) = MaxEditHistory =>
             /\ Len(kept) = Len(u)
             /\ \A i \in 1..Len(u) : kept[i] = stack[i + 1]
  BY <1>2, <1>3, SessionAssumption
<1>5. /\ s \in Session /\ s.undo_stack = kept /\ s.redo_stack = <<>>
      /\ s.working = session.working /\ s.baseline = session.baseline
      /\ s.dirty = session.dirty /\ s.target = session.target
      /\ s.evidence = session.evidence /\ SameRollback(session, s)
  <2>1. s = [session EXCEPT !.undo_stack = kept, !.redo_stack = <<>>]
    BY Zenon DEF RecordEdit, kept, stack, u
  <2> HIDE DEF s, kept
  <2> QED BY Zenon, <1>0, <1>4, <2>1, Basics DEF Session, SameRollback
<1>6. /\ session' = ApplyLocalEdit(s, o, b)
      /\ trimmed' = (trimmed \/ Len(u) = MaxEditHistory)
      /\ page' = page /\ gate' = gate
  BY Zenon DEF EditByte, Local, e, u
<1> HIDE DEF s, kept
<1>7. LocalFrame
  BY ZenonT(40), <1>5, <1>6, LocalEditFields DEF LocalFrame, SameRollback
<1>8. DirtyExact'
  BY <1>5, <1>6, LocalEditDirty DEF EditInv, DirtyExact
<1>9. /\ session'.undo_stack = kept /\ session'.redo_stack = <<>>
      /\ session'.working = [session.working EXCEPT ![o] = b]
      /\ session'.baseline = session.baseline
  BY <1>5, <1>6, LocalEditFields
<1>10. Bounded'
  BY <1>2, <1>3, <1>4, <1>9, SessionAssumption DEF Bounded
<1>11. PICK w : Chain(session, w, trimmed)
  BY Zenon DEF EditInv, History
<1>12. /\ \A i \in 0..Len(u) : w[i] \in Page
       /\ w[Len(u)] = session.working
       /\ ~trimmed => w[0] = session.baseline
       /\ \A i \in 1..Len(u) : Step(u[i], w[i - 1], w[i])
  <2>1. Len(session.redo_stack) \in Nat
    BY <1>0 DEF Session
  <2>2. \A i \in 0..Len(u) : i \in 0..(Len(u) + Len(session.redo_stack))
    BY <1>2, <2>1
  <2> QED BY Zenon, <1>11, <2>2 DEF Chain, u
<1> DEFINE new == session'.working
<1>13. new \in Page /\ Step(e, w[Len(u)], new)
  BY <1>0, <1>1, <1>9, <1>12 DEF Step, Page
<1> HIDE DEF new
<1>14. CASE Len(u) < MaxEditHistory
  <2> DEFINE v == [i \in 0..(Len(u) + 1) |-> IF i <= Len(u) THEN w[i] ELSE new]
  <2>1. kept = stack /\ Len(kept) = Len(u) + 1
    BY Zenon, <1>2, <1>4, <1>14
  <2>2. v \in [0..(Len(u) + 1) -> Page] /\ v[Len(u) + 1] = new /\ v[0] = w[0]
        /\ \A i \in 0..Len(u) : v[i] = w[i]
    BY <1>2, <1>12, <1>13
  <2> HIDE DEF v
  <2>3. ASSUME NEW i \in 1..(Len(u) + 1)
        PROVE  Step(kept[i], v[i - 1], v[i])
    <3>1. CASE i = Len(u) + 1
      <4>1. i - 1 = Len(u) /\ Len(u) \in 0..Len(u)
        BY <1>2, <3>1
      <4> QED BY Zenon, <1>2, <1>13, <2>1, <2>2, <3>1, <4>1
    <3>2. CASE i # Len(u) + 1
      <4>1. i \in 1..Len(u) /\ i \in 0..Len(u) /\ i - 1 \in 0..Len(u)
        BY <1>2, <3>2
      <4> QED BY Zenon, <1>2, <1>12, <2>1, <2>2, <4>1
    <3> QED BY Zenon, <3>1, <3>2
  <2>4. Chain(session', v, trimmed')
    <3>1. ~trimmed' => v[0] = session'.baseline
      BY Zenon, <1>6, <1>9, <1>12, <2>2
    <3>2. session'.undo_stack \in Seq(ByteEdit) /\ session'.redo_stack = <<>>
          /\ Len(session'.undo_stack) = Len(u) + 1
      BY Zenon, <1>4, <1>9, <2>1
    <3>3. v[Len(u) + 1] = session'.working
      BY Zenon, <2>2 DEF new
    <3> QED BY Zenon, <1>9, <2>2, <2>3, <3>1, <3>2, <3>3, ChainWithoutRedo
  <2> QED BY Zenon, <1>7, <1>8, <1>10, <2>4 DEF EditInv, History
<1>15. CASE Len(u) = MaxEditHistory
  <2> DEFINE v == [i \in 0..Len(u) |-> IF i < Len(u) THEN w[i + 1] ELSE new]
  <2>1. v \in [0..Len(u) -> Page] /\ v[Len(u)] = new
        /\ \A i \in 0..Len(u) : i < Len(u) => v[i] = w[i + 1]
    BY <1>2, <1>12, <1>13
  <2> HIDE DEF v
  <2>2. ASSUME NEW i \in 1..Len(u)
        PROVE  Step(kept[i], v[i - 1], v[i])
    <3>1. i - 1 \in 0..Len(u) /\ i - 1 < Len(u) /\ (i - 1) + 1 = i
      BY <1>2
    <3>2. v[i - 1] = w[i] /\ kept[i] = stack[i + 1]
      BY Zenon, <1>4, <1>15, <2>1, <3>1
    <3>3. CASE i = Len(u)
      BY Zenon, <1>2, <1>13, <2>1, <3>2, <3>3
    <3>4. CASE i # Len(u)
      <4>1. i + 1 \in 1..Len(u) /\ i \in 0..Len(u) /\ i < Len(u) /\ (i + 1) - 1 = i
        BY <1>2, <3>4
      <4> QED BY Zenon, <1>2, <1>12, <2>1, <3>2, <4>1
    <3> QED BY Zenon, <3>3, <3>4
  <2>3. Chain(session', v, trimmed')
    <3>1. trimmed'
      BY Zenon, <1>6, <1>15
    <3>2. session'.undo_stack \in Seq(ByteEdit) /\ session'.redo_stack = <<>>
          /\ Len(session'.undo_stack) = Len(u)
      BY Zenon, <1>4, <1>9, <1>15
    <3>3. v[Len(u)] = session'.working
      BY Zenon, <2>1 DEF new
    <3> QED BY Zenon, <1>9, <2>1, <2>2, <3>1, <3>2, <3>3, ChainWithoutRedo
  <2> QED BY Zenon, <1>7, <1>8, <1>10, <2>3 DEF EditInv, History
<1> QED BY <1>2, <1>3, <1>14, <1>15, SessionAssumption

\* Undo returns to the working copy before the last edit and makes that edit
\* the one to redo.
LEMMA UndoEffect ==
    ASSUME TypeOK, EditInv, Undo
    PROVE  LocalFrame /\ EditInv'
<1> DEFINE u == session.undo_stack
           r == session.redo_stack
           e == Last(u)
           s == [session EXCEPT !.undo_stack = Front(@), !.redo_stack = Append(@, e)]
<1>0. session \in Session /\ u \in Seq(ByteEdit) /\ r \in Seq(ByteEdit) /\ u # <<>>
  BY Zenon DEF TypeOK, Session, Undo
<1>1. Len(u) \in Nat /\ Len(u) > 0 /\ Len(r) \in Nat /\ e \in ByteEdit /\ e = u[Len(u)]
  BY <1>0 DEF Last
<1>2. /\ Front(u) \in Seq(ByteEdit) /\ Len(Front(u)) = Len(u) - 1
      /\ \A i \in 1..(Len(u) - 1) : Front(u)[i] = u[i]
  BY <1>0, <1>1 DEF Front
<1>3. e.offset \in Offset /\ e.before \in Byte
  BY Zenon, <1>1 DEF ByteEdit
<1> HIDE DEF e
<1>4. /\ Append(r, e) \in Seq(ByteEdit) /\ Len(Append(r, e)) = Len(r) + 1
      /\ \A j \in 1..Len(r) : Append(r, e)[j] = r[j]
      /\ Append(r, e)[Len(r) + 1] = e
  BY <1>0, <1>1
<1>5. /\ s \in Session /\ s.undo_stack = Front(u) /\ s.redo_stack = Append(r, e)
      /\ s.working = session.working /\ s.baseline = session.baseline
      /\ s.dirty = session.dirty /\ s.target = session.target
      /\ s.evidence = session.evidence /\ SameRollback(session, s)
  <2> DEFINE f == Front(u)
             a == Append(r, e)
  <2>1. s = [session EXCEPT !.undo_stack = f, !.redo_stack = a]
    BY Zenon, <1>0 DEF Session
  <2>2. f \in Seq(ByteEdit) /\ a \in Seq(ByteEdit)
    BY Zenon, <1>2, <1>4
  <2> HIDE DEF s, f, a
  <2>3. /\ s \in Session /\ s.undo_stack = f /\ s.redo_stack = a
        /\ s.working = session.working /\ s.baseline = session.baseline
        /\ s.dirty = session.dirty /\ s.target = session.target
        /\ s.evidence = session.evidence /\ SameRollback(session, s)
    BY Zenon, <1>0, <2>1, <2>2 DEF Session, SameRollback
  <2> QED BY Zenon, <2>3 DEF f, a
<1>6. /\ session' = ApplyLocalEdit(s, e.offset, e.before)
      /\ trimmed' = trimmed /\ page' = page /\ gate' = gate
  BY Zenon DEF Undo, Local, e
<1> HIDE DEF s, u, r
<1>7. LocalFrame
  BY ZenonT(40), <1>3, <1>5, <1>6, LocalEditFields DEF LocalFrame, SameRollback
<1>8. DirtyExact'
  BY SMTT(20), <1>3, <1>5, <1>6, LocalEditDirty DEF EditInv, DirtyExact
<1>9. /\ session'.undo_stack = Front(u) /\ session'.redo_stack = Append(r, e)
      /\ session'.working = [session.working EXCEPT ![e.offset] = e.before]
      /\ session'.baseline = session.baseline
  BY <1>3, <1>5, <1>6, LocalEditFields
<1>10. /\ Len(session'.undo_stack) = Len(u) - 1
       /\ Len(session'.redo_stack) = Len(r) + 1
       /\ (Len(u) - 1) + (Len(r) + 1) = Len(u) + Len(r)
  BY <1>1, <1>2, <1>4, <1>9
<1>11. Bounded'
  BY Zenon, <1>10 DEF EditInv, Bounded, u, r
<1>12. PICK w : Chain(session, w, trimmed)
  BY Zenon DEF EditInv, History
<1> DEFINE n == Len(u) + Len(r)
<1>13. /\ w \in [0..n -> Page] /\ w[Len(u)] = session.working
       /\ ~trimmed => w[0] = session.baseline
       /\ \A i \in 1..Len(u) : Step(u[i], w[i - 1], w[i])
       /\ \A j \in 1..Len(r) : Step(r[j], w[n - j], w[(n - j) + 1])
  BY Zenon, <1>12 DEF Chain, u, r
<1>14. /\ Len(u) \in 1..Len(u) /\ Len(u) \in 0..n /\ Len(u) - 1 \in 0..n
       /\ n - (Len(r) + 1) = Len(u) - 1 /\ (Len(u) - 1) + 1 = Len(u)
  BY <1>1
<1>15. Step(e, w[Len(u) - 1], w[Len(u)])
  BY Zenon, <1>1, <1>13, <1>14
<1>16. session'.working = w[Len(u) - 1]
  BY Zenon, <1>1, <1>9, <1>13, <1>14, <1>15, StepBack
<1>17. \A i \in 1..(Len(u) - 1) : Step(Front(u)[i], w[i - 1], w[i])
  BY <1>1, <1>2, <1>13
<1>18. ASSUME NEW j \in 1..(Len(r) + 1)
       PROVE  Step(Append(r, e)[j], w[n - j], w[(n - j) + 1])
  <2>1. CASE j = Len(r) + 1
    BY Zenon, <1>4, <1>14, <1>15, <2>1
  <2>2. CASE j # Len(r) + 1
    <3>1. j \in 1..Len(r)
      BY <1>1, <2>2
    <3> QED BY Zenon, <1>4, <1>13, <3>1
  <2> QED BY Zenon, <2>1, <2>2
<1>19. Chain(session', w, trimmed')
  <2> HIDE DEF n
  <2>1. Len(session'.undo_stack) + Len(session'.redo_stack) = n
    BY Zenon, <1>10 DEF n
  <2> QED BY Zenon, <1>6, <1>9, <1>10, <1>13, <1>16, <1>17, <1>18, <2>1 DEF Chain
<1> QED BY Zenon, <1>7, <1>8, <1>11, <1>19 DEF EditInv, History

\* A redo goes one working copy forward.
LEMMA RedoEffect ==
    ASSUME TypeOK, EditInv, Redo
    PROVE  LocalFrame /\ EditInv'
<1> DEFINE u == session.undo_stack
           r == session.redo_stack
           e == Last(r)
           s == [session EXCEPT !.redo_stack = Front(@), !.undo_stack = Append(@, e)]
<1>0. session \in Session /\ u \in Seq(ByteEdit) /\ r \in Seq(ByteEdit) /\ r # <<>>
  BY Zenon DEF TypeOK, Session, Redo
<1>1. Len(r) \in Nat /\ Len(r) > 0 /\ Len(u) \in Nat /\ e \in ByteEdit /\ e = r[Len(r)]
  BY <1>0 DEF Last
<1>2. /\ Front(r) \in Seq(ByteEdit) /\ Len(Front(r)) = Len(r) - 1
      /\ \A i \in 1..(Len(r) - 1) : Front(r)[i] = r[i]
  BY <1>0, <1>1 DEF Front
<1>3. e.offset \in Offset /\ e.after \in Byte
  BY Zenon, <1>1 DEF ByteEdit
<1> HIDE DEF e
<1>4. /\ Append(u, e) \in Seq(ByteEdit) /\ Len(Append(u, e)) = Len(u) + 1
      /\ \A j \in 1..Len(u) : Append(u, e)[j] = u[j]
      /\ Append(u, e)[Len(u) + 1] = e
  BY <1>0, <1>1
<1>5. /\ s \in Session /\ s.undo_stack = Append(u, e) /\ s.redo_stack = Front(r)
      /\ s.working = session.working /\ s.baseline = session.baseline
      /\ s.dirty = session.dirty /\ s.target = session.target
      /\ s.evidence = session.evidence /\ SameRollback(session, s)
  <2> DEFINE f == Front(r)
             a == Append(u, e)
  <2>1. s = [session EXCEPT !.redo_stack = f, !.undo_stack = a]
    BY Zenon, <1>0 DEF Session
  <2>2. f \in Seq(ByteEdit) /\ a \in Seq(ByteEdit)
    BY Zenon, <1>2, <1>4
  <2> HIDE DEF s, f, a
  <2>3. /\ s \in Session /\ s.undo_stack = a /\ s.redo_stack = f
        /\ s.working = session.working /\ s.baseline = session.baseline
        /\ s.dirty = session.dirty /\ s.target = session.target
        /\ s.evidence = session.evidence /\ SameRollback(session, s)
    BY Zenon, <1>0, <2>1, <2>2 DEF Session, SameRollback
  <2> QED BY Zenon, <2>3 DEF f, a
<1>6. /\ session' = ApplyLocalEdit(s, e.offset, e.after)
      /\ trimmed' = trimmed /\ page' = page /\ gate' = gate
  BY Zenon DEF Redo, Local, e
<1> HIDE DEF s, u, r
<1>7. LocalFrame
  BY ZenonT(40), <1>3, <1>5, <1>6, LocalEditFields DEF LocalFrame, SameRollback
<1>8. DirtyExact'
  BY <1>3, <1>5, <1>6, LocalEditDirty DEF EditInv, DirtyExact
<1>9. /\ session'.undo_stack = Append(u, e) /\ session'.redo_stack = Front(r)
      /\ session'.working = [session.working EXCEPT ![e.offset] = e.after]
      /\ session'.baseline = session.baseline
  BY <1>3, <1>5, <1>6, LocalEditFields
<1>10. /\ Len(session'.undo_stack) = Len(u) + 1
       /\ Len(session'.redo_stack) = Len(r) - 1
       /\ (Len(u) + 1) + (Len(r) - 1) = Len(u) + Len(r)
  BY <1>1, <1>2, <1>4, <1>9
<1>11. Bounded'
  BY Zenon, <1>10 DEF EditInv, Bounded, u, r
<1>12. PICK w : Chain(session, w, trimmed)
  BY Zenon DEF EditInv, History
<1> DEFINE n == Len(u) + Len(r)
<1>13. /\ w \in [0..n -> Page] /\ w[Len(u)] = session.working
       /\ ~trimmed => w[0] = session.baseline
       /\ \A i \in 1..Len(u) : Step(u[i], w[i - 1], w[i])
       /\ \A j \in 1..Len(r) : Step(r[j], w[n - j], w[(n - j) + 1])
  BY Zenon, <1>12 DEF Chain, u, r
<1>14. /\ Len(r) \in 1..Len(r) /\ n - Len(r) = Len(u) /\ (Len(u) + 1) - 1 = Len(u)
  BY <1>1
<1>15. Step(e, w[Len(u)], w[Len(u) + 1])
  BY Zenon, <1>1, <1>13, <1>14
<1>16. session'.working = w[Len(u) + 1]
  BY Zenon, <1>9, <1>13, <1>15 DEF Step
<1>17. \A j \in 1..(Len(r) - 1) : Step(Front(r)[j], w[n - j], w[(n - j) + 1])
  BY <1>1, <1>2, <1>13
<1>18. ASSUME NEW i \in 1..(Len(u) + 1)
       PROVE  Step(Append(u, e)[i], w[i - 1], w[i])
  <2>1. CASE i = Len(u) + 1
    BY Zenon, <1>4, <1>14, <1>15, <2>1
  <2>2. CASE i # Len(u) + 1
    <3>1. i \in 1..Len(u)
      BY <1>1, <2>2
    <3> QED BY Zenon, <1>4, <1>13, <3>1
  <2> QED BY Zenon, <2>1, <2>2
<1>19. Chain(session', w, trimmed')
  <2> HIDE DEF n
  <2>1. Len(session'.undo_stack) + Len(session'.redo_stack) = n
    BY Zenon, <1>10 DEF n
  <2> QED BY Zenon, <1>6, <1>9, <1>10, <1>13, <1>16, <1>17, <1>18, <2>1 DEF Chain
<1> QED BY Zenon, <1>7, <1>8, <1>11, <1>19 DEF EditInv, History
-----------------------------------------------------------------------------
\* What the user unlocked for is what is current while it is unlocked.
ReviewCurrent == session.write_unlocked => reviewed = Current(session)

\* With no other writer the page a rollback read back is still there.
RollbackLive ==
    ~ExternalWriters /\ session.evidence.rollback # None
        => session.evidence.rollback = page

SessionInv ==
    /\ TypeOK
    /\ ReviewCurrent
    /\ RecoveryObservable
    /\ RollbackExact
    /\ RollbackLive
    /\ EditInv

\* What every caller of the class can rely on, whatever happens to the page.
CallerInv == TypeOK /\ ReviewCurrent /\ EditInv

\* The result of a call and the gate: only a reported gate failure leaves the
\* gate open that was closed before.
LEMMA GateStep ==
    ASSUME TypeOK, Next
    PROVE  /\ gate' \in BOOLEAN
           /\ result' \in {"none", "ok", "failed", "gate"}
           /\ gate' /\ ~gate => result' = "gate"
<1>1. CASE ApplyAndVerify
  BY Zenon, <1>1 DEF TypeOK, ApplyAndVerify, BeforeTransaction, EnableFails, NoAnswer,
              Answered, Close, Relock
<1>2. CASE RollbackBaseline
  BY Zenon, <1>2 DEF TypeOK, RollbackBaseline, BeforeTransaction, EnableFails, NoAnswer,
              Answered, Close, Relock
<1>3. CASE Load \/ ReloadPreservingRollback
  BY <1>3 DEF TypeOK, Load, ReloadPreservingRollback
<1>4. CASE Invalidate \/ LocalEdit \/ UnlockForOneApply \/ UnlockForRollback
  <2>1. Local
    BY Zenon, <1>4 DEF Invalidate, LocalEdit, EditByte, RevertByte, Undo, Redo,
                RevertAll, UnlockForOneApply, UnlockForRollback, Unlock
  <2> QED BY Zenon, <2>1 DEF TypeOK, Local
<1> QED BY Zenon, <1>1, <1>2, <1>3, <1>4 DEF Next

\* What the user reviewed, and whether history was trimmed, stay in range.
LEMMA HistoryStep ==
    ASSUME TypeOK, Next
    PROVE  /\ reviewed' \in Maybe \X Maybe \X Maybe \X Maybe
           /\ trimmed' \in BOOLEAN
<1>1. Unreviewed \in Maybe \X Maybe \X Maybe \X Maybe
  BY Zenon, Basics DEF Unreviewed
<1>2. Current(session) \in Maybe \X Maybe \X Maybe \X Maybe
  <2>1. /\ session.baseline \in Maybe /\ session.working \in Maybe
        /\ session.rollback_snapshot \in Maybe /\ session.rollback_expected \in Maybe
    BY Zenon, Basics DEF TypeOK, Session
  <2> QED BY Zenon, <2>1 DEF Current
<1>3. reviewed' \in {reviewed, Unreviewed, Current(session)}
  BY Zenon DEF Next, Load, Invalidate, ReloadPreservingRollback, LocalEdit, EditByte,
         RevertByte, Undo, Redo, RevertAll, UnlockForOneApply, UnlockForRollback,
         Unlock, ApplyAndVerify, RollbackBaseline, KeepReview
<1>4. trimmed' \in BOOLEAN
  BY Zenon DEF TypeOK, Next, Load, Invalidate, ReloadPreservingRollback, LocalEdit, EditByte,
         RevertByte, Undo, Redo, RevertAll, UnlockForOneApply, UnlockForRollback,
         Unlock, ApplyAndVerify, RollbackBaseline, ForgetHistory
<1> QED BY Zenon, <1>1, <1>2, <1>3, <1>4 DEF TypeOK

\* A call that leaves the session without a rollback.
LEMMA FreshStep ==
    ASSUME NoRollback(session'), session'.evidence.rollback \in {None, page'}
    PROVE  RecoveryObservable' /\ RollbackExact' /\ RollbackLive'
BY Zenon DEF RecoveryObservable, RollbackExact, RollbackLive, NoRollback, CanRollback

\* A call that leaves page, rollback and evidence as they were.
LEMMA LocalStep ==
    ASSUME SessionInv, LocalFrame
    PROVE  RecoveryObservable' /\ RollbackExact' /\ RollbackLive'
BY Zenon DEF SessionInv, LocalFrame, SameRollback, RecoveryObservable, RollbackExact, RollbackLive,
       CanRollback

\* The invariant holds of a session just constructed.
LEMMA SessionInitInv == Init => SessionInv
<1> SUFFICES ASSUME Init PROVE SessionInv
  BY Zenon
<1>1. /\ session \in Session /\ NoEdits(session) /\ NoRollback(session)
      /\ ~session.write_unlocked /\ session.evidence = NoEvidence
  BY Zenon, ClearedFields DEF Init
<1>2. TypeOK
  BY Zenon, <1>1, Basics DEF Init, TypeOK, Unreviewed
<1>3. EditInv
  <2>1. History
    BY Zenon, <1>1, NoEditsHistory DEF History
  <2> QED BY <1>1, <2>1, SessionAssumption DEF EditInv, Bounded, DirtyExact, NoEdits
<1>4. ReviewCurrent /\ RecoveryObservable /\ RollbackExact /\ RollbackLive
  BY <1>1 DEF ReviewCurrent, RecoveryObservable, RollbackExact, RollbackLive,
              NoRollback, CanRollback, NoEvidence
<1> QED BY Zenon, <1>2, <1>3, <1>4 DEF SessionInv

\* A step that leaves the session alone.
LEMMA SessionStutter ==
    ASSUME SessionInv, UNCHANGED vars
    PROVE  SessionInv'
<1>1. UNCHANGED <<page, gate, session, result, reviewed, trimmed>>
  BY Zenon DEF vars
<1>2. History'
  BY Zenon, <1>1 DEF SessionInv, EditInv, History
<1>3. DirtyExact' /\ Bounded'
  BY Zenon, <1>1 DEF SessionInv, EditInv, DirtyExact, Bounded
<1>4. TypeOK'
  BY Zenon, <1>1 DEF SessionInv, TypeOK
<1> QED BY Zenon, <1>1, <1>2, <1>3, <1>4
        DEF SessionInv, EditInv, ReviewCurrent, RecoveryObservable, RollbackExact,
            RollbackLive, CanRollback, Current

\* Every call of the class keeps what its callers rely on.
LEMMA CallerNext == CallerInv /\ Next => CallerInv'
<1> SUFFICES ASSUME CallerInv, Next PROVE CallerInv'
  BY Zenon
<1>0. TypeOK /\ EditInv /\ page \in Page /\ session \in Session
  BY Zenon DEF CallerInv, TypeOK
<1> DEFINE Kept == session' \in Session /\ page' \in Page /\ ReviewCurrent' /\ EditInv'
<1>1. ASSUME Load PROVE Kept
  BY Zenon, <1>0, <1>1, LoadEffect, EmptyEdits DEF ReviewCurrent
<1>2. ASSUME Invalidate PROVE Kept
  <2>1. page' = page /\ session' = Cleared
    BY Zenon, <1>2 DEF Invalidate, Local
  <2> QED BY Zenon, <1>0, <2>1, ClearedFields, EmptyEdits DEF ReviewCurrent
<1>3. ASSUME ReloadPreservingRollback PROVE Kept
  <2>1. /\ session' \in Session /\ ~session'.write_unlocked /\ page' = page /\ ForgetHistory
        /\ NoEdits(session') \/ EditsKept(session, session')
    BY Zenon, <1>0, <1>3, ReloadEffect DEF ReloadPreservingRollback
  <2>2. EditInv'
    BY Zenon, <1>0, <2>1, EmptyEdits, KeptEdits
  <2> QED BY Zenon, <1>0, <2>1, <2>2 DEF ReviewCurrent
<1>4. ASSUME LocalEdit PROVE Kept
  <2>1. CASE RevertAll
    <3> DEFINE q == Promote(session, session.baseline)
    <3>1. session.baseline \in Page
      BY Zenon, <1>0 DEF Session
    <3>2. q \in Session /\ NoEdits(q)
      BY Zenon, <1>0, <3>1, PromoteFields
    <3>3. session' = [q EXCEPT !.write_unlocked = FALSE] /\ page' = page
      BY Zenon, <2>1 DEF RevertAll, LockWrite, Local
    <3> HIDE DEF q
    <3>4. session' \in Session /\ NoEdits(session') /\ ~session'.write_unlocked
      BY Zenon, <3>2, <3>3 DEF Session, NoEdits
    <3> QED BY Zenon, <1>0, <3>3, <3>4, EmptyEdits DEF ReviewCurrent
  <2>2. \A o \in Offset : session.baseline[o] \in Byte
    BY Zenon, <1>0 DEF Session, Page
  <2>3. CASE LocalEdit /\ ~RevertAll
    <3>1. LocalFrame /\ EditInv'
      BY Zenon, <1>0, <2>2, <2>3, EditByteEffect, UndoEffect, RedoEffect DEF LocalEdit, RevertByte
    <3> QED BY Zenon, <1>0, <3>1 DEF LocalFrame, ReviewCurrent
  <2> QED BY Zenon, <1>4, <2>1, <2>3
<1>5. ASSUME Unlock PROVE Kept
  <2>1. /\ session' = [session EXCEPT !.write_unlocked = TRUE]
        /\ reviewed' = Current(session) /\ page' = page /\ trimmed' = trimmed
    BY Zenon, <1>5 DEF Unlock, Local
  <2>2. /\ session' \in Session /\ EditsKept(session, session')
        /\ session'.state = session.state /\ SameRollback(session, session')
    BY Zenon, <1>0, <2>1 DEF Session, EditsKept, SameRollback
  <2>3. ReviewCurrent'
    BY Zenon, <2>1, <2>2 DEF ReviewCurrent, Current, EditsKept, SameRollback
  <2>4. DirtyExact' /\ Bounded'
    BY ZenonT(30), <1>0, <2>2 DEF EditInv, DirtyExact, Bounded, EditsKept
  <2>5. History'
    BY Zenon, <1>0, <2>1, <2>2 DEF EditInv, History, Chain, EditsKept
  <2> QED BY Zenon, <1>0, <2>1, <2>2, <2>3, <2>4, <2>5 DEF EditInv
<1>6. ASSUME ApplyAndVerify PROVE Kept
  <2>1. /\ session' \in Session /\ page' \in Page /\ ~session'.write_unlocked
        /\ ForgetHistory
        /\ NoEdits(session') \/ EditsKept(session, session')
    BY Zenon, <1>0, <1>6, ApplyEffect DEF ApplyAndVerify
  <2>2. EditInv'
    BY Zenon, <1>0, <2>1, EmptyEdits, KeptEdits
  <2> QED BY Zenon, <2>1, <2>2 DEF ReviewCurrent
<1>7. ASSUME RollbackBaseline PROVE Kept
  <2>1. /\ session' \in Session /\ page' \in Page /\ ~session'.write_unlocked
        /\ ForgetHistory
        /\ NoEdits(session') \/ EditsKept(session, session')
    BY Zenon, <1>0, <1>7, RollbackEffect DEF RollbackBaseline
  <2>2. EditInv'
    BY Zenon, <1>0, <2>1, EmptyEdits, KeptEdits
  <2> QED BY Zenon, <2>1, <2>2 DEF ReviewCurrent
<1>8. Kept
  BY Zenon, <1>1, <1>2, <1>3, <1>4, <1>5, <1>6, <1>7 DEF Next, UnlockForOneApply, UnlockForRollback
<1>9. TypeOK'
  BY Zenon, <1>0, <1>8, GateStep, HistoryStep DEF TypeOK
<1> QED BY Zenon, <1>8, <1>9 DEF CallerInv

\* A step outside the class that leaves a page and a gate.
LEMMA CallerStays ==
    ASSUME CallerInv, page' \in Page, gate' \in BOOLEAN,
           UNCHANGED <<session, result, reviewed, trimmed>>
    PROVE  CallerInv'
<1>1. TypeOK'
  BY Zenon DEF CallerInv, TypeOK
<1>2. EditInv'
  BY Zenon DEF CallerInv, EditInv, DirtyExact, Bounded, History, Chain
<1> QED BY Zenon, <1>1, <1>2 DEF CallerInv, ReviewCurrent, Current

\* Every call of the class, in any order, keeps the invariant.
LEMMA SessionNextInv == SessionInv /\ Next => SessionInv'
<1> SUFFICES ASSUME SessionInv, Next PROVE SessionInv'
  BY Zenon
<1>0. TypeOK /\ EditInv /\ session \in Session
  BY Zenon DEF SessionInv, TypeOK
<1>c. CallerInv' /\ page' \in Page /\ session' \in Session
  BY Zenon, CallerNext DEF SessionInv, CallerInv, TypeOK
<1> DEFINE Rest == RecoveryObservable /\ RollbackExact /\ RollbackLive
<1>1. ASSUME Load PROVE Rest'
  BY Zenon, <1>0, <1>1, LoadEffect, FreshStep
<1>2. ASSUME Invalidate PROVE Rest'
  <2>1. session' = Cleared
    BY Zenon, <1>2 DEF Invalidate
  <2>2. NoRollback(session') /\ session'.evidence.rollback = None
    BY <2>1, ClearedFields DEF NoEvidence
  <2> QED BY Zenon, <2>2, FreshStep
<1>3. ASSUME ReloadPreservingRollback PROVE Rest'
  <2>1. /\ page' = page /\ session.target
        /\ session'.evidence.rollback \in {session.evidence.rollback, None}
    BY Zenon, <1>0, <1>3, ReloadEffect DEF ReloadPreservingRollback
  <2>2. RollbackLive'
    BY Zenon, <2>1 DEF SessionInv, RollbackLive
  <2>3. CASE NoRollback(session')
    BY Zenon, <2>2, <2>3 DEF NoRollback, RecoveryObservable, RollbackExact, CanRollback
  <2>4. CASE SameRollback(session, session') /\ session'.target
    BY Zenon, <2>1, <2>2, <2>4
       DEF SessionInv, SameRollback, RecoveryObservable, RollbackExact, CanRollback
  <2>5. CASE ~session'.recovery_required /\ session'.rollback_expected = page
    BY Zenon, <2>1, <2>2, <2>5 DEF RecoveryObservable, RollbackExact
  <2> QED BY Zenon, <1>0, <1>3, <2>1, <2>3, <2>4, <2>5, ReloadEffect DEF EditsKept
<1>4. ASSUME LocalEdit PROVE Rest'
  <2>1. CASE RevertAll
    <3> DEFINE q == Promote(session, session.baseline)
    <3>1. session.baseline \in Page
      BY Zenon, <1>0 DEF Session
    <3>2. /\ q \in Session /\ SameRollback(session, q) /\ q.baseline = session.baseline
          /\ q.evidence = session.evidence /\ q.target = session.target
      BY Zenon, <1>0, <3>1, PromoteFields DEF SameRollback
    <3>3. session' = [q EXCEPT !.write_unlocked = FALSE] /\ page' = page /\ gate' = gate
      BY Zenon, <2>1 DEF RevertAll, LockWrite, Local
    <3> HIDE DEF q
    <3>4. LocalFrame
      BY Zenon, <3>2, <3>3 DEF LocalFrame, Session, SameRollback
    <3> QED BY Zenon, <3>4, LocalStep
  <2>2. \A o \in Offset : session.baseline[o] \in Byte
    BY Zenon, <1>0 DEF Session, Page
  <2>3. CASE LocalEdit /\ ~RevertAll
    BY Zenon, <1>0, <2>2, <2>3, EditByteEffect, UndoEffect, RedoEffect, LocalStep
       DEF LocalEdit, RevertByte
  <2> QED BY Zenon, <1>4, <2>1, <2>3
<1>5. ASSUME Unlock PROVE Rest'
  <2>1. session' = [session EXCEPT !.write_unlocked = TRUE] /\ page' = page
    BY Zenon, <1>5 DEF Unlock, Local
  <2>2. /\ SameRollback(session, session') /\ session'.evidence = session.evidence
        /\ session'.target = session.target
    BY Zenon, <1>0, <2>1 DEF Session, SameRollback
  <2> QED BY Zenon, <2>1, <2>2 DEF SessionInv, SameRollback, RecoveryObservable, RollbackExact,
                            RollbackLive, CanRollback
<1>6. ASSUME ApplyAndVerify PROVE Rest'
  <2>1. session'.evidence.rollback = None /\ session.target /\ session.baseline \in Page
    BY Zenon, <1>0, <1>6, ApplyEffect DEF ApplyAndVerify, Session
  <2>2. RecoveryObservable'
    BY Zenon, <1>0, <1>6, <2>1, ApplyEffect, Basics DEF RecoveryObservable, NoRollback, EditsKept
  <2>3. RollbackExact'
    BY Zenon, <1>0, <1>6, ApplyEffect DEF SessionInv, RollbackExact, NoRollback, CanRollback
  <2> QED BY Zenon, <2>1, <2>2, <2>3 DEF RollbackLive
<1>7. ASSUME RollbackBaseline PROVE Rest'
  <2>1. /\ session'.evidence.rollback \in {None, page'}
        /\ session.target /\ session.rollback_snapshot # None
        /\ ~session.recovery_required
    BY Zenon, <1>0, <1>7, RollbackEffect
       DEF RollbackBaseline, CanRollback, SessionInv, RecoveryObservable
  <2>2. RecoveryObservable'
    BY Zenon, <1>0, <1>7, <2>1, RollbackEffect
       DEF RecoveryObservable, NoRollback, EditsKept, SameRollback
  <2>3. RollbackExact'
    BY Zenon, <1>0, <1>7, <2>1, RollbackEffect
       DEF SessionInv, RollbackExact, NoRollback, CanRollback, SameRollback
  <2> QED BY Zenon, <2>1, <2>2, <2>3 DEF RollbackLive
<1> QED BY Zenon, <1>c, <1>1, <1>2, <1>3, <1>4, <1>5, <1>6, <1>7
        DEF Next, UnlockForOneApply, UnlockForRollback, SessionInv, CallerInv

\* The invariant of PhysicalPageSession holds for every page size, history limit
\* and sequence of calls, with or without other writers of the page.
THEOREM SessionInvariant == Spec => []SessionInv
<1>1. SessionInv /\ [Next]_vars => SessionInv'
  BY Zenon, SessionStutter, SessionNextInv
<1> QED BY <1>1, SessionInitInv, PTL DEF Spec

\* The stacks lead from the baseline to the working copy and on.
LEMMA HistoryIsExact == SessionInv => HistoryExact
<1> SUFFICES ASSUME SessionInv PROVE HistoryExact
  BY Zenon
<1> DEFINE u == session.undo_stack
           r == session.redo_stack
<1>1. DirtyExact /\ Len(u) + Len(r) <= MaxEditHistory
  BY Zenon DEF SessionInv, EditInv, Bounded
<1>2. PICK w : Chain(session, w, trimmed)
  BY Zenon DEF SessionInv, EditInv, History
<1>3. u \in Seq(ByteEdit) /\ r \in Seq(ByteEdit) /\ Len(u) \in Nat /\ Len(r) \in Nat
  BY DEF SessionInv, TypeOK, Session
<1>4. Unwind(session.working, u) = w[0]
  <2>1. \A i \in 0..Len(u) : w[i] \in Page
    <3>1. \A i \in 0..Len(u) : i \in 0..(Len(u) + Len(r))
      <4> HIDE DEF u, r
      <4> QED BY <1>3
    <3>2. w \in [0..(Len(u) + Len(r)) -> Page]
      BY Zenon, <1>2 DEF Chain
    <3> QED BY Zenon, <3>1, <3>2
  <2>2. \A i \in 1..Len(u) : Step(u[i], w[i - 1], w[i])
    BY Zenon, <1>2 DEF Chain
  <2>3. Unwind(w[Len(u)], u) = w[0]
    BY Zenon, <1>3, <2>1, <2>2, UnwindChain
  <2> QED BY Zenon, <1>2, <2>3 DEF Chain
<1>5. ASSUME r # <<>> PROVE session.working[Last(r).offset] = Last(r).before
  <2>1. Len(r) \in 1..Len(r) /\ (Len(u) + Len(r)) - Len(r) = Len(u)
    BY <1>3, <1>5
  <2>2. Step(r[Len(r)], w[Len(u)], w[Len(u) + 1])
    BY Zenon, <1>2, <2>1 DEF Chain
  <2> QED BY Zenon, <1>2, <2>2 DEF Chain, Step, Last
<1>6. ~trimmed => w[0] = session.baseline
  BY Zenon, <1>2 DEF Chain
<1> QED BY Zenon, <1>1, <1>4, <1>5, <1>6 DEF HistoryExact

\* The dirty bitmap, the undo and the redo stack stay exact through every edit,
\* failed apply, conflict, observation and rollback (HistoryExact).
THEOREM EditsStayExact == Spec => []HistoryExact
BY SessionInvariant, HistoryIsExact, PTL

\* With no other writer an offered rollback expects exactly the live page, after
\* any failure of ApplyAndVerify and RollbackBaseline (RollbackExact).
THEOREM RollbackStaysExact == Spec => []RollbackExact
<1>1. SessionInv => RollbackExact
  BY Zenon DEF SessionInv
<1> QED BY <1>1, SessionInvariant, PTL

\* After a transaction without an answer the page can be observed and no rollback
\* is offered before it is (RecoveryObservable).
THEOREM RecoveryStaysObservable == Spec => []RecoveryObservable
<1>1. SessionInv => RecoveryObservable
  BY Zenon DEF SessionInv
<1> QED BY <1>1, SessionInvariant, PTL

\* A complete bundle names the page its rollback read back.
LEMMA EvidenceIsSound == SessionInv => EvidenceSound
<1> SUFFICES ASSUME SessionInv, ~ExternalWriters, Complete(session.evidence)
             PROVE  page = session.evidence.baseline
  BY Zenon DEF EvidenceSound
<1>1. session.evidence \in Evidence
  BY Zenon DEF SessionInv, TypeOK, Session
<1>2. session.evidence.rollback # None
  BY Zenon, <1>1 DEF Complete, Evidence
<1> QED BY Zenon, <1>2 DEF SessionInv, RollbackLive, Complete

\* With no other writer a complete evidence bundle certifies that the live page is
\* back at the baseline (EvidenceSound).
THEOREM EvidenceStaysSound == Spec => []EvidenceSound
BY SessionInvariant, EvidenceIsSound, PTL

\* A transaction that succeeds writes what was current when it was unlocked.
LEMMA ReviewedStep ==
    TypeOK /\ ReviewCurrent /\ Next =>
        (page' # page /\ session' # session /\ result' = "ok" =>
           <<page, page'>> \in {<<reviewed[1], reviewed[2]>>,
                               <<reviewed[4], reviewed[3]>>})
<1> SUFFICES ASSUME TypeOK, ReviewCurrent, Next, page' # page, result' = "ok"
             PROVE  <<page, page'>> \in {<<reviewed[1], reviewed[2]>>,
                                         <<reviewed[4], reviewed[3]>>}
  BY Zenon
<1>1. ApplyAndVerify \/ RollbackBaseline
  BY Zenon DEF Next, Load, Invalidate, ReloadPreservingRollback, LocalEdit, EditByte,
         RevertByte, Undo, Redo, RevertAll, UnlockForOneApply, UnlockForRollback,
         Unlock, Local
<1>2. reviewed = Current(session)
  BY Zenon, <1>1 DEF ApplyAndVerify, RollbackBaseline, ReviewCurrent
<1>3. /\ reviewed[1] = session.baseline /\ reviewed[2] = session.working
      /\ reviewed[3] = session.rollback_snapshot
      /\ reviewed[4] = session.rollback_expected
  BY Zenon, <1>2 DEF Current
<1>4. CASE ApplyAndVerify
  <2>1. page = session.baseline /\ page' = session.working
    BY Zenon, <1>4, ApplyEffect
  <2> QED BY Zenon, <1>3, <2>1
<1>5. CASE RollbackBaseline
  <2>1. page = session.rollback_expected /\ page' = session.rollback_snapshot
    BY Zenon, <1>5, RollbackEffect
  <2> QED BY Zenon, <1>3, <2>1
<1> QED BY Zenon, <1>1, <1>4, <1>5

\* Whatever the caller does between the unlock and the write, a successful
\* operation writes what the user reviewed (ReviewedWritesOnly).
THEOREM OnlyReviewedWrites == Spec => ReviewedWritesOnly
<1>1. SessionInv /\ [Next]_vars =>
        [page' # page /\ session' # session /\ result' = "ok" =>
           <<page, page'>> \in {<<reviewed[1], reviewed[2]>>,
                               <<reviewed[4], reviewed[3]>>}]_vars
  BY Zenon, ReviewedStep DEF SessionInv
<1> QED BY <1>1, SessionInvariant, PTL DEF Spec, ReviewedWritesOnly

\* No operation hides that it left the write gate open (OpenGateReported).
THEOREM OpenGateIsReported == Spec => OpenGateReported
<1>1. SessionInv /\ [Next]_vars => [gate' /\ ~gate => result' = "gate"]_vars
  BY Zenon, GateStep DEF SessionInv
<1> QED BY <1>1, SessionInvariant, PTL DEF Spec, OpenGateReported
-----------------------------------------------------------------------------
\* What the physical memory tab keeps.
WindowInv == SessionInv /\ SnapshotUsable

\* What the buttons of the physical tab do is a call of the class, or another
\* program's write.
LEMMA WindowStep ==
    WNext => Next \/ OthersWrite
BY Zenon DEF WNext, Next, DrawPhysicalMemoryTab, DrawLocalEdits, DrawUnlockApply, Apply,
       Reload, DrawUnlockRollback, Rollback

\* Another writer of the page disturbs nothing the session promises.
LEMMA OthersStep == SessionInv /\ OthersWrite => SessionInv'
<1> SUFFICES ASSUME SessionInv, OthersWrite PROVE SessionInv'
  BY Zenon
<1>1. page' \in Page
  BY Zenon DEF OthersWrite, SessionInv, TypeOK, Page
<1>2. ExternalWriters /\ UNCHANGED <<gate, session, result, reviewed, trimmed>>
  BY Zenon DEF OthersWrite
<1>3. TypeOK'
  BY Zenon, <1>1, <1>2 DEF SessionInv, TypeOK
<1>4. EditInv'
  BY Zenon, <1>2 DEF SessionInv, EditInv, DirtyExact, Bounded, History, Chain
<1> QED BY Zenon, <1>2, <1>3, <1>4
        DEF SessionInv, ReviewCurrent, RecoveryObservable, RollbackExact, RollbackLive, Current

\* No button leaves a snapshot behind that cannot be used.
LEMMA SnapshotStep == WindowInv /\ WNext => SnapshotUsable'
<1> SUFFICES ASSUME WindowInv, WNext PROVE SnapshotUsable'
  BY Zenon
<1>0. TypeOK /\ SnapshotUsable
  BY Zenon DEF WindowInv, SessionInv
<1> USE DEF SnapshotUsable, Pending, CanRollback
<1>1. CASE DrawPhysicalMemoryTab
  BY Zenon, <1>0, <1>1, LoadEffect DEF DrawPhysicalMemoryTab, NoRollback
<1>2. CASE DrawLocalEdits
  <2>1. CASE RevertAll
    <3> DEFINE q == Promote(session, session.baseline)
    <3>1. session \in Session /\ session.baseline \in Page
      BY Zenon, <1>0 DEF TypeOK, Session
    <3>2. q \in Session /\ SameRollback(session, q)
      BY Zenon, <3>1, PromoteFields DEF SameRollback
    <3>3. session' = [q EXCEPT !.write_unlocked = FALSE]
      BY Zenon, <2>1 DEF RevertAll, LockWrite
    <3> HIDE DEF q
    <3> QED BY Zenon, <1>0, <3>2, <3>3 DEF Session, SameRollback
  <2>2. CASE LocalEdit /\ ~RevertAll
    <3>1. \A o \in Offset : session.baseline[o] \in Byte
      BY Zenon, <1>0 DEF TypeOK, Session, Page
    <3>2. LocalFrame
      BY Zenon, <1>0, <2>2, <3>1, EditByteEffect, UndoEffect, RedoEffect
         DEF WindowInv, SessionInv, LocalEdit, RevertByte
    <3> QED BY Zenon, <1>0, <3>2 DEF LocalFrame, SameRollback
  <2> QED BY Zenon, <1>2, <2>1, <2>2 DEF DrawLocalEdits
<1>3. CASE DrawUnlockApply \/ DrawUnlockRollback
  <2>1. session' = [session EXCEPT !.write_unlocked = TRUE] /\ session \in Session
    BY Zenon, <1>0, <1>3 DEF DrawUnlockApply, DrawUnlockRollback, UnlockForOneApply,
                      UnlockForRollback, Unlock, TypeOK
  <2> QED BY Zenon, <1>0, <2>1 DEF Session
<1>4. CASE Apply
  <2>1. ApplyAndVerify /\ ~session.recovery_required
    BY Zenon, <1>4 DEF Apply, CanApply
  <2>2. page' \in Page
    BY Zenon, <1>0, <2>1, ApplyEffect
  <2> QED BY Zenon, <1>0, <2>1, <2>2, ApplyEffect, Basics DEF NoRollback
<1>5. CASE Reload
  <2>1. page \in Page /\ ReloadPreservingRollback
    BY Zenon, <1>0, <1>5 DEF TypeOK, Reload
  <2> QED BY Zenon, <1>0, <2>1, ReloadEffect, Basics DEF NoRollback, SameRollback
<1>6. CASE Rollback
  <2>1. RollbackBaseline
    BY Zenon, <1>6 DEF Rollback
  <2>2. page' \in Page
    BY Zenon, <1>0, <2>1, RollbackEffect
  <2> QED BY Zenon, <1>0, <2>1, <2>2, RollbackEffect, Basics DEF NoRollback, SameRollback
<1>7. CASE OthersWrite
  BY Zenon, <1>0, <1>7 DEF OthersWrite
<1> QED BY Zenon, <1>1, <1>2, <1>3, <1>4, <1>5, <1>6, <1>7 DEF WNext

\* The invariant of the session and the usable snapshot together hold of the
\* physical memory tab.
THEOREM WindowInvariant == WSpec => []WindowInv
<1>1. WInit => WindowInv
  <2>1. Init => SnapshotUsable
    BY DEF Init, Cleared, SnapshotUsable
  <2> QED BY Zenon, <2>1, SessionInitInv DEF WInit, WindowInv
<1>2. WindowInv /\ UNCHANGED wvars => WindowInv'
  BY Zenon, SessionStutter DEF wvars, vars, WindowInv, SnapshotUsable, Pending, CanRollback
<1>3. WindowInv /\ WNext => WindowInv'
  BY Zenon, WindowStep, OthersStep, SessionNextInv, SnapshotStep DEF WindowInv
<1> QED BY <1>1, <1>2, <1>3, PTL DEF WSpec

\* The same of the window while others write the page: their writes are not the
\* session's (ReviewedWritesOnly).
THEOREM WindowWritesReviewed == WSpec => ReviewedWritesOnly
<1>1. WindowInv /\ [WNext]_wvars =>
        [page' # page /\ session' # session /\ result' = "ok" =>
           <<page, page'>> \in {<<reviewed[1], reviewed[2]>>,
                               <<reviewed[4], reviewed[3]>>}]_vars
  <2>1. OthersWrite => session' = session
    BY Zenon DEF OthersWrite
  <2>2. UNCHANGED wvars => UNCHANGED vars
    BY Zenon DEF wvars, vars
  <2> QED BY Zenon, <2>1, <2>2, WindowStep, ReviewedStep DEF WindowInv, SessionInv
<1> QED BY <1>1, WindowInvariant, PTL DEF WSpec, ReviewedWritesOnly

\* The buttons of the window never strand a rollback snapshot (SnapshotUsable).
THEOREM SnapshotStaysUsable == WSpec => []SnapshotUsable
<1>1. WindowInv => SnapshotUsable
  BY Zenon DEF WindowInv
<1> QED BY <1>1, WindowInvariant, PTL

\* While a transaction is uncertain nothing the window offers writes the page
\* (ObserveBeforeWrite).
THEOREM ObservedBeforeWritten == WSpec => ObserveBeforeWrite
<1>1. WindowInv /\ [WNext]_wvars =>
        [session.recovery_required => page' = page \/ OthersWrite]_wvars
  <2> SUFFICES ASSUME WindowInv, WNext, session.recovery_required
               PROVE  page' = page \/ OthersWrite
    BY Zenon
  <2>1. session.rollback_expected = None
    BY Zenon DEF WindowInv, SessionInv, RecoveryObservable
  <2>2. ~Apply /\ ~Rollback
    BY Zenon, <2>1 DEF Apply, CanApply, Rollback, RollbackBaseline, CanRollback
  <2> QED BY Zenon, <2>2
          DEF WNext, DrawPhysicalMemoryTab, Load, DrawLocalEdits, LocalEdit, EditByte,
              RevertByte, Undo, Redo, RevertAll, DrawUnlockApply, UnlockForOneApply,
              DrawUnlockRollback, UnlockForRollback, Unlock, Local, Reload,
              ReloadPreservingRollback
<1> QED BY <1>1, WindowInvariant, PTL DEF WSpec, ObserveBeforeWrite


-----------------------------------------------------------------------------
(* What a call that succeeds leaves, the pages it recorded included. *)

\* ApplyAndVerify that reports success has written the working copy, made the
\* old baseline the rollback snapshot, and left complete evidence of the write.
LEMMA ApplySucceeds ==
    ASSUME TypeOK, ApplyAndVerify, result' = "ok"
    PROVE  /\ page' = session.working /\ session'.baseline = session.working
           /\ session'.rollback_snapshot = session.baseline
           /\ ~session'.recovery_required
           /\ session'.evidence = [NoEvidence EXCEPT !.baseline = session.baseline,
                                       !.preflight = session.baseline,
                                       !.expected_after = session.working,
                                       !.readback = session.working]
<1> DEFINE s == [ClearEvidence(LockWrite(session)) EXCEPT
                    !.last_apply_verified = FALSE,
                    !.recovery_required = FALSE,
                    !.evidence.baseline = session.baseline]
           t == [s EXCEPT !.rollback_snapshot = s.baseline,
                          !.rollback_expected = None,
                          !.evidence.expected_after = s.working]
           u == [t EXCEPT !.rollback_snapshot = None]
<1>0. session \in Session /\ page \in Page /\ session.baseline \in Page
      /\ session.working \in Page
  BY Zenon DEF TypeOK, Session
<1>1. /\ s \in Session /\ s.baseline = session.baseline /\ s.working = session.working
      /\ ~s.recovery_required
      /\ s.evidence = [NoEvidence EXCEPT !.baseline = session.baseline]
  BY ZenonT(30), <1>0, Basics DEF Session, Evidence, NoEvidence, ClearEvidence, LockWrite
<1>2. /\ t \in Session /\ t.baseline = session.baseline /\ ~t.recovery_required
      /\ t.rollback_snapshot = session.baseline
      /\ t.evidence = [NoEvidence EXCEPT !.baseline = session.baseline,
                                         !.expected_after = session.working]
  <2> HIDE DEF s
  <2>1. s.baseline \in Maybe /\ s.working \in Maybe
    BY Zenon, <1>0, <1>1, Basics
  <2>2. t \in Session
    BY Zenon, <1>1, <2>1, Basics DEF Session, Evidence
  <2> QED BY Zenon, <1>1, <2>2 DEF Session, NoEvidence
<1>3. \/ BeforeTransaction(s, FALSE)
      \/ BeforeTransaction(u, TRUE)
      \/ CompareWrite(s.baseline, s.working, "error") /\ NoAnswer(t)
      \/ \E outcome \in {"Applied", "Conflict", "Failure"} :
                /\ CompareWrite(s.baseline, s.working, outcome)
                /\ LET a == ApplyAnswer(t, outcome, page')
                   IN  Answered(a,
                         CASE outcome = "Conflict" ->
                                [a EXCEPT !.state = "Conflict"]
                           [] outcome = "Failure" ->
                                [a EXCEPT !.state = "VerificationFailed"]
                           [] OTHER ->
                                [Promote(a, page') EXCEPT
                                    !.last_apply_verified = TRUE])
  BY Zenon DEF ApplyAndVerify
<1> HIDE DEF s, t, u
<1>4. ~BeforeTransaction(s, FALSE) /\ ~BeforeTransaction(u, TRUE) /\ ~NoAnswer(t)
  BY Zenon DEF BeforeTransaction, EnableFails, NoAnswer, Close
<1>5. PICK outcome \in {"Applied", "Conflict", "Failure"} :
                /\ CompareWrite(session.baseline, session.working, outcome)
                /\ LET a == ApplyAnswer(t, outcome, page')
                   IN  Answered(a,
                         CASE outcome = "Conflict" ->
                                [a EXCEPT !.state = "Conflict"]
                           [] outcome = "Failure" ->
                                [a EXCEPT !.state = "VerificationFailed"]
                           [] OTHER ->
                                [Promote(a, page') EXCEPT
                                    !.last_apply_verified = TRUE])
  BY Zenon, <1>1, <1>3, <1>4
<1> DEFINE a == ApplyAnswer(t, outcome, page')
<1>6. page' \in Page /\ (outcome = "Applied" => page' = session.working)
  BY Zenon, <1>0, <1>5, CompareWriteEffect
<1>7. a \in Session
  <2>1. t.baseline \in Maybe
    BY Zenon, <1>0, <1>2, Basics
  <2> QED BY ZenonT(30), <1>2, <1>6, <2>1, Basics DEF ApplyAnswer, Session, Evidence
<1>8. outcome = "Applied"
  <2>1. [a EXCEPT !.state = "Conflict"].state = "Conflict"
        /\ [a EXCEPT !.state = "VerificationFailed"].state = "VerificationFailed"
    BY Zenon, <1>7 DEF Session
  <2> HIDE DEF a
  <2>2. CASE outcome = "Conflict"
    <3>1. Answered(a, [a EXCEPT !.state = "Conflict"])
      BY Zenon, <1>5, <2>2 DEF a
    <3> QED BY Zenon, <2>1, <3>1 DEF Answered, Close
  <2>3. CASE outcome = "Failure"
    <3>1. Answered(a, [a EXCEPT !.state = "VerificationFailed"])
      BY Zenon, <1>5, <2>3 DEF a
    <3> QED BY Zenon, <2>1, <3>1 DEF Answered, Close
  <2> QED BY Zenon, <2>2, <2>3
<1>9. /\ a.rollback_snapshot = session.baseline /\ ~a.recovery_required
      /\ a.evidence = [NoEvidence EXCEPT !.baseline = session.baseline,
                                       !.preflight = session.baseline,
                                       !.expected_after = session.working,
                                       !.readback = session.working]
  BY ZenonT(30), <1>2, <1>6, <1>8 DEF ApplyAnswer, Session, NoEvidence
<1> HIDE DEF a
<1> DEFINE m == Promote(a, page')
<1>10. session' = [m EXCEPT !.last_apply_verified = TRUE]
  BY Zenon, <1>5, <1>8 DEF Answered, Close, a
<1>11. /\ m \in Session /\ m.baseline = page' /\ m.evidence = a.evidence
       /\ m.rollback_snapshot = a.rollback_snapshot
       /\ m.recovery_required = a.recovery_required
  BY Zenon, <1>6, <1>7, PromoteFields
<1> HIDE DEF m
<1>12. /\ session'.baseline = m.baseline /\ session'.evidence = m.evidence
       /\ session'.rollback_snapshot = m.rollback_snapshot
       /\ session'.recovery_required = m.recovery_required
  BY Zenon, <1>10, <1>11 DEF Session
<1> QED BY Zenon, <1>6, <1>8, <1>9, <1>11, <1>12

\* ReloadPreservingRollback of a session that knows what is live.
LEMMA ReloadSucceeds ==
    ASSUME TypeOK, ReloadPreservingRollback, result' = "ok", ~session.recovery_required
    PROVE  /\ page' = page /\ page = session.baseline
           /\ session'.rollback_snapshot = session.rollback_snapshot
           /\ session'.evidence = [session.evidence EXCEPT !.independent_reload = page]
<1> DEFINE s == [LockWrite(session) EXCEPT !.evidence.independent_reload = None]
           seen == [s EXCEPT !.evidence.independent_reload = page]
<1>0. session \in Session /\ page \in Page /\ page' = page
  BY Zenon DEF TypeOK, ReloadPreservingRollback
<1>1. /\ s \in Session /\ s.baseline = session.baseline /\ ~s.recovery_required
      /\ s.rollback_snapshot = session.rollback_snapshot
      /\ s.evidence = [session.evidence EXCEPT !.independent_reload = None]
  BY Zenon, <1>0, Basics DEF LockWrite, Session, Evidence
<1>2. /\ seen \in Session /\ seen.rollback_snapshot = session.rollback_snapshot
      /\ seen.evidence = [session.evidence EXCEPT !.independent_reload = page]
  BY ZenonT(30), <1>0, <1>1, Basics DEF Session, Evidence
<1>3. session' = Observe(s) /\ session'.state = "Clean"
  BY Zenon DEF ReloadPreservingRollback
<1> HIDE DEF s, seen
<1>4. session' = IF page = s.baseline THEN Promote(seen, page)
                 ELSE [seen EXCEPT !.state = "VerificationFailed"]
  BY Zenon, <1>1, <1>3 DEF Observe, seen
<1>5. page = s.baseline /\ session' = Promote(seen, page)
  BY Zenon, <1>2, <1>3, <1>4 DEF Session
<1> QED BY <1>0, <1>1, <1>2, <1>5, PromoteFields

\* RollbackBaseline that reports success has put the snapshot back, and its
\* evidence is the page it read.
LEMMA RollbackSucceeds ==
    ASSUME TypeOK, RollbackBaseline, result' = "ok"
    PROVE  /\ page' = session.rollback_snapshot
           /\ session'.evidence = [session.evidence EXCEPT !.rollback = page']
<1> DEFINE s == [LockWrite(session) EXCEPT !.evidence.rollback = None]
<1>0. /\ session \in Session /\ page \in Page
      /\ session.rollback_expected \in Page /\ session.rollback_snapshot \in Page
  BY Zenon DEF TypeOK, Session, Maybe, RollbackBaseline, CanRollback
<1>1. /\ s \in Session
      /\ s.rollback_expected = session.rollback_expected
      /\ s.rollback_snapshot = session.rollback_snapshot
      /\ s.evidence = [session.evidence EXCEPT !.rollback = None]
  BY Zenon, <1>0, Basics DEF LockWrite, Session, Evidence
<1> DEFINE a(outcome) == [s EXCEPT !.evidence.rollback = page',
                                !.rollback_expected =
                                    IF outcome = "Conflict" THEN @ ELSE page']
<1>2. \/ \E gated \in BOOLEAN : BeforeTransaction(s, gated)
      \/ NoAnswer(s)
      \/ \E outcome \in {"Applied", "Conflict", "Failure"} :
                /\ CompareWrite(s.rollback_expected, s.rollback_snapshot, outcome)
                /\ Answered(a(outcome),
                         CASE outcome = "Conflict" ->
                                [a(outcome) EXCEPT !.state = "Conflict"]
                           [] outcome = "Failure" ->
                                [a(outcome) EXCEPT !.state = "VerificationFailed"]
                           [] OTHER ->
                                [Promote(a(outcome), page') EXCEPT
                                    !.rollback_snapshot = None,
                                    !.rollback_expected = None,
                                    !.recovery_required = FALSE,
                                    !.last_apply_verified = FALSE])
  BY Zenon DEF RollbackBaseline
<1> HIDE DEF s
<1>3. ~NoAnswer(s) /\ \A gated \in BOOLEAN : ~BeforeTransaction(s, gated)
  BY Zenon DEF BeforeTransaction, EnableFails, NoAnswer, Close
<1> HIDE DEF a
<1>4. PICK outcome \in {"Applied", "Conflict", "Failure"} :
                /\ CompareWrite(s.rollback_expected, s.rollback_snapshot, outcome)
                /\ Answered(a(outcome),
                         CASE outcome = "Conflict" ->
                                [a(outcome) EXCEPT !.state = "Conflict"]
                           [] outcome = "Failure" ->
                                [a(outcome) EXCEPT !.state = "VerificationFailed"]
                           [] OTHER ->
                                [Promote(a(outcome), page') EXCEPT
                                    !.rollback_snapshot = None,
                                    !.rollback_expected = None,
                                    !.recovery_required = FALSE,
                                    !.last_apply_verified = FALSE])
  BY Zenon, <1>2, <1>3
<1>5. page' \in Page /\ (outcome = "Applied" => page' = session.rollback_snapshot)
  BY <1>0, <1>1, <1>4, CompareWriteEffect
<1> DEFINE r == a(outcome)
<1>6. r \in Session /\ r.evidence = [session.evidence EXCEPT !.rollback = page']
  <2>1. r = [s EXCEPT !.evidence.rollback = page',
                      !.rollback_expected = IF outcome = "Conflict" THEN @ ELSE page']
    BY Zenon DEF a
  <2>2. session.rollback_expected \in Maybe /\ page' \in Maybe
    BY Zenon, <1>0, <1>5, Basics
  <2> DEFINE x == IF outcome = "Conflict" THEN s.rollback_expected ELSE page'
  <2>3. x \in Maybe /\ r = [s EXCEPT !.evidence.rollback = page', !.rollback_expected = x]
    BY Zenon, <1>1, <2>1, <2>2
  <2> HIDE DEF x, r
  <2>4. r \in Session
    BY Zenon, <1>1, <2>2, <2>3 DEF Session, Evidence
  <2>5. r.evidence = [s.evidence EXCEPT !.rollback = page']
    BY Zenon, <1>1, <2>3 DEF Session
  <2>6. session.evidence \in Evidence
    BY Zenon, <1>0 DEF Session
  <2> QED BY Zenon, <1>1, <2>4, <2>5, <2>6 DEF Evidence
<1>7. [r EXCEPT !.state = "Conflict"].state = "Conflict"
      /\ [r EXCEPT !.state = "VerificationFailed"].state = "VerificationFailed"
  BY Zenon, <1>6 DEF Session
<1>8. outcome = "Applied"
  <2>1. CASE outcome = "Conflict"
    <3>1. Answered(r, [r EXCEPT !.state = "Conflict"])
      BY Zenon, <1>4, <2>1
    <3> QED BY Zenon, <1>7, <3>1 DEF Answered, Close
  <2>2. CASE outcome = "Failure"
    <3>1. Answered(r, [r EXCEPT !.state = "VerificationFailed"])
      BY Zenon, <1>4, <2>2
    <3> QED BY Zenon, <1>7, <3>1 DEF Answered, Close
  <2> QED BY Zenon, <2>1, <2>2
<1> DEFINE m == Promote(r, page')
<1>9. session' = [m EXCEPT !.rollback_snapshot = None, !.rollback_expected = None,
                           !.recovery_required = FALSE, !.last_apply_verified = FALSE]
  BY Zenon, <1>4, <1>8 DEF Answered, Close
<1>10. m \in Session /\ m.evidence = r.evidence
  BY Zenon, <1>5, <1>6, PromoteFields
<1> HIDE DEF m
<1>11. session'.evidence = m.evidence
  BY Zenon, <1>9, <1>10 DEF Session
<1> QED BY Zenon, <1>5, <1>6, <1>8, <1>10, <1>11

-----------------------------------------------------------------------------
(* The invariant of the verifier. *)

Report == [errors : BOOLEAN, success : BOOLEAN, cancelled : BOOLEAN, failing : BOOLEAN,
           probe_identity_fresh_at_rollback : BOOLEAN, rollback_attempted : BOOLEAN,
           rollback_verified : BOOLEAN, rollback_suppressed : BOOLEAN,
           final_gate_locked : BOOLEAN, attested : BOOLEAN]

\* What the report says is consistent, and where the run has been.
Flags ==
    /\ report \in Report
    /\ lv # "done" => exit_code = None
    /\ report.cancelled \/ report.rollback_suppressed => report.errors
    /\ lv = "failure" => report.errors
    /\ report.success => lv \in {"close", "done"}
    /\ lv \notin {"main", "done"} /\ ~report.errors => report.attested
    /\ lv \notin {"main", "probe_before", "close", "done"} => Confirmed(options)

\* Nothing can be rolled back before the write; afterwards a rollback that is
\* still possible was tried or suppressed before the run ends.
Rollbacks ==
    /\ lv \in {"main", "probe_before", "load", "sample", "edit", "apply"} =>
           NoRollback(session) /\ artifacts = NoEvidence
    /\ lv \in {"unlock", "restore"} =>
           /\ report.rollback_attempted
           /\ IsLocalEvidence(options) => report.probe_identity_fresh_at_rollback
    /\ lv \in {"post_read", "probe_final", "relock", "close"} /\ CanRollback(session) =>
           report.rollback_attempted \/ report.rollback_suppressed

\* The pages of evidence e are those of a write of the original page.
OfWrite(e) ==
    /\ e \in Evidence
    /\ e.baseline = original /\ e.preflight = original
    /\ e.readback = e.expected_after

\* The write was verified; it was read back independently; the page was restored.
Verified ==
    /\ session.rollback_snapshot = original /\ ~session.recovery_required
    /\ OfWrite(session.evidence) /\ session.evidence.expected_after = session.baseline
    /\ IsLocalEvidence(options) => artifacts = session.evidence
ReadBack ==
    /\ session.rollback_snapshot = original
    /\ OfWrite(session.evidence)
    /\ session.evidence.independent_reload = session.evidence.expected_after
    /\ IsLocalEvidence(options) => artifacts = session.evidence
Returned ==
    /\ IsLocalEvidence(options) =>
           /\ OfWrite(artifacts)
           /\ artifacts.independent_reload = artifacts.expected_after
           /\ artifacts.rollback = original
    /\ ~disturbed => page = original

\* As long as no error was reported, every stage has established its part.
Pages ==
    /\ lv \in {"sample", "edit", "apply"} => session.baseline = original
    /\ ~report.errors =>
           /\ lv \in {"applied", "probe_after", "reload"} => Verified
           /\ lv \in {"rollback", "unlock", "restore"} => ReadBack
           /\ lv \in {"post_read", "probe_final", "relock"} => Returned
    /\ lv = "close" /\ report.success /\ options.write =>
           ~report.errors /\ Confirmed(options) /\ Returned

ToolInv == CallerInv /\ Flags /\ Rollbacks /\ Pages /\ PassTruthful

\* AddError and AddCancelled record an error, withdraw success, and keep what
\* the report says about the rollback.
LEMMA ErrorFields ==
    ASSUME NEW r \in Report
    PROVE  \A e \in {AddError(r), AddCancelled(r)} :
             /\ e \in Report /\ e.errors /\ ~e.success
             /\ e.rollback_attempted = r.rollback_attempted
             /\ e.rollback_suppressed = r.rollback_suppressed
             /\ e.probe_identity_fresh_at_rollback = r.probe_identity_fresh_at_rollback
             /\ [e EXCEPT !.failing = TRUE] \in Report
             /\ [e EXCEPT !.failing = TRUE].errors /\ ~[e EXCEPT !.failing = TRUE].success
BY ZenonT(30) DEF AddError, AddCancelled, Report

\* No exit code yet is not an exit code.
LEMMA StillRunning ==
    ASSUME exit_code = None
    PROVE  PassTruthful
BY LiveVerifyAssumption DEF PassTruthful

\* A run that gives up keeps the invariant if every rollback it could offer was
\* tried or suppressed.
LEMMA ErrorCloses ==
    ASSUME ToolInv, CallerInv', lv' = "close", report' \in Report, report'.errors,
           ~report'.success, exit_code' = None,
           CanRollback(session') => report'.rollback_attempted \/ report'.rollback_suppressed
    PROVE  ToolInv'
<1>1. PassTruthful'
  BY LiveVerifyAssumption DEF PassTruthful
<1>2. Flags' /\ Rollbacks' /\ Pages'
  BY Zenon DEF Flags, Rollbacks, Pages
<1> QED BY Zenon, <1>1, <1>2 DEF ToolInv

\* A run that failed with a write confirmed goes on to its failure path.
LEMMA ErrorFails ==
    ASSUME ToolInv, CallerInv', lv' = "failure", report' \in Report, report'.errors,
           ~report'.success, exit_code' = None, Confirmed(options')
    PROVE  ToolInv'
<1>1. PassTruthful'
  BY LiveVerifyAssumption DEF PassTruthful
<1>2. Flags' /\ Rollbacks' /\ Pages'
  BY Zenon DEF Flags, Rollbacks, Pages
<1> QED BY Zenon, <1>1, <1>2 DEF ToolInv

\* A call that does not go through the session keeps what callers rely on.
LEMMA OutsideCaller ==
    ASSUME ToolInv, Outside, gate' \in BOOLEAN
    PROVE  CallerInv'
BY Zenon, CallerStays DEF ToolInv, CallerInv, TypeOK, Outside

\* The same of a call that leaves the write gate as it was.
LEMMA OutsideCallerLocked ==
    ASSUME ToolInv, OutsideLocked
    PROVE  CallerInv'
BY Zenon, OutsideCaller DEF ToolInv, CallerInv, TypeOK, OutsideLocked

-----------------------------------------------------------------------------
(* The steps of the verifier. *)

\* main, up to the attestation of the host, ends the run or starts it.
LEMMA MainStep ==
    ASSUME ToolInv, Main
    PROVE  ToolInv'
<1>0. /\ CallerInv' /\ UNCHANGED <<options, session, artifacts>>
      /\ lv = "main" /\ report \in Report /\ exit_code = None /\ ~report.success
      /\ NoRollback(session) /\ artifacts = NoEvidence
      /\ (report.cancelled \/ report.rollback_suppressed => report.errors)
  BY Zenon, OutsideCallerLocked DEF Main, Same, OutsideLocked, Outside, ToolInv, Flags, Rollbacks
<1>1. \/ /\ lv' = "done" /\ exit_code' \in {1, 2, 3}
         /\ \/ report' = report
            \/ \E b \in BOOLEAN : report' = [AddError(report) EXCEPT !.attested = b]
      \/ /\ lv' = "probe_before" /\ exit_code' = None
         /\ report' = [report EXCEPT !.attested = TRUE]
  BY Zenon DEF Main, Goto, WriteEvidence, CaptureRuntimeIdentity, Host
<1>2. /\ report' \in Report /\ ~report'.success
      /\ (report'.cancelled \/ report'.rollback_suppressed => report'.errors)
      /\ lv' = "probe_before" => report'.attested
  BY Zenon, <1>0, <1>1 DEF Report, AddError
<1>3. PassTruthful'
  BY <1>1, LiveVerifyAssumption DEF PassTruthful
<1>4. Flags'
  BY Zenon, <1>1, <1>2 DEF Flags
<1>5. Rollbacks' /\ Pages'
  BY Zenon, <1>0, <1>1, <1>2 DEF Rollbacks, Pages
<1> QED BY Zenon, <1>0, <1>3, <1>4, <1>5 DEF ToolInv

\* The first query of the probe gives the identity of the fixture, or an error.
LEMMA ProbeBeforeStep ==
    ASSUME ToolInv, ProbeBefore
    PROVE  ToolInv'
<1>0. /\ CallerInv' /\ UNCHANGED <<options, session, artifacts>>
      /\ lv = "probe_before" /\ report \in Report /\ exit_code' = None
      /\ NoRollback(session) /\ artifacts = NoEvidence
  BY Zenon, OutsideCallerLocked DEF ProbeBefore, Same, OutsideLocked, Outside, ToolInv, Flags, Rollbacks
<1>1. CASE Abort
  BY Zenon, <1>0, <1>1, ErrorFields, ErrorCloses DEF Abort, Goto, NoRollback, CanRollback
<1>2. CASE Confirmed(options) /\ lv' = "load" /\ report' = report
  <2>1. PassTruthful'
    BY <1>0, LiveVerifyAssumption DEF PassTruthful
  <2>2. Flags' /\ Rollbacks' /\ Pages'
    BY Zenon, <1>0, <1>2 DEF ToolInv, Flags, Rollbacks, Pages
  <2> QED BY Zenon, <1>0, <2>1, <2>2 DEF ToolInv
<1> QED BY Zenon, <1>1, <1>2 DEF ProbeBefore, Goto

\* Loading the baseline page keeps the invariant, whether or not it succeeds.
LEMMA LoadBaselineStep ==
    ASSUME ToolInv, LoadBaseline
    PROVE  ToolInv'
<1>0. /\ UNCHANGED <<options, artifacts>> /\ Load
      /\ lv = "load" /\ report \in Report /\ exit_code' = None
      /\ artifacts = NoEvidence /\ TypeOK /\ Confirmed(options)
  BY Zenon DEF LoadBaseline, Same, ToolInv, Flags, Rollbacks, CallerInv
<1>1. CallerInv'
  BY Zenon, <1>0, CallerNext DEF ToolInv, Next
<1>2. NoRollback(session')
  BY Zenon, <1>0, LoadEffect
<1>3. CASE Abort
  BY Zenon, <1>0, <1>1, <1>2, <1>3, ErrorFields, ErrorCloses DEF Abort, Goto, NoRollback, CanRollback
<1>4. CASE lv' = "sample" /\ report' = report /\ original' = session'.baseline
  <2>1. PassTruthful'
    BY <1>0, LiveVerifyAssumption DEF PassTruthful
  <2>2. Flags' /\ Rollbacks' /\ Pages'
    BY Zenon, <1>0, <1>2, <1>4 DEF ToolInv, Flags, Rollbacks, Pages
  <2> QED BY Zenon, <1>1, <2>1, <2>2 DEF ToolInv
<1> QED BY Zenon, <1>3, <1>4 DEF LoadBaseline, Goto

\* The read samples, the end of a read-only run and the decision to edit keep
\* the invariant.
LEMMA SampleStep ==
    ASSUME ToolInv, ReadSample \/ FinishReadOnly \/ BeforeEdit
    PROVE  ToolInv'
<1>0. /\ CallerInv' /\ UNCHANGED <<options, session, artifacts, original>>
      /\ lv = "sample" /\ report \in Report /\ exit_code' = None
      /\ NoRollback(session) /\ artifacts = NoEvidence /\ session.baseline = original
      /\ Confirmed(options)
  BY Zenon, OutsideCallerLocked DEF ReadSample, FinishReadOnly, BeforeEdit, Same, Quiet,
     OutsideLocked, Outside, ToolInv, Flags, Rollbacks, Pages
<1>1. CASE lv' = "close" /\ report' \in {AddError(report), AddCancelled(report)}
  BY Zenon, <1>0, <1>1, ErrorFields, ErrorCloses DEF NoRollback, CanRollback
<1>2. PassTruthful'
  BY <1>0, LiveVerifyAssumption DEF PassTruthful
<1>3. CASE lv' \in {"sample", "edit"} /\ report' = report
  <2>1. Flags' /\ Rollbacks' /\ Pages'
    BY Zenon, <1>0, <1>3 DEF ToolInv, Flags, Rollbacks, Pages
  <2> QED BY Zenon, <1>0, <1>2, <2>1 DEF ToolInv
<1>4. CASE /\ ~options.write /\ lv' = "close"
           /\ report' = [report EXCEPT !.final_gate_locked = TRUE, !.success = TRUE]
  <2>1. /\ report' \in Report /\ report'.cancelled = report.cancelled
        /\ report'.errors = report.errors /\ report'.attested = report.attested
        /\ report'.rollback_suppressed = report.rollback_suppressed
    BY Zenon, <1>0, <1>4 DEF Report
  <2>2. Flags' /\ Rollbacks' /\ Pages'
    BY Zenon, <1>0, <1>4, <2>1 DEF ToolInv, Flags, Rollbacks, Pages, NoRollback, CanRollback
  <2> QED BY Zenon, <1>0, <1>2, <2>2 DEF ToolInv
<1> QED BY Zenon, <1>1, <1>3, <1>4 DEF ReadSample, FinishReadOnly, BeforeEdit, Abort, Goto
\* An edit of the fixture, and the unlock that follows the last one.
LEMMA EditStep ==
    ASSUME ToolInv, EditFixture \/ UnlockApply
    PROVE  ToolInv'
<1>0. /\ UNCHANGED <<options, artifacts, original>> /\ report' = report
      /\ lv = "edit" /\ lv' \in {"edit", "apply"} /\ exit_code' = None
      /\ NoRollback(session) /\ artifacts = NoEvidence /\ session.baseline = original
      /\ Confirmed(options) /\ TypeOK /\ EditInv /\ session \in Session
  BY Zenon DEF EditFixture, UnlockApply, Goto, Same, Quiet, ToolInv, Flags, Rollbacks, Pages,
         CallerInv, TypeOK
<1>1. \A o \in Offset : Flip(original[o]) \in Byte
  <2>1. \A o \in Offset : original[o] \in Byte
    BY Zenon, <1>0 DEF Session, Page
  <2> QED BY Zenon, <2>1, LiveVerifyAssumption DEF Flip
<1>2. Next
  BY Zenon, <1>1 DEF EditFixture, UnlockApply, Next, LocalEdit
<1>3. CallerInv'
  BY Zenon, <1>2, CallerNext DEF ToolInv
<1>4. NoRollback(session') /\ session'.baseline = session.baseline
  <2>1. CASE EditFixture
    <3>1. LocalFrame
      BY Zenon, <1>0, <1>1, <2>1, EditByteEffect DEF EditFixture
    <3> QED BY Zenon, <1>0, <3>1 DEF LocalFrame, SameRollback, NoRollback
  <2>2. CASE UnlockApply
    BY Zenon, <1>0, <2>2 DEF UnlockApply, UnlockForOneApply, Unlock, NoRollback, Session
  <2> QED BY Zenon, <2>1, <2>2
<1>5. PassTruthful'
  BY <1>0, LiveVerifyAssumption DEF PassTruthful
<1>6. Flags' /\ Rollbacks' /\ Pages'
  BY Zenon, <1>0, <1>4 DEF ToolInv, Flags, Rollbacks, Pages
<1> QED BY Zenon, <1>3, <1>5, <1>6 DEF ToolInv

\* Capturing the artifacts of a session whose evidence only grew gives exactly
\* the session's evidence.
LEMMA CaptureAll ==
    ASSUME NEW s, s.evidence \in Evidence, artifacts \in Evidence, IsLocalEvidence(options),
           \A role \in DOMAIN artifacts : s.evidence[role] = None => artifacts[role] = None
    PROVE  Capture(s) = s.evidence
<1>1. DOMAIN s.evidence = DOMAIN artifacts
  BY Zenon DEF Evidence
<1>2. s.evidence = [role \in DOMAIN s.evidence |-> s.evidence[role]]
  BY Zenon DEF Evidence
<1>3. \A role \in DOMAIN artifacts :
        (IF IsLocalEvidence(options) /\ s.evidence[role] # None
         THEN s.evidence[role] ELSE artifacts[role]) = s.evidence[role]
  BY Zenon
<1> QED BY Zenon, <1>1, <1>2, <1>3 DEF Capture

\* The one write of the run: it succeeds with evidence, or the run fails.
LEMMA ApplyStep ==
    ASSUME ToolInv, OneShotApply
    PROVE  ToolInv'
<1>0. /\ UNCHANGED <<options, original>> /\ lv = "apply" /\ exit_code' = None
      /\ artifacts = NoEvidence /\ session.baseline = original
      /\ Confirmed(options) /\ TypeOK /\ ApplyAndVerify /\ report \in Report
      /\ session.baseline \in Page /\ session.working \in Page
      /\ artifacts' = Capture(session')
  BY Zenon DEF OneShotApply, CaptureEvidence, Same, ToolInv, Flags, Rollbacks, Pages,
         CallerInv, TypeOK, Session
<1>1. CallerInv' /\ session' \in Session
  BY Zenon, <1>0, CallerNext DEF ToolInv, Next, CallerInv, TypeOK
<1>2. CASE Fail
  BY Zenon, <1>0, <1>1, <1>2, ErrorFields, ErrorFails DEF Fail, Goto
<1>3. CASE result' = "ok" /\ lv' = "applied" /\ report' = report
  <2>1. PassTruthful'
    BY <1>0, LiveVerifyAssumption DEF PassTruthful
  <2>2. /\ session'.rollback_snapshot = original /\ ~session'.recovery_required
        /\ session'.baseline = session.working
        /\ session'.evidence = [NoEvidence EXCEPT !.baseline = original,
                                       !.preflight = original,
                                       !.expected_after = session.working,
                                       !.readback = session.working]
    BY Zenon, <1>0, <1>3, ApplySucceeds
  <2>3. session'.evidence \in Evidence
    BY Zenon, <1>1 DEF Session
  <2>4. IsLocalEvidence(options) => artifacts' = session'.evidence
    <3>1. artifacts \in Evidence /\ \A role \in DOMAIN artifacts : artifacts[role] = None
      BY <1>0, Basics DEF NoEvidence
    <3> QED BY Zenon, <1>0, <2>3, <3>1, CaptureAll
  <2>5. Verified'
    BY Zenon, <1>0, <2>2, <2>3, <2>4 DEF Verified, OfWrite, NoEvidence
  <2>6. Flags' /\ Rollbacks' /\ Pages'
    BY Zenon, <1>0, <1>3, <2>5 DEF ToolInv, Flags, Rollbacks, Pages
  <2> QED BY Zenon, <1>1, <2>1, <2>6 DEF ToolInv
<1> QED BY Zenon, <1>2, <1>3 DEF OneShotApply, Goto

\* The status and the probe after the write end in failure or go on.
LEMMA AppliedStep ==
    ASSUME ToolInv, PostApplyStatus \/ ProbeAfterWrite
    PROVE  ToolInv'
<1>0. /\ CallerInv' /\ UNCHANGED <<options, session, artifacts, original>>
      /\ lv \in {"applied", "probe_after"} /\ report \in Report /\ exit_code' = None
      /\ Confirmed(options)
  BY Zenon, OutsideCallerLocked DEF PostApplyStatus, ProbeAfterWrite, Same, Quiet,
     OutsideLocked, Outside, ToolInv, Flags
<1>1. CASE Fail \/ FailCancelled
  BY Zenon, <1>0, <1>1, ErrorFields, ErrorFails DEF Fail, FailCancelled, Goto
<1>2. CASE /\ lv' = "failure"
           /\ report' = [AddError(report) EXCEPT
                 !.failing = TRUE,
                 !.rollback_suppressed = IsLocalEvidence(options)]
  <2>1. IsLocalEvidence(options) \in BOOLEAN
    BY Zenon DEF IsLocalEvidence
  <2>2. report' \in Report /\ report'.errors /\ ~report'.success
    BY Zenon, <1>0, <1>2, <2>1 DEF Report, AddError
  <2> QED BY Zenon, <1>0, <1>2, <2>2, ErrorFails
<1>3. CASE lv' \in {"probe_after", "reload"} /\ report' = report
  <2>1. PassTruthful'
    BY <1>0, LiveVerifyAssumption DEF PassTruthful
  <2>2. Flags' /\ Rollbacks' /\ Pages'
    BY Zenon, <1>0, <1>3 DEF ToolInv, Flags, Rollbacks, Pages, Verified, OfWrite
  <2> QED BY Zenon, <1>0, <2>1, <2>2 DEF ToolInv
<1> QED BY Zenon, <1>1, <1>2, <1>3 DEF PostApplyStatus, ProbeAfterWrite, Goto

\* The independent reload sees the written page, or the run fails.
LEMMA ReloadStep ==
    ASSUME ToolInv, ReloadAfterWrite
    PROVE  ToolInv'
<1>0. /\ UNCHANGED <<options, original>> /\ lv = "reload" /\ exit_code' = None
      /\ Confirmed(options) /\ TypeOK /\ ReloadPreservingRollback /\ report \in Report
      /\ artifacts' = Capture(session')
  BY Zenon DEF ReloadAfterWrite, CaptureEvidence, Same, ToolInv, Flags, CallerInv
<1>1. CallerInv' /\ session' \in Session
  BY Zenon, <1>0, CallerNext DEF ToolInv, Next, CallerInv, TypeOK
<1>2. CASE Fail
  BY Zenon, <1>0, <1>1, <1>2, ErrorFields, ErrorFails DEF Fail, Goto
<1>3. CASE result' = "ok" /\ lv' = "rollback" /\ report' \in {report, AddCancelled(report)}
  <2>1. PassTruthful'
    BY <1>0, LiveVerifyAssumption DEF PassTruthful
  <2>2. /\ report' \in Report /\ ~report'.success
        /\ (report'.cancelled \/ report'.rollback_suppressed => report'.errors)
        /\ ~report'.errors => report' = report
    BY Zenon, <1>0, <1>3, ErrorFields DEF ToolInv, Flags
  <2>3. ASSUME ~report'.errors PROVE ReadBack'
    <3>1. Verified
      BY Zenon, <1>0, <2>2, <2>3 DEF ToolInv, Pages
    <3>2. /\ page = session.baseline /\ page \in Page
          /\ session'.rollback_snapshot = session.rollback_snapshot
          /\ session'.evidence = [session.evidence EXCEPT !.independent_reload = page]
      BY Zenon, <1>0, <1>3, <3>1, ReloadSucceeds DEF Verified, TypeOK
    <3>3. session'.evidence \in Evidence /\ session.evidence \in Evidence
      BY Zenon, <1>1, <3>1 DEF Session, Verified, OfWrite
    <3>4. IsLocalEvidence(options) => artifacts' = session'.evidence
      <4> SUFFICES ASSUME IsLocalEvidence(options) PROVE artifacts' = session'.evidence
        BY Zenon
      <4>1. artifacts = session.evidence
        BY Zenon, <3>1 DEF Verified
      <4>2. \A role \in DOMAIN artifacts : session'.evidence[role] = None => artifacts[role] = None
        BY Zenon, <3>2, <3>3, <4>1, Basics DEF Evidence
      <4> QED BY Zenon, <1>0, <3>3, <4>1, <4>2, CaptureAll
    <3>5. OfWrite(session.evidence)'
      BY Zenon, <1>0, <3>1, <3>2, <3>3 DEF Verified, OfWrite, Evidence
    <3>6. session'.evidence.independent_reload = session'.evidence.expected_after
      BY Zenon, <3>1, <3>2, <3>3 DEF Verified, Evidence
    <3> QED BY Zenon, <1>0, <3>1, <3>2, <3>4, <3>5, <3>6 DEF Verified, ReadBack
  <2>4. Flags'
    BY Zenon, <1>0, <1>3, <2>2 DEF ToolInv, Flags
  <2>5. Rollbacks' /\ Pages'
    BY Zenon, <1>3, <2>2, <2>3 DEF Rollbacks, Pages
  <2> QED BY Zenon, <1>1, <2>1, <2>4, <2>5 DEF ToolInv
<1> QED BY Zenon, <1>2, <1>3 DEF ReloadAfterWrite, Goto

\* The error path of a write: the gate is locked before the rollback.
LEMMA FailureStep ==
    ASSUME ToolInv, FinishAfterWriteFailure
    PROVE  ToolInv'
<1>0. /\ UNCHANGED <<options, session>> /\ lv = "failure" /\ exit_code' = None
      /\ Confirmed(options) /\ report \in Report /\ report.errors
      /\ ~report.success /\ lv' = AfterFailedWrite(session) /\ gate' \in BOOLEAN /\ Outside
      /\ report' \in {report, AddError(report)}
  BY Zenon DEF FinishAfterWriteFailure, FinalRelock, Relock, Relocked, Goto, Outside, Quiet, Same,
         ToolInv, Flags, CallerInv, TypeOK
<1>1. CallerInv'
  BY Zenon, <1>0, OutsideCaller
<1>2. report' \in Report /\ report'.errors /\ ~report'.success
  BY Zenon, <1>0, ErrorFields
<1>3. PassTruthful'
  BY <1>0, LiveVerifyAssumption DEF PassTruthful
<1>4. Flags' /\ Rollbacks' /\ Pages'
  BY Zenon, <1>0, <1>2 DEF Flags, Rollbacks, Pages, AfterFailedWrite
<1> QED BY Zenon, <1>1, <1>3, <1>4 DEF ToolInv
\* The decision to roll back keeps the invariant: the report then says that the
\* rollback is attempted or suppressed.
LEMMA CheckRollbackStep ==
    ASSUME ToolInv, CheckRollback
    PROVE  ToolInv'
<1> DEFINE local == IsLocalEvidence(options)
           attempt == [report EXCEPT
               !.rollback_attempted = TRUE,
               !.probe_identity_fresh_at_rollback = local /\ SameProbeIdentity]
<1>0. /\ CallerInv' /\ UNCHANGED <<options, session, artifacts, original>>
      /\ lv = "rollback" /\ report \in Report /\ exit_code' = None
      /\ Confirmed(options) /\ ~report.success
      /\ (report.cancelled \/ report.rollback_suppressed => report.errors)
      /\ ~report.errors => report.attested
      /\ ~report.errors => ReadBack
  BY Zenon, OutsideCallerLocked DEF CheckRollback, Same, Quiet, OutsideLocked, Outside,
     ToolInv, Flags, Pages
<1>1. \/ local /\ report.rollback_suppressed /\ lv' = AfterRollback /\ report' = report
      \/ lv' = AfterRollback /\ report' = Suppressed
      \/ (local => FreshIdentity) /\ lv' = "unlock" /\ report' = attempt
      \/ lv' = AfterRollback /\ report' = AddError(attempt)
  BY Zenon DEF CheckRollback, Goto
<1>2. AfterRollback \in {"relock", "post_read"}
  BY Zenon DEF AfterRollback
<1>3. PassTruthful'
  BY <1>0, LiveVerifyAssumption DEF PassTruthful
<1>4. /\ attempt \in Report /\ attempt.rollback_attempted /\ ~attempt.success
      /\ attempt.probe_identity_fresh_at_rollback = (local /\ SameProbeIdentity)
      /\ attempt.errors = report.errors /\ attempt.attested = report.attested
      /\ attempt.cancelled = report.cancelled
      /\ attempt.rollback_suppressed = report.rollback_suppressed
  <2>1. (local /\ SameProbeIdentity) \in BOOLEAN
    BY Zenon DEF IsLocalEvidence, SameProbeIdentity
  <2> QED BY Zenon, <1>0, <2>1 DEF Report
<1> HIDE DEF attempt, local
<1>5. CASE lv' = "unlock" /\ report' = attempt /\ (local => FreshIdentity)
  <2>1. Flags'
    BY Zenon, <1>0, <1>4, <1>5 DEF Flags
  <2>2. Rollbacks'
    BY Zenon, <1>0, <1>4, <1>5 DEF Rollbacks, FreshIdentity, local
  <2>3. Pages'
    BY Zenon, <1>0, <1>4, <1>5 DEF Pages, ReadBack, OfWrite
  <2> QED BY Zenon, <1>0, <1>3, <2>1, <2>2, <2>3 DEF ToolInv
<1>6. CASE /\ lv' \in {"relock", "post_read"} /\ report' \in Report /\ report'.errors
           /\ ~report'.success
           /\ report'.rollback_attempted \/ report'.rollback_suppressed
  <2>1. Flags' /\ Rollbacks' /\ Pages'
    BY Zenon, <1>0, <1>6 DEF Flags, Rollbacks, Pages
  <2> QED BY Zenon, <1>0, <1>3, <2>1 DEF ToolInv
<1>7. Suppressed \in Report /\ Suppressed.errors /\ ~Suppressed.success
      /\ Suppressed.rollback_suppressed
  BY Zenon, <1>0 DEF Suppressed, AddError, Report
<1> QED BY ZenonT(40), <1>0, <1>1, <1>2, <1>4, <1>5, <1>6, <1>7, ErrorFields

\* The unlock before the rollback keeps the invariant.
LEMMA UnlockRollbackStep ==
    ASSUME ToolInv, UnlockRollback
    PROVE  ToolInv'
<1>0. /\ UNCHANGED <<options, artifacts, original, report>> /\ UnlockForRollback
      /\ lv = "unlock" /\ lv' = "restore" /\ exit_code' = None
      /\ Confirmed(options) /\ session \in Session
  BY Zenon DEF UnlockRollback, Goto, Same, Quiet, ToolInv, Flags, CallerInv, TypeOK
<1>1. CallerInv'
  BY Zenon, <1>0, CallerNext DEF ToolInv, Next
<1>2. /\ session'.rollback_snapshot = session.rollback_snapshot
      /\ session'.evidence = session.evidence
  BY Zenon, <1>0 DEF UnlockForRollback, Unlock, Session
<1>3. PassTruthful'
  BY <1>0, LiveVerifyAssumption DEF PassTruthful
<1>4. Flags' /\ Rollbacks' /\ Pages'
  BY Zenon, <1>0, <1>2 DEF ToolInv, Flags, Rollbacks, Pages, ReadBack, OfWrite
<1> QED BY Zenon, <1>1, <1>3, <1>4 DEF ToolInv

\* The rollback of the whole page keeps the invariant, with any outcome.
LEMMA RestoreStep ==
    ASSUME ToolInv, RollbackFullPage
    PROVE  ToolInv'
<1> DEFINE verified == [report EXCEPT !.rollback_verified = TRUE]
<1>0. /\ UNCHANGED <<options, original>> /\ lv = "restore" /\ exit_code' = None
      /\ Confirmed(options) /\ TypeOK /\ RollbackBaseline /\ report \in Report
      /\ artifacts' = Capture(session') /\ lv' \in {"relock", "post_read"}
      /\ report' = IF result' = "ok" THEN verified ELSE AddError(report)
      /\ report.rollback_attempted /\ ~report.success
      /\ (report.cancelled \/ report.rollback_suppressed => report.errors)
      /\ ~report.errors => report.attested /\ ReadBack
  BY Zenon DEF RollbackFullPage, AfterRollback, Goto, CaptureEvidence, Same, ToolInv, Flags,
         Rollbacks, Pages, CallerInv
<1>1. CallerInv' /\ session' \in Session
  BY Zenon, <1>0, CallerNext DEF ToolInv, Next, CallerInv, TypeOK
<1>2. /\ verified \in Report /\ verified.errors = report.errors
      /\ verified.rollback_attempted /\ ~verified.success
      /\ verified.cancelled = report.cancelled /\ verified.attested = report.attested
      /\ verified.rollback_suppressed = report.rollback_suppressed
  BY Zenon, <1>0 DEF Report
<1> HIDE DEF verified
<1>3. /\ report' \in Report /\ report'.rollback_attempted /\ ~report'.success
      /\ (report'.cancelled \/ report'.rollback_suppressed => report'.errors)
      /\ ~report'.errors => result' = "ok" /\ ~report.errors /\ report'.attested
  BY Zenon, <1>0, <1>2, ErrorFields
<1>4. PassTruthful'
  BY <1>0, LiveVerifyAssumption DEF PassTruthful
<1>5. ASSUME ~report'.errors PROVE Returned'
  <2>1. ReadBack /\ result' = "ok"
    BY Zenon, <1>0, <1>3, <1>5
  <2>2. /\ page' = original
        /\ session'.evidence = [session.evidence EXCEPT !.rollback = original]
    BY Zenon, <1>0, <2>1, RollbackSucceeds DEF ReadBack
  <2>3. session'.evidence \in Evidence /\ session.evidence \in Evidence /\ original # None
    BY Zenon, <1>0, <1>1, <2>1 DEF Session, ReadBack, OfWrite, RollbackBaseline, CanRollback
  <2>4. IsLocalEvidence(options) => artifacts' = session'.evidence
    <3> SUFFICES ASSUME IsLocalEvidence(options) PROVE artifacts' = session'.evidence
      BY Zenon
    <3>1. artifacts = session.evidence
      BY Zenon, <2>1 DEF ReadBack
    <3>2. \A role \in DOMAIN artifacts : session'.evidence[role] = None => artifacts[role] = None
      BY Zenon, <2>2, <2>3, <3>1 DEF Evidence
    <3> QED BY Zenon, <1>0, <2>3, <3>1, <3>2, CaptureAll
  <2>5. /\ session'.evidence.baseline = original /\ session'.evidence.preflight = original
        /\ session'.evidence.readback = session'.evidence.expected_after
        /\ session'.evidence.independent_reload = session'.evidence.expected_after
        /\ session'.evidence.rollback = original
    BY Zenon, <2>1, <2>2, <2>3 DEF ReadBack, OfWrite, Evidence
  <2> QED BY Zenon, <1>0, <2>2, <2>3, <2>4, <2>5 DEF Returned, OfWrite
<1>6. Flags' /\ Rollbacks'
  BY Zenon, <1>0, <1>3 DEF Flags, Rollbacks
<1>7. Pages'
  BY Zenon, <1>0, <1>3, <1>5 DEF Pages
<1> QED BY Zenon, <1>1, <1>4, <1>6, <1>7 DEF ToolInv

\* The read and the query after the rollback.
LEMMA AfterRollbackStep ==
    ASSUME ToolInv, PostRollbackRead \/ ProbeAfterRollback
    PROVE  ToolInv'
<1>0. /\ CallerInv' /\ UNCHANGED <<options, session, artifacts, original, page, disturbed>>
      /\ lv \in {"post_read", "probe_final"} /\ lv' \in {"probe_final", "relock"}
      /\ report \in Report /\ exit_code' = None
      /\ Confirmed(options) /\ report' \in {report, AddError(report)} /\ ~report.success
  BY Zenon, OutsideCallerLocked DEF PostRollbackRead, ProbeAfterRollback, Same, Quiet, Goto,
     OutsideLocked, Outside, ToolInv, Flags
<1>1. PassTruthful'
  BY <1>0, LiveVerifyAssumption DEF PassTruthful
<1>2. /\ report' \in Report /\ ~report'.success
      /\ report'.rollback_attempted = report.rollback_attempted
      /\ report'.rollback_suppressed = report.rollback_suppressed
      /\ ~report'.errors => report' = report
  BY ZenonT(30), <1>0, ErrorFields
<1>3. Flags' /\ Rollbacks'
  BY Zenon, <1>0, <1>2 DEF ToolInv, Flags, Rollbacks
<1>4. Pages'
  BY Zenon, <1>0, <1>2 DEF ToolInv, Pages, Returned, OfWrite
<1> QED BY Zenon, <1>0, <1>1, <1>3, <1>4 DEF ToolInv

\* The final status gives a verdict of success only to a run that earned it.
LEMMA FinalStep ==
    ASSUME ToolInv, FinalStatus
    PROVE  ToolInv'
<1>0. /\ UNCHANGED <<options, session, artifacts, original, page, disturbed>>
      /\ lv = "relock" /\ lv' = "close" /\ report \in Report /\ exit_code' = None
      /\ Confirmed(options) /\ ~report.success /\ gate' \in BOOLEAN /\ Outside
  BY Zenon DEF FinalStatus, FinalRelock, Relock, Outside, Same, Quiet, Goto, ToolInv, Flags,
         CallerInv, TypeOK
<1>1. CallerInv'
  BY Zenon, <1>0, OutsideCaller
<1>2. PICK answered \in BOOLEAN :
         LET r == Relocked(answered)
             locked == [r EXCEPT !.final_gate_locked = TRUE]
         IN  \/ report' = AddError(r)
             \/ report' = [locked EXCEPT !.success = ~r.failing /\ Success(locked)]
  BY Zenon DEF FinalStatus, Goto
<1> DEFINE r == Relocked(answered)
           locked == [r EXCEPT !.final_gate_locked = TRUE]
<1>3. /\ r \in Report
      /\ ~r.errors => r = report
      /\ r.rollback_attempted = report.rollback_attempted
      /\ r.rollback_suppressed = report.rollback_suppressed
      /\ r.cancelled = report.cancelled
  BY ZenonT(30), <1>0 DEF Relocked, AddError, Report
<1> HIDE DEF r
<1>4. locked \in Report /\ locked.errors = r.errors /\ locked.cancelled = r.cancelled
      /\ locked.rollback_attempted = r.rollback_attempted
      /\ locked.rollback_suppressed = r.rollback_suppressed
      /\ locked.attested = r.attested
  BY Zenon, <1>3 DEF Report
<1> HIDE DEF locked
<1>5. CASE report' = AddError(r)
  <2>1. /\ report' \in Report /\ report'.errors /\ ~report'.success
        /\ report'.rollback_attempted = report.rollback_attempted
        /\ report'.rollback_suppressed = report.rollback_suppressed
    BY Zenon, <1>3, <1>5, ErrorFields
  <2>2. CanRollback(session') => report'.rollback_attempted \/ report'.rollback_suppressed
    BY Zenon, <1>0, <2>1 DEF ToolInv, Rollbacks
  <2> QED BY Zenon, <1>0, <1>1, <2>1, <2>2, ErrorCloses
<1>6. CASE report' = [locked EXCEPT !.success = ~r.failing /\ Success(locked)]
  <2>1. (~r.failing /\ Success(locked)) \in BOOLEAN
    BY Zenon DEF Success
  <2>2. /\ report' \in Report /\ report'.errors = r.errors
        /\ report'.cancelled = report.cancelled /\ report'.attested = r.attested
        /\ report'.rollback_attempted = report.rollback_attempted
        /\ report'.rollback_suppressed = report.rollback_suppressed
        /\ report'.success = (~r.failing /\ Success(locked))
    BY ZenonT(30), <1>3, <1>4, <1>6, <2>1 DEF Report
  <2>3. report'.success => ~report'.errors
    BY Zenon, <1>4, <2>2 DEF Success
  <2>4. report.errors => r.errors
    BY Zenon, <1>0 DEF r, Relocked, AddError, Report
  <2>5. PassTruthful'
    BY <1>0, LiveVerifyAssumption DEF PassTruthful
  <2>6. Flags'
    BY Zenon, <1>0, <1>3, <2>2, <2>4 DEF ToolInv, Flags
  <2>7. Rollbacks'
    BY Zenon, <1>0, <2>2 DEF ToolInv, Rollbacks
  <2>8. Pages'
    BY Zenon, <1>0, <1>3, <2>2, <2>3 DEF ToolInv, Pages, Returned, OfWrite
  <2> QED BY Zenon, <1>1, <2>5, <2>6, <2>7, <2>8 DEF ToolInv
<1> QED BY Zenon, <1>2, <1>5, <1>6 DEF r, locked

\* An exception, and the guard that recovers.
LEMMA EmergencyStep ==
    ASSUME ToolInv, EmergencyRecovery
    PROVE  ToolInv'
<1>0. /\ lv \notin {"main", "close", "done"} /\ exit_code' = None
      /\ lv' = "close" /\ report' = AddError(EmptyReport)
      /\ session' = Cleared /\ reviewed' = Unreviewed /\ result' = "failed"
      /\ trimmed' = FALSE /\ gate' \in BOOLEAN
  BY Zenon DEF EmergencyRecovery, Goto, Relock, ToolInv, Flags, CallerInv, TypeOK
<1>1. page' \in Page
  <2>1. page \in Page /\ session \in Session
    BY Zenon DEF ToolInv, CallerInv, TypeOK
  <2>2. CASE page' = page
    BY Zenon, <2>1, <2>2
  <2>3. CASE CanRollback(session) /\ \E outcome \in {"Applied", "Conflict", "Failure", "error"} :
              CompareWrite(session.rollback_expected, session.rollback_snapshot, outcome)
    <3>1. session.rollback_expected \in Page /\ session.rollback_snapshot \in Page
      BY Zenon, <2>1, <2>3 DEF CanRollback, Session, Maybe
    <3> QED BY Zenon, <2>1, <2>3, <3>1, CompareWriteEffect
  <2> QED BY Zenon, <2>2, <2>3 DEF EmergencyRecovery
<1>2. session' \in Session /\ NoEdits(session') /\ NoRollback(session')
      /\ ~session'.write_unlocked
  BY Zenon, <1>0, ClearedFields
<1>3. CallerInv'
  <2>1. TypeOK'
    BY Zenon, <1>0, <1>1, <1>2, Basics DEF TypeOK, Unreviewed
  <2> QED BY Zenon, <1>2, <2>1, EmptyEdits DEF CallerInv, ReviewCurrent
<1>4. EmptyReport \in Report
  BY Zenon DEF EmptyReport, Report
<1>5. report' \in Report /\ report'.errors /\ ~report'.success
  BY Zenon, <1>0, <1>4, ErrorFields
<1> QED BY Zenon, <1>0, <1>2, <1>3, <1>5, ErrorCloses DEF NoRollback, CanRollback

\* CloseAndReport exits with 0 only when a successful report was published.
LEMMA ReportStep ==
    ASSUME ToolInv, CloseAndReport
    PROVE  ToolInv'
<1>0. /\ UNCHANGED <<options, session, artifacts, original, page, disturbed>>
      /\ lv = "close" /\ lv' = "done" /\ report \in Report /\ gate' \in BOOLEAN /\ Outside
  BY Zenon DEF CloseAndReport, Outside, Same, Goto, ToolInv, Flags
<1>1. CallerInv'
  BY Zenon, <1>0, OutsideCaller
<1>2. PICK published \in BOOLEAN :
         /\ published => SixPages \/ ~IsLocalEvidence(options)
         /\ WriteEvidence(report.success /\ published)
         /\ report' = IF published THEN report ELSE AddError(report)
  BY Zenon DEF CloseAndReport, Goto
<1>3. report' \in Report /\ (report'.cancelled \/ report'.rollback_suppressed => report'.errors)
  BY Zenon, <1>0, <1>2, ErrorFields DEF ToolInv, Flags
<1>4. Flags' /\ Rollbacks' /\ Pages'
  BY Zenon, <1>0, <1>3 DEF Flags, Rollbacks, Pages
<1>5. PassTruthful'
  <2> SUFFICES ASSUME exit_code' = 0, options.write
               PROVE  PassTruthful'
    BY Zenon, <1>0 DEF PassTruthful
  <2>1. report.success /\ published /\ report' = report
    BY <1>2 DEF WriteEvidence
  <2>2. /\ ~report.errors /\ Confirmed(options) /\ Returned
        /\ report.attested /\ ~report.cancelled
    BY Zenon, <1>0, <2>1 DEF ToolInv, Pages, Flags
  <2>3. IsLocalEvidence(options) => Complete(artifacts) /\ artifacts.baseline = original
    BY Zenon, <1>2, <2>1, <2>2 DEF SixPages, Complete, Returned, OfWrite
  <2>4. ~disturbed => page = original
    BY Zenon, <2>2 DEF Returned
  <2> QED BY Zenon, <1>0, <2>1, <2>2, <2>3, <2>4 DEF PassTruthful
<1> QED BY Zenon, <1>1, <1>4, <1>5 DEF ToolInv
\* What happens around the run: a cancel, a reset of the fixture, another writer.
LEMMA AroundStep ==
    ASSUME ToolInv, ConsoleHandler \/ ProbeControl \/ Others
    PROVE  ToolInv'
<1>0. /\ UNCHANGED <<options, session, result, reviewed, trimmed, artifacts, original, lv,
                     report, exit_code, gate>>
      /\ lv # "done" /\ exit_code = None /\ page \in Page /\ gate \in BOOLEAN
      /\ UNCHANGED <<page, disturbed>> \/ disturbed'
  BY Zenon DEF ConsoleHandler, ProbeControl, Others, OutsideLocked, Outside, ToolInv, Flags,
         CallerInv, TypeOK
<1>1. page' \in Page
  <2>1. CASE ConsoleHandler
    BY Zenon, <1>0, <2>1 DEF ConsoleHandler, OutsideLocked, Outside
  <2>2. CASE ProbeControl
    BY Zenon, <2>2 DEF ProbeControl, Page
  <2>3. CASE Others
    BY Zenon, <1>0, <2>3 DEF Others, Page
  <2> QED BY Zenon, <2>1, <2>2, <2>3
<1>2. CallerInv'
  BY Zenon, <1>0, <1>1, CallerStays DEF ToolInv
<1>3. PassTruthful'
  BY <1>0, LiveVerifyAssumption DEF PassTruthful
<1>4. Flags' /\ Rollbacks'
  BY Zenon, <1>0 DEF ToolInv, Flags, Rollbacks
<1>5. Pages'
  BY SMTT(20), <1>0 DEF ToolInv, Pages, Verified, ReadBack, Returned, OfWrite
<1> QED BY Zenon, <1>2, <1>3, <1>4, <1>5 DEF ToolInv

\* A step in which nothing happens keeps the invariant.
LEMMA ToolStutter ==
    ASSUME ToolInv, UNCHANGED <<vars, lvars>>
    PROVE  ToolInv'
<1>0. /\ UNCHANGED <<page, gate, session, result, reviewed, trimmed>>
      /\ UNCHANGED <<lv, options, report, artifacts, original, exit_code, disturbed>>
  BY Zenon DEF vars, lvars
<1>1. CallerInv'
  BY Zenon, <1>0, CallerStays DEF ToolInv, CallerInv, TypeOK
<1>2. Flags' /\ Rollbacks'
  BY Zenon, <1>0 DEF ToolInv, Flags, Rollbacks
<1>3. Pages'
  BY Zenon, <1>0 DEF ToolInv, Pages, Verified, ReadBack, Returned, OfWrite
<1>4. PassTruthful'
  BY Zenon, <1>0 DEF ToolInv, PassTruthful
<1> QED BY Zenon, <1>1, <1>2, <1>3, <1>4 DEF ToolInv

\* The invariant holds before main.
LEMMA ToolInit == LVInit => ToolInv
<1> SUFFICES ASSUME LVInit PROVE ToolInv
  BY Zenon
<1>1. CallerInv /\ session = Cleared
  BY Zenon, SessionInitInv DEF LVInit, Init, SessionInv, CallerInv
<1>2. report \in Report /\ ~report.success /\ ~report.cancelled /\ ~report.rollback_suppressed
  BY Zenon DEF LVInit, EmptyReport, Report
<1>3. Flags /\ Rollbacks /\ Pages
  BY Zenon, <1>1, <1>2, ClearedFields DEF LVInit, Flags, Rollbacks, Pages
<1>4. PassTruthful
  BY LiveVerifyAssumption DEF LVInit, PassTruthful
<1> QED BY Zenon, <1>1, <1>3, <1>4 DEF ToolInv

\* Every step of the tool, of its operator and of everyone else.
LEMMA ToolNext == ToolInv /\ [LVNext]_<<vars, lvars>> => ToolInv'
BY MainStep, ProbeBeforeStep, LoadBaselineStep, SampleStep, EditStep, ApplyStep,
   AppliedStep, ReloadStep, FailureStep, CheckRollbackStep, UnlockRollbackStep,
   RestoreStep, AfterRollbackStep, FinalStep, EmergencyStep, ReportStep, AroundStep,
   ToolStutter DEF LVNext, Tool, Terminated

\* The invariant of kdbg_live_verify, whatever fails, whenever it is cancelled,
\* whoever else writes the page or resets the fixture.
THEOREM VerifierInvariant == LVSpec => []ToolInv
BY ToolInit, ToolNext, PTL DEF LVSpec

\* A writing run that exits with 0 was attested, confirmed, without error and not
\* cancelled, and left the page as it found it (PassTruthful).
THEOREM PassStaysTruthful == LVSpec => []PassTruthful
<1>1. ToolInv => PassTruthful
  BY Zenon DEF ToolInv
<1> QED BY <1>1, VerifierInvariant, PTL

\* The rollback of the verifier is neither forgotten nor blind (RollbackHonest).
THEOREM RollbackStaysHonest == LVSpec => RollbackHonest
<1>1. ToolInv => RollbackTried
  BY Zenon DEF ToolInv, Rollbacks, RollbackTried
<1>2. ToolInv /\ [LVNext]_<<vars, lvars>> =>
        [page' # page /\ lv' # lv =>
              /\ Confirmed(options)
              /\ IsLocalEvidence(options) /\ lv = "restore" =>
                     report.probe_identity_fresh_at_rollback]_<<vars, lvars>>
  <2> SUFFICES ASSUME ToolInv, LVNext, page' # page, lv' # lv
               PROVE  /\ Confirmed(options)
                      /\ IsLocalEvidence(options) /\ lv = "restore" =>
                             report.probe_identity_fresh_at_rollback
    BY Zenon
  <2>1. OneShotApply \/ RollbackFullPage \/ EmergencyRecovery
    BY Zenon DEF LVNext, Tool, Terminated, vars, Main, ProbeBefore, LoadBaseline, Load, ReadSample,
           FinishReadOnly, BeforeEdit, EditFixture, Goto, UnlockApply, UnlockForOneApply,
           PostApplyStatus, ProbeAfterWrite, ReloadAfterWrite, ReloadPreservingRollback,
           FinishAfterWriteFailure, CheckRollback, UnlockRollback, UnlockForRollback, Unlock,
           Local, PostRollbackRead, ProbeAfterRollback, FinalStatus, CloseAndReport,
           ConsoleHandler, ProbeControl, Others, OutsideLocked, Outside
  <2>2. CASE OneShotApply \/ RollbackFullPage
    BY Zenon, <2>2 DEF OneShotApply, RollbackFullPage, ToolInv, Flags, Rollbacks
  <2>3. CASE EmergencyRecovery
    <3>1. CanRollback(session) /\ ~IsLocalEvidence(options)
      BY Zenon, <2>3 DEF EmergencyRecovery
    <3>2. lv \notin {"main", "probe_before", "close", "done"}
      BY Zenon, <2>3, <3>1 DEF EmergencyRecovery, ToolInv, Rollbacks, NoRollback, CanRollback
    <3> QED BY Zenon, <3>1, <3>2 DEF ToolInv, Flags
  <2> QED BY Zenon, <2>1, <2>2, <2>3
<1> QED BY <1>1, <1>2, VerifierInvariant, PTL DEF LVSpec, RollbackHonest

\* What the verifier's session writes is what it had staged (ReviewedWritesOnly).
THEOREM VerifierWritesReviewed == LVSpec => ReviewedWritesOnly
<1>1. ToolInv /\ [LVNext]_<<vars, lvars>> =>
        [page' # page /\ session' # session /\ result' = "ok" =>
           <<page, page'>> \in {<<reviewed[1], reviewed[2]>>,
                               <<reviewed[4], reviewed[3]>>}]_vars
  <2> SUFFICES ASSUME ToolInv, LVNext, page' # page, session' # session, result' = "ok"
               PROVE  <<page, page'>> \in {<<reviewed[1], reviewed[2]>>,
                                           <<reviewed[4], reviewed[3]>>}
    BY Zenon DEF vars
  <2>1. ApplyAndVerify \/ RollbackBaseline
    BY Zenon DEF LVNext, Tool, Terminated, vars, Main, ProbeBefore, LoadBaseline, Load, ReadSample,
           FinishReadOnly, BeforeEdit, EditFixture, EditByte, UnlockApply, UnlockForOneApply,
           PostApplyStatus, ProbeAfterWrite, ReloadAfterWrite, ReloadPreservingRollback,
           FinishAfterWriteFailure, CheckRollback, UnlockRollback, UnlockForRollback, Unlock,
           Local, PostRollbackRead, ProbeAfterRollback, FinalStatus, CloseAndReport,
           ConsoleHandler, ProbeControl, Others, OutsideLocked, Outside, OneShotApply,
           RollbackFullPage, EmergencyRecovery
  <2> QED BY Zenon, <2>1, ReviewedStep DEF Next, ToolInv, CallerInv
<1> QED BY <1>1, VerifierInvariant, PTL DEF LVSpec, ReviewedWritesOnly
=============================================================================
