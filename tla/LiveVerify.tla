----------------------------- MODULE LiveVerify -----------------------------
(***************************************************************************)
(* kdbg_live_verify: one run of the command-line tool that writes the page *)
(* of the KDbgProbe fixture, reads it back through three ways and restores *)
(* it, composed with the PhysicalPageSession it drives.                    *)
(*                                                                         *)
(* Every call on the backend or the Probe device is a step and may fail;   *)
(* the operator may cancel, the fixture may be reset and, with             *)
(* ExternalWriters, someone may write the page between any two of them.    *)
(* Run may also throw between two calls (std::bad_alloc), which is what    *)
(* EmergencyRecoveryGuard is for.  A CRC is the page it is computed from.  *)
(***************************************************************************)
EXTENDS PhysicalPageSession

CONSTANTS
    ReadSamples,      \* options.read_samples
    MaxGeneration     \* bound on the resets of the fixture

\* A byte can be changed, and no exit code stands for a running process.
ASSUME LiveVerifyAssumption ==
    /\ \A b \in Byte : \E x \in Byte : x # b
    /\ None \notin 0 .. 3

VARIABLES
    lv,               \* the next step of main and Run
    options,          \* the parsed command line
    report,           \* VerificationReport, the flags the control depends on
    artifacts,        \* report.raw_page_artifacts
    probe,            \* KDbgProbe: the generation of its page
    probe_before,     \* report.probe_before: generation and CRC
    original,         \* the page of the baseline load
    samples,          \* read samples still to take
    cancelled,        \* g_cancelled
    exit_code,        \* of the process; None while it runs
    disturbed         \* history: the page was written or the fixture reset by
                      \* someone else

lvars == <<lv, options, report, artifacts, probe, probe_before, original,
           samples, cancelled, exit_code, disturbed>>

\* A PFN on the command line is that of the fixture, another one or absent.
Pfn == {"probe", "other"}
Options == [write : BOOLEAN, baremetal : BOOLEAN, raw : BOOLEAN,
            vm : BOOLEAN, snapshot_id : BOOLEAN, directory : BOOLEAN,
            confirm_probe_pfn : Pfn \cup {None}, raw_pfn : Pfn \cup {None},
            confirm_raw_pfn : Pfn \cup {None}]

IsLocalEvidence(o) == o.baremetal \/ o.raw

\* ParseOptions, the checks after the last argument.
ParseOptions(o) ==
    LET vm == o.vm \/ o.snapshot_id
        rawPfn == o.raw_pfn # None \/ o.confirm_raw_pfn # None
    IN  CASE ~o.write ->
               ~o.baremetal /\ ~o.raw /\ ~vm /\ ~rawPfn /\ ~o.directory
                 /\ o.confirm_probe_pfn = None
          [] o.write /\ o.raw ->
               /\ ~o.baremetal /\ ~vm /\ o.confirm_probe_pfn = None
               /\ o.raw_pfn # None /\ o.raw_pfn = o.confirm_raw_pfn
               /\ o.directory
          [] o.write /\ ~o.raw /\ o.baremetal ->
               ~vm /\ ~rawPfn /\ o.confirm_probe_pfn # None /\ o.directory
          [] OTHER ->
               /\ o.vm /\ o.snapshot_id /\ o.confirm_probe_pfn # None
               /\ ~rawPfn

EmptyReport ==
    [errors |-> FALSE, success |-> FALSE, cancelled |-> FALSE,
     failing |-> FALSE, probe_identity_fresh_at_rollback |-> FALSE,
     rollback_attempted |-> FALSE,
     rollback_verified |-> FALSE, rollback_suppressed |-> FALSE,
     final_gate_locked |-> FALSE, attested |-> FALSE]

LVInit ==
    /\ Init
    /\ lv = "main"
    /\ options \in Options
    /\ report = EmptyReport
    /\ artifacts = NoEvidence
    /\ probe = 0 /\ probe_before = None
    /\ original = None
    /\ samples = ReadSamples
    /\ cancelled = FALSE
    /\ exit_code = None
    /\ disturbed = FALSE
-----------------------------------------------------------------------------
AddError(r) == [r EXCEPT !.errors = TRUE, !.success = FALSE]
AddCancelled(r) == [AddError(r) EXCEPT !.cancelled = TRUE]

Goto(step, r) == lv' = step /\ report' = r
Abort == Goto("close", AddError(report))

\* A step that calls nothing of the session.
Outside == UNCHANGED <<page, session, result, reviewed, trimmed>>
OutsideLocked == Outside /\ UNCHANGED gate
Same == UNCHANGED <<options, probe, cancelled, disturbed>>
Quiet == Same /\ UNCHANGED <<probe_before, original, samples, artifacts, exit_code>>

\* capture_evidence: the pages the session has, over the ones captured before.
Capture(s) == [role \in DOMAIN artifacts |->
                  IF IsLocalEvidence(options) /\ s.evidence[role] # None
                  THEN s.evidence[role] ELSE artifacts[role]]
CaptureEvidence ==
    /\ artifacts' = Capture(session')
    /\ Same /\ UNCHANGED <<probe_before, original, samples, exit_code>>

\* An answer of ProbeClient::Query, taken under the lock of the fixture.
ProbeInfo == [generation |-> probe, crc |-> page]
SameProbeIdentity == ProbeInfo.generation = probe_before.generation
-----------------------------------------------------------------------------
\* WriteEvidence: a temporary file and a rename; the exit code tells both.
WriteEvidence(success) == exit_code' \in {3, IF success THEN 0 ELSE 1}

\* What the host shows of a driver service: its configuration and state can be
\* queried, its binary is the one of the package, it runs as a kernel driver.
ServiceView == [queried : BOOLEAN, packaged : BOOLEAN, running : BOOLEAN]
Host == [supported : BOOLEAN, in_package : BOOLEAN, output_inside : BOOLEAN,
         services : [{"KDBG", "KDBGProbe"} -> ServiceView]]

CaptureServiceIdentity(s) == s.queried /\ s.packaged /\ s.running
CaptureRuntimeIdentity(h) ==
    h.in_package /\ \A n \in DOMAIN h.services : CaptureServiceIdentity(h.services[n])

\* main before Run: the command line, evidence kept out of the package, the
\* attested identity of the package and of the two services, and the opening of
\* both devices.
Main ==
    /\ lv = "main"
    /\ \/ /\ ~ParseOptions(options)
          /\ exit_code' = 2
          /\ Goto("done", report)
       \/ /\ ParseOptions(options)
          /\ \E host \in Host :
               LET attested == host.supported /\ CaptureRuntimeIdentity(host)
               IN  \/ /\ host.in_package /\ host.output_inside
                      /\ exit_code' = 2
                      /\ Goto("done", report)
                   \/ /\ ~(host.in_package /\ host.output_inside)
                      /\ WriteEvidence(FALSE)
                      /\ Goto("done", [AddError(report) EXCEPT !.attested = attested])
                   \/ /\ ~(host.in_package /\ host.output_inside) /\ attested
                      /\ exit_code' = None
                      /\ Goto("probe_before", [report EXCEPT !.attested = TRUE])
    /\ OutsideLocked /\ Same
    /\ UNCHANGED <<probe_before, original, samples, artifacts>>

\* Run checks the authorisation of the options again.
Authorized(o) ==
    /\ o.baremetal => o.write /\ o.confirm_probe_pfn # None /\ o.directory
    /\ o.raw => /\ o.write /\ o.directory
               /\ o.raw_pfn # None /\ o.raw_pfn = o.confirm_raw_pfn
    /\ o.write /\ ~IsLocalEvidence(o) =>
           o.vm /\ o.snapshot_id /\ o.confirm_probe_pfn # None

\* The target must be the page of the fixture the operator named.
Confirmed(o) ==
    CASE ~o.write -> TRUE
      [] o.write /\ o.raw -> o.raw_pfn = "probe"
      [] OTHER -> o.confirm_probe_pfn = "probe"

\* The first Probe query, the checks of the target and of the closed gate.
ProbeBefore ==
    /\ lv = "probe_before"
    /\ \/ Abort /\ UNCHANGED probe_before
       \/ /\ Authorized(options)
          /\ probe_before' = ProbeInfo
          /\ IF Confirmed(options) /\ ~gate THEN Goto("load", report) ELSE Abort
    /\ OutsideLocked /\ Same
    /\ UNCHANGED <<original, samples, artifacts, exit_code>>

LoadBaseline ==
    /\ lv = "load"
    /\ Load
    /\ IF result' = "ok"
       THEN Goto("sample", report) /\ original' = session'.baseline
       ELSE Abort /\ UNCHANGED original
    /\ Same /\ UNCHANGED <<probe_before, samples, artifacts, exit_code>>

ReadSample ==
    /\ lv = "sample" /\ samples > 0
    /\ samples' = samples - 1
    /\ \/ cancelled /\ Goto("close", AddCancelled(report))
       \/ ~cancelled /\ Abort
       \/ ~cancelled /\ page = original /\ Goto("sample", report)
    /\ OutsideLocked /\ Same
    /\ UNCHANGED <<probe_before, original, artifacts, exit_code>>

\* Read-only mode ends after the samples, with the gate seen closed.
FinishReadOnly ==
    /\ lv = "sample" /\ samples = 0 /\ ~options.write
    /\ \/ Abort
       \/ ~gate /\ Goto("close", [report EXCEPT !.final_gate_locked = TRUE,
                                                !.success = TRUE])
    /\ OutsideLocked /\ Quiet

BeforeEdit ==
    /\ lv = "sample" /\ samples = 0 /\ options.write
    /\ IF cancelled THEN Goto("close", AddCancelled(report)) ELSE Goto("edit", report)
    /\ OutsideLocked /\ Quiet

\* original[offset] ^ mask: every byte of the mask is nonzero.
Flip(b) == CHOOSE x \in Byte : x # b

EditFixture ==
    /\ lv = "edit" /\ Goto("edit", report)
    /\ \E o \in Offset \ session.dirty : EditByte(o, Flip(original[o]))
    /\ Quiet

UnlockApply ==
    /\ lv = "edit" /\ session.dirty = Offset
    /\ UnlockForOneApply
    /\ Goto("apply", report)
    /\ Quiet
-----------------------------------------------------------------------------
Fail == Goto("failure", [AddError(report) EXCEPT !.failing = TRUE])
FailCancelled == Goto("failure", [AddCancelled(report) EXCEPT !.failing = TRUE])

OneShotApply ==
    /\ lv = "apply"
    /\ ApplyAndVerify
    /\ IF result' = "ok" THEN Goto("applied", report) ELSE Fail
    /\ CaptureEvidence

PostApplyStatus ==
    /\ lv = "applied"
    /\ \/ Fail
       \/ ~gate /\ cancelled /\ FailCancelled
       \/ ~gate /\ ~cancelled /\ Goto("probe_after", report)
    /\ OutsideLocked /\ Quiet

\* query_probe after the write; a stale identity ends every rollback of a local
\* run.  The cancellation check that follows is made in the same step.
ProbeAfterWrite ==
    /\ lv = "probe_after"
    /\ \/ Fail
       \/ /\ ~SameProbeIdentity
          /\ Goto("failure", [AddError(report) EXCEPT
                 !.failing = TRUE,
                 !.rollback_suppressed = IsLocalEvidence(options)])
       \/ /\ SameProbeIdentity /\ page = session.baseline
          /\ IF cancelled THEN FailCancelled ELSE Goto("reload", report)
    /\ OutsideLocked /\ Quiet

ReloadAfterWrite ==
    /\ lv = "reload"
    /\ ReloadPreservingRollback
    /\ IF result' # "ok" THEN Fail
       ELSE Goto("rollback", IF cancelled THEN AddCancelled(report) ELSE report)
    /\ CaptureEvidence

\* final_relock: SetWriteEnabled(false); without an answer it may have worked.
FinalRelock(answered) == IF answered THEN gate' = FALSE ELSE Relock(gate)
Relocked(answered) == IF answered THEN report ELSE AddError(report)

\* finish_after_write_failure up to the rollback.
AfterFailedWrite(s) == IF CanRollback(s) THEN "rollback" ELSE "relock"
FinishAfterWriteFailure ==
    /\ lv = "failure"
    /\ \E answered \in BOOLEAN :
         FinalRelock(answered) /\ Goto(AfterFailedWrite(session), Relocked(answered))
    /\ Outside /\ Quiet

AfterRollback == IF report.failing THEN "relock" ELSE "post_read"
Suppressed == [AddError(report) EXCEPT !.rollback_suppressed = TRUE]

\* rollback, first part: a local run queries the Probe again and writes nothing
\* when that fails or shows another fixture.
AnyIdentity == TRUE                                           \* faulty variant
FreshIdentity == SameProbeIdentity
CheckRollback ==
    /\ lv = "rollback"
    /\ LET local == IsLocalEvidence(options)
           attempt == [report EXCEPT
               !.rollback_attempted = TRUE,
               !.probe_identity_fresh_at_rollback = local /\ SameProbeIdentity]
       IN  \/ local /\ report.rollback_suppressed /\ Goto(AfterRollback, report)
           \/ /\ local /\ ~report.rollback_suppressed
              /\ Goto(AfterRollback, Suppressed)
           \/ /\ local => ~report.rollback_suppressed /\ FreshIdentity
              /\ IF CanRollback(session) THEN Goto("unlock", attempt)
                 ELSE Goto(AfterRollback, AddError(attempt))
    /\ OutsideLocked /\ Quiet

UnlockRollback ==
    /\ lv = "unlock"
    /\ UnlockForRollback
    /\ Goto("restore", report)
    /\ Quiet

RollbackFullPage ==
    /\ lv = "restore"
    /\ RollbackBaseline
    /\ Goto(AfterRollback, IF result' = "ok"
                           THEN [report EXCEPT !.rollback_verified = TRUE]
                           ELSE AddError(report))
    /\ CaptureEvidence

\* ReadPhysical after the rollback.
PostRollbackRead ==
    /\ lv = "post_read"
    /\ \/ Goto("probe_final", AddError(report))
       \/ page = original /\ Goto("probe_final", report)
    /\ OutsideLocked /\ Quiet

\* The last Probe query: generation, identity and CRC of the first one.
ProbeAfterRollback ==
    /\ lv = "probe_final"
    /\ \/ Goto("relock", AddError(report))
       \/ /\ SameProbeIdentity /\ page = probe_before.crc
          /\ Goto("relock", report)
    /\ OutsideLocked /\ Quiet

Forgive(r) == r.rollback_verified /\ r.final_gate_locked      \* faulty variant
Success(r) == ~r.errors /\ r.rollback_verified /\ r.final_gate_locked

\* The last final_relock and query_session, which may fail as well; a failed
\* run returns here without computing success.
FinalStatus ==
    /\ lv = "relock"
    /\ \E answered \in BOOLEAN :
         LET r == Relocked(answered)
             locked == [r EXCEPT !.final_gate_locked = TRUE]
         IN  /\ FinalRelock(answered)
             /\ \/ Goto("close", AddError(r))
                \/ /\ ~gate'
                   /\ Goto("close", [locked EXCEPT
                                        !.success = ~r.failing /\ Success(locked)])
    /\ Outside /\ Quiet

\* An exception leaves Run: ~EmergencyRecoveryGuard closes the gate, restores
\* the page of a VM run that had not tried to, and closes the gate again; main
\* writes a FailureReport.
EmergencyRecovery ==
    /\ lv \notin {"main", "close", "done"}
    /\ Goto("close", AddError(EmptyReport))
    /\ IF options.write /\ ~IsLocalEvidence(options) /\ CanRollback(session)
          /\ ~report.rollback_attempted
       THEN \E outcome \in {"Applied", "Conflict", "Failure", "error"} :
              CompareWrite(session.rollback_expected, session.rollback_snapshot,
                           outcome)
       ELSE UNCHANGED page
    /\ IF options.write THEN Relock(gate) ELSE UNCHANGED gate
    /\ session' = Cleared /\ reviewed' = Unreviewed /\ result' = "failed"
    /\ artifacts' = NoEvidence
    /\ trimmed' = FALSE
    /\ Same /\ UNCHANGED <<probe_before, original, samples, exit_code>>

\* main after Run: both devices are closed, which closes the gate; a local run
\* must have published all six pages.
SixPages == \A role \in DOMAIN artifacts : artifacts[role] # None
CloseAndReport ==
    /\ lv = "close"
    /\ \E published \in BOOLEAN :
         /\ published => SixPages \/ ~IsLocalEvidence(options)
         /\ ~published => IsLocalEvidence(options)
         /\ WriteEvidence(report.success /\ published)
         /\ Goto("done", IF published THEN report ELSE AddError(report))
    /\ gate' = FALSE
    /\ Outside /\ Same
    /\ UNCHANGED <<probe_before, original, samples, artifacts>>
-----------------------------------------------------------------------------
\* ConsoleHandler.
ConsoleHandler ==
    /\ lv # "done" /\ ~cancelled /\ cancelled' = TRUE
    /\ OutsideLocked
    /\ UNCHANGED <<lv, options, report, artifacts, probe, probe_before,
                   original, samples, exit_code, disturbed>>

\* KDbgProbe: ResetPattern or a fill gives the fixture a new generation.  The
\* device serves the process that owns it only; Run, which is given the query as
\* a parameter, does not rely on that.
ProbeControl ==
    /\ lv # "done" /\ probe < MaxGeneration
    /\ probe' = probe + 1 /\ disturbed' = TRUE
    /\ \E b \in Byte : page' = [o \in Offset |-> b]
    /\ UNCHANGED <<gate, session, result, reviewed, trimmed, lv, options, report,
                   artifacts, probe_before, original, samples, cancelled,
                   exit_code>>

Others ==
    /\ ExternalWriters /\ lv # "done"
    /\ disturbed' = TRUE
    /\ \E o \in Offset : \E b \in Byte \ {page[o]} :
           page' = [page EXCEPT ![o] = b]
    /\ UNCHANGED <<gate, session, result, reviewed, trimmed, lv, options, report,
                   artifacts, probe, probe_before, original, samples, cancelled,
                   exit_code>>

Terminated == lv = "done" /\ UNCHANGED <<vars, lvars>>

Tool ==
    \/ Main
    \/ ProbeBefore
    \/ LoadBaseline
    \/ ReadSample
    \/ FinishReadOnly
    \/ BeforeEdit
    \/ EditFixture
    \/ UnlockApply
    \/ OneShotApply
    \/ PostApplyStatus
    \/ ProbeAfterWrite
    \/ ReloadAfterWrite
    \/ FinishAfterWriteFailure
    \/ CheckRollback
    \/ UnlockRollback
    \/ RollbackFullPage
    \/ PostRollbackRead
    \/ ProbeAfterRollback
    \/ FinalStatus
    \/ EmergencyRecovery
    \/ CloseAndReport

LVNext == Tool \/ ConsoleHandler \/ ProbeControl \/ Others \/ Terminated

LVSpec == LVInit /\ [][LVNext]_<<vars, lvars>>
-----------------------------------------------------------------------------
\* PASS is earned: a write run that exits with 0 was attested and not cancelled,
\* saw the fixture it started with, has six pages that agree with each other (a local
\* run) and, unless someone else wrote the page, left it as it found it.
PassTruthful ==
    exit_code = 0 /\ options.write =>
        /\ report.attested /\ ~report.errors /\ ~report.cancelled
        /\ Confirmed(options)
        /\ IsLocalEvidence(options) =>
               Complete(artifacts) /\ artifacts.baseline = original
        /\ ~disturbed => page = original

\* A page that the run modified and could still restore is not left behind: the
\* rollback was attempted, or suppressed because the fixture is another one or
\* did not answer.  (The session of a run that returned lives until "close".)
RollbackTried ==
    lv = "close" /\ ~disturbed /\ original # None /\ page # original
        /\ CanRollback(session)
        => report.rollback_attempted \/ report.rollback_suppressed

\* The rollback of the tool is neither forgotten nor blind.  RollbackTried holds;
\* and it "suppresses the rollback write if that identity is stale": no run
\* writes a page that was not confirmed, and a local run restores the page only
\* after a Probe query that showed the fixture it started with.  (A step of the
\* tool that writes the page moves lv, one of the others does not.)
RollbackHonest ==
    /\ []RollbackTried
    /\ [][page' # page /\ lv' # lv =>
              /\ Confirmed(options)
              /\ IsLocalEvidence(options) /\ lv = "restore" =>
                     report.probe_identity_fresh_at_rollback]_<<vars, lvars>>
=============================================================================
