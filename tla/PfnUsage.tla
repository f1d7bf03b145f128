------------------------------ MODULE PfnUsage ------------------------------
(***************************************************************************)
(* Which process uses a page frame: ProcessUsagePanel, its worker thread,  *)
(* MemProcFsProvider and the memprocfs_bridge process it supervises.       *)
(*                                                                         *)
(* The bridge is a separate process that loads a third-party library: it   *)
(* may hang (no fairness is assumed of it), end at any moment with any     *)
(* exit code, and print text of its own into the pipe that carries its     *)
(* answer.  A line of that answer is a record; a mapping is the page frame *)
(* it was looked up for.                                                   *)
(***************************************************************************)
EXTENDS Integers, Sequences

CONSTANTS
    Pfn,             \* page frames the user inspects
    NoPfn,           \* std::nullopt
    PipeRecords,     \* kBridgePipeBytes, in records
    MaxBridgeOutput  \* kMaxBridgeOutput, in records

ASSUME UsageAssumption == MaxBridgeOutput \in Nat

VARIABLES
    loaded,          \* the frame of the page in the physical session
    job,             \* worker_ while it is joinable
    bridge,          \* the child process
    pipe, output,    \* the bytes in its pipe, and those the provider has read
    reply,           \* pending_result_ or pending_error_
    published,       \* published_pfn_ and mappings_
    navigation       \* navigation_: the mapping that was clicked

uvars == <<loaded, job, bridge, pipe, output, reply, published, navigation>>

Mapping(p) == <<"MAP", p>>
Header(p) == <<"KDBG_PFN_RESULT", p>>
End == <<"END", NoPfn>>
Text == <<"text", NoPfn>>

NoBridge == [alive |-> FALSE, script |-> <<>>, code |-> 0]

UInit ==
    /\ loaded = NoPfn /\ job = NoPfn /\ bridge = NoBridge
    /\ pipe = <<>> /\ output = <<>>
    /\ reply = NoPfn /\ published = NoPfn /\ navigation = NoPfn

QueryBusy == job # NoPfn /\ job.pc # "done"
At(l) == job # NoPfn /\ job.pc = l

keepPanel == <<loaded, published, navigation>>
keepBridge == <<bridge, pipe, output>>

\* Publish: a result of a worker that was told to go (generation_ moved on), or
\* for another frame, is not a result.
Publish(r) ==
    /\ reply' = CASE ~job.fresh -> reply
                  [] job.fresh /\ r.ok /\ r.pfn # job.pfn -> [r EXCEPT !.ok = FALSE]
                  [] OTHER -> r
    /\ job' = [job EXCEPT !.pc = "done"]
Failure == [ok |-> FALSE, pfn |-> NoPfn, mappings |-> <<>>]
Success(p, maps) == [ok |-> TRUE, pfn |-> p, mappings |-> maps]
-----------------------------------------------------------------------------
\* main of the bridge: what it writes for frame p, and its exit code.  Its Fail
\* writes a line to the same pipe.
Answers(p) ==
    {[script |-> <<Header(p), Mapping(p), End>>, code |-> 0],
     [script |-> <<Header(p), Text>>, code |-> 2],
     [script |-> <<Text>>, code |-> 2]}

\* The library prints, before the answer or without end.
LibraryPrints(p) ==
    {[script |-> <<Text, Header(p), Mapping(p), End>>, code |-> 0],
     [script |-> [i \in 1..(MaxBridgeOutput + 1) |-> Text], code |-> 0]}

BridgeWrites ==
    /\ bridge.alive /\ bridge.script # <<>> /\ Len(pipe) < PipeRecords
    /\ pipe' = Append(pipe, Head(bridge.script))
    /\ bridge' = [bridge EXCEPT !.script = Tail(@)]
    /\ UNCHANGED <<job, output, reply, keepPanel>>

BridgeReturns ==
    /\ bridge.alive /\ bridge.script = <<>>
    /\ bridge' = [bridge EXCEPT !.alive = FALSE]
    /\ UNCHANGED <<pipe, job, output, reply, keepPanel>>

\* A crash, or the library ends the process.
BridgeDies ==
    /\ bridge.alive
    /\ \E code \in {0, 2} :
         bridge' = [alive |-> FALSE, script |-> <<>>, code |-> code]
    /\ UNCHANGED <<pipe, job, output, reply, keepPanel>>
-----------------------------------------------------------------------------
\* ParseOutput: the header of this frame, mappings, END and nothing after it.
SkipEnd(p, out) ==                                            \* faulty variant
    /\ out # <<>> /\ out[1] = Header(p)
    /\ \A i \in 2..Len(out) : out[i] # Text
WellFormed(p, out) ==
    /\ out # <<>> /\ out[1] = Header(p)
    /\ \A i \in 2..(Len(out) - 1) : out[i][1] = "MAP"
    /\ Len(out) > 1 /\ out[Len(out)] = End
Mappings(out) == SubSeq(out, 2, Len(out) - 1)
ParseOutput(p, out) ==
    IF WellFormed(p, out) THEN Success(p, Mappings(out)) ELSE Failure

\* drain_available: everything the pipe holds, up to the limit.
Overflows == Len(output) + Len(pipe) > MaxBridgeOutput
Drain == output' = output \o pipe /\ pipe' = <<>>

\* Query and Execute up to ResumeThread.  A stop request, a missing file, a
\* process that does not start or does not join its job ends the query.
Launch ==
    /\ At("launch")
    /\ \/ ~job.stop
          /\ \E a \in Answers(job.pfn) \cup LibraryPrints(job.pfn) :
               bridge' = [alive |-> TRUE, script |-> a.script, code |-> a.code]
          /\ job' = [job EXCEPT !.pc = "drain"] /\ reply' = reply
       \/ Publish(Failure) /\ UNCHANGED bridge
    /\ pipe' = <<>> /\ output' = <<>>
    /\ UNCHANGED keepPanel

\* The supervision loop: drain, then look at the process, the stop token and
\* the clock, then wait for a moment.
SuperviseDrain ==
    /\ At("drain")
    /\ IF Overflows
       THEN job' = [job EXCEPT !.pc = "terminate"] /\ UNCHANGED <<pipe, output>>
       ELSE job' = [job EXCEPT !.pc = "check"] /\ Drain
    /\ UNCHANGED <<bridge, reply, keepPanel>>

IgnoreClock == job.stop                                       \* faulty variant
MustTerminate == job.stop \/ job.late
SuperviseCheck ==
    /\ At("check")
    /\ job' = [job EXCEPT !.pc = CASE ~bridge.alive -> "exited"
                                   [] bridge.alive /\ MustTerminate -> "terminate"
                                   [] OTHER -> "wait"]
    /\ UNCHANGED <<keepBridge, reply, keepPanel>>

SuperviseWait ==
    /\ At("wait")
    /\ job' = [job EXCEPT !.pc = IF bridge.alive THEN "drain" ELSE "exited"]
    /\ UNCHANGED <<keepBridge, reply, keepPanel>>

\* WaitForSingleObject or PeekNamedPipe fails.
SuperviseFails ==
    /\ At("drain") \/ At("check") \/ At("wait")
    /\ job' = [job EXCEPT !.pc = "terminate"]
    /\ UNCHANGED <<keepBridge, reply, keepPanel>>

\* TerminateJobObject, and the job closes with everything in it.
Terminate ==
    /\ At("terminate")
    /\ bridge' = NoBridge
    /\ pipe' = <<>> /\ output' = <<>>
    /\ Publish(Failure)
    /\ UNCHANGED keepPanel

\* The process is gone: what is left in the pipe is read until the pipe breaks,
\* or until its own deadline.
FinalDrain ==
    /\ At("exited")
    /\ pipe' = <<>> /\ output' = <<>> /\ bridge' = NoBridge
    /\ \/ Publish(Failure)
       \/ /\ ~Overflows /\ bridge.code = 0
          /\ Publish(ParseOutput(job.pfn, output \o pipe))
    /\ UNCHANGED keepPanel

\* The clock passes the deadline of the query.
Timeout ==
    /\ QueryBusy /\ bridge.alive /\ ~job.late
    /\ job' = [job EXCEPT !.late = TRUE]
    /\ UNCHANGED <<keepBridge, reply, keepPanel>>

\* The worker of StartReverseMap: the process context, the stop token, and the
\* walk of the page tables (module Paging), which fails as a whole.
ReadContext ==
    /\ At("context")
    /\ \/ ~job.stop /\ job' = [job EXCEPT !.pc = "walk"] /\ reply' = reply
       \/ Publish(Failure)
    /\ UNCHANGED <<keepBridge, keepPanel>>

WalkTables ==
    /\ At("walk")
    /\ \/ ~job.stop /\ Publish(Success(job.pfn, <<Mapping(job.pfn)>>))
       \/ Publish(Failure)
    /\ UNCHANGED <<keepBridge, keepPanel>>
-----------------------------------------------------------------------------
\* The UI thread is neither waiting in CancelAndWait nor following a click.
UiFree == ~(job # NoPfn /\ ~job.fresh) /\ navigation = NoPfn

\* Both start functions: a finished worker is joined, its result dropped.
StartQuery(pc) ==
    /\ UiFree /\ loaded # NoPfn /\ ~QueryBusy
    /\ job' = [pc |-> pc, pfn |-> loaded, stop |-> FALSE, late |-> FALSE,
               fresh |-> TRUE]
    /\ reply' = NoPfn
    /\ UNCHANGED <<keepBridge, keepPanel>>

StartMemProcFs == StartQuery("launch")
StartReverseMap == StartQuery("context")

ConsumeUsage ==
    /\ UiFree /\ job # NoPfn /\ ~QueryBusy
    /\ published' = CASE reply = NoPfn -> published
                      [] reply # NoPfn /\ reply.ok ->
                           [pfn |-> reply.pfn, mappings |-> reply.mappings]
                      [] OTHER -> NoPfn
    /\ job' = NoPfn /\ reply' = NoPfn
    /\ UNCHANGED <<loaded, navigation, keepBridge>>

CancelQuery ==
    /\ UiFree /\ QueryBusy
    /\ job' = [job EXCEPT !.stop = TRUE]
    /\ UNCHANGED <<keepBridge, reply, keepPanel>>

\* CancelAndWait, before the driver changes and when the window closes: first
\* the request, and after the join the rest.
CancelAndWait ==
    /\ UiFree /\ job # NoPfn
    /\ job' = [job EXCEPT !.stop = TRUE, !.fresh = FALSE]
    /\ UNCHANGED <<keepBridge, reply, keepPanel>>

Joined ==
    /\ job # NoPfn /\ ~QueryBusy /\ ~job.fresh
    /\ job' = NoPfn /\ reply' = NoPfn
    /\ UNCHANGED <<keepBridge, keepPanel>>

\* Another page is loaded, or none.
LoadPage ==
    /\ UiFree /\ loaded' \in Pfn \cup {NoPfn}
    /\ UNCHANGED <<job, keepBridge, reply, published, navigation>>

\* The buttons of DrawResults.
NotStale == published.pfn = loaded
Navigate ==
    /\ UiFree /\ published # NoPfn /\ loaded # NoPfn /\ NotStale
    /\ \E i \in 1..Len(published.mappings) : navigation' = published.mappings[i]
    /\ UNCHANGED <<loaded, job, keepBridge, reply, published>>

ConsumeNavigation ==
    /\ navigation # NoPfn /\ navigation' = NoPfn
    /\ UNCHANGED <<loaded, job, keepBridge, reply, published>>

Supervise ==
    \/ Launch \/ SuperviseDrain \/ SuperviseCheck \/ SuperviseWait
    \/ SuperviseFails \/ Terminate \/ FinalDrain \/ ReadContext \/ WalkTables

UNext ==
    \/ Supervise
    \/ Timeout
    \/ BridgeWrites
    \/ BridgeReturns
    \/ BridgeDies
    \/ StartMemProcFs
    \/ StartReverseMap
    \/ ConsumeUsage
    \/ CancelQuery
    \/ CancelAndWait
    \/ Joined
    \/ LoadPage
    \/ Navigate
    \/ ConsumeNavigation

\* The worker thread runs and the clock advances; the bridge owes nothing.
UFairness == WF_uvars(Supervise) /\ WF_uvars(Timeout)
USpec == UInit /\ [][UNext]_uvars /\ UFairness
-----------------------------------------------------------------------------
\* The mappings on display are the whole answer for the frame they are labelled
\* with: never the part that a bridge wrote before it died, never an answer
\* mixed with other output, whatever the exit code.  And a click leads to a
\* mapping of the frame that is loaded, although queries for other frames may
\* have been answered, cancelled or dropped since.
AnswerWhole ==
    /\ published # NoPfn => published.mappings = <<Mapping(published.pfn)>>
    /\ navigation # NoPfn => navigation = Mapping(loaded)

\* Every query ends, whatever the bridge does, and no bridge outlives it.
QueryEnds == QueryBusy ~> (~QueryBusy /\ ~bridge.alive)
=============================================================================
