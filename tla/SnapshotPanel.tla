--------------------------- MODULE SnapshotPanel ----------------------------
(***************************************************************************)
(* SnapshotPanel: captures, loads, saves and compares two snapshots on one *)
(* worker thread at a time.  The UI thread draws frame after frame; a      *)
(* frame consumes the worker's result, samples running_ to enable the      *)
(* buttons, may handle one click and draws the table of differences.  The  *)
(* worker finishes at any point between those steps.                       *)
(*                                                                         *)
(* The target changes its memory while it is read, so a chunk may hold any *)
(* bytes.  The workers of Compare and Save are given pointers into         *)
(* baseline_ and current_; what they read from a snapshot that was         *)
(* destroyed meanwhile is arbitrary.                                       *)
(***************************************************************************)
EXTENDS MemorySnapshot

CONSTANTS
    SnapByte,      \* byte values
    SnapRange,     \* the <<address, size>> pairs the user types
    Chunk,         \* chunk_size
    MaxDiffRuns    \* the values of max_diff_runs_

VARIABLES
    attached,      \* memory_ # nullptr
    baseline, current, diffs,
    task,          \* worker_ with its operation, while it is joinable
    pending,       \* pending_result_
    frame,         \* where the UI thread is in Draw
    saved,         \* the snapshot in the file
    raced          \* history: a button was used with a result not yet consumed,
                   \* and the table has not been empty since without a worker

pvars == <<attached, baseline, current, diffs, task, pending, frame, saved,
           raced>>

Attached == "attached"

\* A snapshot of another process, whose bytes this one does not have.
Foreign == SnapshotOf("foreign", 1, [i \in 1..3 |-> "other"])

SPInit ==
    /\ attached = FALSE
    /\ baseline = NoSnapshot /\ current = NoSnapshot /\ diffs = <<>>
    /\ task = NoSnapshot /\ pending = NoSnapshot
    /\ frame = "idle"
    /\ saved \in {NoSnapshot, Foreign}
    /\ raced = FALSE

Running == task # NoSnapshot /\ task.running

NoRange == <<0, 0>>
WorkerOperation ==
    {"None", "CaptureBaseline", "CaptureCurrent", "SaveBaseline", "SaveCurrent",
     "LoadBaseline", "LoadCurrent", "Diff"}

\* A joinable thread: what it was started with, the bytes it has read and its flags.
PanelTask ==
    [op : WorkerOperation, range : SnapRange \cup {NoRange},
     max_runs : MaxDiffRuns \cup {0}, got : Seq(SnapByte),
     stop : BOOLEAN, fresh : BOOLEAN, running : BOOLEAN]

ASSUME PanelAssumption ==
    /\ SnapRange \subseteq Nat \X Nat /\ Chunk \in Nat \ {0}
    /\ NoSnapshot \notin PanelTask

NewTask(op, range, max_runs) ==
    [op |-> op, range |-> range, max_runs |-> max_runs, got |-> <<>>,
     stop |-> FALSE, fresh |-> TRUE, running |-> TRUE]

\* The worker ends: it publishes its result unless generation_ moved on.
PublishSnapshot(r) ==
    /\ pending' = IF task.fresh THEN r ELSE pending
    /\ task' = [NewTask("None", NoRange, 0) EXCEPT !.running = FALSE]
Completed(op, value) == [op |-> op, ok |-> TRUE, value |-> value]
Failed(op) == [op |-> op, ok |-> FALSE, value |-> NoSnapshot]

KeepPanel == UNCHANGED <<attached, baseline, current, diffs, frame, raced>>

\* A stop request, a failed read or an exhausted budget ends any operation.
WorkerFails ==
    /\ Running
    /\ PublishSnapshot(Failed(task.op))
    /\ KeepPanel /\ UNCHANGED saved

\* One turn of the loop of CaptureWithReader.
ReadChunk ==
    /\ Running /\ task.op \in {"CaptureBaseline", "CaptureCurrent"} /\ ~task.stop
    /\ Len(task.got) < task.range[2]
    /\ LET left == task.range[2] - Len(task.got)
           n == IF left < Chunk THEN left ELSE Chunk
       IN  \E bytes \in [1..n -> SnapByte] :
             task' = [task EXCEPT !.got = @ \o bytes]
    /\ KeepPanel /\ UNCHANGED <<pending, saved>>

CaptureDone ==
    /\ Running /\ task.op \in {"CaptureBaseline", "CaptureCurrent"} /\ ~task.stop
    /\ Len(task.got) = task.range[2]
    /\ PublishSnapshot(Completed(task.op, SnapshotOf(Attached, task.range[1], task.got)))
    /\ KeepPanel /\ UNCHANGED saved

\* Since it was saved the file may have been cut or extended, or one of its data
\* bytes, its byte count or its checksum may have changed.  The process and the
\* address in the header are left alone: the checksum is that of the data, so Load
\* takes them as they are.
Damaged(f) ==
    {[f EXCEPT !.payload = SubSeq(@, 1, n)] : n \in 0..(Len(f.payload) - 1)}
        \cup {[f EXCEPT !.payload = Append(@, b)] : b \in SnapByte}
        \cup {[f EXCEPT !.payload[i] = b] : i \in 1..Len(f.payload), b \in SnapByte}
        \cup {[f EXCEPT !.byte_count = n] : n \in 0..(Len(f.payload) + 1)}
        \cup {[f EXCEPT !.checksum = Append(@, b)] : b \in SnapByte}

LoadDone ==
    /\ Running /\ task.op \in {"LoadBaseline", "LoadCurrent"} /\ ~task.stop
    /\ saved # NoSnapshot
    /\ \E f \in {Encode(saved)} \cup Damaged(Encode(saved)) :
         PublishSnapshot(IF Decode(f) = NoSnapshot THEN Failed(task.op)
                 ELSE Completed(task.op, Decode(f)))
    /\ KeepPanel /\ UNCHANGED saved

\* The flushed temporary file takes the place of the old one as a whole.
ReplaceAtomically(snapshot) == saved' = snapshot

SaveDone ==
    /\ Running /\ task.op \in {"SaveBaseline", "SaveCurrent"} /\ ~task.stop
    /\ LET source == IF task.op = "SaveBaseline" THEN baseline ELSE current
       IN  source # NoSnapshot /\ ReplaceAtomically(source)
    /\ PublishSnapshot(Completed(task.op, NoSnapshot))
    /\ KeepPanel

DiffDone ==
    /\ Running /\ task.op = "Diff" /\ ~task.stop
    /\ IF baseline # NoSnapshot /\ current # NoSnapshot
       THEN LET runs == Diff(baseline, current, task.max_runs, Len(baseline.bytes))
            IN  PublishSnapshot(IF runs = NoSnapshot THEN Failed("Diff") ELSE Completed("Diff", runs))
       ELSE \E runs \in {<<>>, <<[offset |-> 0, length |-> 1]>>} :
              PublishSnapshot(Completed("Diff", runs))
    /\ KeepPanel /\ UNCHANGED saved
-----------------------------------------------------------------------------
\* ConsumeWorkerResult, on the panel's fields.
Panel == [baseline |-> baseline, current |-> current, diffs |-> diffs]
KeepDiffs(p, r) ==                                            \* faulty variant
    CASE r.op \in {"CaptureBaseline", "LoadBaseline"} -> [p EXCEPT !.baseline = r.value]
      [] r.op \in {"CaptureCurrent", "LoadCurrent"} -> [p EXCEPT !.current = r.value]
      [] r.op = "Diff" -> [p EXCEPT !.diffs = r.value]
      [] OTHER -> p
Consumed(p, r) ==
    CASE r.op = "CaptureBaseline" ->
           [baseline |-> r.value, current |-> NoSnapshot, diffs |-> <<>>]
      [] r.op = "LoadBaseline" -> [p EXCEPT !.baseline = r.value, !.diffs = <<>>]
      [] r.op \in {"CaptureCurrent", "LoadCurrent"} ->
           [p EXCEPT !.current = r.value, !.diffs = <<>>]
      [] r.op = "Diff" -> [p EXCEPT !.diffs = r.value]
      [] OTHER -> p

ConsumeWorkerResult ==
    LET p == IF task # NoSnapshot /\ ~task.running /\ pending # NoSnapshot
                /\ pending.ok
             THEN Consumed(Panel, pending) ELSE Panel
    IN  /\ baseline' = p.baseline /\ current' = p.current /\ diffs' = p.diffs
        /\ pending' = IF Running THEN pending ELSE NoSnapshot

DrawConsume ==
    /\ frame = "idle" /\ frame' = "consumed"
    /\ ConsumeWorkerResult
    /\ task' = IF Running THEN task ELSE NoSnapshot
    /\ raced' = (raced /\ (Running \/ diffs' # <<>>))
    /\ UNCHANGED <<attached, saved>>

\* Without a process Draw ends here.
DrawSample ==
    /\ frame = "consumed"
    /\ frame' = CASE ~attached -> "idle"
                  [] attached /\ Running -> "busy"
                  [] OTHER -> "ready"
    /\ UNCHANGED <<attached, baseline, current, diffs, task, pending, saved,
                   raced>>

\* StartWorker: what the last worker left is consumed first.
StartWorker(op, range, max_runs) ==
    /\ frame = "ready" /\ ~Running
    /\ ConsumeWorkerResult
    /\ task' = NewTask(op, range, max_runs)
    /\ frame' = "idle"
    /\ raced' = (raced \/ task # NoSnapshot)
    /\ UNCHANGED <<attached, saved>>

StartCapture ==
    \E range \in SnapRange, op \in {"CaptureBaseline", "CaptureCurrent"} :
        StartWorker(op, range, 0)

SaveSnapshot ==
    \/ baseline # NoSnapshot /\ StartWorker("SaveBaseline", NoRange, 0)
    \/ current # NoSnapshot /\ StartWorker("SaveCurrent", NoRange, 0)

LoadSnapshot ==
    \E op \in {"LoadBaseline", "LoadCurrent"} : StartWorker(op, NoRange, 0)

ComputeDiff ==
    /\ baseline # NoSnapshot /\ current # NoSnapshot
    /\ \E max_runs \in MaxDiffRuns : StartWorker("Diff", NoRange, max_runs)

ClearSnapshots ==
    /\ frame = "ready" /\ frame' = "idle"
    /\ baseline' = NoSnapshot /\ current' = NoSnapshot /\ diffs' = <<>>
    /\ raced' = (raced \/ task # NoSnapshot)
    /\ UNCHANGED <<attached, task, pending, saved>>

CancelOperation ==
    /\ frame = "busy" /\ frame' = "idle"
    /\ task' = IF task = NoSnapshot THEN task ELSE [task EXCEPT !.stop = TRUE]
    /\ UNCHANGED <<attached, baseline, current, diffs, pending, saved, raced>>

\* A frame in which no button is used.
DrawTable ==
    /\ frame \in {"ready", "busy"} /\ frame' = "idle"
    /\ UNCHANGED <<attached, baseline, current, diffs, task, pending, saved,
                   raced>>

\* Attach and Reset between two frames: StopWorker, whose join waits for the
\* worker, and then the new target.
StopWorker ==
    /\ frame = "idle" /\ frame' = "join"
    /\ task' = IF task = NoSnapshot THEN task
               ELSE [task EXCEPT !.stop = TRUE, !.fresh = FALSE]
    /\ UNCHANGED <<attached, baseline, current, diffs, pending, saved, raced>>

ResetPanel ==
    /\ frame = "join" /\ ~Running
    /\ frame' = "idle"
    /\ attached' \in BOOLEAN
    /\ baseline' = NoSnapshot /\ current' = NoSnapshot /\ diffs' = <<>>
    /\ task' = NoSnapshot /\ pending' = NoSnapshot
    /\ raced' = FALSE
    /\ UNCHANGED saved

SnapshotWorker == WorkerFails \/ ReadChunk \/ CaptureDone \/ LoadDone \/ SaveDone \/ DiffDone

SPNext ==
    \/ SnapshotWorker
    \/ DrawConsume
    \/ DrawSample
    \/ StartCapture
    \/ SaveSnapshot
    \/ LoadSnapshot
    \/ ComputeDiff
    \/ ClearSnapshots
    \/ CancelOperation
    \/ DrawTable
    \/ StopWorker
    \/ ResetPanel

SPSpec == SPInit /\ [][SPNext]_pvars
-----------------------------------------------------------------------------
\* The table on the screen since the last frame ended.
Shown == frame = "idle" /\ diffs # <<>>

\* The table of differences lists exactly the changed runs of the two
\* snapshots that the panel holds when it is drawn, which cover the same range
\* of the same process.
DiffShown ==
    Shown => /\ baseline # NoSnapshot /\ current # NoSnapshot
             /\ ExactDiff(baseline, current, diffs)

\* A file that was cut or extended on the disk, or whose data, byte count or checksum
\* changed there, is never loaded: what Load returns is the snapshot that was saved.
\* Damage to the process or the address in the header is not part of the model, and
\* Load would not notice it.
LoadedIsSaved ==
    pending # NoSnapshot /\ pending.ok /\ pending.op \in {"LoadBaseline", "LoadCurrent"}
        => pending.value = saved

\* The comparison can be relied on as long as every button is used after the
\* last result was consumed, and again once the table is empty with no worker
\* left: through captures, loads, failures, cancellations and new targets it
\* lists exactly the changed runs of the snapshots held, and a loaded snapshot
\* is the one that was saved (LoadedIsSaved).
DiffExact == LoadedIsSaved /\ (~raced => DiffShown)
=============================================================================
