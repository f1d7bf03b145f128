------------------------ MODULE ProcessMemorySession ------------------------
(***************************************************************************)
(* The process memory browser: the staged view of a range of the target's  *)
(* memory (core/memory/ProcessMemorySession.cpp) and the panel that runs   *)
(* its operations (app/ui/ProcessMemoryPanel.cpp).                         *)
(*                                                                         *)
(* A load, an apply or a rollback runs in a worker thread, on a copy of    *)
(* the session that the window takes back when the worker has finished.    *)
(* Each access to the target is a step of the worker: the preflight read,  *)
(* one arm-write-disarm per run of changed bytes, the read-back.  Between  *)
(* them the target may run (TargetWrites).  Reads, arms, writes and closes *)
(* fail wherever the code handles their failing, and a failing write may   *)
(* have reached any part of its run.                                       *)
(***************************************************************************)
EXTENDS ProcessMemory, Sequences

CONSTANTS
    Length,         \* bytes in the view
    Byte,           \* the values of a byte
    None,           \* no rollback snapshot
    MaxEditHistory, \* kMaxEditHistory
    TargetWrites    \* TRUE: the target changes its own memory at any time

ASSUME SessionAssumption ==
    /\ Length \in Nat \ {0}
    /\ MaxEditHistory \in Nat
    /\ TargetWrites \in BOOLEAN
    /\ None \notin [0 .. Length - 1 -> Byte]

VARIABLES
    memory,   \* the range in the target
    access,   \* the arm and the gates
    session,  \* ProcessMemoryPanel::session_
    worker    \* the running operation and its copy of the session

vars == <<memory, access, session, worker>>

Offset == 0 .. Length - 1
View == [Offset -> Byte]
ByteEdit == [offset : Offset, before : Byte, after : Byte]
History == UNION {[1 .. n -> ByteEdit] : n \in 0 .. MaxEditHistory}

State == {"Empty", "Clean", "Dirty", "Conflict", "Error", "VerificationFailed"}

Session ==
    [state : State, baseline : View, working : View, dirty : SUBSET Offset,
     count : 0 .. Length, rollback : View \cup {None}, expected : View \cup {None},
     partial : BOOLEAN, undo : History, redo : History]

\* A session just loaded with the view v.
Loaded(v) ==
    [state |-> "Clean", baseline |-> v, working |-> v, dirty |-> {}, count |-> 0,
     rollback |-> None, expected |-> None, partial |-> FALSE,
     undo |-> <<>>, redo |-> <<>>]

\* pc: where the worker stands; runs: the runs still to be written;
\* ok: the result it will return.
Idle == [pc |-> "idle", op |-> "none", s |-> None, runs |-> <<>>, ok |-> FALSE]

HasBuffer(s) == s.state # "Empty"
IsDirty(s) == s.count # 0
CanRollback(s) == s.rollback # None
Busy == worker.pc # "idle"

Init ==
    /\ memory \in View
    /\ access = Locked
    /\ session = [Loaded(memory) EXCEPT !.state = "Empty"]
    /\ worker = Idle

-----------------------------------------------------------------------------
(* Local edits. *)

Count(s, o, is_dirty) ==
    CASE is_dirty /\ o \notin s.dirty -> s.count + 1
      [] ~is_dirty /\ o \in s.dirty   -> s.count - 1
      [] OTHER                        -> s.count

\* ApplyLocalEdit without its history.
Set(s, o, v) ==
    IF s.working[o] = v THEN s
    ELSE LET w == [s.working EXCEPT ![o] = v]
             d == v # s.baseline[o]
             n == Count(s, o, d)
         IN  [s EXCEPT !.working = w,
                       !.dirty = IF d THEN @ \cup {o} ELSE @ \ {o},
                       !.count = n,
                       !.state = IF n # 0 THEN "Dirty" ELSE "Clean"]

\* The oldest edit is dropped at the limit, and a new edit forgets the redos.
Record(s, o, v) ==
    IF s.working[o] = v THEN s
    ELSE LET u == Append(s.undo, [offset |-> o, before |-> s.working[o], after |-> v])
         IN  [s EXCEPT !.undo = IF Len(u) > MaxEditHistory THEN Tail(u) ELSE u,
                       !.redo = <<>>]

EditByte(s, o, v) == Set(Record(s, o, v), o, v)

\* The latest edit of a history, and the history without it.
Latest(h) == h[Len(h)]
Popped(h) == SubSeq(h, 1, Len(h) - 1)

Undo(s) ==
    LET e == Latest(s.undo)
    IN  [Set(s, e.offset, e.before) EXCEPT !.undo = Popped(@), !.redo = Append(@, e)]

Redo(s) ==
    LET e == Latest(s.redo)
    IN  [Set(s, e.offset, e.after) EXCEPT !.redo = Popped(@), !.undo = Append(@, e)]

\* Working becomes the baseline again; the rollback snapshot stays.
Reverted(s) ==
    [s EXCEPT !.working = s.baseline, !.dirty = {}, !.count = 0,
              !.undo = <<>>, !.redo = <<>>, !.state = "Clean"]

\* The editor and its buttons are disabled while a worker runs.
Editable == HasBuffer(session) /\ ~Busy

LocalEdit ==
    /\ Editable
    /\ \/ \E o \in Offset, v \in Byte : session' = EditByte(session, o, v)
       \/ session.undo # <<>> /\ session' = Undo(session)
       \/ session.redo # <<>> /\ session' = Redo(session)
       \/ session' = Reverted(session)
    /\ UNCHANGED <<memory, access, worker>>

-----------------------------------------------------------------------------
(* The arm. *)

\* The panel's Arm button, after the PID was typed, and its Lock button.
ArmWrites ==
    /\ HasBuffer(session) /\ ~Busy
    /\ ~access.armed
    /\ \E r \in Arm(access) : access' = r.a
    /\ UNCHANGED <<memory, session, worker>>

LockWrites ==
    /\ HasBuffer(session) /\ ~Busy
    /\ access.armed
    /\ \E d \in Disarm(access) : access' = d.a
    /\ UNCHANGED <<memory, session, worker>>

-----------------------------------------------------------------------------
(* The worker. *)

\* StartLoad: the copy starts empty.
StartLoad ==
    /\ ~Busy
    /\ worker' = [Idle EXCEPT !.pc = "load", !.op = "Load"]
    /\ UNCHANGED <<memory, access, session>>

\* A load that fails, or is cancelled, leaves the session as it was.
Load ==
    /\ worker.pc = "load"
    /\ \/ worker' = [worker EXCEPT !.pc = "done", !.s = Loaded(memory), !.ok = TRUE]
       \/ worker' = [worker EXCEPT !.pc = "done"]
    /\ UNCHANGED <<memory, access, session>>

\* StartSessionOperation: the worker gets a copy of the session.
Start(op) ==
    /\ HasBuffer(session) /\ ~Busy
    /\ access.armed
    /\ op = "Apply" => IsDirty(session)
    /\ op = "Rollback" => CanRollback(session)
    /\ worker' = [Idle EXCEPT !.pc = "start", !.op = op, !.s = session]
    /\ UNCHANGED <<memory, access, session>>

\* The arm guard of an operation, which only starts armed: Disarm, and on failure once more when the
\* guard is destroyed.
GuardDisarm(a) ==
    UNION {IF d.ok THEN {d} ELSE {[ok |-> FALSE, a |-> e.a] : e \in Disarm(d.a)} :
               d \in Disarm(a)}

\* finish: the outcome stands only if the arm could be taken back.
Finish(s, ok, a) ==
    \E d \in GuardDisarm(a) :
        /\ access' = d.a
        /\ worker' = [worker EXCEPT !.pc = "done",
                                    !.s = IF d.ok THEN s ELSE [s EXCEPT !.state = "Error"],
                                    !.ok = ok /\ d.ok]

Fail(state, a) == Finish([worker.s EXCEPT !.state = state], FALSE, a)

\* The operation gives up before it reads: it was cancelled before it began
\* (which leaves the arm alone), or the target is gone.
GiveUp ==
    /\ worker.pc = "start"
    /\ \/ /\ worker' = [worker EXCEPT !.pc = "done"]
          /\ UNCHANGED access
       \/ Finish(worker.s, FALSE, access)
    /\ UNCHANGED <<memory, session>>

\* faulty variant: a run includes the byte after its last dirty one
RunAndNext(s, i) == {j \in i .. Length - 1 : i .. j - 1 \subseteq s.dirty}

\* DiffRuns: the maximal runs of dirty offsets, in order.
Nth(starts, k) == CHOOSE i \in starts : Cardinality({j \in starts : j < i}) = k - 1
Run(s, i) == {j \in i .. Length - 1 : i .. j \subseteq s.dirty}
DiffRuns(s) ==
    LET starts == {i \in s.dirty : i - 1 \notin s.dirty}
    IN  [k \in 1 .. Cardinality(starts) |-> Run(s, Nth(starts, k))]

\* faulty variant: the rollback accepts the baseline alone
OnlyStaged(s) == [s EXCEPT !.rollback = s.baseline, !.expected = s.working, !.partial = FALSE]

\* Until the read-back, any mixture of the baseline and the staged view may be
\* in the target.
Staged(s) == [s EXCEPT !.rollback = s.baseline, !.expected = s.working, !.partial = TRUE]

\* ApplyAndVerify up to the first write.
ApplyPreflight ==
    /\ worker.pc = "start" /\ worker.op = "Apply"
    /\ LET s == worker.s
       IN  \/ Fail("Error", access)
           \/ /\ memory # s.baseline
              /\ Fail("Conflict", access)
           \/ /\ memory = s.baseline
              /\ worker' = [worker EXCEPT !.pc = "write", !.s = Staged(s), !.runs = DiffRuns(s)]
              /\ UNCHANGED access
    /\ UNCHANGED <<memory, session>>

\* What a rollback accepts as the present contents of the target.
Accepts(s, v) ==
    IF s.partial /\ s.expected # None
    THEN \A o \in Offset : v[o] \in {s.rollback[o], s.expected[o]}
    ELSE v = s.baseline

\* Until the read-back, any mixture of what was there and the snapshot may be
\* in the target.
Restoring(s, v) == [s EXCEPT !.expected = v, !.partial = TRUE]

\* Rollback up to its write, of the whole view.
RollbackPreflight ==
    /\ worker.pc = "start" /\ worker.op = "Rollback"
    /\ LET s == worker.s
       IN  \/ Fail("Error", access)
           \/ /\ ~Accepts(s, memory)
              /\ Fail("Conflict", access)
           \/ /\ Accepts(s, memory)
              /\ worker' = [worker EXCEPT !.pc = "write", !.s = Restoring(s, memory), !.runs = <<Offset>>]
              /\ UNCHANGED access
    /\ UNCHANGED <<memory, session>>

\* The bytes an operation is writing.
Target == IF worker.op = "Apply" THEN worker.s.working ELSE worker.s.rollback

\* Arm, write and disarm for one run; a failure ends the operation.
WriteRun ==
    /\ worker.pc = "write" /\ worker.runs # <<>>
    /\ \E r \in WriteOnce(access, Head(worker.runs)) :
           /\ memory' = [o \in Offset |-> IF o \in r.done THEN Target[o] ELSE memory[o]]
           /\ IF r.ok
              THEN /\ access' = r.a
                   /\ worker' = [worker EXCEPT !.runs = Tail(@)]
              ELSE Fail("Error", r.a)
    /\ UNCHANGED session

\* After the last run the arm is taken back, before the read-back.
DisarmAfterRuns ==
    /\ worker.pc = "write" /\ worker.runs = <<>>
    /\ \E d \in GuardDisarm(access) :
           /\ access' = d.a
           /\ worker' = IF d.ok THEN [worker EXCEPT !.pc = "readback"]
                        ELSE [worker EXCEPT !.pc = "done", !.s.state = "Error"]
    /\ UNCHANGED <<memory, session>>

\* A verified view: an apply keeps its rollback, a rollback has used it up.
Verified(s, v) ==
    IF worker.op = "Apply"
    THEN [Loaded(v) EXCEPT !.rollback = s.rollback, !.expected = s.expected]
    ELSE Loaded(v)

Readback ==
    /\ worker.pc = "readback"
    /\ worker' =
           IF memory = Target
           THEN [worker EXCEPT !.pc = "done", !.s = Verified(worker.s, Target), !.ok = TRUE]
           ELSE [worker EXCEPT !.pc = "done", !.s.state = "VerificationFailed"]
    /\ UNCHANGED <<memory, access, session>>

\* The read-back itself fails.
ReadbackFails ==
    /\ worker.pc = "readback"
    /\ worker' = [worker EXCEPT !.pc = "done", !.s.state = "VerificationFailed"]
    /\ UNCHANGED <<memory, access, session>>

\* faulty variant: a failed write operation is dropped like a failed load
DropFailed(w) == w.ok

\* A load is published when it succeeded, a write operation in any case.
Publishes(w) == w.ok \/ w.op # "Load"

\* faulty variant: only a successful worker is collected
CollectSuccessful ==
    /\ worker.pc = "done" /\ worker.ok
    /\ session' = worker.s
    /\ worker' = Idle
    /\ UNCHANGED <<memory, access>>

\* PollOperation finds the worker finished and takes its session back.
PublishOperation ==
    /\ worker.pc = "done"
    /\ session' = IF Publishes(worker) THEN worker.s ELSE session
    /\ worker' = Idle
    /\ UNCHANGED <<memory, access>>

\* The target changes a byte of the view.
TargetStores ==
    /\ TargetWrites
    /\ \E o \in Offset, v \in Byte : memory' = [memory EXCEPT ![o] = v]
    /\ UNCHANGED <<access, session, worker>>

WorkerStep ==
    \/ Load
    \/ GiveUp
    \/ ApplyPreflight
    \/ RollbackPreflight
    \/ WriteRun
    \/ DisarmAfterRuns
    \/ Readback
    \/ ReadbackFails

Next ==
    \/ LocalEdit
    \/ ArmWrites
    \/ LockWrites
    \/ StartLoad
    \/ Start("Apply")
    \/ Start("Rollback")
    \/ WorkerStep
    \/ PublishOperation
    \/ TargetStores

Spec == Init /\ [][Next]_vars

\* The worker runs by itself and the window polls it in every frame.
SessionFairness == WF_vars(WorkerStep) /\ WF_vars(PublishOperation)
FairSpec == Spec /\ SessionFairness

-----------------------------------------------------------------------------
(* Properties. *)

\* The type invariant.
TypeOK ==
    /\ memory \in View
    /\ access \in Access
    /\ session \in Session
    /\ worker.pc \in {"idle", "load", "start", "write", "readback", "done"}
    /\ worker.s # None => worker.s \in Session

\* The incrementally kept dirty map and its counter are exactly the difference
\* between working copy and baseline.
DirtyExact ==
    /\ session.dirty = {o \in Offset : session.working[o] # session.baseline[o]}
    /\ session.count = Cardinality(session.dirty)

\* As long as the target leaves its memory alone, an offered rollback is never
\* refused as a conflict: whichever write, arm, close or read of the applies
\* and rollbacks before it failed, and however much of it had been written.
RollbackAccepted ==
    ~Busy /\ CanRollback(session) => Accepts(session, memory)

\* As long as the target leaves its memory alone, a session that is neither
\* waiting for a rollback nor empty shows the target's memory as its baseline,
\* so no edit is ever staged against bytes that are not there.
BaselineLive ==
    ~Busy /\ HasBuffer(session) /\ ~session.partial => session.baseline = memory

\* An apply or a rollback that reports success has left neither the arm nor the
\* driver's gate open (finish and the arm guard of ApplyAndVerify, Rollback).
SuccessLocks ==
    worker.pc = "done" /\ worker.op # "Load" /\ worker.ok
        => ~access.armed /\ ~access.gate

\* An apply writes only bytes that were edited.  The dirty map it starts from is
\* exact (DirtyExact), through edits, undo, redo, reverts and operations that
\* fail half-way; and whatever the target does to the rest of the view while
\* the runs are written survives (DiffRuns).
OnlyEditedBytes ==
    /\ []DirtyExact
    /\ [][worker.pc = "write" /\ worker.op = "Apply" /\ worker' # worker =>
              \A o \in Offset \ worker.s.dirty : memory'[o] = memory[o]]_vars

\* An operation that was started is finished and published.
OperationsFinish == Busy ~> ~Busy
=============================================================================
