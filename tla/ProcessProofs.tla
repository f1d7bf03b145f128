--------------------------- MODULE ProcessProofs ---------------------------
(***************************************************************************)
(* Proofs about what the program does to a process.                        *)
(*                                                                         *)
(* First the editor of process memory (ProcessMemorySession): its session, *)
(* its write access, the worker that applies and rolls back, and a target  *)
(* that may write its own memory.  The inductive invariant ProcInv says    *)
(* what the session of the window and the copy of the worker hold at each  *)
(* step of an operation.                                                   *)
(*                                                                         *)
(* Then the panels and tasks that share the process with the editor        *)
(* (ProcessWorkspace), with the invariant WorkspaceInv.                    *)
(*                                                                         *)
(* Last the page tables of the process (Paging), for tables of any size    *)
(* and any number of levels: what the reverse mapper lists for a frame is  *)
(* what the driver's walk confirms.  The proof goes down the levels: a     *)
(* visit of a table adds the addresses that the walk from this table takes *)
(* to the target, because each of its entries adds those under the entry.  *)
(***************************************************************************)
EXTENDS ProcessMemorySession, ProcessWorkspace, Paging, ProcessMemoryProofs,
        FiniteSetTheorems, WellFoundedInduction

-----------------------------------------------------------------------------
(* The session. *)

\* The arm guard: the first attempt decides what is reported.
LEMMA GuardDisarmEffect ==
    ASSUME NEW a, AccessOK(a), NEW d \in GuardDisarm(a)
    PROVE  /\ AccessOK(d.a) /\ d.ok \in BOOLEAN
           /\ d.ok => ~d.a.armed /\ ~d.a.gate
<1>1. PICK c \in Disarm(a) :
          d \in IF c.ok THEN {c} ELSE {[ok |-> FALSE, a |-> e.a] : e \in Disarm(c.a)}
  BY Zenon DEF GuardDisarm
<1>2. AccessOK(c.a) /\ c.ok \in BOOLEAN /\ (c.ok => ~c.a.armed /\ ~c.a.gate)
  BY Zenon, DisarmEffect
<1>3. CASE c.ok
  BY Zenon, <1>1, <1>2, <1>3
<1>4. CASE ~c.ok
  <2>1. PICK e \in Disarm(c.a) : d = [ok |-> FALSE, a |-> e.a]
    BY Zenon, <1>1, <1>4
  <2>2. AccessOK(e.a)
    BY Zenon, <1>2, DisarmEffect
  <2> QED BY Zenon, <2>1, <2>2
<1> QED BY Zenon, <1>3, <1>4

Fields ==
    [state : State, baseline : View, working : View, dirty : SUBSET Offset,
     count : Nat, rollback : View \cup {None}, expected : View \cup {None},
     partial : BOOLEAN, undo : Seq(ByteEdit), redo : Seq(ByteEdit)]

\* The dirty map and its counter are those of the two views.
EditsExact(s) ==
    /\ s.dirty = {o \in Offset : s.working[o] # s.baseline[o]}
    /\ s.count = Cardinality(s.dirty)

SessionOK(s) == s \in Fields /\ EditsExact(s)

\* t has what s has for a rollback, and is not empty.
Keeps(s, t) ==
    /\ t.baseline = s.baseline /\ t.rollback = s.rollback
    /\ t.expected = s.expected /\ t.partial = s.partial
    /\ HasBuffer(t)

\* Views are finite, so a dirty map can be counted.
LEMMA Counting ==
    ASSUME NEW d \in SUBSET Offset, NEW o \in Offset
    PROVE  /\ IsFiniteSet(d) /\ Cardinality(d) \in Nat
           /\ Cardinality(d \cup {o}) = IF o \in d THEN Cardinality(d) ELSE Cardinality(d) + 1
           /\ Cardinality(d \ {o}) = IF o \in d THEN Cardinality(d) - 1 ELSE Cardinality(d)
<1>1. IsFiniteSet(Offset)
  BY FS_Interval, SessionAssumption DEF Offset
<1>2. IsFiniteSet(d)
  BY Zenon, <1>1, FS_Subset
<1> QED BY Zenon, <1>2, FS_CardinalityType, FS_AddElement, FS_RemoveElement

\* ApplyLocalEdit: one byte of the working copy, its flag and the counter.
LEMMA SetEffect ==
    ASSUME NEW s, SessionOK(s), HasBuffer(s), NEW o \in Offset, NEW v \in Byte
    PROVE  LET t == Set(s, o, v)
           IN  SessionOK(t) /\ Keeps(s, t) /\ t.undo = s.undo /\ t.redo = s.redo
<1>1. CASE s.working[o] = v
  BY Zenon, <1>1 DEF Set, Keeps
<1>2. CASE s.working[o] # v
  <2> DEFINE w == [s.working EXCEPT ![o] = v]
             b == v # s.baseline[o]
             n == Count(s, o, b)
             d == IF b THEN s.dirty \cup {o} ELSE s.dirty \ {o}
             st == IF n # 0 THEN "Dirty" ELSE "Clean"
             t == [s EXCEPT !.working = w, !.dirty = d, !.count = n, !.state = st]
  <2>1. Set(s, o, v) = t
    BY Zenon, <1>2 DEF Set
  <2>2. s \in Fields /\ s.working \in View /\ s.baseline \in View /\ s.dirty \in SUBSET Offset
    BY Zenon DEF SessionOK, Fields
  <2>3. w \in View
    BY Zenon, <2>2 DEF View
  <2>4. d = {p \in Offset : w[p] # s.baseline[p]}
    BY Zenon, <2>2 DEF SessionOK, EditsExact, View
  <2>5. n = Cardinality(d) /\ n \in Nat
    <3>1. s.count = Cardinality(s.dirty)
      BY Zenon DEF SessionOK, EditsExact
    <3>2. CASE o \in s.dirty
      <4>1. d = IF b THEN s.dirty ELSE s.dirty \ {o}
        BY Zenon, <3>2
      <4>2. n = IF b THEN s.count ELSE s.count - 1
        BY Zenon, <3>2 DEF Count
      <4>3. /\ Cardinality(s.dirty) \in Nat /\ Cardinality(s.dirty \ {o}) \in Nat
            /\ Cardinality(s.dirty \ {o}) = Cardinality(s.dirty) - 1
        BY Zenon, <2>2, <3>2, Counting
      <4> HIDE DEF d, n, b
      <4> QED BY Zenon, <3>1, <4>1, <4>2, <4>3
    <3>3. CASE o \notin s.dirty
      <4>1. d = IF b THEN s.dirty \cup {o} ELSE s.dirty
        BY Zenon, <3>3
      <4>2. n = IF b THEN s.count + 1 ELSE s.count
        BY Zenon, <3>3 DEF Count
      <4>3. /\ Cardinality(s.dirty) \in Nat
            /\ Cardinality(s.dirty \cup {o}) = Cardinality(s.dirty) + 1
        BY Zenon, <2>2, <3>3, Counting
      <4> HIDE DEF d, n, b
      <4> QED BY <3>1, <4>1, <4>2, <4>3
    <3> QED BY Zenon, <3>2, <3>3
  <2>6. d \in SUBSET Offset /\ st \in State /\ st # "Empty"
    BY Zenon, <2>2 DEF State
  <2> HIDE DEF w, n, d, st
  <2>7. t \in Fields
    BY Zenon, <2>2, <2>3, <2>5, <2>6 DEF Fields
  <2>8. /\ t.working = w /\ t.dirty = d /\ t.count = n /\ t.state = st
        /\ t.baseline = s.baseline /\ t.rollback = s.rollback /\ t.expected = s.expected
        /\ t.partial = s.partial /\ t.undo = s.undo /\ t.redo = s.redo
    BY Zenon, <2>2 DEF Fields
  <2> HIDE DEF t
  <2> QED BY Zenon, <2>1, <2>4, <2>5, <2>6, <2>7, <2>8
       DEF SessionOK, EditsExact, Keeps, HasBuffer
<1> QED BY Zenon, <1>1, <1>2

\* New histories do not touch what is staged.
LEMMA HistoriesEffect ==
    ASSUME NEW s, SessionOK(s), HasBuffer(s),
           NEW u \in Seq(ByteEdit), NEW r \in Seq(ByteEdit)
    PROVE  LET t == [s EXCEPT !.undo = u, !.redo = r]
           IN  SessionOK(t) /\ Keeps(s, t) /\ t.undo = u /\ t.redo = r
BY Zenon DEF SessionOK, EditsExact, Fields, Keeps, HasBuffer

\* EditByte keeps the dirty map, its count and both stacks exact, within the
\* history limit.
LEMMA EditByteOK ==
    ASSUME NEW s, SessionOK(s), HasBuffer(s), NEW o \in Offset, NEW v \in Byte
    PROVE  SessionOK(EditByte(s, o, v)) /\ Keeps(s, EditByte(s, o, v))
<1>1. CASE s.working[o] = v
  BY Zenon, <1>1, SetEffect DEF EditByte, Record
<1>2. CASE s.working[o] # v
  <2> DEFINE e == [offset |-> o, before |-> s.working[o], after |-> v]
             u == Append(s.undo, e)
             h == IF Len(u) > MaxEditHistory THEN Tail(u) ELSE u
             r == [s EXCEPT !.undo = h, !.redo = <<>>]
  <2>1. e \in ByteEdit /\ s.undo \in Seq(ByteEdit)
    BY Zenon DEF SessionOK, Fields, View, ByteEdit
  <2>2. u \in Seq(ByteEdit) /\ u # <<>>
    BY <2>1
  <2>3. h \in Seq(ByteEdit)
    <3> HIDE DEF u
    <3> QED BY <2>2
  <2>4. Record(s, o, v) = r
    BY Zenon, <1>2 DEF Record
  <2>5. <<>> \in Seq(ByteEdit)
    OBVIOUS
  <2> HIDE DEF h
  <2>6. SessionOK(r) /\ Keeps(s, r)
    BY Zenon, <2>3, <2>5, HistoriesEffect
  <2> HIDE DEF r
  <2>7. SessionOK(Set(r, o, v)) /\ Keeps(r, Set(r, o, v))
    BY Zenon, <2>6, SetEffect DEF Keeps
  <2> QED BY Zenon, <2>4, <2>6, <2>7 DEF EditByte, Keeps
<1> QED BY Zenon, <1>1, <1>2

\* The last edit of a history, and the rest.
LEMMA LastEdit ==
    ASSUME NEW h \in Seq(ByteEdit), h # <<>>
    PROVE  /\ Latest(h).offset \in Offset /\ Latest(h).before \in Byte /\ Latest(h).after \in Byte
           /\ Latest(h) \in ByteEdit /\ Popped(h) \in Seq(ByteEdit)
<1>1. Len(h) \in Nat /\ Len(h) > 0
  OBVIOUS
<1>2. Latest(h) \in ByteEdit
  BY <1>1 DEF Latest
<1>3. Popped(h) \in Seq(ByteEdit)
  BY <1>1 DEF Popped
<1> QED BY Zenon, <1>2, <1>3 DEF ByteEdit

\* Undo and Redo move one edit between the histories.
LEMMA UndoOK ==
    ASSUME NEW s, SessionOK(s), HasBuffer(s), s.undo # <<>>
    PROVE  SessionOK(Undo(s)) /\ Keeps(s, Undo(s))
<1> DEFINE e == Latest(s.undo)
           t == Set(s, e.offset, e.before)
<1>1. s.undo \in Seq(ByteEdit) /\ s.redo \in Seq(ByteEdit)
  BY Zenon DEF SessionOK, Fields
<1>2. /\ e.offset \in Offset /\ e.before \in Byte /\ e \in ByteEdit
      /\ Popped(s.undo) \in Seq(ByteEdit)
  BY Zenon, <1>1, LastEdit
<1>3. SessionOK(t) /\ Keeps(s, t) /\ t.undo = s.undo /\ t.redo = s.redo
  BY Zenon, <1>2, SetEffect
<1>4. Undo(s) = [t EXCEPT !.undo = Popped(@), !.redo = Append(@, e)]
  BY Zenon DEF Undo
<1> HIDE DEF t, e
<1>5. t \in Fields
  BY Zenon, <1>3 DEF SessionOK
<1> DEFINE u == Popped(s.undo)
           r == Append(s.redo, e)
<1>6. Undo(s) = [t EXCEPT !.undo = u, !.redo = r]
  BY Zenon, <1>3, <1>4
<1>7. u \in Seq(ByteEdit) /\ r \in Seq(ByteEdit)
  BY <1>1, <1>2
<1> HIDE DEF u, r
<1>8. HasBuffer(t)
  BY Zenon, <1>3 DEF Keeps
<1>9. SessionOK([t EXCEPT !.undo = u, !.redo = r]) /\ Keeps(t, [t EXCEPT !.undo = u, !.redo = r])
  BY Zenon, <1>3, <1>7, <1>8, HistoriesEffect
<1> QED BY Zenon, <1>3, <1>6, <1>9 DEF Keeps

\* Redo: the latest undone edit is made again.
LEMMA RedoOK ==
    ASSUME NEW s, SessionOK(s), HasBuffer(s), s.redo # <<>>
    PROVE  SessionOK(Redo(s)) /\ Keeps(s, Redo(s))
<1> DEFINE e == Latest(s.redo)
           t == Set(s, e.offset, e.after)
<1>1. s.undo \in Seq(ByteEdit) /\ s.redo \in Seq(ByteEdit)
  BY Zenon DEF SessionOK, Fields
<1>2. /\ e.offset \in Offset /\ e.after \in Byte /\ e \in ByteEdit
      /\ Popped(s.redo) \in Seq(ByteEdit)
  BY Zenon, <1>1, LastEdit
<1>3. SessionOK(t) /\ Keeps(s, t) /\ t.undo = s.undo /\ t.redo = s.redo
  BY Zenon, <1>2, SetEffect
<1>4. Redo(s) = [t EXCEPT !.redo = Popped(@), !.undo = Append(@, e)]
  BY Zenon DEF Redo
<1> HIDE DEF t, e
<1>5. t \in Fields
  BY Zenon, <1>3 DEF SessionOK
<1> DEFINE u == Append(s.undo, e)
           r == Popped(s.redo)
<1>6. Redo(s) = [t EXCEPT !.undo = u, !.redo = r]
  BY Zenon, <1>3, <1>4, <1>5 DEF Fields
<1>7. u \in Seq(ByteEdit) /\ r \in Seq(ByteEdit)
  BY <1>1, <1>2
<1> HIDE DEF u, r
<1>8. HasBuffer(t)
  BY Zenon, <1>3 DEF Keeps
<1>9. SessionOK([t EXCEPT !.undo = u, !.redo = r]) /\ Keeps(t, [t EXCEPT !.undo = u, !.redo = r])
  BY Zenon, <1>3, <1>7, <1>8, HistoriesEffect
<1> QED BY Zenon, <1>3, <1>6, <1>9 DEF Keeps

\* RevertAll keeps the session exact, and everything a rollback needs.
LEMMA RevertedOK ==
    ASSUME NEW s, SessionOK(s)
    PROVE  SessionOK(Reverted(s)) /\ Keeps(s, Reverted(s))
<1> DEFINE t == Reverted(s)
<1>1. /\ t \in Fields
      /\ t.working = s.baseline /\ t.baseline = s.baseline /\ t.dirty = {} /\ t.count = 0
      /\ t.rollback = s.rollback /\ t.expected = s.expected /\ t.partial = s.partial
      /\ t.state = "Clean"
  <2>1. s \in Fields /\ s.baseline \in View /\ "Clean" \in State
        /\ <<>> \in Seq(ByteEdit) /\ {} \in SUBSET Offset /\ 0 \in Nat
    BY DEF SessionOK, Fields, State
  <2>2. t \in Fields
    BY Zenon, <2>1 DEF Reverted, Fields
  <2> QED BY Zenon, <2>1, <2>2 DEF Reverted, Fields
<1> HIDE DEF t
<1> QED BY Zenon, <1>1, FS_EmptySet DEF SessionOK, EditsExact, Keeps, HasBuffer, t

\* A session just loaded is clean: both views are what was read.
LEMMA LoadedOK ==
    ASSUME NEW v \in View
    PROVE  LET t == Loaded(v)
           IN  /\ SessionOK(t) /\ t.baseline = v /\ t.state = "Clean"
               /\ ~t.partial /\ t.rollback = None
<1> DEFINE t == Loaded(v)
<1>1. /\ t \in Fields
      /\ t.working = v /\ t.baseline = v /\ t.dirty = {} /\ t.count = 0
      /\ t.state = "Clean" /\ ~t.partial /\ t.rollback = None
  BY DEF Loaded, Fields, State
<1> HIDE DEF t
<1> QED BY Zenon, <1>1, FS_EmptySet DEF SessionOK, EditsExact, t

\* Setting only the state of a session keeps its edits exact.
LEMMA StateOK ==
    ASSUME NEW s, SessionOK(s), NEW st \in State \ {"Empty"}
    PROVE  SessionOK([s EXCEPT !.state = st]) /\ Keeps(s, [s EXCEPT !.state = st])
BY Zenon DEF SessionOK, EditsExact, Fields, Keeps, HasBuffer

\* Between the first write and the read-back: both views are kept.
LEMMA StagedOK ==
    ASSUME NEW s, SessionOK(s), HasBuffer(s)
    PROVE  LET t == Staged(s)
           IN  /\ SessionOK(t) /\ HasBuffer(t) /\ t.partial /\ t.dirty = s.dirty
               /\ t.rollback = s.baseline /\ t.expected = s.working
               /\ t.working = s.working
BY Zenon DEF Staged, SessionOK, EditsExact, Fields, HasBuffer

\* The session a rollback works on: its stored image becomes the working copy.
LEMMA RestoringOK ==
    ASSUME NEW s, SessionOK(s), HasBuffer(s), NEW v \in View
    PROVE  LET t == Restoring(s, v)
           IN  /\ SessionOK(t) /\ HasBuffer(t) /\ t.partial
               /\ t.rollback = s.rollback /\ t.expected = v
BY Zenon DEF Restoring, SessionOK, EditsExact, Fields, HasBuffer

\* A verified view is a session just loaded, with or without a rollback.
LEMMA VerifiedOK ==
    ASSUME NEW s, SessionOK(s), NEW v \in View
    PROVE  LET t == Verified(s, v)
           IN  SessionOK(t) /\ HasBuffer(t) /\ ~t.partial /\ t.baseline = v
<1> DEFINE q == Loaded(v)
           t == [q EXCEPT !.rollback = s.rollback, !.expected = s.expected]
<1>1. SessionOK(q) /\ q.baseline = v /\ q.state = "Clean" /\ ~q.partial
  BY Zenon, LoadedOK
<1>2. s.rollback \in View \cup {None} /\ s.expected \in View \cup {None}
  BY Zenon DEF SessionOK, Fields
<1>3. Verified(s, v) = IF worker.op = "Apply" THEN t ELSE q
  BY Zenon DEF Verified
<1> HIDE DEF q
<1>4. SessionOK(t) /\ t.baseline = v /\ t.state = "Clean" /\ ~t.partial
  BY Zenon, <1>1, <1>2 DEF SessionOK, EditsExact, Fields
<1> HIDE DEF t
<1> QED BY Zenon, <1>1, <1>3, <1>4 DEF HasBuffer

-----------------------------------------------------------------------------
(* The invariant. *)

WorkerRecord ==
    [pc : {"idle", "load", "start", "write", "readback", "done"},
     op : {"none", "Load", "Apply", "Rollback"},
     s : Fields \cup {None}, runs : Seq(SUBSET Offset), ok : BOOLEAN]

\* A worker on its copy w of a session that is not empty.
Operating(w) ==
    w.op \in {"Apply", "Rollback"} /\ SessionOK(w.s) /\ HasBuffer(w.s)

\* From the first write to the read-back both views are known, and a run of an
\* apply has edited bytes only.
Writing(w) ==
    /\ Operating(w) /\ w.s.partial
    /\ w.s.rollback \in View /\ w.s.expected \in View
    /\ w.op = "Apply" =>
         /\ w.s.expected = w.s.working
         /\ \A i \in 1 .. Len(w.runs) : w.runs[i] \subseteq w.s.dirty

WorkerInv ==
    /\ worker \in WorkerRecord
    /\ worker.pc = "idle" => worker.op = "none"
    /\ worker.pc = "load" => worker.op = "Load" /\ ~worker.ok
    /\ worker.pc = "start" =>
         /\ Operating(worker) /\ ~worker.ok
         /\ worker.op = "Rollback" => worker.s.rollback \in View
    /\ worker.pc \in {"write", "readback"} => Writing(worker) /\ ~worker.ok
    /\ worker.pc = "readback" => ~access.armed /\ ~access.gate
    /\ worker.pc = "done" /\ Publishes(worker) => SessionOK(worker.s) /\ HasBuffer(worker.s)
    /\ SuccessLocks

\* The rollback on offer is one the target's contents allow, and a baseline that
\* nothing was written over is what is in the target.
Accord(s, m) ==
    /\ CanRollback(s) => Accepts(s, m)
    /\ HasBuffer(s) /\ ~s.partial => s.baseline = m

\* What every copy of the session knows of a target that only the session
\* writes.  The window's own copy is out of date while a worker writes.
LiveInv ==
    /\ worker.op \in {"none", "Load"} => Accord(session, memory)
    /\ worker.pc = "start" => Accord(worker.s, memory)
    /\ worker.pc \in {"write", "readback"} => Accepts(worker.s, memory)
    /\ worker.pc = "done" /\ Publishes(worker) => Accord(worker.s, memory)

ProcInv ==
    /\ memory \in View /\ AccessOK(access) /\ SessionOK(session)
    /\ WorkerInv
    /\ ~TargetWrites => LiveInv

\* The first frame: nothing loaded, nothing armed, no worker.
LEMMA ProcInit == Init => ProcInv
<1> SUFFICES ASSUME Init PROVE ProcInv
  BY Zenon
<1>1. memory \in View
  BY Zenon DEF Init
<1>2. SessionOK(session) /\ session.rollback = None /\ session.state = "Empty"
  <2> DEFINE q == Loaded(memory)
  <2>1. SessionOK(q) /\ q.rollback = None
    BY Zenon, <1>1, LoadedOK
  <2>2. session = [q EXCEPT !.state = "Empty"]
    BY Zenon DEF Init
  <2> HIDE DEF q
  <2> QED BY Zenon, <2>1, <2>2 DEF SessionOK, Fields, EditsExact, State
<1>3. AccessOK(access)
  BY Zenon DEF Init, Locked, AccessOK, Access
<1>4. worker \in WorkerRecord /\ worker.pc = "idle" /\ worker.op = "none"
  BY DEF Init, Idle, WorkerRecord
<1>5. WorkerInv
  BY Zenon, <1>4 DEF WorkerInv, SuccessLocks
<1>6. LiveInv
  BY Zenon, <1>2, <1>4 DEF LiveInv, Accord, CanRollback, HasBuffer
<1> QED BY Zenon, <1>1, <1>2, <1>3, <1>5, <1>6 DEF ProcInv

\* Changes of the session that keep the rollback keep what is known of it.
LEMMA AccordKept ==
    ASSUME NEW s, HasBuffer(s), NEW t, Keeps(s, t), NEW m, Accord(s, m)
    PROVE  Accord(t, m)
BY Zenon DEF Accord, Keeps, CanRollback, Accepts

\* A window step that leaves the worker idle.
LEMMA WindowStep ==
    ASSUME ProcInv, worker.pc = "idle", worker' = worker, memory' = memory,
           AccessOK(access'), SessionOK(session'),
           HasBuffer(session), Keeps(session, session')
    PROVE  ProcInv'
<1>1. worker \in WorkerRecord /\ worker.op = "none"
  BY Zenon DEF ProcInv, WorkerInv
<1>2. WorkerInv'
  BY Zenon, <1>1 DEF WorkerInv, SuccessLocks
<1>3. ASSUME ~TargetWrites PROVE LiveInv'
  <2>1. Accord(session, memory)
    BY Zenon, <1>1, <1>3 DEF ProcInv, LiveInv
  <2>2. Accord(session', memory')
    BY Zenon, <2>1, AccordKept
  <2> QED BY Zenon, <1>1, <2>2 DEF LiveInv
<1> QED BY Zenon, <1>2, <1>3 DEF ProcInv

\* A worker that ends an apply or a rollback.
LEMMA EndStep ==
    ASSUME ProcInv, session' = session, memory' \in View, AccessOK(access'),
           worker.op \in {"Apply", "Rollback"}, worker' \in WorkerRecord,
           worker'.pc = "done", worker'.op = worker.op,
           worker'.ok => ~access'.armed /\ ~access'.gate,
           SessionOK(worker'.s), HasBuffer(worker'.s),
           ~TargetWrites => Accord(worker'.s, memory')
    PROVE  ProcInv'
<1>1. WorkerInv'
  BY Zenon DEF WorkerInv, SuccessLocks, Publishes
<1>2. ASSUME ~TargetWrites PROVE LiveInv'
  BY Zenon, <1>2 DEF LiveInv
<1> QED BY Zenon, <1>1, <1>2 DEF ProcInv

\* finish, for an operation that has failed already.
LEMMA FinishEffect ==
    ASSUME worker \in WorkerRecord, NEW s, SessionOK(s), HasBuffer(s), NEW a, AccessOK(a),
           Finish(s, FALSE, a)
    PROVE  /\ AccessOK(access') /\ worker' \in WorkerRecord /\ worker'.pc = "done"
           /\ worker'.op = worker.op /\ ~worker'.ok
           /\ SessionOK(worker'.s) /\ Keeps(s, worker'.s)
<1>1. PICK d \in GuardDisarm(a) :
          /\ access' = d.a
          /\ worker' = [worker EXCEPT !.pc = "done",
                                      !.s = IF d.ok THEN s ELSE [s EXCEPT !.state = "Error"],
                                      !.ok = FALSE /\ d.ok]
  BY Zenon DEF Finish
<1>2. AccessOK(d.a) /\ d.ok \in BOOLEAN
  BY Zenon, GuardDisarmEffect
<1> DEFINE t == IF d.ok THEN s ELSE [s EXCEPT !.state = "Error"]
<1>3. SessionOK(t) /\ Keeps(s, t)
  BY Zenon, StateOK DEF Keeps, State
<1>4. t \in Fields
  BY Zenon, <1>3 DEF SessionOK
<1>5. worker' = [worker EXCEPT !.pc = "done", !.s = t, !.ok = FALSE]
  BY Zenon, <1>1, <1>2
<1> HIDE DEF t
<1>6. worker' \in WorkerRecord /\ worker'.pc = "done" /\ worker'.op = worker.op
      /\ worker'.ok = FALSE /\ worker'.s = t
  BY Zenon, <1>4, <1>5 DEF WorkerRecord
<1> QED BY Zenon, <1>1, <1>2, <1>3, <1>6

\* An operation that ends in finish, in a state of its own.
LEMMA FailEffect ==
    ASSUME worker \in WorkerRecord, SessionOK(worker.s), NEW st \in State \ {"Empty"},
           NEW a, AccessOK(a), Fail(st, a)
    PROVE  /\ AccessOK(access') /\ worker' \in WorkerRecord /\ worker'.pc = "done"
           /\ worker'.op = worker.op /\ ~worker'.ok
           /\ SessionOK(worker'.s) /\ Keeps(worker.s, worker'.s)
<1> DEFINE s == [worker.s EXCEPT !.state = st]
<1>1. SessionOK(s) /\ Keeps(worker.s, s)
  BY Zenon, StateOK
<1>2. Finish(s, FALSE, a)
  BY Zenon DEF Fail
<1> HIDE DEF s
<1>3. HasBuffer(s)
  BY Zenon, <1>1 DEF Keeps
<1> QED BY Zenon, <1>1, <1>2, <1>3, FinishEffect DEF Keeps

\* A run consists of edited bytes, and so does every run of DiffRuns.
LEMMA RunsAreDirty ==
    ASSUME NEW s, s.dirty \in SUBSET Offset
    PROVE  /\ DiffRuns(s) \in Seq(SUBSET Offset)
           /\ \A i \in 1 .. Len(DiffRuns(s)) : DiffRuns(s)[i] \subseteq s.dirty
<1> DEFINE starts == {i \in s.dirty : i - 1 \notin s.dirty}
           n == Cardinality(starts)
           nth(k) == Nth(starts, k)
<1>1. n \in Nat
  <2>1. IsFiniteSet(Offset)
    BY FS_Interval, SessionAssumption DEF Offset
  <2> QED BY Zenon, <2>1, FS_Subset, FS_CardinalityType
<1>2. DiffRuns(s) = [k \in 1 .. n |-> Run(s, nth(k))]
  BY Zenon DEF DiffRuns
<1>3. ASSUME NEW i PROVE Run(s, i) \subseteq s.dirty
  <2> SUFFICES ASSUME NEW j \in Run(s, i) PROVE j \in s.dirty
    BY Zenon
  <2> QED BY DEF Run
<1> HIDE DEF n, nth
<1> QED BY <1>1, <1>2, <1>3

\* The edits of the window (edit, undo, redo, revert) keep the invariant.
LEMMA LocalEditInv == ProcInv /\ LocalEdit => ProcInv'
<1> SUFFICES ASSUME ProcInv, LocalEdit PROVE ProcInv'
  BY Zenon
<1>1. SessionOK(session) /\ HasBuffer(session) /\ worker.pc = "idle" /\ AccessOK(access)
  BY Zenon DEF ProcInv, LocalEdit, Editable, Busy
<1>2. SessionOK(session') /\ Keeps(session, session')
  <2>1. CASE \E o \in Offset, v \in Byte : session' = EditByte(session, o, v)
    BY Zenon, <1>1, <2>1, EditByteOK
  <2>2. CASE session.undo # <<>> /\ session' = Undo(session)
    BY Zenon, <1>1, <2>2, UndoOK
  <2>3. CASE session.redo # <<>> /\ session' = Redo(session)
    BY Zenon, <1>1, <2>3, RedoOK
  <2>4. CASE session' = Reverted(session)
    BY Zenon, <1>1, <2>4, RevertedOK
  <2> QED BY Zenon, <2>1, <2>2, <2>3, <2>4 DEF LocalEdit
<1> QED BY Zenon, <1>1, <1>2, WindowStep DEF LocalEdit

\* SetWriteEnabled and LockWrites of the window leave the session alone.
LEMMA ArmLockInv == ProcInv /\ (ArmWrites \/ LockWrites) => ProcInv'
<1> SUFFICES ASSUME ProcInv, ArmWrites \/ LockWrites PROVE ProcInv'
  BY Zenon
<1>1. AccessOK(access) /\ SessionOK(session)
  BY Zenon DEF ProcInv
<1>2. AccessOK(access')
  <2>1. CASE ArmWrites
    BY Zenon, <1>1, <2>1, ArmEffect DEF ArmWrites
  <2>2. CASE LockWrites
    BY Zenon, <1>1, <2>2, DisarmEffect DEF LockWrites
  <2> QED BY Zenon, <2>1, <2>2
<1>3. worker.pc = "idle" /\ worker' = worker /\ memory' = memory /\ session' = session
  BY Zenon DEF ArmWrites, LockWrites, Busy
<1>4. SessionOK(session') /\ HasBuffer(session) /\ Keeps(session, session')
  BY Zenon, <1>1, <1>3 DEF ArmWrites, LockWrites, Keeps
<1> QED BY Zenon, <1>2, <1>3, <1>4, WindowStep

\* An operation starts on a copy of the session, which is what is on display.
LEMMA StartInv ==
    ASSUME ProcInv, NEW op \in {"Apply", "Rollback"}, Start(op)
    PROVE  ProcInv'
<1>1. /\ SessionOK(session) /\ HasBuffer(session) /\ session \in Fields
      /\ op = "Rollback" => session.rollback # None
      /\ memory' = memory /\ access' = access /\ session' = session
      /\ worker.pc = "idle" /\ worker.op = "none"
  BY Zenon DEF ProcInv, WorkerInv, Start, Busy, SessionOK, CanRollback
<1>2. worker' = [pc |-> "start", op |-> op, s |-> session, runs |-> <<>>, ok |-> FALSE]
  BY Zenon DEF Start, Idle
<1>3. worker' \in WorkerRecord /\ worker'.pc = "start" /\ worker'.op = op
      /\ worker'.s = session /\ worker'.ok = FALSE
  BY <1>1, <1>2 DEF WorkerRecord
<1>4. op = "Rollback" => session.rollback \in View
  BY Zenon, <1>1 DEF Fields
<1>5. WorkerInv'
  BY Zenon, <1>1, <1>3, <1>4 DEF WorkerInv, Operating, SuccessLocks
<1>6. ASSUME ~TargetWrites PROVE LiveInv'
  <2>1. Accord(session, memory)
    BY Zenon, <1>1, <1>6 DEF ProcInv, LiveInv
  <2> QED BY Zenon, <1>1, <1>3, <2>1 DEF LiveInv
<1> QED BY Zenon, <1>1, <1>5, <1>6 DEF ProcInv

\* Starting a load touches neither the session nor the memory.
LEMMA StartLoadInv == ProcInv /\ StartLoad => ProcInv'
<1> SUFFICES ASSUME ProcInv, StartLoad PROVE ProcInv'
  BY Zenon
<1>1. /\ memory' = memory /\ access' = access /\ session' = session
      /\ worker.pc = "idle" /\ worker.op = "none"
  BY Zenon DEF ProcInv, WorkerInv, StartLoad, Busy
<1>2. worker' \in WorkerRecord /\ worker'.pc = "load" /\ worker'.op = "Load" /\ worker'.ok = FALSE
  <2>1. worker' = [pc |-> "load", op |-> "Load", s |-> None, runs |-> <<>>, ok |-> FALSE]
    BY Zenon DEF StartLoad, Idle
  <2> QED BY <2>1 DEF WorkerRecord
<1>3. WorkerInv'
  BY Zenon, <1>2 DEF WorkerInv, SuccessLocks
<1>4. ASSUME ~TargetWrites PROVE LiveInv'
  <2>1. Accord(session, memory)
    BY Zenon, <1>1, <1>4 DEF ProcInv, LiveInv
  <2> QED BY Zenon, <1>1, <1>2, <2>1 DEF LiveInv
<1> QED BY Zenon, <1>1, <1>3, <1>4 DEF ProcInv

\* Load: a fresh baseline with no edits and no rollback image, or nothing.
LEMMA LoadInv == ProcInv /\ Load => ProcInv'
<1> SUFFICES ASSUME ProcInv, Load PROVE ProcInv'
  BY Zenon
<1>1. /\ memory' = memory /\ access' = access /\ session' = session /\ memory \in View
      /\ worker \in WorkerRecord /\ worker.op = "Load" /\ worker.ok = FALSE
  BY Zenon DEF ProcInv, WorkerInv, Load, WorkerRecord
<1> DEFINE q == Loaded(memory)
<1>2. SessionOK(q) /\ HasBuffer(q) /\ Accord(q, memory) /\ q \in Fields
  BY Zenon, <1>1, LoadedOK DEF HasBuffer, Accord, CanRollback, SessionOK
<1>3. worker' \in WorkerRecord /\ worker'.pc = "done" /\ worker'.op = "Load"
      /\ (worker'.ok => worker'.s = q)
  <2>1. \/ worker' = [worker EXCEPT !.pc = "done", !.s = q, !.ok = TRUE]
        \/ worker' = [worker EXCEPT !.pc = "done"]
    BY Zenon DEF Load
  <2> HIDE DEF q
  <2> QED BY Zenon, <1>1, <1>2, <2>1 DEF WorkerRecord
<1> HIDE DEF q
<1>4. WorkerInv'
  BY Zenon, <1>2, <1>3 DEF WorkerInv, SuccessLocks, Publishes
<1>5. ASSUME ~TargetWrites PROVE LiveInv'
  <2>1. Accord(session, memory)
    BY Zenon, <1>1, <1>5 DEF ProcInv, LiveInv
  <2> QED BY Zenon, <1>1, <1>2, <1>3, <2>1 DEF LiveInv, Publishes
<1> QED BY Zenon, <1>1, <1>4, <1>5 DEF ProcInv

\* PublishOperation: the window takes over the session of the worker.
LEMMA PublishInv == ProcInv /\ PublishOperation => ProcInv'
<1> SUFFICES ASSUME ProcInv, PublishOperation PROVE ProcInv'
  BY Zenon
<1>1. /\ memory' = memory /\ access' = access /\ worker.pc = "done" /\ worker' = Idle
      /\ session' = IF Publishes(worker) THEN worker.s ELSE session
  BY Zenon DEF PublishOperation
<1>2. worker' \in WorkerRecord /\ worker'.pc = "idle" /\ worker'.op = "none"
  BY <1>1 DEF Idle, WorkerRecord
<1>3. SessionOK(session')
  BY Zenon, <1>1 DEF ProcInv, WorkerInv
<1>4. WorkerInv'
  BY Zenon, <1>2 DEF WorkerInv, SuccessLocks
<1>5. ASSUME ~TargetWrites PROVE LiveInv'
  <2>1. worker \in WorkerRecord /\ LiveInv
    BY Zenon, <1>5 DEF ProcInv, WorkerInv
  <2>2. ~Publishes(worker) => worker.op = "Load"
    BY Zenon, <2>1 DEF Publishes
  <2>3. Accord(session', memory)
    BY Zenon, <1>1, <2>1, <2>2 DEF LiveInv
  <2> QED BY Zenon, <1>1, <1>2, <2>3 DEF LiveInv
<1> QED BY Zenon, <1>1, <1>3, <1>4, <1>5 DEF ProcInv

\* The target process writes its own memory.
LEMMA TargetInv == ProcInv /\ TargetStores => ProcInv'
<1> SUFFICES ASSUME ProcInv, TargetStores PROVE ProcInv'
  BY Zenon
<1>1. memory' \in View /\ TargetWrites
      /\ access' = access /\ session' = session /\ worker' = worker
  BY Zenon DEF ProcInv, TargetStores, View
<1>2. WorkerInv'
  BY Zenon, <1>1 DEF ProcInv, WorkerInv, SuccessLocks, Publishes, Operating, Writing, SessionOK, HasBuffer, EditsExact
<1> QED BY Zenon, <1>1, <1>2 DEF ProcInv

-----------------------------------------------------------------------------
(* The steps of the worker. *)

\* An operation that fails before its first write.
LEMMA EarlyFailure ==
    ASSUME ProcInv, worker.pc = "start", UNCHANGED <<memory, session>>,
           AccessOK(access'), worker' \in WorkerRecord, worker'.pc = "done",
           worker'.op = worker.op, ~worker'.ok,
           SessionOK(worker'.s), Keeps(worker.s, worker'.s)
    PROVE  ProcInv'
<1>1. Operating(worker) /\ memory \in View
  BY Zenon DEF ProcInv, WorkerInv
<1>2. HasBuffer(worker.s) /\ HasBuffer(worker'.s) /\ worker.op \in {"Apply", "Rollback"}
  BY Zenon, <1>1 DEF Operating, Keeps
<1>3. ASSUME ~TargetWrites PROVE Accord(worker'.s, memory')
  <2>1. Accord(worker.s, memory)
    BY Zenon, <1>3 DEF ProcInv, LiveInv
  <2> QED BY Zenon, <1>2, <2>1, AccordKept
<1> QED BY Zenon, <1>1, <1>2, <1>3, EndStep

\* A preflight that is refused leaves the session and the memory as they were.
LEMMA GiveUpInv == ProcInv /\ GiveUp => ProcInv'
<1> SUFFICES ASSUME ProcInv, GiveUp PROVE ProcInv'
  BY Zenon
<1>1. /\ worker \in WorkerRecord /\ Operating(worker) /\ AccessOK(access)
      /\ worker.pc = "start" /\ ~worker.ok /\ UNCHANGED <<memory, session>>
  BY Zenon DEF ProcInv, WorkerInv, GiveUp
<1>2. SessionOK(worker.s) /\ HasBuffer(worker.s)
  BY Zenon, <1>1 DEF Operating
<1>3. CASE worker' = [worker EXCEPT !.pc = "done"] /\ UNCHANGED access
  <2>1. worker' \in WorkerRecord /\ worker'.pc = "done" /\ worker'.op = worker.op
        /\ worker'.ok = worker.ok /\ worker'.s = worker.s
    BY Zenon, <1>1, <1>3 DEF WorkerRecord
  <2> QED BY Zenon, <1>1, <1>2, <1>3, <2>1, EarlyFailure DEF Keeps
<1>4. CASE Finish(worker.s, FALSE, access)
  BY Zenon, <1>1, <1>2, <1>4, FinishEffect, EarlyFailure
<1> QED BY Zenon, <1>3, <1>4 DEF GiveUp

\* The first write is near: the copy now holds both views.
LEMMA BeginStep ==
    ASSUME ProcInv, worker.pc = "start", UNCHANGED <<memory, access, session>>,
           worker' \in WorkerRecord, worker'.pc = "write", worker'.op = worker.op,
           worker'.ok = worker.ok, Writing(worker'),
           ~TargetWrites => Accepts(worker'.s, memory)
    PROVE  ProcInv'
<1>1. Operating(worker) /\ ~worker.ok
  BY Zenon DEF ProcInv, WorkerInv
<1>2. WorkerInv'
  BY Zenon, <1>1 DEF WorkerInv, SuccessLocks
<1>3. ASSUME ~TargetWrites PROVE LiveInv'
  BY Zenon, <1>1, <1>3 DEF LiveInv, Operating
<1> QED BY Zenon, <1>2, <1>3 DEF ProcInv

\* Apply up to its first write: baseline and memory agree, the image to
\* restore is kept and the runs cover the edited bytes.
LEMMA ApplyPreflightInv == ProcInv /\ ApplyPreflight => ProcInv'
<1> SUFFICES ASSUME ProcInv, ApplyPreflight PROVE ProcInv'
  BY Zenon
<1>1. /\ worker \in WorkerRecord /\ Operating(worker) /\ AccessOK(access) /\ memory \in View
      /\ worker.pc = "start" /\ worker.op = "Apply" /\ UNCHANGED <<memory, session>>
  BY Zenon DEF ProcInv, WorkerInv, ApplyPreflight
<1>2. SessionOK(worker.s) /\ HasBuffer(worker.s)
  BY Zenon, <1>1 DEF Operating
<1>3. CASE Fail("Error", access)
  BY Zenon, <1>1, <1>2, <1>3, FailEffect, EarlyFailure DEF State
<1>4. CASE Fail("Conflict", access)
  BY Zenon, <1>1, <1>2, <1>4, FailEffect, EarlyFailure DEF State
<1>5. CASE /\ memory = worker.s.baseline /\ UNCHANGED access
           /\ worker' = [worker EXCEPT !.pc = "write", !.s = Staged(worker.s),
                                       !.runs = DiffRuns(worker.s)]
  <2> DEFINE t == Staged(worker.s)
             r == DiffRuns(worker.s)
  <2>1. /\ SessionOK(t) /\ HasBuffer(t) /\ t.partial /\ t.dirty = worker.s.dirty
        /\ t.rollback = worker.s.baseline /\ t.expected = worker.s.working
        /\ t.working = worker.s.working
    BY Zenon, <1>2, StagedOK
  <2>2. worker.s.dirty \in SUBSET Offset /\ worker.s.baseline \in View /\ worker.s.working \in View
    BY Zenon, <1>2 DEF SessionOK, Fields
  <2>3. r \in Seq(SUBSET Offset) /\ \A i \in 1 .. Len(r) : r[i] \subseteq worker.s.dirty
    BY Zenon, <2>2, RunsAreDirty
  <2>4. t \in Fields
    BY Zenon, <2>1 DEF SessionOK
  <2> HIDE DEF t, r
  <2>5. worker' \in WorkerRecord /\ worker'.pc = "write" /\ worker'.op = worker.op
        /\ worker'.ok = worker.ok /\ worker'.s = t /\ worker'.runs = r
    BY Zenon, <1>1, <1>5, <2>3, <2>4 DEF WorkerRecord, t, r
  <2>6. Writing(worker')
    BY Zenon, <1>1, <2>1, <2>2, <2>3, <2>5 DEF Writing, Operating
  <2>7. Accepts(t, memory)
    BY Zenon, <1>5, <2>1, <2>2, SessionAssumption DEF Accepts, View, Offset
  <2> QED BY Zenon, <1>1, <1>5, <2>5, <2>6, <2>7, BeginStep
<1> QED BY Zenon, <1>3, <1>4, <1>5 DEF ApplyPreflight

\* Rollback up to its first write: the memory holds what the rollback
\* expects.
LEMMA RollbackPreflightInv == ProcInv /\ RollbackPreflight => ProcInv'
<1> SUFFICES ASSUME ProcInv, RollbackPreflight PROVE ProcInv'
  BY Zenon
<1>1. /\ worker \in WorkerRecord /\ Operating(worker) /\ AccessOK(access) /\ memory \in View
      /\ worker.pc = "start" /\ worker.op = "Rollback" /\ UNCHANGED <<memory, session>>
      /\ worker.s.rollback \in View
  BY Zenon DEF ProcInv, WorkerInv, RollbackPreflight
<1>2. SessionOK(worker.s) /\ HasBuffer(worker.s)
  BY Zenon, <1>1 DEF Operating
<1>3. CASE Fail("Error", access)
  BY Zenon, <1>1, <1>2, <1>3, FailEffect, EarlyFailure DEF State
<1>4. CASE Fail("Conflict", access)
  BY Zenon, <1>1, <1>2, <1>4, FailEffect, EarlyFailure DEF State
<1>5. CASE /\ UNCHANGED access
           /\ worker' = [worker EXCEPT !.pc = "write", !.s = Restoring(worker.s, memory),
                                       !.runs = <<Offset>>]
  <2> DEFINE t == Restoring(worker.s, memory)
  <2>1. /\ SessionOK(t) /\ HasBuffer(t) /\ t.partial
        /\ t.rollback = worker.s.rollback /\ t.expected = memory
    BY Zenon, <1>1, <1>2, RestoringOK
  <2>2. t \in Fields
    BY Zenon, <2>1 DEF SessionOK
  <2> HIDE DEF t
  <2>3. worker' \in WorkerRecord /\ worker'.pc = "write" /\ worker'.op = worker.op
        /\ worker'.ok = worker.ok /\ worker'.s = t
    <3>1. <<Offset>> \in Seq(SUBSET Offset)
      OBVIOUS
    <3> QED BY Zenon, <1>1, <1>5, <2>2, <3>1 DEF WorkerRecord, t
  <2>4. Writing(worker')
    BY Zenon, <1>1, <2>1, <2>3 DEF Writing, Operating
  <2>5. Accepts(t, memory)
    BY Zenon, <1>1, <2>1, SessionAssumption DEF Accepts, View, Offset
  <2> QED BY Zenon, <1>1, <1>5, <2>3, <2>4, <2>5, BeginStep
<1> QED BY Zenon, <1>3, <1>4, <1>5 DEF RollbackPreflight

\* What an operation writes is one of the two views it knows.
LEMMA TargetIsKnown ==
    ASSUME Writing(worker)
    PROVE  Target \in View /\ Target \in {worker.s.rollback, worker.s.expected}
BY Zenon DEF Writing, Operating, Target

\* A write that reached any part of its run leaves a mixture of the two views.
LEMMA MixtureKept ==
    ASSUME Writing(worker), memory \in View, Accepts(worker.s, memory), NEW d,
           memory' = [o \in Offset |-> IF o \in d THEN Target[o] ELSE memory[o]]
    PROVE  Accepts(worker.s, memory')
<1>1. worker.s.partial /\ worker.s.expected # None
  BY Zenon, SessionAssumption DEF Writing, View, Offset
<1>2. \A o \in Offset : memory[o] \in {worker.s.rollback[o], worker.s.expected[o]}
  BY Zenon, <1>1 DEF Accepts
<1>3. \A o \in Offset : memory'[o] \in {worker.s.rollback[o], worker.s.expected[o]}
  BY Zenon, <1>2, TargetIsKnown
<1> QED BY Zenon, <1>1, <1>3 DEF Accepts

\* An operation that fails after it may have written.
LEMMA LateFailure ==
    ASSUME ProcInv, worker.pc \in {"write", "readback"}, session' = session,
           memory' \in View, AccessOK(access'), worker' \in WorkerRecord,
           worker'.pc = "done", worker'.op = worker.op, ~worker'.ok,
           SessionOK(worker'.s), Keeps(worker.s, worker'.s),
           ~TargetWrites => Accepts(worker.s, memory')
    PROVE  ProcInv'
<1>1. Writing(worker)
  BY Zenon DEF ProcInv, WorkerInv
<1>2. HasBuffer(worker'.s) /\ worker.op \in {"Apply", "Rollback"} /\ worker.s.partial
  BY Zenon, <1>1 DEF Writing, Operating, Keeps
<1>3. ASSUME ~TargetWrites PROVE Accord(worker'.s, memory')
  BY Zenon, <1>2, <1>3 DEF Accord, Keeps, Accepts
<1> QED BY Zenon, <1>2, <1>3, EndStep

\* One run is written, in part, or refused.
LEMMA WriteRunInv == ProcInv /\ WriteRun => ProcInv'
<1> SUFFICES ASSUME ProcInv, WriteRun PROVE ProcInv'
  BY Zenon
<1>1. /\ worker \in WorkerRecord /\ Writing(worker) /\ AccessOK(access) /\ memory \in View
      /\ worker.pc = "write" /\ worker.runs # <<>> /\ ~worker.ok /\ session' = session
      /\ ~TargetWrites => Accepts(worker.s, memory)
  BY Zenon DEF ProcInv, WorkerInv, WriteRun, LiveInv
<1>2. PICK r \in WriteOnce(access, Head(worker.runs)) :
          /\ memory' = [o \in Offset |-> IF o \in r.done THEN Target[o] ELSE memory[o]]
          /\ IF r.ok THEN access' = r.a /\ worker' = [worker EXCEPT !.runs = Tail(@)]
             ELSE Fail("Error", r.a)
  BY Zenon DEF WriteRun
<1>3. AccessOK(r.a) /\ r.ok \in BOOLEAN
  BY Zenon, <1>1, WriteOnceEffect
<1>4. memory' \in View
  BY Zenon, <1>1, <1>2, TargetIsKnown DEF View
<1>5. ~TargetWrites => Accepts(worker.s, memory')
  BY Zenon, <1>1, <1>2, MixtureKept
<1>6. SessionOK(worker.s)
  BY Zenon, <1>1 DEF Writing, Operating
<1>7. CASE ~r.ok
  <2>1. Fail("Error", r.a)
    BY Zenon, <1>2, <1>7
  <2> QED BY <1>1, <1>3, <1>4, <1>5, <1>6, <2>1, FailEffect, LateFailure DEF State
<1>8. CASE r.ok
  <2>1. access' = r.a /\ worker' = [worker EXCEPT !.runs = Tail(worker.runs)]
    BY Zenon, <1>2, <1>8
  <2> DEFINE rest == Tail(worker.runs)
  <2>2. worker.runs \in Seq(SUBSET Offset)
    BY Zenon, <1>1 DEF WorkerRecord
  <2>3. rest \in Seq(SUBSET Offset)
        /\ \A i \in 1 .. Len(rest) : i + 1 \in 1 .. Len(worker.runs)
                                     /\ rest[i] = worker.runs[i + 1]
    BY <1>1, <2>2
  <2> HIDE DEF rest
  <2>4. worker' \in WorkerRecord /\ worker'.pc = "write" /\ worker'.op = worker.op
        /\ worker'.ok = worker.ok /\ worker'.s = worker.s /\ worker'.runs = rest
    BY Zenon, <1>1, <2>1, <2>3 DEF WorkerRecord, rest
  <2>5. Writing(worker')
    BY Zenon, <1>1, <2>3, <2>4 DEF Writing, Operating
  <2>6. WorkerInv'
    BY Zenon, <1>1, <2>4, <2>5 DEF WorkerInv, SuccessLocks
  <2>7. ASSUME ~TargetWrites PROVE LiveInv'
    BY Zenon, <1>1, <1>5, <2>4, <2>7 DEF LiveInv, Writing, Operating
  <2> QED BY Zenon, <1>1, <1>3, <1>4, <2>1, <2>6, <2>7 DEF ProcInv
<1> QED BY Zenon, <1>7, <1>8

\* The access is locked after the last run, and the result looked at.
LEMMA DisarmAfterRunsInv == ProcInv /\ DisarmAfterRuns => ProcInv'
<1> SUFFICES ASSUME ProcInv, DisarmAfterRuns PROVE ProcInv'
  BY Zenon
<1>1. /\ worker \in WorkerRecord /\ Writing(worker) /\ AccessOK(access) /\ memory \in View
      /\ worker.pc = "write" /\ ~worker.ok /\ UNCHANGED <<memory, session>>
      /\ ~TargetWrites => Accepts(worker.s, memory)
  BY Zenon DEF ProcInv, WorkerInv, DisarmAfterRuns, LiveInv
<1>2. PICK d \in GuardDisarm(access) :
          /\ access' = d.a
          /\ worker' = IF d.ok THEN [worker EXCEPT !.pc = "readback"]
                       ELSE [worker EXCEPT !.pc = "done", !.s.state = "Error"]
  BY Zenon DEF DisarmAfterRuns
<1>3. AccessOK(d.a) /\ d.ok \in BOOLEAN /\ (d.ok => ~d.a.armed /\ ~d.a.gate)
  BY Zenon, <1>1, GuardDisarmEffect
<1>4. SessionOK(worker.s) /\ worker.s \in Fields
  BY Zenon, <1>1 DEF Writing, Operating, SessionOK
<1>5. CASE ~d.ok
  <2> DEFINE t == [worker.s EXCEPT !.state = "Error"]
  <2>1. SessionOK(t) /\ Keeps(worker.s, t)
    BY Zenon, <1>4, StateOK DEF State
  <2>2. t \in Fields
    BY Zenon, <2>1 DEF SessionOK
  <2>3. worker' = [worker EXCEPT !.pc = "done", !.s = t]
    BY Zenon, <1>2, <1>5
  <2> HIDE DEF t
  <2>4. worker' \in WorkerRecord /\ worker'.pc = "done" /\ worker'.op = worker.op
        /\ worker'.ok = worker.ok /\ worker'.s = t
    BY Zenon, <1>1, <2>2, <2>3 DEF WorkerRecord
  <2> QED BY Zenon, <1>1, <1>2, <1>3, <2>1, <2>4, LateFailure
<1>6. CASE d.ok
  <2>1. worker' \in WorkerRecord /\ worker'.pc = "readback" /\ worker'.op = worker.op
        /\ worker'.ok = worker.ok /\ worker'.s = worker.s /\ worker'.runs = worker.runs
    BY Zenon, <1>1, <1>2, <1>6 DEF WorkerRecord
  <2>2. Writing(worker')
    BY Zenon, <1>1, <2>1 DEF Writing, Operating
  <2>3. WorkerInv'
    BY Zenon, <1>1, <1>2, <1>3, <1>6, <2>1, <2>2 DEF WorkerInv, SuccessLocks
  <2>4. ASSUME ~TargetWrites PROVE LiveInv'
    BY Zenon, <1>1, <2>1, <2>4 DEF LiveInv, Writing, Operating
  <2> QED BY Zenon, <1>1, <1>2, <1>3, <2>3, <2>4 DEF ProcInv
<1> QED BY Zenon, <1>3, <1>5, <1>6

\* The range is read again: the operation succeeds only with what it wrote.
LEMMA ReadbackInv == ProcInv /\ (Readback \/ ReadbackFails) => ProcInv'
<1> SUFFICES ASSUME ProcInv, Readback \/ ReadbackFails PROVE ProcInv'
  BY Zenon
<1>1. /\ worker \in WorkerRecord /\ Writing(worker) /\ AccessOK(access) /\ memory \in View
      /\ worker.pc = "readback" /\ ~worker.ok /\ UNCHANGED <<memory, access, session>>
      /\ ~access.armed /\ ~access.gate
      /\ ~TargetWrites => Accepts(worker.s, memory)
  BY Zenon DEF ProcInv, WorkerInv, Readback, ReadbackFails, LiveInv
<1>2. SessionOK(worker.s) /\ worker.s \in Fields
  BY Zenon, <1>1 DEF Writing, Operating, SessionOK
<1>3. CASE worker' = [worker EXCEPT !.pc = "done", !.s.state = "VerificationFailed"]
  <2> DEFINE t == [worker.s EXCEPT !.state = "VerificationFailed"]
  <2>1. SessionOK(t) /\ Keeps(worker.s, t)
    BY Zenon, <1>2, StateOK DEF State
  <2>2. t \in Fields
    BY Zenon, <2>1 DEF SessionOK
  <2>3. worker' = [worker EXCEPT !.pc = "done", !.s = t]
    BY Zenon, <1>3
  <2> HIDE DEF t
  <2>4. worker' \in WorkerRecord /\ worker'.pc = "done" /\ worker'.op = worker.op
        /\ worker'.ok = worker.ok /\ worker'.s = t
    BY Zenon, <1>1, <2>2, <2>3 DEF WorkerRecord
  <2> QED BY Zenon, <1>1, <2>1, <2>4, LateFailure
<1>4. CASE /\ memory = Target
           /\ worker' = [worker EXCEPT !.pc = "done", !.s = Verified(worker.s, Target),
                                       !.ok = TRUE]
  <2> DEFINE t == Verified(worker.s, Target)
  <2>1. SessionOK(t) /\ HasBuffer(t) /\ ~t.partial /\ t.baseline = memory
    BY Zenon, <1>1, <1>2, <1>4, VerifiedOK
  <2>2. t \in Fields
    BY Zenon, <2>1 DEF SessionOK
  <2> HIDE DEF t
  <2>3. worker' \in WorkerRecord /\ worker'.pc = "done" /\ worker'.op = worker.op
        /\ worker'.s = t
    BY Zenon, <1>1, <1>4, <2>2 DEF WorkerRecord, t
  <2>4. Accord(t, memory)
    BY Zenon, <2>1 DEF Accord, Accepts
  <2>5. worker.op \in {"Apply", "Rollback"}
    BY Zenon, <1>1 DEF Writing, Operating
  <2> QED BY Zenon, <1>1, <2>1, <2>3, <2>4, <2>5, EndStep
<1> QED BY Zenon, <1>3, <1>4 DEF Readback, ReadbackFails

\* Every step of the window, the worker and the target keeps the invariant.
LEMMA ProcNext == ProcInv /\ [Next]_vars => ProcInv'
<1> SUFFICES ASSUME ProcInv, [Next]_vars PROVE ProcInv'
  BY Zenon
<1>1. CASE WorkerStep
  BY <1>1, LoadInv, GiveUpInv, ApplyPreflightInv, RollbackPreflightInv, WriteRunInv,
     DisarmAfterRunsInv, ReadbackInv DEF WorkerStep
<1>2. CASE UNCHANGED vars
  BY Zenon, <1>2 DEF vars, ProcInv, WorkerInv, LiveInv, SuccessLocks
<1> QED BY Zenon, <1>1, <1>2, LocalEditInv, ArmLockInv, StartLoadInv, StartInv, PublishInv,
           TargetInv DEF Next

\* The invariant of the editor of process memory, over any interleaving of
\* the window, its worker and the stores of the target.
THEOREM ProcessSessionInvariant == Spec => []ProcInv
BY ProcInit, ProcNext, PTL DEF Spec

\* An apply or a rollback that reports success has left neither the arm nor the
\* driver's gate open (SuccessLocks).
THEOREM SuccessAlwaysLocks == Spec => []SuccessLocks
<1>1. ProcInv => SuccessLocks
  BY Zenon DEF ProcInv, WorkerInv
<1> QED BY <1>1, ProcessSessionInvariant, PTL

\* While the target leaves its memory alone, an offered rollback is never
\* refused as a conflict, whatever failed half-way before it (RollbackAccepted).
THEOREM RollbackStaysAccepted ==
    ASSUME ~TargetWrites
    PROVE  Spec => []RollbackAccepted
<1>1. ProcInv => RollbackAccepted
  BY Zenon DEF ProcInv, WorkerInv, LiveInv, Accord, RollbackAccepted, Busy
<1> QED BY <1>1, ProcessSessionInvariant, PTL

\* While the target leaves the range alone, a session that is idle and not
\* faulted shows the live bytes as its baseline.
THEOREM BaselineStaysLive ==
    ASSUME ~TargetWrites
    PROVE  Spec => []BaselineLive
<1>1. ProcInv => BaselineLive
  BY Zenon DEF ProcInv, WorkerInv, LiveInv, Accord, BaselineLive, Busy
<1> QED BY <1>1, ProcessSessionInvariant, PTL

\* A step that changes the memory writes bytes of the run it is at.
LEMMA EditedStep ==
    ASSUME ProcInv, [Next]_vars, worker.pc = "write", worker.op = "Apply",
           worker' # worker, NEW o \in Offset \ worker.s.dirty
    PROVE  memory'[o] = memory[o]
<1>1. worker \in WorkerRecord /\ Writing(worker) /\ AccessOK(access)
  BY Zenon DEF ProcInv, WorkerInv
<1>2. CASE WriteRun
  <2>1. PICK r \in WriteOnce(access, Head(worker.runs)) :
          memory' = [p \in Offset |-> IF p \in r.done THEN Target[p] ELSE memory[p]]
    BY Zenon, <1>2 DEF WriteRun
  <2>2. r.done \subseteq Head(worker.runs)
    BY Zenon, <1>1, WriteOnceEffect
  <2>3. worker.runs \in Seq(SUBSET Offset) /\ worker.runs # <<>>
    BY Zenon, <1>1, <1>2 DEF WorkerRecord, WriteRun
  <2>4. Head(worker.runs) = worker.runs[1] /\ 1 \in 1 .. Len(worker.runs)
    BY <2>3
  <2>5. Head(worker.runs) \subseteq worker.s.dirty
    BY Zenon, <1>1, <2>4 DEF Writing
  <2> QED BY Zenon, <2>1, <2>2, <2>5
<1>3. CASE ~WriteRun
  <2>1. memory' = memory
    BY Zenon, <1>3 DEF Next, vars, LocalEdit, Editable, Busy, ArmWrites, LockWrites, StartLoad, Start,
       WorkerStep, Load, GiveUp, ApplyPreflight, RollbackPreflight, DisarmAfterRuns,
       Readback, ReadbackFails, PublishOperation, TargetStores
  <2> QED BY Zenon, <2>1
<1> QED BY Zenon, <1>2, <1>3

\* The runs of Apply: the dirty map is exact through every edit and failed
\* operation, and an apply changes no byte outside it (OnlyEditedBytes).
THEOREM OnlyEditedBytesWritten == Spec => OnlyEditedBytes
<1>1. ProcInv => DirtyExact
  BY Zenon DEF ProcInv, SessionOK, EditsExact, DirtyExact
<1>2. ProcInv /\ [Next]_vars =>
        [worker.pc = "write" /\ worker.op = "Apply" /\ worker' # worker =>
              \A o \in Offset \ worker.s.dirty : memory'[o] = memory[o]]_vars
  BY Zenon, EditedStep
<1> QED BY <1>1, <1>2, ProcessSessionInvariant, PTL DEF Spec, OnlyEditedBytes

-----------------------------------------------------------------------------
(* The panels and tasks that share a process: for any number of panels, of   *)
(* which any may be polled, and any number of process objects.  NoDangling   *)
(* and ExclusiveIo need only the types; LifecycleQuiet too, because the      *)
(* guards of the tabs look at the lifecycle task and at each other.          *)

\* The types of the variables the guarantees speak of.
WorkspaceTypes ==
    /\ state \in [Worker -> {"idle", "running", "ready"}]
    /\ uses \in [Worker -> Object \cup {NoObject}]
    /\ process_memory \in Object \cup {NoObject}

WorkspaceInv == WorkspaceTypes /\ WorkersSafe

\* Polling never makes a worker busy, and never hides one that runs.
LEMMA PolledOnlyIdles ==
    ASSUME WorkspaceTypes
    PROVE  /\ Polled \in [Worker -> {"idle", "running", "ready"}]
           /\ \A w \in Worker : WorkerBusy(Polled, w) => WorkerBusy(state, w)
           /\ \A w \in Worker : state[w] = "running" <=> Polled[w] = "running"
           /\ \A w \in Worker : state[w] = "idle" => Polled[w] = "idle"
BY Zenon DEF WorkspaceTypes, Polled, WorkerBusy

\* The window starts with no process and idle workers.
LEMMA InitSafe == PWInit => WorkspaceInv
BY Zenon, WorkspaceConstants
   DEF PWInit, WorkspaceInv, WorkspaceTypes, WorkersSafe, NoDangling, ExclusiveIo, LifecycleQuiet,
       WorkerBusy, Worker, ProcessWorker

\* Starting a worker of a panel while no other panel is busy, a process is
\* attached and no lifecycle task runs keeps the guarantees.
LEMMA StartKeeps ==
    ASSUME WorkspaceInv, NEW w \in Worker, Started(w),
           w \in ProcessWorker => process_memory # NoObject,
           w \in IoPanel => \A v \in IoPanel \ {w} : ~WorkerBusy(state, v),
           w \in IoPanel \cup {Usage} => lifecycle # "kdbg"
    PROVE  WorkspaceInv'
<1> USE DEF WorkspaceInv, WorkspaceTypes, WorkersSafe
<1>1. /\ state' = [state EXCEPT ![w] = "running"]
      /\ uses' = [uses EXCEPT ![w] = process_memory]
      /\ process_memory' = process_memory /\ lifecycle' = lifecycle
  BY Zenon DEF Started
<1>2. WorkspaceTypes'
  BY Zenon, <1>1
<1>3. NoDangling'
  BY Zenon, <1>1 DEF NoDangling, Worker, ProcessWorker
<1>4. ExclusiveIo'
  BY Zenon, <1>1 DEF ExclusiveIo, WorkerBusy, Worker
<1>5. LifecycleQuiet'
  BY Zenon, <1>1 DEF LifecycleQuiet, Worker
<1> QED BY Zenon, <1>2, <1>3, <1>4, <1>5

\* Every step of the window keeps the guarantees.
LEMMA StepSafe == WorkspaceInv /\ [PWNext]_wvars => WorkspaceInv'
<1> SUFFICES ASSUME WorkspaceInv, [PWNext]_wvars PROVE WorkspaceInv'
  BY Zenon
<1> USE DEF WorkspaceInv, WorkersSafe
<1> DEFINE Same == UNCHANGED <<process_memory, state, uses>>
<1>same. ASSUME Same, lifecycle' = lifecycle \/ lifecycle' # "kdbg" PROVE WorkspaceInv'
  BY Zenon, <1>same DEF WorkspaceTypes, NoDangling, ExclusiveIo, LifecycleQuiet, WorkerBusy
<1>1. ASSUME NEW w \in IoPanel, StartPanel(w) PROVE WorkspaceInv'
  <2>1. Started(w) /\ w \in Worker
    BY Zenon, <1>1 DEF StartPanel, Worker
  <2>2. process_memory # NoObject /\ lifecycle # "kdbg"
    BY Zenon, <1>1 DEF StartPanel, LifecycleBusy
  <2>3. \A v \in IoPanel \ {w} : ~WorkerBusy(state, v)
    BY Zenon, <1>1 DEF StartPanel, Competing
  <2> QED BY Zenon, <2>1, <2>2, <2>3, StartKeeps
<1>2. CASE NavigateBrowser
  <2>1. Started(Browser) /\ Browser \in Worker /\ process_memory # NoObject
    BY Zenon, <1>2, WorkspaceConstants DEF NavigateBrowser, Worker
  <2>2. \A v \in IoPanel : ~WorkerBusy(state, v)
    BY Zenon, <1>2 DEF NavigateBrowser, ProcessIoBusy, ProcessWorker
  <2>3. lifecycle # "kdbg"
    BY Zenon, <1>2 DEF NavigateBrowser, LifecycleBusy, LifecycleQuiet, WorkerBusy
  <2> QED BY Zenon, <2>1, <2>2, <2>3, StartKeeps
<1>3. CASE StartAnalysisEvidenceExport
  <2>1. Started(Evidence) /\ process_memory # NoObject
    BY Zenon, <1>3 DEF StartAnalysisEvidenceExport
  <2>2. Evidence \in Worker /\ Evidence \notin IoPanel \cup {Usage}
    BY Zenon, WorkspaceConstants DEF Worker, ProcessWorker
  <2> QED BY Zenon, <2>1, <2>2, StartKeeps
<1>4. CASE StartOwnershipQuery
  <2>1. Started(Usage) /\ lifecycle # "kdbg"
    BY Zenon, <1>4 DEF StartOwnershipQuery, LifecycleBusy
  <2>2. Usage \in Worker /\ Usage \notin ProcessWorker /\ Usage \notin IoPanel
    BY Zenon, WorkspaceConstants DEF Worker, ProcessWorker
  <2> QED BY Zenon, <2>1, <2>2, StartKeeps
<1>5. CASE StartKernelRead
  <2>1. Started(KernelRead)
    BY Zenon, <1>5 DEF StartKernelRead
  <2>2. /\ KernelRead \in Worker /\ KernelRead \notin ProcessWorker
        /\ KernelRead \notin IoPanel \cup {Usage}
    BY Zenon, WorkspaceConstants DEF Worker, ProcessWorker
  <2> QED BY Zenon, <2>1, <2>2, StartKeeps
<1>6. CASE KernelSymbolJob
  BY Zenon, <1>6, <1>same DEF KernelSymbolJob
<1>7. ASSUME NEW w \in Worker, WorkerReturns(w) PROVE WorkspaceInv'
  <2>1. /\ state' = [state EXCEPT ![w] = IF w \in Future THEN "ready" ELSE "idle"]
        /\ uses' = [uses EXCEPT ![w] = NoObject]
        /\ process_memory' = process_memory /\ lifecycle' = lifecycle
        /\ state[w] = "running"
    BY Zenon, <1>7 DEF WorkerReturns
  <2>2. WorkspaceTypes'
    BY Zenon, <2>1 DEF WorkspaceTypes
  <2>3. NoDangling'
    BY Zenon, <2>1 DEF NoDangling, WorkspaceTypes, Worker, ProcessWorker
  <2>4. ExclusiveIo'
    BY Zenon, <2>1 DEF ExclusiveIo, WorkerBusy, WorkspaceTypes, Worker
  <2>5. LifecycleQuiet'
    BY Zenon, <2>1 DEF LifecycleQuiet, WorkspaceTypes, Worker
  <2> QED BY Zenon, <2>2, <2>3, <2>4, <2>5
<1>8. ASSUME NEW action, QueueDeferredAction(action) PROVE WorkspaceInv'
  BY Zenon, <1>8, <1>same DEF QueueDeferredAction
<1>9. CASE LockAllWrites
  BY Zenon, <1>9, <1>same DEF LockAllWrites
<1>10. CASE StartLifecycleAction
  BY Zenon, <1>10, <1>8, <1>same DEF StartLifecycleAction
<1>11. CASE DrawFrame
  <2>1. state' = Polled /\ uses' = uses /\ PollDeferredAction(Polled)
    BY Zenon, <1>11 DEF DrawFrame
  <2>2. process_memory' # process_memory => ~ProcessIoBusy(Polled)
    BY Zenon, <2>1 DEF PollDeferredAction, Waits
  <2>3. process_memory' \in Object \cup {NoObject}
    BY Zenon, <2>1 DEF PollDeferredAction, WorkspaceTypes
  <2>4. lifecycle' = "kdbg" => lifecycle = "kdbg" \/ ~BackendIoBusy(Polled)
    BY Zenon, <2>1 DEF PollDeferredAction, PollLifecycleAction, Waits
  <2>5. WorkspaceTypes'
    BY Zenon, <2>1, <2>3, PolledOnlyIdles DEF WorkspaceTypes
  <2>6. NoDangling'
    <3> SUFFICES ASSUME NEW w \in ProcessWorker, Polled[w] = "running"
                 PROVE  uses[w] = process_memory' /\ process_memory' # NoObject
      BY Zenon, <2>1 DEF NoDangling
    <3>1. w \in Worker /\ state[w] = "running"
      BY Zenon, PolledOnlyIdles DEF Worker, ProcessWorker
    <3>2. process_memory' = process_memory
      BY Zenon, <2>2 DEF ProcessIoBusy, WorkerBusy
    <3> QED BY Zenon, <3>1, <3>2 DEF NoDangling
  <2>7. ExclusiveIo'
    BY Zenon, <2>1, PolledOnlyIdles DEF ExclusiveIo, Worker, WorkerBusy
  <2>8. LifecycleQuiet'
    <3> SUFFICES ASSUME lifecycle' = "kdbg", NEW w \in IoPanel \cup {Usage}
                 PROVE  Polled[w] = "idle"
      BY Zenon, <2>1 DEF LifecycleQuiet
    <3>1. CASE lifecycle = "kdbg"
      BY Zenon, <3>1, PolledOnlyIdles DEF LifecycleQuiet, Worker
    <3>2. CASE ~BackendIoBusy(Polled)
      BY Zenon, <3>2 DEF BackendIoBusy, ProcessIoBusy, WorkerBusy, ProcessWorker
    <3> QED BY Zenon, <2>4, <3>1, <3>2
  <2> QED BY Zenon, <2>5, <2>6, <2>7, <2>8
<1>12. CASE CloseWindow
  BY Zenon, <1>12, <1>same DEF CloseWindow
<1>13. CASE Destroyed
  <2>1. PWInit'
    BY Zenon, <1>13 DEF Destroyed, PWInit
  <2> QED
    BY Zenon, <2>1, WorkspaceConstants
       DEF PWInit, WorkspaceTypes, NoDangling, ExclusiveIo, LifecycleQuiet, WorkerBusy,
           Worker, ProcessWorker
<1>14. CASE UNCHANGED wvars
  BY Zenon, <1>14, <1>same DEF wvars
<1> QED
  BY Zenon, <1>1, <1>2, <1>3, <1>4, <1>5, <1>6, <1>7, <1>8, <1>9, <1>10, <1>11, <1>12,
     <1>13, <1>14
     DEF PWNext, AttachSelectedProcess, DisconnectProcess, ConnectBackend

\* Whatever was deferred, cancelled or closed: no worker of the window outlives
\* its process object, at most one process I/O panel is busy, and none of them
\* is while the KDBG service is changed (the gating of the tabs,
\* PollDeferredAction and FinishDisconnectProcess of MainWindow).
THEOREM WorkersAreSafe == PWSpec => []WorkersSafe
<1>1. WorkspaceInv => WorkersSafe
  BY Zenon DEF WorkspaceInv
<1> QED BY InitSafe, StepSafe, <1>1, PTL DEF PWSpec

-----------------------------------------------------------------------------
(* The page walks.  Four definitions are recursive: that each has a value    *)
(* which satisfies its equation is shown by induction, as the absence of a   *)
(* least counterexample.                                                     *)

\* A set of numbers has a least one.
LEMMA LeastNumber ==
    ASSUME NEW T, T \subseteq Nat, T # {}
    PROVE  \E x \in T : \A y \in T : x <= y
<1>1. \E x \in T : \A y \in T : ~ (<<y, x>> \in OpToRel(<,Nat))
  BY Zenon, NatLessThanWellFounded, WFMin
<1>2. PICK x \in T : \A y \in T : ~ (<<y, x>> \in OpToRel(<,Nat))
  BY Zenon, <1>1
<1>3. \A y \in T : ~(y < x)
  BY Zenon, <1>2 DEF OpToRel
<1> QED BY <1>3

\* Induction from 0 to n: a set of numbers that has the first one, and with each
\* also the next.
LEMMA UpTo ==
    ASSUME NEW n \in Nat, NEW T, 0 \in T, \A m \in 1 .. n : m - 1 \in T => m \in T
    PROVE  \A m \in 0 .. n : m \in T
<1> DEFINE B == {m \in 0 .. n : m \notin T}
<1> SUFFICES ASSUME B # {} PROVE FALSE
  BY Zenon
<1>1. B \subseteq Nat
  OBVIOUS
<1>2. PICK m \in B : \A y \in B : m <= y
  BY Zenon, <1>1, LeastNumber
<1>3. m \in 0 .. n /\ m \notin T
  BY Zenon, <1>2
<1>4. m # 0
  BY Zenon, <1>3
<1>5. m \in 1 .. n /\ m - 1 \in 0 .. n /\ ~(m <= m - 1)
  BY <1>3, <1>4
<1>6. m - 1 \in T
  BY Zenon, <1>2, <1>5
<1> QED BY Zenon, <1>3, <1>5, <1>6

\* The recursive definition of the spans.
SpanEq(f, i) == IF i = 0 THEN 1 ELSE Fan * f[i - 1]

\* The spans satisfy it.
LEMMA SpansEquation == Spans = [i \in 0 .. Levels |-> SpanEq(Spans, i)]
<1> DEFINE Rounds(f, m) == f = [i \in 0 .. m |-> SpanEq(f, i)]
           T == {m \in Nat : \E f : Rounds(f, m)}
<1>1. \E f : Rounds(f, 0)
  <2> DEFINE f == [i \in 0 .. 0 |-> 1]
  <2>1. \A i \in 0 .. 0 : SpanEq(f, i) = 1
    BY DEF SpanEq
  <2>2. Rounds(f, 0)
    BY Zenon, <2>1
  <2> QED BY Zenon, <2>2
<1>2. ASSUME NEW m \in 1 .. Levels, NEW f, Rounds(f, m - 1) PROVE \E h : Rounds(h, m)
  <2> DEFINE h == [i \in 0 .. m |-> SpanEq(f, i)]
  <2>1. ASSUME NEW i \in 0 .. m PROVE SpanEq(h, i) = SpanEq(f, i)
    <3>1. CASE i = 0
      BY Zenon, <3>1 DEF SpanEq
    <3>2. CASE i # 0
      <4>1. i - 1 \in 0 .. m - 1 /\ i - 1 \in 0 .. m
        BY <3>2
      <4>2. f[i - 1] = SpanEq(f, i - 1)
        BY Zenon, <1>2, <4>1
      <4>3. h[i - 1] = f[i - 1]
        BY Zenon, <4>1, <4>2
      <4> HIDE DEF h
      <4> QED BY Zenon, <4>3 DEF SpanEq
    <3> QED BY Zenon, <3>1, <3>2
  <2>2. Rounds(h, m)
    BY Zenon, <2>1
  <2> QED BY Zenon, <2>2
<1> HIDE DEF Rounds
<1>3. Levels \in Nat /\ Levels \in 0 .. Levels
  BY PagingAssumption
<1>4. \A m \in 1 .. Levels : m \in Nat /\ m - 1 \in Nat
  OBVIOUS
<1>5. 0 \in T
  BY Zenon, <1>1
<1>6. \A m \in 1 .. Levels : m - 1 \in T => m \in T
  BY Zenon, <1>2, <1>4
<1> HIDE DEF T
<1>7. Levels \in T
  BY Zenon, <1>3, <1>5, <1>6, UpTo
<1>8. \E f : Rounds(f, Levels)
  BY Zenon, <1>7 DEF T
<1>9. Rounds(Spans, Levels)
  <2>1. Spans = CHOOSE f : Rounds(f, Levels)
    BY Zenon DEF Spans, SpanEq, Rounds
  <2> QED BY Zenon, <1>8, <2>1
<1> QED BY Zenon, <1>9 DEF Rounds

\* The recursive definition of a walk of the driver.
WalkEq(mem, va, f, i) ==
    [table \in Frame |-> IF i = 0 THEN Fault ELSE Step(mem, va, i, table, f[i - 1])]

\* A walk from a table of a level is a step and the walk from the next level.
LEMMA WalkEquation ==
    ASSUME NEW mem, NEW va
    PROVE  Walk(mem, va) = [i \in 0 .. Levels |-> WalkEq(mem, va, Walk(mem, va), i)]
<1> DEFINE Rounds(f, m) == f = [i \in 0 .. m |-> WalkEq(mem, va, f, i)]
           T == {m \in Nat : \E f : Rounds(f, m)}
<1>1. \E f : Rounds(f, 0)
  <2> DEFINE f == [i \in 0 .. 0 |-> [table \in Frame |-> Fault]]
  <2>1. \A i \in 0 .. 0 : WalkEq(mem, va, f, i) = [table \in Frame |-> Fault]
    BY DEF WalkEq
  <2>2. Rounds(f, 0)
    BY Zenon, <2>1
  <2> QED BY Zenon, <2>2
<1>2. ASSUME NEW m \in 1 .. Levels, NEW f, Rounds(f, m - 1) PROVE \E h : Rounds(h, m)
  <2> DEFINE h == [i \in 0 .. m |-> WalkEq(mem, va, f, i)]
  <2>1. ASSUME NEW i \in 0 .. m PROVE WalkEq(mem, va, h, i) = WalkEq(mem, va, f, i)
    <3>1. CASE i = 0
      BY Zenon, <3>1 DEF WalkEq
    <3>2. CASE i # 0
      <4>1. i - 1 \in 0 .. m - 1 /\ i - 1 \in 0 .. m
        BY <3>2
      <4>2. f[i - 1] = WalkEq(mem, va, f, i - 1)
        BY Zenon, <1>2, <4>1
      <4>3. h[i - 1] = f[i - 1]
        BY Zenon, <4>1, <4>2
      <4> HIDE DEF h
      <4> QED BY Zenon, <4>3 DEF WalkEq
    <3> QED BY Zenon, <3>1, <3>2
  <2>2. Rounds(h, m)
    BY Zenon, <2>1
  <2> QED BY Zenon, <2>2
<1> HIDE DEF Rounds
<1>3. Levels \in Nat /\ Levels \in 0 .. Levels
  BY PagingAssumption
<1>4. \A m \in 1 .. Levels : m \in Nat /\ m - 1 \in Nat
  OBVIOUS
<1>5. 0 \in T
  BY Zenon, <1>1
<1>6. \A m \in 1 .. Levels : m - 1 \in T => m \in T
  BY Zenon, <1>2, <1>4
<1> HIDE DEF T
<1>7. Levels \in T
  BY Zenon, <1>3, <1>5, <1>6, UpTo
<1>8. \E f : Rounds(f, Levels)
  BY Zenon, <1>7 DEF T
<1> DEFINE walk == CHOOSE f : Rounds(f, Levels)
<1>9. Walk(mem, va) = walk
  BY Zenon DEF Walk, WalkEq, Rounds
<1>10. Rounds(walk, Levels)
  BY Zenon, <1>8
<1> HIDE DEF walk
<1> QED BY Zenon, <1>9, <1>10 DEF Rounds

\* The recursive definition of a visit of the mapper.
VisitEq(q, f, i) ==
    [at \in Place |-> [s \in Progress |->
       IF i = 0 THEN s ELSE OfTable(q, i, at, f[i - 1], s)]]

VisitIs(q, f, i, at, s) ==
    /\ i = 0 => VisitEq(q, f, i)[at][s] = s
    /\ i # 0 => VisitEq(q, f, i)[at][s] = OfTable(q, i, at, f[i - 1], s)

\* One level of a visit, as a function of the place and the progress.
LEMMA VisitAt ==
    ASSUME NEW q, NEW f, NEW i, NEW at \in Place, NEW s \in Progress
    PROVE  VisitIs(q, f, i, at, s)
BY Zenon DEF VisitEq, VisitIs

\* A visit of a table of a level rests on the visits of the next level.
LEMMA VisitEquation ==
    ASSUME NEW q
    PROVE  Visit(q) = [i \in 0 .. Levels |-> VisitEq(q, Visit(q), i)]
<1> DEFINE Rounds(f, m) == f = [i \in 0 .. m |-> VisitEq(q, f, i)]
           T == {m \in Nat : \E f : Rounds(f, m)}
<1>1. \E f : Rounds(f, 0)
  <2> DEFINE f == [i \in 0 .. 0 |-> [at \in Place |-> [s \in Progress |-> s]]]
  <2>1. \A i \in 0 .. 0 : VisitEq(q, f, i) = [at \in Place |-> [s \in Progress |-> s]]
    BY DEF VisitEq
  <2>2. Rounds(f, 0)
    BY Zenon, <2>1
  <2> QED BY Zenon, <2>2
<1>2. ASSUME NEW m \in 1 .. Levels, NEW f, Rounds(f, m - 1) PROVE \E h : Rounds(h, m)
  <2> DEFINE h == [i \in 0 .. m |-> VisitEq(q, f, i)]
  <2>1. ASSUME NEW i \in 0 .. m PROVE VisitEq(q, h, i) = VisitEq(q, f, i)
    <3>1. CASE i = 0
      BY Zenon, <3>1 DEF VisitEq
    <3>2. CASE i # 0
      <4>1. i - 1 \in 0 .. m - 1 /\ i - 1 \in 0 .. m
        BY <3>2
      <4>2. f[i - 1] = VisitEq(q, f, i - 1)
        BY Zenon, <1>2, <4>1
      <4>3. h[i - 1] = f[i - 1]
        BY Zenon, <4>1, <4>2
      <4> HIDE DEF h
      <4> QED BY Zenon, <4>3 DEF VisitEq
    <3> QED BY Zenon, <3>1, <3>2
  <2>2. Rounds(h, m)
    BY Zenon, <2>1
  <2> QED BY Zenon, <2>2
<1> HIDE DEF Rounds
<1>3. Levels \in Nat /\ Levels \in 0 .. Levels
  BY PagingAssumption
<1>4. \A m \in 1 .. Levels : m \in Nat /\ m - 1 \in Nat
  OBVIOUS
<1>5. 0 \in T
  BY Zenon, <1>1
<1>6. \A m \in 1 .. Levels : m - 1 \in T => m \in T
  BY Zenon, <1>2, <1>4
<1> HIDE DEF T
<1>7. Levels \in T
  BY Zenon, <1>3, <1>5, <1>6, UpTo
<1>8. \E f : Rounds(f, Levels)
  BY Zenon, <1>7 DEF T
<1> DEFINE visit == CHOOSE f : Rounds(f, Levels)
<1>9. Visit(q) = visit
  BY Zenon DEF Visit, VisitEq, Rounds
<1>10. Rounds(visit, Levels)
  BY Zenon, <1>8
<1> HIDE DEF visit
<1> QED BY Zenon, <1>9, <1>10 DEF Rounds

\* The recursive definition of the loop over the entries.
EntryEq(q, level, at, below, s, f, i) ==
    IF i = 0 THEN s ELSE OfEntry(q, level, at, below, f[i - 1], i - 1)

\* The loop takes one entry after the other.
EntriesDone(q, level, at, below, s, done) ==
    /\ done = [i \in 0 .. Fan |-> EntryEq(q, level, at, below, s, done, i)]
    /\ Entries(q, level, at, below, s) = done[Fan]

\* There is such a sequence of rounds for every table.
LEMMA EntriesEquation ==
    ASSUME NEW q, NEW level, NEW at, NEW below, NEW s
    PROVE  \E done : EntriesDone(q, level, at, below, s, done)
<1> DEFINE Rounds(f, m) == f = [i \in 0 .. m |-> EntryEq(q, level, at, below, s, f, i)]
           T == {m \in Nat : \E f : Rounds(f, m)}
<1>1. \E f : Rounds(f, 0)
  <2> DEFINE f == [i \in 0 .. 0 |-> s]
  <2>1. \A i \in 0 .. 0 : EntryEq(q, level, at, below, s, f, i) = s
    BY DEF EntryEq
  <2>2. Rounds(f, 0)
    BY Zenon, <2>1
  <2> QED BY Zenon, <2>2
<1>2. ASSUME NEW m \in 1 .. Fan, NEW f, Rounds(f, m - 1) PROVE \E h : Rounds(h, m)
  <2> DEFINE h == [i \in 0 .. m |-> EntryEq(q, level, at, below, s, f, i)]
  <2>1. ASSUME NEW i \in 0 .. m
        PROVE  EntryEq(q, level, at, below, s, h, i) = EntryEq(q, level, at, below, s, f, i)
    <3>1. CASE i = 0
      BY Zenon, <3>1 DEF EntryEq
    <3>2. CASE i # 0
      <4>1. i - 1 \in 0 .. m - 1 /\ i - 1 \in 0 .. m
        BY <3>2
      <4>2. f[i - 1] = EntryEq(q, level, at, below, s, f, i - 1)
        BY Zenon, <1>2, <4>1
      <4>3. h[i - 1] = f[i - 1]
        BY Zenon, <4>1, <4>2
      <4> HIDE DEF h
      <4> QED BY Zenon, <4>3 DEF EntryEq
    <3> QED BY Zenon, <3>1, <3>2
  <2>2. Rounds(h, m)
    BY Zenon, <2>1
  <2> QED BY Zenon, <2>2
<1> HIDE DEF Rounds
<1>3. Fan \in Nat /\ Fan \in 0 .. Fan
  BY PagingAssumption
<1>4. \A m \in 1 .. Fan : m \in Nat /\ m - 1 \in Nat
  OBVIOUS
<1>5. 0 \in T
  BY Zenon, <1>1
<1>6. \A m \in 1 .. Fan : m - 1 \in T => m \in T
  BY Zenon, <1>2, <1>4
<1> HIDE DEF T
<1>7. Fan \in T
  BY Zenon, <1>3, <1>5, <1>6, UpTo
<1>8. \E f : Rounds(f, Fan)
  BY Zenon, <1>7 DEF T
<1> DEFINE done == CHOOSE f : Rounds(f, Fan)
<1>9. Entries(q, level, at, below, s) = done[Fan]
  BY Zenon DEF Entries, EntryEq, Rounds
<1>10. Rounds(done, Fan)
  BY Zenon, <1>8
<1> HIDE DEF done
<1> QED BY Zenon, <1>9, <1>10 DEF Rounds, EntriesDone

\* A table of level 0 would be a frame; each level has Fan times as many.
LEMMA SpansAre ==
    /\ Spans[0] = 1
    /\ \A l \in 1 .. Levels : l - 1 \in 0 .. Levels /\ Spans[l] = Fan * Spans[l - 1]
    /\ \A l \in 0 .. Levels : Spans[l] \in Nat /\ Spans[l] > 0
<1> DEFINE T == {l \in 0 .. Levels : Spans[l] \in Nat /\ Spans[l] > 0}
<1>1. Levels \in Nat /\ Fan \in Nat /\ Fan > 0
  BY PagingAssumption
<1>2. \A i \in 0 .. Levels : Spans[i] = SpanEq(Spans, i)
  BY Zenon, SpansEquation
<1>3. 0 \in 0 .. Levels /\ \A l \in 1 .. Levels : l \in 0 .. Levels /\ l - 1 \in 0 .. Levels /\ l # 0
  BY <1>1
<1>4. Spans[0] = 1
  BY Zenon, <1>2, <1>3 DEF SpanEq
<1>5. \A l \in 1 .. Levels : Spans[l] = Fan * Spans[l - 1]
  BY Zenon, <1>2, <1>3 DEF SpanEq
<1>6. ASSUME NEW x \in Nat, x > 0 PROVE Fan * x \in Nat /\ Fan * x > 0
  BY <1>1, <1>6
<1>7. \A l \in 1 .. Levels : l - 1 \in T => l \in T
  BY Zenon, <1>3, <1>5, <1>6
<1>8. 0 \in T
  BY <1>3, <1>4
<1> HIDE DEF T
<1>9. \A l \in 0 .. Levels : l \in T
  BY Zenon, <1>1, <1>7, <1>8, UpTo
<1>10. \A l \in 0 .. Levels : Spans[l] \in Nat /\ Spans[l] > 0
  BY Zenon, <1>9 DEF T
<1> QED BY Zenon, <1>3, <1>4, <1>5, <1>10

\* Division with a remainder.
LEMMA Quotient ==
    ASSUME NEW b \in Nat, b > 0, NEW x \in Nat
    PROVE  /\ x \div b \in Int /\ x % b \in Nat
           /\ x % b < b /\ x = b * (x \div b) + (x % b)
OBVIOUS

\* The digits of a number: division by b undoes a multiplication by b and the
\* addition of less than b.
Divides(x, b, k, r) == x \div b = k /\ x % b = r

\* It is so for every remainder less than b.
LEMMA Divide ==
    ASSUME NEW b \in Nat, b > 0, NEW k \in Nat, NEW r \in 0 .. b - 1
    PROVE  Divides(k * b + r, b, k, r)
<1> DEFINE x == k * b + r
           d == x \div b
           e == x % b
<1>1. x \in Nat
  OBVIOUS
<1>2. d \in Int /\ e \in Nat /\ e < b /\ x = b * d + e
  BY Zenon, <1>1, Quotient
<1>3. b * d + e = k * b + r
  BY <1>2
<1> HIDE DEF d, e, x
<1>4. d = k
  BY <1>2, <1>3
<1>5. e = r
  BY <1>2, <1>3, <1>4
<1> QED BY Zenon, <1>4, <1>5 DEF d, e, x, Divides

-----------------------------------------------------------------------------
(* The addresses under a table and under its entries. *)

\* A table of a level is reached with a prefix that is a multiple of its span.
Lined(l, prefix) == \E k \in Nat : prefix = k * Spans[l]

\* The addresses a table maps, and those one of its entries maps.
Under(l, prefix, va) == va \in Nat /\ prefix <= va /\ va < prefix + Spans[l]
FirstOf(l, prefix, i) == prefix + i * SpanOf(l)
UnderEntry(l, prefix, i, va) == Under(l - 1, FirstOf(l, prefix, i), va)

\* The entries of a table divide its addresses: an address under an entry has the
\* entry's index.
LEMMA EntryOfAddress ==
    ASSUME NEW l \in 1 .. Levels, NEW prefix, Lined(l, prefix), NEW i \in 0 .. Fan - 1
    PROVE  /\ FirstOf(l, prefix, i) \in Nat /\ Lined(l - 1, FirstOf(l, prefix, i))
           /\ \A va : UnderEntry(l, prefix, i, va) =>
                /\ Under(l, prefix, va) /\ Index(va, l) = i
                /\ va % SpanOf(l) = va - FirstOf(l, prefix, i)
<1> DEFINE b == SpanOf(l)
<1>1. PICK k \in Nat : prefix = k * Spans[l]
  BY Zenon DEF Lined
<1>2. Fan \in Nat /\ Fan > 0 /\ i \in Nat /\ i <= Fan - 1
  BY PagingAssumption
<1>3. b \in Nat /\ b > 0 /\ Spans[l] = Fan * b /\ b = Spans[l - 1]
  BY Zenon, SpansAre DEF SpanOf
<1> DEFINE c == k * Fan + i
<1>4. c \in Nat
  BY <1>2
<1>5. FirstOf(l, prefix, i) = c * b
  <2>1. FirstOf(l, prefix, i) = k * (Fan * b) + i * b
    BY Zenon, <1>1, <1>3 DEF FirstOf
  <2> HIDE DEF b
  <2>2. k * (Fan * b) + i * b = (k * Fan + i) * b
    BY <1>2, <1>3
  <2> QED BY Zenon, <2>1, <2>2
<1>6. c % Fan = i
  <2>1. Divides(k * Fan + i, Fan, k, i)
    BY Zenon, <1>2, Divide
  <2> QED BY Zenon, <2>1 DEF Divides
<1>7. c * b \in Nat
  <2> HIDE DEF b, c
  <2> QED BY <1>3, <1>4
<1>8. FirstOf(l, prefix, i) \in Nat /\ Lined(l - 1, FirstOf(l, prefix, i))
  BY Zenon, <1>3, <1>4, <1>5, <1>7 DEF Lined
<1>9. ASSUME NEW va, UnderEntry(l, prefix, i, va)
      PROVE  /\ Under(l, prefix, va) /\ Index(va, l) = i
             /\ va % SpanOf(l) = va - FirstOf(l, prefix, i)
  <2>1. va \in Nat /\ c * b <= va /\ va < c * b + b
    BY Zenon, <1>3, <1>5, <1>9 DEF UnderEntry, Under
  <2> DEFINE r == va - c * b
  <2>2. r \in 0 .. b - 1 /\ va = c * b + r
    <3> HIDE DEF b, c
    <3> QED BY <1>3, <1>7, <2>1
  <2> HIDE DEF r
  <2>3. va \div b = c /\ va % b = r
    <3> HIDE DEF b, c
    <3>1. Divides(c * b + r, b, c, r)
      BY Zenon, <1>3, <1>4, <2>2, Divide
    <3> QED BY Zenon, <2>2, <3>1 DEF Divides
  <2>4. Index(va, l) = i
    BY Zenon, <1>6, <2>3 DEF Index
  <2>5. Under(l, prefix, va)
    <3> HIDE DEF b
    <3>1. c * b = k * (Fan * b) + i * b
      BY <1>2, <1>3
    <3>2. i * b + b <= Fan * b
      BY <1>2, <1>3
    <3>3. prefix = k * (Fan * b) /\ Spans[l] = Fan * b
      BY Zenon, <1>1, <1>3
    <3>4. k * (Fan * b) \in Nat /\ i * b \in Nat /\ Fan * b \in Nat
      BY <1>2, <1>3
    <3> DEFINE kb == k * (Fan * b)
               ib == i * b
               fb == Fan * b
    <3> HIDE DEF kb, ib, fb, c
    <3>5. kb <= va /\ va < kb + fb
      BY <1>3, <1>7, <2>1, <3>1, <3>2, <3>4 DEF kb, ib, fb
    <3> QED BY Zenon, <2>1, <3>3, <3>5 DEF Under, kb, fb
  <2> QED BY Zenon, <1>5, <2>2, <2>3, <2>4, <2>5 DEF r
<1> QED BY Zenon, <1>8, <1>9

\* ... and every address under the table is under one of them.
LEMMA AddressHasEntry ==
    ASSUME NEW l \in 1 .. Levels, NEW prefix, Lined(l, prefix), NEW va, Under(l, prefix, va)
    PROVE  \E i \in 0 .. Fan - 1 : UnderEntry(l, prefix, i, va)
<1> DEFINE b == SpanOf(l)
           r == va - prefix
           i == r \div b
<1>1. Fan \in Nat /\ Fan > 0
  BY PagingAssumption
<1>2. b \in Nat /\ b > 0 /\ Spans[l] = Fan * b /\ b = Spans[l - 1]
  BY Zenon, SpansAre DEF SpanOf
<1>3. prefix \in Nat
  <2>1. PICK k \in Nat : prefix = k * Spans[l]
    BY Zenon DEF Lined
  <2>2. Spans[l] \in Nat
    BY <1>1, <1>2
  <2> QED BY <2>1, <2>2
<1>4. va \in Nat /\ prefix <= va /\ va < prefix + Fan * b
  BY Zenon, <1>2 DEF Under
<1> HIDE DEF b
<1>5. r \in Nat /\ r < Fan * b /\ va = prefix + r
  <2>1. Fan * b \in Nat
    BY <1>1, <1>2
  <2> QED BY <1>3, <1>4, <2>1
<1> HIDE DEF r
<1> DEFINE e == r % b
<1>6. i \in Int /\ e \in Nat /\ e < b /\ r = b * i + e
  BY Zenon, <1>2, <1>5, Quotient
<1> HIDE DEF i, e
<1>8. i \in 0 .. Fan - 1
  <2>1. i >= 0
    BY <1>2, <1>5, <1>6
  <2>2. i < Fan
    BY <1>1, <1>2, <1>5, <1>6, <2>1
  <2> QED BY <1>1, <1>6, <2>1, <2>2
<1>9. prefix + i * b <= va /\ va < (prefix + i * b) + b
  BY <1>2, <1>3, <1>5, <1>6, <1>8
<1> QED BY Zenon, <1>2, <1>4, <1>8, <1>9 DEF UnderEntry, Under, FirstOf, b

-----------------------------------------------------------------------------
(* The walk of the driver. *)

Memory == [Frame -> [0 .. Fan - 1 -> Entry \cup {Absent}]]

\* A table at a level, as a walk notes it.
Here(table, l) == [table |-> table, level |-> l]

\* The result of a walk from level l.
WalkOK(w, l) ==
    /\ w = [frame |-> w.frame, leaf |-> w.leaf, path |-> w.path]
    /\ \A p \in w.path : p.level \in 1 .. l

\* An index is one of the entries.
LEMMA IndexInTable ==
    ASSUME NEW va \in Nat, NEW l \in 1 .. Levels
    PROVE  Index(va, l) \in 0 .. Fan - 1
<1> DEFINE b == SpanOf(l)
<1>1. Fan \in Nat /\ Fan > 0
  BY PagingAssumption
<1>2. b \in Nat /\ b > 0
  BY Zenon, SpansAre DEF SpanOf
<1> HIDE DEF b
<1>3. va \div b \in Int
  BY Zenon, <1>2, Quotient
<1> DEFINE d == va \div b
<1> HIDE DEF d
<1>4. d \in Int
  BY Zenon, <1>3 DEF d
<1>5. d % Fan \in 0 .. Fan - 1
  BY <1>1, <1>4
<1> QED BY Zenon, <1>5 DEF Index, b, d

\* What is in an entry.
LEMMA EntryTypes ==
    ASSUME NEW mem \in Memory, NEW table \in Frame, NEW i \in 0 .. Fan - 1, mem[table][i] # Absent
    PROVE  mem[table][i].pfn \in Frame /\ mem[table][i].page_size \in BOOLEAN
<1>1. mem[table][i] \in Entry
  BY Zenon DEF Memory
<1> QED BY Zenon, <1>1 DEF Entry

\* What a fault and a leaf look like.
LEMMA FaultOK ==
    ASSUME NEW l \in Nat
    PROVE  WalkOK(Fault, l) /\ Fault.frame = Absent
BY DEF Fault, WalkOK

\* ... and a leaf notes the one table it is in.
LEMMA LeafOK ==
    ASSUME NEW l \in Nat \ {0}, NEW table, NEW f
    PROVE  LET here == Here(table, l)
           IN  /\ WalkOK(Leaf(here, f), l) /\ Leaf(here, f).path = {here}
               /\ Leaf(here, f).frame = f /\ Leaf(here, f).leaf = here
<1>1. Here(table, l).level = l /\ l \in 1 .. l
  BY DEF Here
<1> DEFINE here == Here(table, l)
<1>2. here.level \in 1 .. l
  BY <1>1
<1> HIDE DEF here
<1>3. /\ WalkOK(Leaf(here, f), l) /\ Leaf(here, f).path = {here}
      /\ Leaf(here, f).frame = f /\ Leaf(here, f).leaf = here
  BY <1>2 DEF Leaf, WalkOK
<1> QED BY Zenon, <1>3 DEF here

\* One step of a walk: it notes its table unless it ends in a fault.
LEMMA StepOK ==
    ASSUME NEW mem \in Memory, NEW va \in Nat, NEW l \in 1 .. Levels, NEW table \in Frame,
           NEW below, \A u \in Frame : WalkOK(below[u], l - 1)
    PROVE  LET w == Step(mem, va, l, table, below)
           IN  WalkOK(w, l) /\ (w.frame # Absent => Here(table, l) \in w.path)
<1> DEFINE w == Step(mem, va, l, table, below)
           here == Here(table, l)
           entry == mem[table][Index(va, l)]
<1>1. here.level = l /\ l \in 1 .. l /\ l \in Nat \ {0} /\ l \in Nat
  BY DEF Here
<1>2. ASSUME w = Fault PROVE WalkOK(w, l) /\ w.frame = Absent
  BY Zenon, <1>1, <1>2, FaultOK
<1>3. ASSUME NEW f, w = Leaf(here, f)
      PROVE  WalkOK(w, l) /\ here \in w.path
  <2>1. WalkOK(Leaf(here, f), l) /\ Leaf(here, f).path = {here}
    BY Zenon, <1>1, LeafOK
  <2> QED BY Zenon, <1>3, <2>1
<1>4. ASSUME entry # Absent, w = [below[entry.pfn] EXCEPT !.path = @ \cup {here}]
      PROVE  WalkOK(w, l) /\ here \in w.path
  <2>1. entry.pfn \in Frame
    BY Zenon, <1>4, IndexInTable, EntryTypes
  <2> DEFINE v == below[entry.pfn]
  <2>2. WalkOK(v, l - 1)
    BY Zenon, <2>1
  <2> HIDE DEF v
  <2>3. w = [v EXCEPT !.path = v.path \cup {here}]
    BY Zenon, <1>4 DEF v
  <2> HIDE DEF w, here
  <2>4. v = [frame |-> v.frame, leaf |-> v.leaf, path |-> v.path]
    BY Zenon, <2>2 DEF WalkOK
  <2>5. w = [frame |-> v.frame, leaf |-> v.leaf, path |-> v.path \cup {here}]
    BY <2>3, <2>4
  <2>6. \A n \in 1 .. l - 1 : n \in 1 .. l
    OBVIOUS
  <2>7. \A p \in v.path \cup {here} : p.level \in 1 .. l
    BY Zenon, <1>1, <2>2, <2>6 DEF WalkOK
  <2> QED BY Zenon, <2>5, <2>7 DEF WalkOK
<1>5. \/ w = Fault \/ w = Leaf(here, entry.pfn)
      \/ w = Leaf(here, Aligned(entry.pfn, l) + (va % SpanOf(l)))
      \/ entry # Absent /\ w = [below[entry.pfn] EXCEPT !.path = @ \cup {here}]
  BY Zenon DEF Step, Here
<1> HIDE DEF w, here
<1>6. WalkOK(w, l) /\ (w.frame # Absent => here \in w.path)
  BY Zenon, <1>2, <1>3, <1>4, <1>5
<1> QED BY Zenon, <1>6 DEF w, here

\* A walk is a step and a walk from the next level.
LEMMA WalkIs ==
    ASSUME NEW mem \in Memory, NEW va \in Nat, NEW l \in 1 .. Levels, NEW table \in Frame
    PROVE  Walk(mem, va)[l][table] = Step(mem, va, l, table, Walk(mem, va)[l - 1])
<1> DEFINE w == Walk(mem, va)
<1>1. l \in 0 .. Levels /\ l # 0
  OBVIOUS
<1>2. w[l] = WalkEq(mem, va, w, l)
  <2>1. w = [i \in 0 .. Levels |-> WalkEq(mem, va, w, i)]
    BY Zenon, WalkEquation
  <2> HIDE DEF w
  <2> QED BY Zenon, <1>1, <2>1
<1> HIDE DEF w
<1>3. w[l][table] = Step(mem, va, l, table, w[l - 1])
  BY Zenon, <1>1, <1>2 DEF WalkEq
<1> QED BY Zenon, <1>3 DEF w

\* Every walk notes only tables of its own level and below.
LEMMA WalksOK ==
    ASSUME NEW mem \in Memory, NEW va \in Nat
    PROVE  \A l \in 0 .. Levels : \A table \in Frame : WalkOK(Walk(mem, va)[l][table], l)
<1> DEFINE w == Walk(mem, va)
           T == {l \in 0 .. Levels : \A table \in Frame : WalkOK(w[l][table], l)}
<1>1. Levels \in Nat /\ 0 \in 0 .. Levels /\ \A l \in 1 .. Levels : l \in 0 .. Levels
  BY PagingAssumption
<1>2. w = [i \in 0 .. Levels |-> WalkEq(mem, va, w, i)]
  BY Zenon, WalkEquation
<1>3. ASSUME NEW l \in 1 .. Levels, \A u \in Frame : WalkOK(w[l - 1][u], l - 1),
             NEW table \in Frame
      PROVE  WalkOK(w[l][table], l)
  <2>1. w[l][table] = Step(mem, va, l, table, w[l - 1])
    BY Zenon, WalkIs
  <2>2. WalkOK(Step(mem, va, l, table, w[l - 1]), l)
    BY Zenon, <1>3, StepOK
  <2> QED BY Zenon, <2>1, <2>2
<1> HIDE DEF w
<1>4. ASSUME NEW table \in Frame PROVE WalkOK(w[0][table], 0)
  <2>1. w[0] = WalkEq(mem, va, w, 0)
    BY Zenon, <1>1, <1>2
  <2>2. w[0][table] = Fault
    BY Zenon, <2>1 DEF WalkEq
  <2> QED BY <2>2, FaultOK
<1>5. 0 \in T
  BY Zenon, <1>1, <1>4
<1>6. \A l \in 1 .. Levels : l - 1 \in T => l \in T
  BY Zenon, <1>1, <1>3
<1> HIDE DEF T
<1>7. \A l \in 0 .. Levels : l \in T
  BY Zenon, <1>1, <1>5, <1>6, UpTo
<1> QED BY Zenon, <1>7 DEF T, w

-----------------------------------------------------------------------------
(* What the mapper has to find. *)

QueryOK(q) == q.mem \in Memory /\ q.target \in Frame

\* The walk w of va ends at the target, through tables that can be read, that are
\* not on the path and not met twice, and through no malformed entry.
Clear(q, w, va, path) ==
    /\ w.frame = q.target
    /\ \A p \in w.path :
         /\ p.table \notin q.lost /\ p.table \notin path
         /\ ~Malformed(q.mem[p.table][Index(va, p.level)], p.level)
    /\ \A p, r \in w.path : p.table = r.table => p = r

\* How the mapper lists an address.
UsageOf(va, leaf) ==
    [va |-> va, size |-> SpanOf(leaf.level), pte |-> <<leaf.table, Index(va, leaf.level)>>]

\* m is what to list for va, in the walk from a table of level l.
Maps(q, l, at, va, m) ==
    LET w == Walk(q.mem, va)[l][at.table]
    IN  Clear(q, w, va, at.path) /\ m = UsageOf(va, w.leaf)

\* What is to be found under a table and under one of its entries.
FoundBelow(q, l, at, m) == \E va : Under(l, at.prefix, va) /\ Maps(q, l, at, va, m)
FoundIn(q, l, at, i, m) == \E va : UnderEntry(l, at.prefix, i, va) /\ Maps(q, l, at, va, m)

\* A visit of a table, and of one of its entries, lists just that, unless it fails.
Added(q, l, at, s, r) ==
    /\ r \in Progress
    /\ ~Failed(r) => \A m : m \in r.mappings <=> m \in s.mappings \/ FoundBelow(q, l, at, m)
AddedIn(q, l, at, i, s, r) ==
    /\ r \in Progress
    /\ ~Failed(r) =>
         ~Failed(s) /\ \A m : m \in r.mappings <=> m \in s.mappings \/ FoundIn(q, l, at, i, m)

\* The entries of a table share what is to be found under it.
LEMMA FoundInEntries ==
    ASSUME NEW q, NEW l \in 1 .. Levels, NEW at, Lined(l, at.prefix), NEW m
    PROVE  FoundBelow(q, l, at, m) <=> \E i \in 0 .. Fan - 1 : FoundIn(q, l, at, i, m)
<1>1. ASSUME FoundBelow(q, l, at, m) PROVE \E i \in 0 .. Fan - 1 : FoundIn(q, l, at, i, m)
  <2>1. PICK va : Under(l, at.prefix, va) /\ Maps(q, l, at, va, m)
    BY Zenon, <1>1 DEF FoundBelow
  <2>2. PICK i \in 0 .. Fan - 1 : UnderEntry(l, at.prefix, i, va)
    BY Zenon, <2>1, AddressHasEntry
  <2> QED BY Zenon, <2>1, <2>2 DEF FoundIn
<1>2. ASSUME NEW i \in 0 .. Fan - 1, FoundIn(q, l, at, i, m) PROVE FoundBelow(q, l, at, m)
  <2>1. PICK va : UnderEntry(l, at.prefix, i, va) /\ Maps(q, l, at, va, m)
    BY Zenon, <1>2 DEF FoundIn
  <2>2. Under(l, at.prefix, va)
    BY Zenon, <2>1, EntryOfAddress
  <2> QED BY Zenon, <2>1, <2>2 DEF FoundBelow
<1> QED BY Zenon, <1>1, <1>2

\* A clear walk goes through a table that can be read and is not on the path.
LEMMA ClearHere ==
    ASSUME NEW q, QueryOK(q), NEW va \in Nat, NEW l \in 1 .. Levels, NEW table \in Frame,
           NEW path, Clear(q, Walk(q.mem, va)[l][table], va, path)
    PROVE  /\ table \notin q.lost /\ table \notin path
           /\ ~Malformed(q.mem[table][Index(va, l)], l)
<1> DEFINE w == Walk(q.mem, va)[l][table]
           below == Walk(q.mem, va)[l - 1]
<1>1. l - 1 \in 0 .. Levels
  BY Zenon, SpansAre
<1>2. w = Step(q.mem, va, l, table, below)
  BY Zenon, WalkIs DEF QueryOK
<1>3. \A u \in Frame : WalkOK(below[u], l - 1)
  BY Zenon, <1>1, WalksOK DEF QueryOK
<1>4. Step(q.mem, va, l, table, below).frame # Absent =>
        Here(table, l) \in Step(q.mem, va, l, table, below).path
  <2> HIDE DEF below
  <2> QED BY Zenon, <1>3, StepOK DEF QueryOK
<1>5. w.frame # Absent
  <2>1. w.frame = q.target /\ q.target \in Frame /\ Absent \notin Frame
    BY Zenon, PagingAssumption DEF Clear, QueryOK
  <2> QED BY Zenon, <2>1
<1> HIDE DEF w
<1>6. Here(table, l) \in w.path
  BY Zenon, <1>2, <1>4, <1>5
<1>7. Here(table, l).table = table /\ Here(table, l).level = l
  BY DEF Here
<1>8. Clear(q, w, va, path)
  BY Zenon DEF w
<1> QED BY Zenon, <1>6, <1>7, <1>8 DEF Clear

\* Listing a mapping, once.
LEMMA AppendAdds ==
    ASSUME NEW s \in Progress, NEW m \in Usages
    PROVE  /\ AppendMapping(s, m) \in Progress
           /\ ~Failed(AppendMapping(s, m)) =>
                \A n : n \in AppendMapping(s, m).mappings <=> n \in s.mappings \/ n = m
<1> DEFINE r == AppendMapping(s, m)
<1>1. CASE m \in s.mappings
  BY Zenon, <1>1 DEF AppendMapping
<1>2. ASSUME r = [s EXCEPT !.error = "LimitReached"]
      PROVE  r \in Progress /\ Failed(r)
  BY <1>2 DEF Progress, Failed
<1>3. ASSUME r = [s EXCEPT !.mappings = s.mappings \cup {m}]
      PROVE  r \in Progress /\ r.mappings = s.mappings \cup {m}
  BY <1>3 DEF Progress
<1>4. \/ m \in s.mappings \/ r = [s EXCEPT !.error = "LimitReached"]
      \/ r = [s EXCEPT !.mappings = s.mappings \cup {m}]
  BY Zenon DEF AppendMapping
<1> HIDE DEF r
<1> QED BY Zenon, <1>1, <1>2, <1>3, <1>4 DEF r

-----------------------------------------------------------------------------
(* One entry. *)

\* The mapper is at an entry of a table it entered.
AtEntry(q, l, at, i) ==
    /\ QueryOK(q) /\ l \in 1 .. Levels /\ at \in Place /\ Lined(l, at.prefix)
    /\ at.table \notin at.path /\ at.table \notin q.lost /\ i \in 0 .. Fan - 1

EntryAt(q, at, i) == q.mem[at.table][i]

\* The mapping of va in an entry.
ListedAt(l, at, i, va) == [va |-> va, size |-> SpanOf(l), pte |-> <<at.table, i>>]

\* The table entered through an entry.
Onward(q, l, at, i) ==
    [table |-> EntryAt(q, at, i).pfn, prefix |-> FirstOf(l, at.prefix, i),
     path |-> at.path \cup {at.table}]

\* What the walk of an address under the entry does there.
StepsHere(q, l, at, i, va) ==
    /\ va \in Nat /\ Index(va, l) = i
    /\ va % SpanOf(l) = va - FirstOf(l, at.prefix, i)
    /\ Walk(q.mem, va)[l][at.table] = Step(q.mem, va, l, at.table, Walk(q.mem, va)[l - 1])

\* An entry the mapper is at: its place has its types, and the walk of every address
\* under it goes on from there.
LEMMA UnderIs ==
    ASSUME NEW q, NEW l, NEW at, NEW i, AtEntry(q, l, at, i)
    PROVE  /\ at.table \in Frame /\ at.path \subseteq Frame /\ at.prefix \in Nat
           /\ EntryAt(q, at, i) # Absent => EntryAt(q, at, i).pfn \in Frame
           /\ FirstOf(l, at.prefix, i) \in Nat
           /\ \A va : UnderEntry(l, at.prefix, i, va) => StepsHere(q, l, at, i, va)
<1>1. at.table \in Frame /\ at.path \subseteq Frame /\ at.prefix \in Nat
  BY DEF AtEntry, Place
<1>2. EntryAt(q, at, i) # Absent => EntryAt(q, at, i).pfn \in Frame
  BY Zenon, <1>1, EntryTypes DEF EntryAt, AtEntry, QueryOK
<1>3. FirstOf(l, at.prefix, i) \in Nat
  BY Zenon, EntryOfAddress DEF AtEntry
<1>4. ASSUME NEW va, UnderEntry(l, at.prefix, i, va)
      PROVE  StepsHere(q, l, at, i, va)
  <2>1. va \in Nat
    BY Zenon, <1>4 DEF UnderEntry, Under
  <2>2. Index(va, l) = i /\ va % SpanOf(l) = va - FirstOf(l, at.prefix, i)
    BY Zenon, <1>4, EntryOfAddress DEF AtEntry
  <2>3. Walk(q.mem, va)[l][at.table] =
          Step(q.mem, va, l, at.table, Walk(q.mem, va)[l - 1])
    BY Zenon, <1>1, <2>1, WalkIs DEF AtEntry, QueryOK
  <2> QED BY Zenon, <2>1, <2>2, <2>3 DEF StepsHere
<1> QED BY Zenon, <1>1, <1>2, <1>3, <1>4

\* The target is a frame.
LEMMA TargetPresent ==
    ASSUME NEW q, QueryOK(q) PROVE q.target # Absent /\ q.target \in Nat /\ q.target \in Frame
<1>1. q.target \in Frame
  BY Zenon DEF QueryOK
<1>2. Frame \subseteq Nat /\ Absent \notin Frame
  BY Zenon, PagingAssumption
<1> QED BY Zenon, <1>1, <1>2

\* A fault is no mapping.
LEMMA FaultIsNone ==
    ASSUME NEW q, QueryOK(q), NEW va, NEW path
    PROVE  ~Clear(q, Fault, va, path)
<1>1. Fault.frame = Absent
  BY FaultOK
<1> QED BY Zenon, <1>1, TargetPresent DEF Clear

\* Nothing is to be found under an entry that is not present or malformed.
LEMMA NoneIn ==
    ASSUME NEW q, NEW l, NEW at, NEW i, AtEntry(q, l, at, i),
           EntryAt(q, at, i) = Absent \/ Malformed(EntryAt(q, at, i), l), NEW m
    PROVE  ~FoundIn(q, l, at, i, m)
<1> SUFFICES ASSUME NEW va, UnderEntry(l, at.prefix, i, va), Maps(q, l, at, va, m) PROVE FALSE
  BY Zenon DEF FoundIn
<1> DEFINE w == Walk(q.mem, va)[l][at.table]
<1>1. Clear(q, w, va, at.path)
  BY Zenon DEF Maps
<1>2. va \in Nat /\ Index(va, l) = i /\ at.table \in Frame
      /\ w = Step(q.mem, va, l, at.table, Walk(q.mem, va)[l - 1])
  <2>1. StepsHere(q, l, at, i, va) /\ at.table \in Frame
    BY Zenon, UnderIs
  <2> QED BY Zenon, <2>1 DEF StepsHere
<1>3. ~Malformed(q.mem[at.table][Index(va, l)], l)
  BY Zenon, <1>1, <1>2, ClearHere DEF AtEntry
<1>4. EntryAt(q, at, i) = Absent
  BY Zenon, <1>2, <1>3 DEF EntryAt
<1>5. w = Fault
  BY Zenon, <1>2, <1>4 DEF Step, EntryAt
<1> QED BY Zenon, <1>1, <1>5, FaultIsNone DEF AtEntry

\* A leaf in the entry is found if it is a leaf of the target.
LeafFound(q, l, at, i, va, f, m) ==
    Maps(q, l, at, va, m) <=> f = q.target /\ m = ListedAt(l, at, i, va)

\* The walk of an address that ends in the entry is found just when its frame is the
\* target.
LEMMA LeafIn ==
    ASSUME NEW q, NEW l, NEW at, NEW i, AtEntry(q, l, at, i), ~Malformed(EntryAt(q, at, i), l),
           NEW va, UnderEntry(l, at.prefix, i, va), NEW f,
           Walk(q.mem, va)[l][at.table] = Leaf(Here(at.table, l), f), NEW m
    PROVE  LeafFound(q, l, at, i, va, f, m)
<1> DEFINE here == Here(at.table, l)
           w == Leaf(here, f)
<1>1. l \in Nat \ {0}
  BY DEF AtEntry
<1>2. w.path = {here} /\ w.frame = f /\ w.leaf = here
  BY Zenon, <1>1, LeafOK
<1>3. here.table = at.table /\ here.level = l
  BY DEF Here
<1>4. Index(va, l) = i
  <2>1. StepsHere(q, l, at, i, va)
    BY Zenon, UnderIs
  <2> QED BY Zenon, <2>1 DEF StepsHere
<1> HIDE DEF here, w
<1>5. Clear(q, w, va, at.path) <=> f = q.target
  BY Zenon, <1>2, <1>3, <1>4 DEF Clear, AtEntry, EntryAt
<1>6. UsageOf(va, w.leaf) = ListedAt(l, at, i, va)
  BY Zenon, <1>2, <1>3, <1>4 DEF UsageOf, ListedAt
<1>7. Walk(q.mem, va)[l][at.table] = w
  BY Zenon DEF w, here
<1> QED BY Zenon, <1>5, <1>6, <1>7 DEF Maps, LeafFound

\* Under a large leaf there is at most one address of the target.
LEMMA LargeIn ==
    ASSUME NEW q, NEW l, NEW at, NEW i, AtEntry(q, l, at, i), EntryAt(q, at, i) # Absent,
           Large(EntryAt(q, at, i), l), NEW m
    PROVE  LET e == EntryAt(q, at, i)
               b == Aligned(e.pfn, l)
           IN  FoundIn(q, l, at, i, m) <=>
                 /\ ~Reserved(e, l) /\ q.target >= b /\ q.target - b < SpanOf(l)
                 /\ m = ListedAt(l, at, i, FirstOf(l, at.prefix, i) + q.target - b)
<1> DEFINE e == EntryAt(q, at, i)
           b == Aligned(e.pfn, l)
           begin == FirstOf(l, at.prefix, i)
           size == SpanOf(l)
           here == Here(at.table, l)
<1>1. ~Malformed(e, l)
  BY DEF Large, Malformed
<1>2. CASE Reserved(e, l)
  <2>1. ASSUME NEW va, UnderEntry(l, at.prefix, i, va) PROVE ~Maps(q, l, at, va, m)
    <3>1. Index(va, l) = i
          /\ Walk(q.mem, va)[l][at.table] = Step(q.mem, va, l, at.table, Walk(q.mem, va)[l - 1])
      <4>1. StepsHere(q, l, at, i, va)
        BY Zenon, <2>1, UnderIs
      <4> QED BY Zenon, <4>1 DEF StepsHere
    <3>2. Walk(q.mem, va)[l][at.table] = Fault
      BY Zenon, <1>2, <3>1 DEF Step, EntryAt
    <3> QED BY Zenon, <3>2, FaultIsNone DEF Maps, AtEntry
  <2> QED BY Zenon, <1>2, <2>1 DEF FoundIn
<1>3. CASE ~Reserved(e, l)
  <2>1. ASSUME NEW va, UnderEntry(l, at.prefix, i, va)
        PROVE  Maps(q, l, at, va, m) <=> b + (va - begin) = q.target /\ m = ListedAt(l, at, i, va)
    <3>1. Index(va, l) = i /\ va % size = va - begin
          /\ Walk(q.mem, va)[l][at.table] = Step(q.mem, va, l, at.table, Walk(q.mem, va)[l - 1])
      <4>1. StepsHere(q, l, at, i, va)
        BY Zenon, <2>1, UnderIs
      <4> QED BY Zenon, <4>1 DEF StepsHere
    <3>2. Walk(q.mem, va)[l][at.table] = Leaf(here, b + (va % size))
      BY Zenon, <1>3, <3>1 DEF Step, EntryAt, Here
    <3>3. Walk(q.mem, va)[l][at.table] = Leaf(here, b + (va - begin))
      BY Zenon, <3>1, <3>2
    <3>4. LeafFound(q, l, at, i, va, b + (va - begin), m)
      BY Zenon, <1>1, <2>1, <3>3, LeafIn
    <3> QED BY Zenon, <3>4 DEF LeafFound
  <2>2. begin \in Nat /\ e.pfn \in Frame /\ q.target \in Nat
    BY Zenon, UnderIs, TargetPresent DEF AtEntry
  <2>3. size \in Nat /\ size > 0 /\ size = Spans[l - 1]
    BY Zenon, SpansAre DEF AtEntry, SpanOf
  <2>4. b \in Int
    <3>1. e.pfn \in Nat
      BY Zenon, <2>2, PagingAssumption
    <3> HIDE DEF e, size
    <3>2. e.pfn % size \in Nat
      BY Zenon, <2>3, <3>1, Quotient
    <3>3. e.pfn - (e.pfn % size) \in Int
      BY <3>1, <3>2
    <3> QED BY Zenon, <3>3 DEF Aligned, size
  <2> HIDE DEF b, e, begin, size
  <2>5. \A va : UnderEntry(l, at.prefix, i, va) <=>
                  va \in Nat /\ begin <= va /\ va < begin + size
    BY Zenon, <2>3 DEF UnderEntry, Under, begin
  <2> DEFINE a == begin + q.target - b
  <2>6. ASSUME q.target >= b, q.target - b < size
        PROVE  a \in Nat /\ begin <= a /\ a < begin + size /\ b + (a - begin) = q.target
    BY <2>2, <2>3, <2>4, <2>6
  <2>7. ASSUME NEW va \in Nat, begin <= va, va < begin + size, b + (va - begin) = q.target
        PROVE  q.target >= b /\ q.target - b < size /\ va = a
    BY <2>2, <2>3, <2>4, <2>7
  <2> HIDE DEF a
  <2>8. FoundIn(q, l, at, i, m) <=>
          q.target >= b /\ q.target - b < size /\ m = ListedAt(l, at, i, a)
    BY Zenon, <2>1, <2>5, <2>6, <2>7 DEF FoundIn
  <2> QED BY Zenon, <1>3, <2>8 DEF a, b, e, begin, size
<1> QED BY Zenon, <1>2, <1>3

\* Under an entry of a page table there is one address.
LEMMA PageIn ==
    ASSUME NEW q, NEW at, NEW i, AtEntry(q, 1, at, i), EntryAt(q, at, i) # Absent, NEW m
    PROVE  FoundIn(q, 1, at, i, m) <=>
             /\ EntryAt(q, at, i).pfn = q.target
             /\ m = ListedAt(1, at, i, FirstOf(1, at.prefix, i))
<1> DEFINE e == EntryAt(q, at, i)
           begin == FirstOf(1, at.prefix, i)
           here == Here(at.table, 1)
<1>1. ~Malformed(e, 1) /\ ~Large(e, 1)
  BY DEF Large, Malformed
<1>2. ASSUME NEW va, UnderEntry(1, at.prefix, i, va)
      PROVE  Maps(q, 1, at, va, m) <=> e.pfn = q.target /\ m = ListedAt(1, at, i, va)
  <2>1. Index(va, 1) = i
        /\ Walk(q.mem, va)[1][at.table] = Step(q.mem, va, 1, at.table, Walk(q.mem, va)[1 - 1])
    <3>1. StepsHere(q, 1, at, i, va)
      BY Zenon, <1>2, UnderIs
    <3> QED BY Zenon, <3>1 DEF StepsHere
  <2>2. Walk(q.mem, va)[1][at.table] = Leaf(here, e.pfn)
    BY Zenon, <1>1, <2>1 DEF Step, EntryAt, Here
  <2>3. LeafFound(q, 1, at, i, va, e.pfn, m)
    BY Zenon, <1>1, <1>2, <2>2, LeafIn
  <2> QED BY Zenon, <2>3 DEF LeafFound
<1>3. begin \in Nat
  BY Zenon, UnderIs
<1>4. Spans[1 - 1] = 1
  <2>1. 1 - 1 = 0
    OBVIOUS
  <2> QED BY Zenon, <2>1, SpansAre
<1> HIDE DEF begin, e
<1>5. \A va : UnderEntry(1, at.prefix, i, va) <=> va \in Nat /\ begin <= va /\ va < begin + 1
  BY Zenon, <1>4 DEF UnderEntry, Under, begin
<1>6. \A va : (va \in Nat /\ begin <= va /\ va < begin + 1) <=> va = begin
  BY <1>3
<1>7. \A va : UnderEntry(1, at.prefix, i, va) <=> va = begin
  BY Zenon, <1>5, <1>6
<1> QED BY Zenon, <1>2, <1>7 DEF FoundIn, begin, e

\* Under any other entry there is what is under the table it points to.
LEMMA OnwardIn ==
    ASSUME NEW q, NEW l, NEW at, NEW i, AtEntry(q, l, at, i), EntryAt(q, at, i) # Absent,
           ~Malformed(EntryAt(q, at, i), l), ~Large(EntryAt(q, at, i), l), l # 1, NEW m
    PROVE  FoundIn(q, l, at, i, m) <=> FoundBelow(q, l - 1, Onward(q, l, at, i), m)
<1> DEFINE e == EntryAt(q, at, i)
           here == Here(at.table, l)
           next == Onward(q, l, at, i)
<1>1. next.table = e.pfn /\ next.prefix = FirstOf(l, at.prefix, i)
      /\ next.path = at.path \cup {at.table}
  BY DEF Onward
<1>2. here.table = at.table /\ here.level = l
  BY DEF Here
<1> HIDE DEF next
<1>3. ASSUME NEW va, UnderEntry(l, at.prefix, i, va)
      PROVE  Maps(q, l, at, va, m) <=> Maps(q, l - 1, next, va, m)
  <2> DEFINE w == Walk(q.mem, va)[l][at.table]
             v == Walk(q.mem, va)[l - 1][e.pfn]
  <2>1. va \in Nat /\ Index(va, l) = i /\ e.pfn \in Frame
        /\ w = Step(q.mem, va, l, at.table, Walk(q.mem, va)[l - 1])
    <3>1. StepsHere(q, l, at, i, va) /\ e.pfn \in Frame
      BY Zenon, <1>3, UnderIs
    <3> QED BY Zenon, <3>1 DEF StepsHere
  <2>2. w = [v EXCEPT !.path = v.path \cup {here}]
    BY Zenon, <2>1 DEF Step, EntryAt, Here
  <2>3. l - 1 \in 0 .. Levels
    BY Zenon, SpansAre DEF AtEntry
  <2>4. WalkOK(v, l - 1)
    BY Zenon, <2>1, <2>3, WalksOK DEF AtEntry, QueryOK
  <2> HIDE DEF w, v, here, e
  <2>5. v = [frame |-> v.frame, leaf |-> v.leaf, path |-> v.path]
    BY Zenon, <2>4 DEF WalkOK
  <2>6. w.frame = v.frame /\ w.leaf = v.leaf /\ w.path = v.path \cup {here}
    BY <2>2, <2>5
  <2>7. \A p \in v.path : p # here
    <3>1. l \notin 1 .. l - 1
      BY DEF AtEntry
    <3> QED BY Zenon, <1>2, <2>4, <3>1 DEF WalkOK
  <2>8. at.table \notin q.lost /\ at.table \notin at.path
        /\ ~Malformed(q.mem[here.table][Index(va, here.level)], here.level)
    BY Zenon, <1>2, <2>1 DEF AtEntry, EntryAt
  <2>9. ASSUME Clear(q, w, va, at.path) PROVE Clear(q, v, va, next.path)
    <3>1. \A p \in v.path : p \in w.path
      BY Zenon, <2>6
    <3>2. here \in w.path
      BY Zenon, <2>6
    <3>3. \A p \in v.path : p.table \notin next.path
      BY Zenon, <1>1, <1>2, <2>7, <2>9, <3>1, <3>2 DEF Clear
    <3> QED BY Zenon, <2>6, <2>9, <3>1, <3>3 DEF Clear
  <2>10. ASSUME Clear(q, v, va, next.path) PROVE Clear(q, w, va, at.path)
    <3>1. \A p \in v.path : p.table # here.table /\ p.table \notin at.path
      BY Zenon, <1>1, <1>2, <2>10 DEF Clear
    <3>2. \A p, r \in w.path : p.table = r.table => p = r
      BY Zenon, <2>6, <2>10, <3>1 DEF Clear
    <3>3. \A p \in w.path :
             /\ p.table \notin q.lost /\ p.table \notin at.path
             /\ ~Malformed(q.mem[p.table][Index(va, p.level)], p.level)
      BY Zenon, <1>2, <2>6, <2>8, <2>10, <3>1 DEF Clear
    <3> QED BY Zenon, <2>6, <2>10, <3>2, <3>3 DEF Clear
  <2> QED BY Zenon, <1>1, <2>6, <2>9, <2>10 DEF Maps, w, v
<1>4. \A va : UnderEntry(l, at.prefix, i, va) <=> Under(l - 1, next.prefix, va)
  BY Zenon, <1>1 DEF UnderEntry
<1> QED BY Zenon, <1>3, <1>4 DEF FoundIn, FoundBelow, next

\* The table entered through an entry is one that can be visited.
LEMMA OnwardOK ==
    ASSUME NEW q, NEW l, NEW at, NEW i, AtEntry(q, l, at, i), EntryAt(q, at, i) # Absent
    PROVE  Onward(q, l, at, i) \in Place /\ Lined(l - 1, Onward(q, l, at, i).prefix)
<1> DEFINE begin == FirstOf(l, at.prefix, i)
           pfn == EntryAt(q, at, i).pfn
<1>1. at.table \in Frame /\ at.path \subseteq Frame /\ begin \in Nat /\ pfn \in Frame
  BY Zenon, UnderIs
<1>2. Lined(l - 1, begin)
  BY Zenon, EntryOfAddress DEF AtEntry
<1> HIDE DEF begin, pfn
<1>3. Onward(q, l, at, i) =
        [table |-> pfn, prefix |-> begin, path |-> at.path \cup {at.table}]
  BY Zenon DEF Onward, begin, pfn
<1>4. Onward(q, l, at, i) \in Place /\ Onward(q, l, at, i).prefix = begin
  BY <1>1, <1>3 DEF Place
<1> QED BY Zenon, <1>2, <1>4

\* What the mapper lists has the form of a mapping.
LEMMA ListedOK ==
    ASSUME NEW q, NEW l, NEW at, NEW i, AtEntry(q, l, at, i), NEW a \in Nat
    PROVE  ListedAt(l, at, i, a) \in Usages
<1>1. at.table \in Frame
  BY Zenon, UnderIs
<1>2. SpanOf(l) \in Nat
  BY Zenon, SpansAre DEF AtEntry, SpanOf
<1>3. i \in 0 .. Fan - 1
  BY Zenon DEF AtEntry
<1> QED BY <1>1, <1>2, <1>3 DEF ListedAt, Usages

\* The visits of a level list what is to be found.
VisitOK(q, l, visit) ==
    \A at \in Place, s \in Progress :
        Lined(l, at.prefix) => Added(q, l, at, s, visit[at][s])

\* An entry that lists nothing, and one that lists one mapping.
LEMMA EntrySkips ==
    ASSUME NEW q, NEW l, NEW at, NEW i, NEW s \in Progress,
           \A m : ~FoundIn(q, l, at, i, m), ~Failed(s)
    PROVE  AddedIn(q, l, at, i, s, s)
BY Zenon DEF AddedIn

\* ... and one that lists a mapping adds the only one there is to find.
LEMMA EntryLists ==
    ASSUME NEW q, NEW l, NEW at, NEW i, NEW s \in Progress, NEW n \in Usages, ~Failed(s),
           \A m : FoundIn(q, l, at, i, m) <=> m = n
    PROVE  AddedIn(q, l, at, i, s, AppendMapping(s, n))
<1> DEFINE r == AppendMapping(s, n)
<1>1. r \in Progress
      /\ (~Failed(r) => \A m : m \in r.mappings <=> m \in s.mappings \/ m = n)
  BY Zenon, AppendAdds
<1> HIDE DEF r
<1>2. AddedIn(q, l, at, i, s, r)
  BY Zenon, <1>1 DEF AddedIn
<1> QED BY Zenon, <1>2 DEF r

\* A large entry lists its address of the target, if it has one.
LEMMA LargeAdds ==
    ASSUME NEW q, NEW l, NEW at, NEW i, AtEntry(q, l, at, i), NEW s \in Progress, NEW below,
           ~Failed(s), EntryAt(q, at, i) # Absent, Large(EntryAt(q, at, i), l)
    PROVE  AddedIn(q, l, at, i, s, OfEntry(q, l, at, below, s, i))
<1> DEFINE e == EntryAt(q, at, i)
           b == Aligned(e.pfn, l)
           size == SpanOf(l)
           begin == FirstOf(l, at.prefix, i)
           a == begin + q.target - b
           mapped == {x \in LeafPhysicalAddress(e, l) : q.target >= x /\ q.target - x < size}
           r == OfEntry(q, l, at, below, s, i)
           inside == ~Reserved(e, l) /\ q.target >= b /\ q.target - b < size
<1>1. ~Malformed(e, l)
  BY DEF Large, Malformed
<1>2. \A m : FoundIn(q, l, at, i, m) <=> inside /\ m = ListedAt(l, at, i, a)
  BY Zenon, LargeIn
<1>3. r = IF mapped = {} THEN s
          ELSE AppendMapping(s, ListedAt(l, at, i, begin + q.target - (CHOOSE x \in mapped : TRUE)))
  BY Zenon, <1>1 DEF OfEntry, EntryAt, ListedAt, FirstOf
<1>4. CASE ~inside
  <2>1. mapped = {}
    BY Zenon, <1>4 DEF LeafPhysicalAddress
  <2>2. r = s
    BY Zenon, <1>3, <2>1
  <2> QED BY Zenon, <1>2, <1>4, <2>2, EntrySkips
<1>5. CASE inside
  <2>1. mapped = {b}
    BY Zenon, <1>5 DEF LeafPhysicalAddress
  <2>2. (CHOOSE x \in mapped : TRUE) = b
    BY Zenon, <2>1
  <2>3. mapped # {}
    BY Zenon, <2>1
  <2>4. a \in Nat
    <3>1. begin \in Nat /\ e.pfn \in Frame /\ q.target \in Nat
      BY Zenon, UnderIs, TargetPresent DEF AtEntry
    <3>2. size \in Nat /\ size > 0
      BY Zenon, SpansAre DEF AtEntry, SpanOf
    <3>3. e.pfn \in Nat
      BY Zenon, <3>1, PagingAssumption
    <3>4. e.pfn % size \in Nat
      BY Zenon, <3>2, <3>3, Quotient
    <3>5. b = e.pfn - (e.pfn % size)
      BY Zenon DEF Aligned
    <3>6. q.target >= b
      BY Zenon, <1>5
    <3> HIDE DEF b, e, size, begin
    <3> QED BY <3>1, <3>3, <3>4, <3>5, <3>6
  <2> HIDE DEF mapped, b
  <2>5. r = AppendMapping(s, ListedAt(l, at, i, a))
    BY Zenon, <1>3, <2>2, <2>3
  <2> HIDE DEF a, r, inside
  <2>6. ListedAt(l, at, i, a) \in Usages
    BY Zenon, <2>4, ListedOK
  <2>7. \A m : FoundIn(q, l, at, i, m) <=> m = ListedAt(l, at, i, a)
    BY Zenon, <1>2, <1>5
  <2>8. AddedIn(q, l, at, i, s, AppendMapping(s, ListedAt(l, at, i, a)))
    BY Zenon, <2>6, <2>7, EntryLists
  <2> QED BY Zenon, <2>5, <2>8 DEF r
<1> QED BY Zenon, <1>4, <1>5

\* An entry adds what is to be found under it.
LEMMA EntryAdds ==
    ASSUME NEW q, NEW l, NEW at, NEW i, AtEntry(q, l, at, i), NEW s \in Progress,
           NEW below, VisitOK(q, l - 1, below)
    PROVE  AddedIn(q, l, at, i, s, OfEntry(q, l, at, below, s, i))
<1> DEFINE e == EntryAt(q, at, i)
           r == OfEntry(q, l, at, below, s, i)
           begin == FirstOf(l, at.prefix, i)
<1>1. CASE Failed(s)
  <2>1. r = s
    BY Zenon, <1>1 DEF OfEntry
  <2> QED BY Zenon, <1>1, <2>1 DEF AddedIn
<1>2. CASE ~Failed(s) /\ (e = Absent \/ Malformed(e, l))
  <2>1. r = s
    BY Zenon, <1>2 DEF OfEntry, EntryAt
  <2>2. \A m : ~FoundIn(q, l, at, i, m)
    BY Zenon, <1>2, NoneIn
  <2> QED BY Zenon, <1>2, <2>1, <2>2, EntrySkips
<1>3. CASE ~Failed(s) /\ e # Absent /\ Large(e, l)
  BY Zenon, <1>3, LargeAdds
<1>4. CASE ~Failed(s) /\ e # Absent /\ ~Malformed(e, l) /\ ~Large(e, l) /\ l = 1
  <2>1. \A m : FoundIn(q, l, at, i, m) <=> e.pfn = q.target /\ m = ListedAt(l, at, i, begin)
    BY Zenon, <1>4, PageIn
  <2>2. r = IF e.pfn = q.target THEN AppendMapping(s, ListedAt(l, at, i, begin)) ELSE s
    BY Zenon, <1>4 DEF OfEntry, EntryAt, ListedAt, FirstOf
  <2>3. begin \in Nat
    BY Zenon, UnderIs
  <2>4. ListedAt(l, at, i, begin) \in Usages
    BY Zenon, <2>3, ListedOK
  <2> HIDE DEF r
  <2>5. CASE e.pfn = q.target
    <3>1. AddedIn(q, l, at, i, s, AppendMapping(s, ListedAt(l, at, i, begin)))
      BY Zenon, <1>4, <2>1, <2>4, <2>5, EntryLists
    <3> QED BY Zenon, <2>2, <2>5, <3>1 DEF r
  <2>6. CASE e.pfn # q.target
    <3>1. AddedIn(q, l, at, i, s, s)
      BY Zenon, <1>4, <2>1, <2>6, EntrySkips
    <3> QED BY Zenon, <2>2, <2>6, <3>1 DEF r
  <2> QED BY Zenon, <2>5, <2>6
<1>5. CASE ~Failed(s) /\ e # Absent /\ ~Malformed(e, l) /\ ~Large(e, l) /\ l # 1
  <2> DEFINE next == Onward(q, l, at, i)
  <2>1. \A m : FoundIn(q, l, at, i, m) <=> FoundBelow(q, l - 1, next, m)
    BY Zenon, <1>5, OnwardIn
  <2>2. r = below[next][s]
    BY Zenon, <1>5 DEF OfEntry, EntryAt, Onward, FirstOf
  <2>3. next \in Place /\ Lined(l - 1, next.prefix)
    BY Zenon, <1>5, OnwardOK
  <2> HIDE DEF next, r
  <2>4. Added(q, l - 1, next, s, r)
    BY Zenon, <2>2, <2>3 DEF VisitOK
  <2>5. AddedIn(q, l, at, i, s, r)
    BY Zenon, <1>5, <2>1, <2>4 DEF Added, AddedIn
  <2> QED BY Zenon, <2>5 DEF r
<1> QED BY Zenon, <1>1, <1>2, <1>3, <1>4, <1>5

-----------------------------------------------------------------------------
(* A table, and the levels. *)

\* The entries of a table the mapper enters, in order.
LEMMA EntriesAdd ==
    ASSUME NEW q, QueryOK(q), NEW l \in 1 .. Levels, NEW at \in Place, Lined(l, at.prefix),
           at.table \notin at.path, at.table \notin q.lost, NEW s \in Progress,
           NEW below, VisitOK(q, l - 1, below)
    PROVE  Added(q, l, at, s, Entries(q, l, at, below, s))
<1>1. PICK done : EntriesDone(q, l, at, below, s, done)
  BY Zenon, EntriesEquation
<1> DEFINE Upto(i, m) == \E j \in 0 .. i - 1 : FoundIn(q, l, at, j, m)
           T == {i \in 0 .. Fan :
                   /\ done[i] \in Progress
                   /\ ~Failed(done[i]) =>
                        \A m : m \in done[i].mappings <=> m \in s.mappings \/ Upto(i, m)}
<1>2. Fan \in Nat /\ 0 \in 0 .. Fan /\ Fan \in 0 .. Fan /\ 0 .. 0 - 1 = {}
  BY PagingAssumption
<1>3. \A i \in 0 .. Fan : done[i] = EntryEq(q, l, at, below, s, done, i)
  BY Zenon, <1>1 DEF EntriesDone
<1>4. done[0] = s
  BY Zenon, <1>2, <1>3 DEF EntryEq
<1>5. 0 \in T
  BY Zenon, <1>2, <1>4
<1>6. ASSUME NEW i \in 1 .. Fan, i - 1 \in T PROVE i \in T
  <2>1. i \in 0 .. Fan /\ i # 0 /\ i - 1 \in 0 .. Fan - 1
    BY <1>2
  <2>2. \A j : j \in 0 .. i - 1 <=> j \in 0 .. (i - 1) - 1 \/ j = i - 1
    OBVIOUS
  <2>3. done[i] = OfEntry(q, l, at, below, done[i - 1], i - 1)
    BY Zenon, <1>3, <2>1 DEF EntryEq
  <2>4. AtEntry(q, l, at, i - 1)
    BY Zenon, <2>1 DEF AtEntry
  <2>5. AddedIn(q, l, at, i - 1, done[i - 1], done[i])
    BY Zenon, <1>6, <2>3, <2>4, EntryAdds
  <2>6. \A m : Upto(i, m) <=> Upto(i - 1, m) \/ FoundIn(q, l, at, i - 1, m)
    BY Zenon, <2>2
  <2> HIDE DEF Upto
  <2> QED BY Zenon, <1>6, <2>1, <2>5, <2>6 DEF AddedIn
<1>7. \A m : FoundBelow(q, l, at, m) <=> Upto(Fan, m)
  BY Zenon, FoundInEntries
<1> HIDE DEF T, Upto
<1>8. Fan \in T
  BY Zenon, <1>2, <1>5, <1>6, UpTo
<1>9. Added(q, l, at, s, done[Fan])
  BY Zenon, <1>7, <1>8 DEF T, Added
<1> QED BY Zenon, <1>1, <1>9 DEF EntriesDone

\* A table on the path, or that cannot be read, has nothing to be found.
LEMMA NoneBelow ==
    ASSUME NEW q, QueryOK(q), NEW l \in 1 .. Levels, NEW at \in Place,
           at.table \in at.path \/ at.table \in q.lost, NEW m
    PROVE  ~FoundBelow(q, l, at, m)
<1> SUFFICES ASSUME NEW va, Under(l, at.prefix, va), Maps(q, l, at, va, m) PROVE FALSE
  BY Zenon DEF FoundBelow
<1>1. at.table \in Frame
  BY DEF Place
<1>2. va \in Nat
  BY Zenon DEF Under
<1>3. Clear(q, Walk(q.mem, va)[l][at.table], va, at.path)
  BY Zenon DEF Maps
<1> QED BY Zenon, <1>1, <1>2, <1>3, ClearHere

\* Counting a table and stopping.
LEMMA ProgressOK ==
    ASSUME NEW s \in Progress
    PROVE  LET reading == [s EXCEPT !.read = s.read + 1]
               limit == [s EXCEPT !.error = "LimitReached"]
               lost == [reading EXCEPT !.error = "ReadFailed"]
           IN  /\ reading \in Progress /\ reading.mappings = s.mappings
               /\ limit \in Progress /\ Failed(limit)
               /\ lost \in Progress /\ Failed(lost)
<1> DEFINE reading == [s EXCEPT !.read = s.read + 1]
<1>1. reading \in Progress /\ reading.mappings = s.mappings
  BY DEF Progress
<1>2. ASSUME NEW t \in Progress, NEW e \in {"LimitReached", "ReadFailed"}
      PROVE  [t EXCEPT !.error = e] \in Progress /\ Failed([t EXCEPT !.error = e])
  <2>1. [t EXCEPT !.error = e] \in Progress
    BY DEF Progress
  <2>2. [t EXCEPT !.error = e].error = e
    BY DEF Progress
  <2>3. e # "none"
    OBVIOUS
  <2> QED BY Zenon, <2>1, <2>2, <2>3 DEF Failed
<1> QED BY Zenon, <1>1, <1>2

\* A visit of a table adds what is to be found under it.
LEMMA TableAdds ==
    ASSUME NEW q, QueryOK(q), NEW l \in 1 .. Levels, NEW at \in Place, Lined(l, at.prefix),
           NEW s \in Progress, NEW below, VisitOK(q, l - 1, below)
    PROVE  Added(q, l, at, s, OfTable(q, l, at, below, s))
<1> DEFINE r == OfTable(q, l, at, below, s)
           reading == [s EXCEPT !.read = s.read + 1]
           limit == [s EXCEPT !.error = "LimitReached"]
           lost == [reading EXCEPT !.error = "ReadFailed"]
<1>1. /\ reading \in Progress /\ reading.mappings = s.mappings
      /\ limit \in Progress /\ Failed(limit)
      /\ lost \in Progress /\ Failed(lost)
  BY Zenon, ProgressOK
<1>2. \/ r = s /\ at.table \in at.path
      \/ r = reading /\ at.table \in q.lost
      \/ r = limit \/ r = lost
      \/ /\ at.table \notin at.path /\ at.table \notin q.lost
         /\ r = Entries(q, l, at, below, reading)
  BY Zenon DEF OfTable
<1> HIDE DEF r, reading, limit, lost
<1>3. CASE r = s /\ at.table \in at.path
  BY Zenon, <1>3, NoneBelow DEF Added, r
<1>4. CASE r = reading /\ at.table \in q.lost
  <2>1. \A m : ~FoundBelow(q, l, at, m)
    BY Zenon, <1>4, NoneBelow
  <2>2. Added(q, l, at, s, r)
    BY Zenon, <1>1, <1>4, <2>1 DEF Added
  <2> QED BY Zenon, <2>2 DEF r
<1>5. CASE r = limit \/ r = lost
  <2>1. Added(q, l, at, s, r)
    BY Zenon, <1>1, <1>5 DEF Added
  <2> QED BY Zenon, <2>1 DEF r
<1>6. CASE /\ at.table \notin at.path /\ at.table \notin q.lost
           /\ r = Entries(q, l, at, below, reading)
  <2>1. Added(q, l, at, reading, r)
    BY Zenon, <1>1, <1>6, EntriesAdd
  <2>2. Added(q, l, at, s, r)
    BY Zenon, <1>1, <2>1 DEF Added
  <2> QED BY Zenon, <2>2 DEF r
<1> QED BY Zenon, <1>2, <1>3, <1>4, <1>5, <1>6

\* The visits of every level list what is to be found.
LEMMA VisitsAdd ==
    ASSUME NEW q, QueryOK(q)
    PROVE  \A l \in 0 .. Levels : VisitOK(q, l, Visit(q)[l])
<1> DEFINE visit == Visit(q)
           T == {l \in 0 .. Levels : VisitOK(q, l, visit[l])}
<1>1. Levels \in Nat /\ 0 \in 0 .. Levels /\ \A l \in 1 .. Levels : l \in 0 .. Levels /\ l # 0
  BY PagingAssumption
<1>2. visit = [i \in 0 .. Levels |-> VisitEq(q, visit, i)]
  BY Zenon, VisitEquation
<1> HIDE DEF visit
<1>3. \A l \in 0 .. Levels : visit[l] = VisitEq(q, visit, l)
  BY Zenon, <1>2
<1>4. ASSUME NEW at \in Place, NEW s \in Progress PROVE Added(q, 0, at, s, visit[0][at][s])
  <2>1. visit[0][at][s] = s
    <3>1. visit[0] = VisitEq(q, visit, 0)
      BY Zenon, <1>1, <1>3
    <3>2. VisitIs(q, visit, 0, at, s)
      BY Zenon, VisitAt
    <3> QED BY Zenon, <3>1, <3>2 DEF VisitIs
  <2>2. ASSUME NEW va, NEW m, Maps(q, 0, at, va, m), va \in Nat PROVE FALSE
    <3>1. Walk(q.mem, va)[0] = WalkEq(q.mem, va, Walk(q.mem, va), 0)
      <4> DEFINE w == Walk(q.mem, va)
      <4>1. w = [i \in 0 .. Levels |-> WalkEq(q.mem, va, w, i)]
        BY Zenon, WalkEquation
      <4> HIDE DEF w
      <4>2. w[0] = WalkEq(q.mem, va, w, 0)
        BY Zenon, <1>1, <4>1
      <4> QED BY Zenon, <4>2 DEF w
    <3>2. at.table \in Frame
      BY DEF Place
    <3>3. Walk(q.mem, va)[0][at.table] = Fault
      BY Zenon, <3>1, <3>2 DEF WalkEq
    <3> QED BY Zenon, <2>2, <3>3, FaultIsNone DEF Maps
  <2>3. \A m : ~FoundBelow(q, 0, at, m)
    BY Zenon, <2>2 DEF FoundBelow, Under
  <2> QED BY Zenon, <2>1, <2>3 DEF Added
<1>5. ASSUME NEW l \in 1 .. Levels, VisitOK(q, l - 1, visit[l - 1]),
             NEW at \in Place, NEW s \in Progress, Lined(l, at.prefix)
      PROVE  Added(q, l, at, s, visit[l][at][s])
  <2>1. visit[l][at][s] = OfTable(q, l, at, visit[l - 1], s)
    <3>1. visit[l] = VisitEq(q, visit, l) /\ l # 0
      BY Zenon, <1>1, <1>3
    <3>2. VisitIs(q, visit, l, at, s)
      BY Zenon, VisitAt
    <3> QED BY Zenon, <3>1, <3>2 DEF VisitIs
  <2>2. Added(q, l, at, s, OfTable(q, l, at, visit[l - 1], s))
    BY Zenon, <1>5, TableAdds
  <2> QED BY Zenon, <2>1, <2>2
<1>6. 0 \in T
  BY Zenon, <1>1, <1>4 DEF VisitOK
<1>7. \A l \in 1 .. Levels : l - 1 \in T => l \in T
  BY Zenon, <1>1, <1>5 DEF VisitOK
<1> HIDE DEF T
<1>8. \A l \in 0 .. Levels : l \in T
  BY Zenon, <1>1, <1>6, <1>7, UpTo
<1> QED BY Zenon, <1>8 DEF T, visit

-----------------------------------------------------------------------------
(* A query. *)

RootPlace == [table |-> Root, prefix |-> 0, path |-> {}]
NoProgress == [read |-> 0, mappings |-> {}, error |-> "none"]

\* A query that succeeds lists the clear mappings of the target, and no others.
LEMMA QueryLists ==
    ASSUME NEW q, QueryOK(q), ~Failed(Visit(q)[Levels][RootPlace][NoProgress]), NEW m
    PROVE  m \in Visit(q)[Levels][RootPlace][NoProgress].mappings <=>
             \E va \in Virtual : /\ Clear(q, TranslateVirtual(q.mem, va), va, {})
                                 /\ m = UsageOf(va, TranslateVirtual(q.mem, va).leaf)
<1> DEFINE r == Visit(q)[Levels][RootPlace][NoProgress]
<1>1. Levels \in Nat /\ Levels \in 0 .. Levels /\ Root \in Frame
  BY PagingAssumption DEF Root
<1>2. RootPlace \in Place /\ NoProgress \in Progress /\ NoProgress.mappings = {}
      /\ RootPlace.prefix = 0 /\ RootPlace.table = Root /\ RootPlace.path = {}
  BY <1>1 DEF RootPlace, NoProgress, Place, Progress
<1>3. Spans[Levels] \in Nat
  BY Zenon, <1>1, SpansAre
<1> DEFINE size == Spans[Levels]
<1>4. Lined(Levels, 0)
  <2>1. 0 \in Nat /\ 0 = 0 * size
    BY <1>3
  <2> QED BY Zenon, <2>1 DEF Lined
<1>5. \A va : Under(Levels, 0, va) <=> va \in Virtual
  <2> HIDE DEF size
  <2>1. \A va : (va \in Nat /\ 0 <= va /\ va < 0 + size) <=> va \in 0 .. size - 1
    BY <1>3 DEF size
  <2> QED BY Zenon, <2>1 DEF Under, Virtual, size
<1>6. Added(q, Levels, RootPlace, NoProgress, r)
  <2>1. VisitOK(q, Levels, Visit(q)[Levels])
    BY Zenon, <1>1, VisitsAdd
  <2> QED BY Zenon, <1>2, <1>4, <2>1 DEF VisitOK
<1> HIDE DEF r
<1>7. m \in r.mappings <=> FoundBelow(q, Levels, RootPlace, m)
  BY Zenon, <1>2, <1>6 DEF Added, r
<1>8. FoundBelow(q, Levels, RootPlace, m) <=>
        \E va \in Virtual : /\ Clear(q, TranslateVirtual(q.mem, va), va, {})
                            /\ m = UsageOf(va, TranslateVirtual(q.mem, va).leaf)
  BY Zenon, <1>2, <1>5 DEF FoundBelow, Maps, TranslateVirtual
<1> QED BY Zenon, <1>7, <1>8 DEF r

PagingInv == tables \in Tables /\ MappingsExact

\* A query leaves the mappings exact.
LEMMA QueryKeeps ==
    ASSUME PagingInv, NEW target \in Frame, NEW lost, NEW go, Query(target, lost, go)
    PROVE  MappingsExact'
<1> DEFINE q == [mem |-> tables, target |-> target, lost |-> lost, go |-> go]
           r == Visit(q)[Levels][RootPlace][NoProgress]
<1>1. q.mem = tables /\ q.target = target /\ q.lost = lost
  OBVIOUS
<1>2. tables' = tables /\ tables \in Memory
  BY Zenon, PagingAssumption DEF Query, PagingInv, Memory
<1>3. usage' = [target |-> target, lost |-> lost, ok |-> ~Failed(r),
                mappings |-> IF Failed(r) THEN {} ELSE r.mappings]
  BY Zenon DEF Query, RootPlace, NoProgress
<1> HIDE DEF q, r
<1>4. /\ usage'.target = target /\ usage'.lost = lost /\ usage'.ok = ~Failed(r)
      /\ usage'.mappings = IF Failed(r) THEN {} ELSE r.mappings
  BY <1>3
<1>5. QueryOK(q)
  BY Zenon, <1>1, <1>2 DEF QueryOK
<1>6. ASSUME NEW m, ~Failed(r)
      PROVE  m \in r.mappings <=>
               \E va \in Virtual : /\ Clear(q, TranslateVirtual(tables, va), va, {})
                                   /\ m = UsageOf(va, TranslateVirtual(tables, va).leaf)
  BY Zenon, <1>1, <1>5, <1>6, QueryLists DEF r
<1>7. ASSUME NEW m \in usage'.mappings
      PROVE  LET t == TranslateVirtual(tables, m.va)
             IN  /\ t.frame = target
                 /\ m.pte = <<t.leaf.table, Index(m.va, t.leaf.level)>>
                 /\ m.size = SpanOf(t.leaf.level)
  <2>1. ~Failed(r) /\ m \in r.mappings
    BY Zenon, <1>4, <1>7
  <2>2. PICK va \in Virtual : /\ Clear(q, TranslateVirtual(tables, va), va, {})
                              /\ m = UsageOf(va, TranslateVirtual(tables, va).leaf)
    BY Zenon, <1>6, <2>1
  <2> DEFINE w == TranslateVirtual(tables, va)
  <2>3. w.frame = target
    BY Zenon, <1>1, <2>2 DEF Clear
  <2> HIDE DEF w
  <2>4. m = UsageOf(va, w.leaf)
    BY Zenon, <2>2 DEF w
  <2>5. m.va = va /\ m.size = SpanOf(w.leaf.level)
        /\ m.pte = <<w.leaf.table, Index(va, w.leaf.level)>>
    BY <2>4 DEF UsageOf
  <2> QED BY Zenon, <2>3, <2>5 DEF w
<1>8. ASSUME NEW va \in Virtual, usage'.ok, TranslateVirtual(tables, va).frame = target,
             ~Excused(va)'
      PROVE  \E m \in usage'.mappings : m.va = va
  <2> DEFINE w == TranslateVirtual(tables, va)
             m == UsageOf(va, w.leaf)
  <2>1. ~Failed(r)
    BY Zenon, <1>4, <1>8
  <2>2. Clear(q, w, va, {})
    BY Zenon, <1>1, <1>2, <1>4, <1>8 DEF Clear, Excused, Malformed
  <2>3. m \in r.mappings
    BY Zenon, <1>6, <2>1, <2>2
  <2>4. m.va = va
    BY DEF UsageOf
  <2> QED BY Zenon, <1>4, <2>1, <2>3, <2>4
<1>9. MappingsTranslate'
  BY Zenon, <1>2, <1>4, <1>7 DEF MappingsTranslate
<1> QED BY Zenon, <1>2, <1>4, <1>8, <1>9 DEF MappingsExact

\* Whatever the tables hold and whichever of them cannot be read, the addresses
\* that PageTableReverseMapper::Query lists for a frame are the ones the driver's
\* TranslateVirtual takes to that frame, through the entry and with the page size
\* listed; and none is missing but those the mapper skips on purpose.
THEOREM MappingsStayExact == PagingSpec => []MappingsExact
<1>1. PagingInit => PagingInv
  BY Zenon DEF PagingInit, PagingInv, MappingsExact, MappingsTranslate
<1>2. PagingInv /\ [PagingNext]_pagingVars => PagingInv'
  <2> SUFFICES ASSUME PagingInv, [PagingNext]_pagingVars PROVE PagingInv'
    OBVIOUS
  <2>1. ASSUME NEW target \in Frame, NEW lost \in Unreadable, NEW go \in BOOLEAN,
               Query(target, lost, go)
        PROVE  PagingInv'
    <3>1. MappingsExact'
      BY Zenon, <2>1, QueryKeeps
    <3> QED BY Zenon, <2>1, <3>1 DEF PagingInv, Query
  <2>2. CASE Forget
    BY Zenon, <2>2 DEF PagingInv, Forget, MappingsExact, MappingsTranslate
  <2>3. CASE UNCHANGED pagingVars
    BY Zenon, <2>3 DEF PagingInv, pagingVars, MappingsExact, MappingsTranslate, Excused
  <2> QED BY Zenon, <2>1, <2>2, <2>3 DEF PagingNext
<1>3. PagingInv => MappingsExact
  BY Zenon DEF PagingInv
<1> QED BY <1>1, <1>2, <1>3, PTL DEF PagingSpec
=============================================================================
