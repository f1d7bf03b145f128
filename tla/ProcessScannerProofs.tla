------------------------ MODULE ProcessScannerProofs ------------------------
(***************************************************************************)
(* Proofs about the process scanner window, its watch worker and the       *)
(* address list they share (ProcessScanner).                               *)
(*                                                                         *)
(* The inductive invariant ScanInv has three parts: the address list and   *)
(* what is shown of it (ListOK), the batch of the worker (BatchOK) and the *)
(* write access (AccessKnown).                                             *)
(***************************************************************************)
EXTENDS ProcessScanner, ProcessMemoryProofs, SequenceTheorems

Batch ==
    [pc : {"idle", "entry", "compare", "write", "readback", "final", "publish", "done"},
     include : BOOLEAN, mode : BOOLEAN, begin : Nat, total : 0 .. MaxId,
     rows : Seq(Row), cancelled : BOOLEAN, closed : BOOLEAN, locked : BOOLEAN]

\* The entry at which the worker is will be, or was, written.
Writing == batch.pc \in {"compare", "write", "readback"}

\* The identifiers are counted, so the list is no longer than they are many.
ListOK ==
    /\ memory \in [Address -> Value]
    /\ watches \in Seq(Entry) /\ next_id \in 1 .. MaxId + 1 /\ Len(watches) < next_id
    /\ rows \in Seq(Row) /\ cursor \in 0 .. MaxId
    /\ consent \subseteq 1 .. MaxId
    /\ FrozenByConsent

\* The worker stays in the list, writes frozen entries only, and freezes only
\* while the authorization is in force.  The buttons of the list are drawn only
\* when no worker runs.
BatchOK ==
    /\ batch \in Batch
    /\ frame = "buttons" => ~watch_running
    /\ watch_running => batch.total = Len(watches) /\ batch.begin < Len(watches)
    /\ watch_running /\ batch.include => authorized
    /\ batch.mode \/ batch.closed => batch.include
    /\ Writing \/ batch.pc \in {"idle", "entry"} => ~batch.closed
    /\ Writing => Len(batch.rows) < Slice /\ Freezing

\* The arm is authorized, or its lock was reported as failed.  An outcome that
\* reports a locked gate is still true when the window collects it: the user
\* cannot arm again before, because the authorization is still there or the
\* frame is over.
AccessKnown ==
    /\ AccessOK(access)
    /\ access.armed => authorized \/ told
    /\ batch.closed /\ batch.locked /\ access.armed => told
    /\ batch.closed /\ batch.pc = "done" /\ frame \notin {"deferred", "poll"} => authorized
    /\ batch.closed /\ (watch_running \/ frame = "join") => ~HasFrozenEntries(watches)

ScanInv == ListOK /\ BatchOK /\ AccessKnown

-----------------------------------------------------------------------------
(* The list. *)

\* Unfreeze keeps every entry and leaves nothing frozen.
LEMMA UnfreezeEffect ==
    ASSUME NEW w \in Seq(Entry)
    PROVE  /\ Unfreeze(w) \in Seq(Entry) /\ Len(Unfreeze(w)) = Len(w)
           /\ ~HasFrozenEntries(Unfreeze(w))
<1> DEFINE f(e) == [e EXCEPT !.frozen_value = None]
           u == Unfreeze(w)
<1>1. ASSUME NEW e \in Entry
      PROVE  f(e) \in Entry /\ f(e).frozen_value = None
  BY Zenon DEF Entry
<1>2. u = [i \in 1 .. Len(w) |-> f(w[i])]
  BY DEF Unfreeze
<1>3. \A i \in 1 .. Len(w) : w[i] \in Entry
  BY Zenon, ElementOfSeq
<1> HIDE DEF f, u
<1>4. u \in Seq(Entry) /\ Len(u) = Len(w)
  BY <1>1, <1>2, <1>3
<1>5. ~HasFrozenEntries(u)
  BY Zenon, <1>1, <1>2, <1>3, <1>4 DEF HasFrozenEntries, Frozen
<1> QED BY Zenon, <1>4, <1>5 DEF u

\* The window shows one row for each entry of the list, in its order.
LEMMA RowsEffect ==
    ASSUME NEW w \in Seq(Entry)
    PROVE  /\ Rows(w) \in Seq(Row)
           /\ \A i \in 1 .. Len(w) : RowOf(w[i]) \in Row
<1>1. \A i \in 1 .. Len(w) : RowOf(w[i]) \in Row
  <2>1. \A e \in Entry : RowOf(e) \in Row
    BY Zenon DEF RowOf, Row, Entry, Frozen
  <2> QED BY Zenon, <2>1, ElementOfSeq
<1>2. Rows(w) = [i \in 1 .. Len(w) |-> RowOf(w[i])]
  BY DEF Rows
<1> QED BY <1>1, <1>2

\* PublishAllWatches: the window shows the list as it is.
LEMMA PublishEffect ==
    ASSUME watches' \in Seq(Entry), Len(watches') <= MaxId, NEW c \in 0 .. MaxId,
           PublishAllWatches(c)
    PROVE  rows' \in Seq(Row) /\ cursor' \in 0 .. MaxId
BY RowsEffect, ScannerAssumption DEF PublishAllWatches

\* The second attempt of SetWritesArmed(false) is as good as the first.
LEMMA DisarmRetryEffect ==
    ASSUME NEW a, AccessOK(a), NEW d \in DisarmRetry(a)
    PROVE  /\ AccessOK(d.a) /\ d.ok \in BOOLEAN
           /\ d.ok => ~d.a.armed
           /\ d.a.armed => a.armed
<1>1. PICK c \in Disarm(a) : d \in IF c.ok THEN {c} ELSE Disarm(c.a)
  BY Zenon DEF DisarmRetry
<1>2. /\ AccessOK(c.a) /\ c.ok \in BOOLEAN /\ (c.ok => ~c.a.armed)
      /\ (c.a.armed => a.armed)
  BY Zenon, DisarmEffect
<1>3. CASE c.ok
  BY Zenon, <1>1, <1>2, <1>3
<1>4. CASE ~c.ok
  <2>1. d \in Disarm(c.a)
    BY Zenon, <1>1, <1>4
  <2> QED BY Zenon, <1>2, <2>1, DisarmEffect
<1> QED BY Zenon, <1>3, <1>4

\* FailCloseFreeze: nothing is frozen any more, and a gate that is reported
\* locked is.
LEMMA FailCloseEffect ==
    ASSUME NEW w \in Seq(Entry), NEW a, AccessOK(a), NEW locked \in BOOLEAN,
           FailCloseFreeze(w, a, locked)
    PROVE  /\ watches' \in Seq(Entry) /\ Len(watches') = Len(w)
           /\ ~HasFrozenEntries(watches') /\ FrozenByConsent'
           /\ consent' = {} /\ AccessOK(access')
           /\ locked => ~access'.armed
           /\ access'.armed => a.armed
<1>1. /\ watches' \in Seq(Entry) /\ Len(watches') = Len(w)
      /\ ~HasFrozenEntries(watches') /\ consent' = {}
  BY Zenon, UnfreezeEffect DEF FailCloseFreeze
<1>2. PICK d \in DisarmRetry(a) : d.ok = locked /\ access' = d.a
  BY Zenon DEF FailCloseFreeze
<1>3. FrozenByConsent'
  BY Zenon, <1>1 DEF FrozenByConsent, HasFrozenEntries
<1> QED BY Zenon, <1>1, <1>2, <1>3, DisarmRetryEffect

\* w is the list with other values; who is frozen is the same.
SameEntries(w) ==
    /\ w \in Seq(Entry) /\ Len(w) = Len(watches)
    /\ \A i \in 1 .. Len(watches) :
         w[i].id = watches[i].id /\ (Frozen(w[i]) <=> Frozen(watches[i]))

\* A change of values alone freezes no entry the user did not consent to.
LEMMA SameConsent ==
    ASSUME ListOK, SameEntries(watches'), consent' = consent
    PROVE  FrozenByConsent'
<1>1. DOMAIN watches' = 1 .. Len(watches) /\ DOMAIN watches = 1 .. Len(watches)
  BY DEF ListOK, SameEntries
<1> QED BY Zenon, <1>1 DEF ListOK, FrozenByConsent, SameEntries

\* Setting the value of an entry changes neither its identity nor its freezing.
LEMMA ValueEffect ==
    ASSUME watches \in Seq(Entry), NEW i \in 1 .. Len(watches), NEW v \in Value
    PROVE  SameEntries([watches EXCEPT ![i].value = v])
<1> DEFINE e == [watches[i] EXCEPT !.value = v]
           w == [watches EXCEPT ![i] = e]
<1>1. e \in Entry /\ e.id = watches[i].id /\ e.frozen_value = watches[i].frozen_value
  <2>1. watches[i] \in Entry
    BY Zenon, ElementOfSeq
  <2> QED BY Zenon, <2>1 DEF Entry
<1> HIDE DEF e
<1>2. w \in Seq(Entry) /\ Len(w) = Len(watches)
  BY <1>1
<1>3. /\ w[i] = e
      /\ \A j \in 1 .. Len(watches) : j # i => w[j] = watches[j]
  <2>1. DOMAIN watches = 1 .. Len(watches)
    BY Zenon, LenProperties
  <2> QED BY Zenon, <2>1
<1> HIDE DEF w
<1>4. SameEntries(w)
  BY Zenon, <1>1, <1>2, <1>3 DEF SameEntries, Frozen
<1> QED BY Zenon, <1>4 DEF w, e

-----------------------------------------------------------------------------
(* The worker. *)

\* The worker's position is in the list.
LEMMA Position ==
    ASSUME ScanInv, watch_running, Len(batch.rows) < Slice
    PROVE  At \in 1 .. Len(watches)
<1> DEFINE n == Len(batch.rows)
           m == Len(watches)
           b == batch.begin
<1>1. n \in Nat /\ m \in Nat /\ b \in Nat /\ b < m /\ batch.total = m
  BY DEF ScanInv, ListOK, BatchOK, Batch
<1>2. n < m - b
  BY <1>1, ScannerAssumption DEF Slice
<1>3. At = b + n + 1
  BY Zenon DEF At
<1> HIDE DEF n, m, b
<1> QED BY <1>1, <1>2, <1>3 DEF m

\* Finishing an entry of a batch keeps the invariant, with any outcome.
LEMMA FinishInv ==
    ASSUME ScanInv, Writing \/ batch.pc = "entry", Len(batch.rows) < Slice,
           NEW w, SameEntries(w), NEW a, AccessOK(a),
           a.armed => access.armed \/ Freezing,
           NEW ok, Finish(w, a, ok),
           memory' \in [Address -> Value], UNCHANGED workerFrame
    PROVE  ScanInv'
<1>0. /\ watch_running /\ ~batch.closed /\ batch \in Batch
      /\ batch.total = Len(watches) /\ batch.begin < Len(watches)
      /\ watches \in Seq(Entry) /\ batch.rows \in Seq(Row)
  BY Zenon DEF ScanInv, BatchOK, ListOK, Writing, watch_running, Batch
<1>1. At \in 1 .. Len(watches)
  BY Zenon, <1>0, Position
<1>2. /\ UNCHANGED <<next_id, rows, authorized, cursor, frame, told>>
  BY Zenon DEF workerFrame, panel
<1>3. CASE ok \/ ~Freezing
  <2>1. /\ watches' = w /\ access' = a /\ consent' = consent
        /\ batch' = [batch EXCEPT !.pc = "entry", !.rows = Append(@, RowOf(w[At]))]
    BY Zenon, <1>3 DEF Finish
  <2>2. RowOf(w[At]) \in Row
    BY Zenon, <1>1, RowsEffect DEF SameEntries
  <2>3. /\ batch' \in Batch /\ batch'.pc = "entry" /\ batch'.include = batch.include
        /\ batch'.mode = batch.mode /\ batch'.closed = FALSE
        /\ batch'.total = batch.total /\ batch'.begin = batch.begin
    <3> DEFINE r == Append(batch.rows, RowOf(w[At]))
    <3>1. r \in Seq(Row)
      BY <1>0, <2>2
    <3>2. batch' = [batch EXCEPT !.pc = "entry", !.rows = r]
      BY Zenon, <2>1
    <3> HIDE DEF r
    <3> QED BY Zenon, <1>0, <3>1, <3>2 DEF Batch
  <2>4. ListOK'
    <3>1. FrozenByConsent'
      BY Zenon, <2>1, SameConsent DEF ScanInv
    <3> QED BY Zenon, <1>2, <2>1, <3>1 DEF ScanInv, ListOK, SameEntries
  <2>5. BatchOK'
    BY Zenon, <1>0, <1>2, <2>1, <2>3 DEF ScanInv, BatchOK, watch_running, Writing, SameEntries
  <2>6. AccessKnown'
    BY Zenon, <1>0, <1>2, <2>1, <2>3 DEF ScanInv, BatchOK, AccessKnown, Freezing
  <2> QED BY Zenon, <2>4, <2>5, <2>6 DEF ScanInv
<1>4. CASE ~(ok \/ ~Freezing)
  <2>1. PICK locked \in BOOLEAN :
          /\ FailCloseFreeze(w, a, locked)
          /\ batch' = [batch EXCEPT !.pc = "final", !.closed = TRUE, !.locked = locked,
                                    !.rows = Append(@, RowOf(watches'[At]))]
    BY Zenon, <1>4 DEF Finish
  <2>2. /\ watches' \in Seq(Entry) /\ Len(watches') = Len(watches)
        /\ ~HasFrozenEntries(watches') /\ FrozenByConsent'
        /\ consent' = {} /\ AccessOK(access')
        /\ locked => ~access'.armed
    BY Zenon, <2>1, FailCloseEffect DEF SameEntries
  <2>3. RowOf(watches'[At]) \in Row
    BY Zenon, <1>1, <2>2, RowsEffect
  <2>4. /\ batch' \in Batch /\ batch'.pc = "final" /\ batch'.include = batch.include
        /\ batch'.closed = TRUE /\ batch'.locked = locked
        /\ batch'.total = batch.total /\ batch'.begin = batch.begin
    <3> DEFINE r == Append(batch.rows, RowOf(watches'[At]))
    <3>1. r \in Seq(Row)
      BY <1>0, <2>3
    <3>2. batch' = [batch EXCEPT !.pc = "final", !.closed = TRUE, !.locked = locked,
                                 !.rows = r]
      BY Zenon, <2>1
    <3> HIDE DEF r
    <3> QED BY Zenon, <1>0, <3>1, <3>2 DEF Batch
  <2>5. batch.include /\ authorized
    BY Zenon, <1>0, <1>4 DEF Freezing, ScanInv, BatchOK
  <2>6. ListOK'
    BY Zenon, <1>2, <2>2 DEF ScanInv, ListOK
  <2>7. BatchOK'
    BY Zenon, <1>0, <1>2, <2>2, <2>4, <2>5 DEF ScanInv, BatchOK, watch_running, Writing
  <2>8. AccessKnown'
    BY Zenon, <1>2, <2>2, <2>4, <2>5 DEF AccessKnown
  <2> QED BY Zenon, <2>6, <2>7, <2>8 DEF ScanInv
<1> QED BY Zenon, <1>3, <1>4
\* The worker goes on with the same entry, and writes frozen ones only.
LEMMA SameEntryInv ==
    ASSUME ScanInv, Writing \/ batch.pc = "entry", Len(batch.rows) < Slice, Freezing,
           NEW pc \in {"compare", "write", "readback"},
           batch' = [batch EXCEPT !.pc = pc],
           SameEntries(watches'), consent' = consent, AccessOK(access'),
           memory' \in [Address -> Value], UNCHANGED workerFrame
    PROVE  ScanInv'
<1>0. /\ watch_running /\ ~batch.closed /\ batch \in Batch
      /\ batch.total = Len(watches) /\ batch.begin < Len(watches)
      /\ batch.include /\ authorized
  BY Zenon DEF ScanInv, BatchOK, ListOK, Writing, watch_running, Batch, Freezing
<1>1. At \in 1 .. Len(watches)
  BY Zenon, <1>0, Position
<1>2. UNCHANGED <<next_id, rows, authorized, cursor, frame, told>>
  BY Zenon DEF workerFrame, panel
<1>3. /\ batch' \in Batch /\ batch'.pc = pc /\ batch'.include = batch.include
      /\ batch'.mode = batch.mode /\ batch'.closed = FALSE /\ batch'.rows = batch.rows
      /\ batch'.total = batch.total /\ batch'.begin = batch.begin
  BY Zenon, <1>0 DEF Batch
<1>4. ListOK'
  <2>1. FrozenByConsent'
    BY Zenon, SameConsent DEF ScanInv
  <2> QED BY Zenon, <1>2, <2>1 DEF ScanInv, ListOK, SameEntries
<1>5. Freezing' /\ Len(batch'.rows) < Slice'
  <2>1. At' = At /\ Slice' = Slice
    BY <1>3 DEF At, Slice
  <2> QED BY Zenon, <1>1, <1>3, <2>1 DEF Freezing, SameEntries
<1>6. BatchOK'
  BY Zenon, <1>0, <1>2, <1>3, <1>5 DEF ScanInv, BatchOK, watch_running, Writing, SameEntries
<1>7. AccessKnown'
  BY Zenon, <1>0, <1>2, <1>3 DEF AccessKnown
<1> QED BY Zenon, <1>4, <1>6, <1>7 DEF ScanInv

\* The list itself has the same entries as the list.
LEMMA SameList ==
    ASSUME ListOK
    PROVE  SameEntries(watches)
BY Zenon DEF ListOK, SameEntries

\* The refresh read of an entry keeps the invariant.
LEMMA RefreshEntryInv ==
    ASSUME ScanInv, RefreshEntry
    PROVE  ScanInv'
<1>0. /\ batch.pc = "entry" /\ Len(batch.rows) < Slice /\ AccessOK(access)
      /\ memory' \in [Address -> Value] /\ UNCHANGED workerFrame /\ watch_running
      /\ SameEntries(watches)
  BY Zenon, SameList DEF RefreshEntry, ScanInv, ListOK, AccessKnown, watch_running
<1> DEFINE w == [watches EXCEPT ![At].value = memory[watches[At].addr]]
<1>1. SameEntries(w)
  <2>1. At \in 1 .. Len(watches)
    BY Zenon, <1>0, Position
  <2>2. watches[At] \in Entry
    BY Zenon, <2>1, ElementOfSeq DEF ScanInv, ListOK
  <2>3. memory[watches[At].addr] \in Value
    BY Zenon, <2>2 DEF ScanInv, ListOK, Entry
  <2> QED BY Zenon, <2>1, <2>3, ValueEffect DEF ScanInv, ListOK
<1> HIDE DEF w
<1>2. CASE /\ Freezing /\ watches' = w /\ batch' = [batch EXCEPT !.pc = "compare"]
           /\ UNCHANGED <<access, consent>>
  BY Zenon, <1>0, <1>1, <1>2, SameEntryInv
<1>3. CASE ~Freezing /\ Finish(w, access, TRUE)
  BY Zenon, <1>0, <1>1, <1>3, FinishInv
<1>4. CASE Finish(watches, access, FALSE)
  BY Zenon, <1>0, <1>4, FinishInv
<1> QED BY Zenon, <1>2, <1>3, <1>4 DEF RefreshEntry, w

\* The second read, which finds a frozen value changed, keeps the invariant.
LEMMA CompareEntryInv ==
    ASSUME ScanInv, CompareEntry
    PROVE  ScanInv'
<1>0. /\ Writing /\ Len(batch.rows) < Slice /\ Freezing /\ AccessOK(access)
      /\ memory' \in [Address -> Value] /\ UNCHANGED workerFrame /\ SameEntries(watches)
  BY Zenon, SameList DEF CompareEntry, ScanInv, ListOK, BatchOK, AccessKnown, Writing
<1>1. CASE batch' = [batch EXCEPT !.pc = "write"] /\ UNCHANGED <<watches, access, consent>>
  <2>1. SameEntries(watches')
    BY Zenon, <1>0, <1>1
  <2> QED BY Zenon, <1>0, <1>1, <2>1, SameEntryInv
<1>2. CASE Finish(watches, access, FALSE)
  BY Zenon, <1>0, <1>2, FinishInv
<1> QED BY Zenon, <1>1, <1>2 DEF CompareEntry

\* A store of a frozen value into the target.
LEMMA StoreEffect ==
    ASSUME memory \in [Address -> Value], NEW e \in Entry, NEW v \in Value, NEW done,
           Store(e, v, done)
    PROVE  memory' \in [Address -> Value]
BY Zenon DEF Store, Entry

\* Arm, write and lock of a frozen value keep the invariant.
LEMMA WriteEntryInv ==
    ASSUME ScanInv, WriteEntry
    PROVE  ScanInv'
<1>0. /\ Writing /\ Len(batch.rows) < Slice /\ Freezing /\ AccessOK(access)
      /\ UNCHANGED workerFrame /\ SameEntries(watches) /\ watch_running
  BY Zenon, SameList DEF WriteEntry, ScanInv, BatchOK, AccessKnown, Writing, watch_running
<1> DEFINE e == watches[At]
<1>1. e \in Entry /\ e.frozen_value \in Value
  <2>1. At \in 1 .. Len(watches)
    BY Zenon, <1>0, Position
  <2>2. watches[At] \in Entry
    BY Zenon, <2>1, ElementOfSeq DEF ScanInv, ListOK
  <2> QED BY Zenon, <1>0, <2>2 DEF Freezing, Frozen, Entry
<1>2. PICK r \in WriteOnce(access, {e.addr}) :
        /\ Store(e, e.frozen_value, r.done)
        /\ IF r.ok
           THEN /\ batch' = [batch EXCEPT !.pc = "readback"]
                /\ access' = r.a
                /\ UNCHANGED <<watches, consent>>
           ELSE Finish(watches, r.a, FALSE)
  BY Zenon DEF WriteEntry
<1> HIDE DEF e
<1>3. AccessOK(r.a) /\ r.ok \in BOOLEAN
  BY Zenon, <1>0, WriteOnceEffect
<1>4. memory' \in [Address -> Value]
  BY Zenon, <1>1, <1>2, StoreEffect DEF ScanInv, ListOK
<1>5. CASE r.ok
  <2>1. SameEntries(watches') /\ AccessOK(access')
    BY Zenon, <1>0, <1>2, <1>3, <1>5
  <2> QED BY Zenon, <1>0, <1>2, <1>4, <1>5, <2>1, SameEntryInv
<1>6. CASE ~r.ok
  <2>1. Finish(watches, r.a, FALSE)
    BY Zenon, <1>2, <1>6
  <2> QED BY Zenon, <1>0, <1>3, <1>4, <2>1, FinishInv
<1> QED BY Zenon, <1>3, <1>5, <1>6

\* The read after the write keeps the invariant, whatever it finds.
LEMMA ReadbackEntryInv ==
    ASSUME ScanInv, ReadbackEntry
    PROVE  ScanInv'
<1>0. /\ Writing /\ Len(batch.rows) < Slice /\ Freezing /\ AccessOK(access)
      /\ memory' \in [Address -> Value] /\ UNCHANGED workerFrame /\ SameEntries(watches)
      /\ watch_running
  BY Zenon, SameList DEF ReadbackEntry, ScanInv, ListOK, BatchOK, AccessKnown, Writing,
                  watch_running
<1> DEFINE w == [watches EXCEPT ![At].value = watches[At].frozen_value]
<1>1. SameEntries(w)
  <2>1. At \in 1 .. Len(watches)
    BY Zenon, <1>0, Position
  <2>2. watches[At] \in Entry
    BY Zenon, <2>1, ElementOfSeq DEF ScanInv, ListOK
  <2>3. watches[At].frozen_value \in Value
    BY Zenon, <1>0, <2>2 DEF Freezing, Frozen, Entry
  <2> QED BY Zenon, <2>1, <2>3, ValueEffect DEF ScanInv, ListOK
<1> HIDE DEF w
<1>2. CASE Finish(w, access, TRUE)
  BY Zenon, <1>0, <1>1, <1>2, FinishInv
<1>3. CASE Finish(watches, access, FALSE)
  BY Zenon, <1>0, <1>3, FinishInv
<1> QED BY Zenon, <1>2, <1>3 DEF ReadbackEntry, w
\* The end of the slice, and the outcome.
LEMMA EndBatchInv ==
    ASSUME ScanInv, EndBatch
    PROVE  ScanInv'
<1>0. /\ watch_running /\ batch \in Batch /\ watches \in Seq(Entry)
      /\ batch.total = Len(watches) /\ batch.begin < Len(watches)
      /\ UNCHANGED <<memory, next_id, rows, authorized, cursor, frame, told>>
      /\ AccessOK(access)
  BY Zenon DEF EndBatch, ScanInv, ListOK, BatchOK, AccessKnown, watch_running, workerFrame, panel
<1>1. CASE /\ \/ batch' = [batch EXCEPT !.pc = "publish"]
              \/ batch' = [batch EXCEPT !.pc = "publish", !.cancelled = TRUE]
           /\ UNCHANGED <<watches, access, consent>>
  <2>1. /\ batch' \in Batch /\ batch'.pc = "publish" /\ batch'.include = batch.include
        /\ batch'.mode = batch.mode /\ batch'.closed = batch.closed
        /\ batch'.locked = batch.locked
        /\ batch'.total = batch.total /\ batch'.begin = batch.begin
    BY Zenon, <1>0, <1>1 DEF Batch
  <2>2. ListOK'
    BY Zenon, <1>0, <1>1 DEF ScanInv, ListOK, FrozenByConsent
  <2>3. BatchOK'
    BY Zenon, <1>0, <1>1, <2>1 DEF ScanInv, BatchOK, watch_running, Writing
  <2>4. AccessKnown'
    BY Zenon, <1>0, <1>1, <2>1 DEF ScanInv, AccessKnown, watch_running
  <2> QED BY Zenon, <2>2, <2>3, <2>4 DEF ScanInv
<1>2. ASSUME NEW locked \in BOOLEAN, batch.mode,
             FailCloseFreeze(watches, access, locked),
             batch' = [batch EXCEPT !.pc = "publish", !.cancelled = TRUE,
                                    !.closed = TRUE, !.locked = locked]
      PROVE  ScanInv'
  <2>1. /\ batch' \in Batch /\ batch'.pc = "publish" /\ batch'.include = batch.include
        /\ batch'.closed = TRUE /\ batch'.locked = locked
        /\ batch'.total = batch.total /\ batch'.begin = batch.begin
    BY Zenon, <1>0, <1>2 DEF Batch
  <2>2. /\ watches' \in Seq(Entry) /\ Len(watches') = Len(watches)
        /\ ~HasFrozenEntries(watches') /\ FrozenByConsent'
        /\ consent' = {} /\ AccessOK(access') /\ (locked => ~access'.armed)
    BY Zenon, <1>0, <1>2, FailCloseEffect
  <2>3. batch.include /\ authorized
    BY Zenon, <1>0, <1>2 DEF ScanInv, BatchOK
  <2>4. ListOK'
    BY Zenon, <1>0, <2>2 DEF ScanInv, ListOK
  <2>5. BatchOK'
    BY Zenon, <1>0, <2>1, <2>2, <2>3 DEF ScanInv, BatchOK, watch_running, Writing
  <2>6. AccessKnown'
    BY Zenon, <1>0, <2>1, <2>2, <2>3 DEF AccessKnown
  <2> QED BY Zenon, <2>4, <2>5, <2>6 DEF ScanInv
<1> QED BY Zenon, <1>1, <1>2 DEF EndBatch, Notice

\* The worker leaves its outcome for the window and touches nothing else.
LEMMA PublishOutcomeInv ==
    ASSUME ScanInv, PublishOutcome
    PROVE  ScanInv'
<1>0. /\ watch_running /\ batch \in Batch /\ batch' = [batch EXCEPT !.pc = "done"]
      /\ UNCHANGED <<memory, access, watches, consent, next_id, rows, authorized, cursor,
                     frame, told>>
  BY Zenon DEF PublishOutcome, ScanInv, BatchOK, watch_running, workerFrame, panel, target
<1>1. /\ batch' \in Batch /\ batch'.pc = "done" /\ batch'.include = batch.include
      /\ batch'.mode = batch.mode /\ batch'.closed = batch.closed
      /\ batch'.locked = batch.locked
  BY Zenon, <1>0 DEF Batch
<1>2. ListOK'
  BY Zenon, <1>0 DEF ScanInv, ListOK, FrozenByConsent
<1>3. BatchOK'
  BY Zenon, <1>0, <1>1 DEF ScanInv, BatchOK, watch_running, Writing
<1>4. AccessKnown'
  BY Zenon, <1>0, <1>1 DEF ScanInv, BatchOK, AccessKnown, watch_running
<1> QED BY Zenon, <1>2, <1>3, <1>4 DEF ScanInv

-----------------------------------------------------------------------------
(* The window. *)

\* A step that changes nothing but the target's memory or the frame.
LEMMA FrameInv ==
    ASSUME ScanInv, memory' \in [Address -> Value],
           UNCHANGED <<watches, next_id, rows, cursor, consent, batch, access, authorized, told>>,
           frame' = "buttons" => ~watch_running,
           frame' = "join" => watch_running \/ frame = "join",
           frame' \in {"deferred", "poll"} \/ frame \notin {"deferred", "poll"}
             \/ batch.pc # "done"
    PROVE  ScanInv'
<1>1. ListOK'
  BY Zenon DEF ScanInv, ListOK, FrozenByConsent
<1>2. BatchOK'
  BY Zenon DEF ScanInv, BatchOK, watch_running, Writing, Slice, Freezing, At
<1>3. AccessKnown'
  BY Zenon DEF ScanInv, AccessKnown, watch_running
<1> QED BY Zenon, <1>1, <1>2, <1>3 DEF ScanInv

\* A step of the window that changes the list or the access while no worker
\* runs.
LEMMA ButtonInv ==
    ASSUME ScanInv, ~watch_running, batch' = batch, ListOK', AccessOK(access'),
           access'.armed => authorized' \/ told',
           batch.closed /\ batch.locked /\ access'.armed => told',
           frame' \in {"deferred", "poll"}
             \/ (frame' = "draw" /\ frame = "draw" /\ authorized' = authorized)
    PROVE  ScanInv'
<1>1. ~watch_running'
  BY Zenon DEF watch_running
<1>2. BatchOK'
  BY Zenon, <1>1 DEF ScanInv, BatchOK, watch_running, Writing
<1>3. AccessKnown'
  BY Zenon, <1>1 DEF ScanInv, AccessKnown
<1> QED BY Zenon, <1>2, <1>3 DEF ScanInv

\* Once no batch is left, only the list and the access remain to be sound.
LEMMA NoBatchInv ==
    ASSUME ListOK', batch' = NoBatch, AccessOK(access'),
           access'.armed => authorized' \/ told'
    PROVE  ScanInv'
<1>1. /\ batch' \in Batch /\ batch'.pc = "idle" /\ batch'.closed = FALSE
      /\ batch'.mode = FALSE
  <2>1. <<>> \in Seq(Row) /\ 0 \in 0 .. MaxId
    BY ScannerAssumption
  <2> QED BY Zenon, <2>1 DEF NoBatch, Batch
<1>2. BatchOK'
  BY Zenon, <1>1 DEF BatchOK, watch_running, Writing
<1>3. AccessKnown'
  BY Zenon, <1>1 DEF AccessKnown
<1> QED BY Zenon, <1>2, <1>3 DEF ScanInv

\* StartWatchBatch: the new worker starts inside the list.
LEMMA StartBatchInv ==
    ASSUME ScanInv, NEW c \in 0 .. MaxId, NEW include \in BOOLEAN, include => authorized,
           StartWatchBatch(c, include),
           UNCHANGED <<memory, watches, next_id, rows, consent, access, authorized, told>>,
           frame \notin {"deferred", "poll"}, frame' # "join",
           frame' = "buttons" => ~watch_running'
    PROVE  ScanInv'
<1>0. /\ watches \in Seq(Entry) /\ Len(watches) \in Nat /\ Len(watches) <= MaxId
      /\ MaxId \in Nat
  BY ScannerAssumption DEF ScanInv, ListOK
<1>1. CASE watches = <<>>
  <2>1. cursor' = 0 /\ batch' = batch
    BY Zenon, <1>1 DEF StartWatchBatch, worker
  <2>2. ListOK'
    BY <1>0, <2>1 DEF ScanInv, ListOK, FrozenByConsent
  <2>3. BatchOK'
    BY Zenon, <2>1 DEF ScanInv, BatchOK, watch_running, Writing, Slice, Freezing, At
  <2>4. AccessKnown'
    BY Zenon, <2>1 DEF ScanInv, AccessKnown, watch_running
  <2> QED BY Zenon, <2>2, <2>3, <2>4 DEF ScanInv
<1>2. CASE watches # <<>>
  <2>1. Len(watches) > 0
    BY <1>0, <1>2, EmptySeq
  <2>2. Begin(c) \in Nat /\ Begin(c) < Len(watches)
    BY <1>0, <2>1 DEF Begin
  <2>3. /\ cursor' = Begin(c)
        /\ batch' = [NoBatch EXCEPT !.pc = "entry", !.include = include,
                         !.mode = include /\ HasFrozenEntries(watches),
                         !.begin = Begin(c), !.total = Len(watches)]
    BY Zenon, <1>2 DEF StartWatchBatch
  <2>4. /\ batch' \in Batch /\ batch'.pc = "entry" /\ batch'.closed = FALSE
        /\ batch'.include = include /\ (batch'.mode => include)
        /\ batch'.begin = Begin(c) /\ batch'.total = Len(watches)
    <3>1. <<>> \in Seq(Row) /\ Len(watches) \in 0 .. MaxId
      BY <1>0
    <3> QED BY Zenon, <2>2, <2>3, <3>1 DEF NoBatch, Batch
  <2>5. ListOK'
    BY <1>0, <2>2, <2>3 DEF ScanInv, ListOK, FrozenByConsent
  <2>6. BatchOK'
    BY Zenon, <2>2, <2>4 DEF BatchOK, watch_running, Writing
  <2>7. AccessKnown'
    BY Zenon, <2>4 DEF ScanInv, AccessKnown
  <2> QED BY Zenon, <2>5, <2>6, <2>7 DEF ScanInv
<1> QED BY Zenon, <1>1, <1>2
\* SetWritesArmed(false) where it is called only for an armed access.
LEMMA DisarmIfArmedEffect ==
    ASSUME NEW a, AccessOK(a), NEW d \in DisarmIfArmed(a)
    PROVE  /\ AccessOK(d.a) /\ d.ok \in BOOLEAN
           /\ d.ok => ~d.a.armed
           /\ d.a.armed => a.armed
<1>1. CASE a.armed
  BY Zenon, <1>1, DisarmEffect DEF DisarmIfArmed
<1>2. CASE ~a.armed
  <2>1. d = [ok |-> TRUE, a |-> a]
    BY Zenon, <1>2 DEF DisarmIfArmed
  <2> QED BY Zenon, <1>2, <2>1
<1> QED BY Zenon, <1>1, <1>2

\* FinishLockAllWrites: the process, then the backend.
LEMMA PollDeferredInv ==
    ASSUME ScanInv, PollDeferredAction
    PROVE  ScanInv'
<1>0. /\ frame' = "poll"
      /\ UNCHANGED <<memory, watches, next_id, rows, cursor, consent, batch>>
  BY Zenon DEF PollDeferredAction, list, worker
<1>1. CASE ~LockDue
  <2>1. UNCHANGED <<authorized, access, told>> /\ memory' \in [Address -> Value]
    BY Zenon, <1>0, <1>1 DEF PollDeferredAction, ScanInv, ListOK
  <2> QED BY Zenon, <1>0, <2>1, FrameInv
<1>2. CASE LockDue
  <2>0. ~watch_running /\ AccessOK(access)
    BY Zenon, <1>2 DEF LockDue, Busy, ScanInv, AccessKnown
  <2>1. PICK p \in DisarmIfArmed(access) :
          \E b \in IF Backend THEN SetGate(FALSE, p.a.gate)
                   ELSE {[ok |-> TRUE, gate |-> p.a.gate]} :
            /\ access' = [p.a EXCEPT !.gate = b.gate]
            /\ told' = ~AllLocked(p.ok, b.ok)
    BY Zenon, <1>2 DEF PollDeferredAction
  <2>2. PICK b \in IF Backend THEN SetGate(FALSE, p.a.gate)
                   ELSE {[ok |-> TRUE, gate |-> p.a.gate]} :
            /\ access' = [p.a EXCEPT !.gate = b.gate]
            /\ told' = ~AllLocked(p.ok, b.ok)
    BY Zenon, <2>1
  <2>3. AccessOK(p.a) /\ p.ok \in BOOLEAN /\ (p.ok => ~p.a.armed)
    BY Zenon, <2>0, DisarmIfArmedEffect
  <2>4. p.a \in Access /\ p.a.gate \in BOOLEAN /\ (~Backend => ~p.a.gate)
    BY Zenon, <2>3 DEF AccessOK, Access
  <2>5. b.gate \in BOOLEAN /\ (~Backend => ~b.gate)
    <3>1. CASE Backend
      BY Zenon, <2>4, <3>1, SetGateEffect
    <3>2. CASE ~Backend
      BY <2>2, <2>4, <3>2
    <3> QED BY Zenon, <3>1, <3>2
  <2>6. AccessOK(access') /\ access'.armed = p.a.armed
    BY Zenon, <2>2, <2>4, <2>5 DEF AccessOK, Access
  <2>7. access'.armed => told'
    BY Zenon, <2>2, <2>3, <2>6 DEF AllLocked
  <2>8. ListOK'
    BY Zenon, <1>0 DEF ScanInv, ListOK, FrozenByConsent
  <2> QED BY Zenon, <1>0, <2>0, <2>6, <2>7, <2>8, ButtonInv
<1> QED BY Zenon, <1>1, <1>2

\* The outcome is collected: its rows, and its end of all freezing.
LEMMA PollWorkerInv ==
    ASSUME ScanInv, PollWatchWorker
    PROVE  ScanInv'
<1>0. frame' = "draw" /\ UNCHANGED <<memory, next_id>>
  BY Zenon DEF PollWatchWorker
<1>1. CASE batch.pc # "done"
  <2>1. /\ UNCHANGED <<access, watches, rows, authorized, cursor, batch, consent, told>>
        /\ memory' \in [Address -> Value]
    BY Zenon, <1>0, <1>1 DEF PollWatchWorker, panel, history, ScanInv, ListOK
  <2> QED BY Zenon, <1>0, <1>1, <2>1, FrameInv
<1>2. CASE batch.pc = "done"
  <2>0. /\ batch' = NoBatch /\ watches \in Seq(Entry) /\ AccessOK(access)
        /\ Len(watches) <= MaxId /\ 0 \in 0 .. MaxId /\ batch \in Batch
    BY <1>2, ScannerAssumption DEF PollWatchWorker, ScanInv, ListOK, BatchOK, AccessKnown
  <2>1. ASSUME NEW locked \in BOOLEAN, FailCloseFreeze(watches, access, locked),
               StopFreezing(locked)
        PROVE  ScanInv'
    <3>1. /\ watches' \in Seq(Entry) /\ Len(watches') = Len(watches) /\ FrozenByConsent'
          /\ consent' = {} /\ AccessOK(access') /\ (locked => ~access'.armed)
      BY Zenon, <2>0, <2>1, FailCloseEffect
    <3>2. rows' \in Seq(Row) /\ cursor' \in 0 .. MaxId
      BY Zenon, <2>0, <2>1, <3>1, PublishEffect DEF StopFreezing
    <3>3. ListOK'
      BY Zenon, <1>0, <3>1, <3>2 DEF ScanInv, ListOK
    <3>4. access'.armed => told'
      BY Zenon, <2>1, <3>1 DEF StopFreezing
    <3> QED BY Zenon, <2>0, <3>1, <3>3, <3>4, NoBatchInv
  <2>2. CASE batch.closed /\ UNCHANGED <<access, watches, consent>> /\ StopFreezing(batch.locked)
    <3>1. rows' \in Seq(Row) /\ cursor' \in 0 .. MaxId
      BY Zenon, <2>0, <2>2, PublishEffect DEF StopFreezing
    <3>2. ListOK'
      BY Zenon, <1>0, <2>2, <3>1 DEF ScanInv, ListOK, FrozenByConsent
    <3>3. access'.armed => told'
      BY Zenon, <2>2 DEF StopFreezing, ScanInv, AccessKnown
    <3> QED BY Zenon, <2>0, <2>2, <3>2, <3>3, NoBatchInv
  <2>3. CASE /\ rows' = Collected
             /\ LET reached == batch.begin + Len(batch.rows)
                    wrapped == reached >= batch.total
                IN  IF batch.cancelled
                    THEN cursor' = cursor /\ full' = FALSE
                    ELSE /\ cursor' = IF wrapped THEN 0 ELSE reached
                         /\ full' = (full /\ ~wrapped)
             /\ UNCHANGED <<access, watches, authorized, history>>
    <3>1. rows' \in Seq(Row)
      <4> DEFINE r == batch.rows
                 m == batch.begin
      <4>1. rows \in Seq(Row) /\ r \in Seq(Row)
        BY Zenon, <2>0 DEF ScanInv, ListOK, Batch
      <4>2. rows' = [i \in DOMAIN rows |-> IF i - m \in DOMAIN r THEN r[i - m] ELSE rows[i]]
        BY Zenon, <2>3 DEF Collected
      <4> HIDE DEF r, m
      <4>3. DOMAIN rows = 1 .. Len(rows) /\ Len(rows) \in Nat /\ DOMAIN r = 1 .. Len(r)
        BY <4>1
      <4>4. \A i \in 1 .. Len(rows) : rows[i] \in Row
        BY Zenon, <4>1, ElementOfSeq
      <4>5. \A i \in DOMAIN r : r[i] \in Row
        BY Zenon, <4>1, <4>3, ElementOfSeq
      <4>6. rows' \in [1 .. Len(rows) -> Row]
        BY Zenon, <4>2, <4>3, <4>4, <4>5
      <4>7. \A n \in Nat : \A f \in [1 .. n -> Row] : f \in Seq(Row)
        OBVIOUS
      <4> QED BY Zenon, <4>3, <4>6, <4>7
    <3>2. cursor' \in 0 .. MaxId
      <4> DEFINE n == batch.begin + Len(batch.rows)
      <4>1. n \in Nat /\ batch.total \in 0 .. MaxId
        BY <2>0 DEF Batch
      <4>2. cursor' = cursor \/ cursor' = 0 \/ (cursor' = n /\ ~(n >= batch.total))
        BY Zenon, <2>3
      <4> HIDE DEF n
      <4>3. cursor \in 0 .. MaxId
        BY Zenon DEF ScanInv, ListOK
      <4> QED BY <2>0, <4>1, <4>2, <4>3, ScannerAssumption
    <3>3. ListOK'
      BY Zenon, <1>0, <2>3, <3>1, <3>2 DEF ScanInv, ListOK, FrozenByConsent, history
    <3>4. AccessOK(access') /\ (access'.armed => authorized' \/ told')
      BY Zenon, <2>3 DEF ScanInv, AccessKnown, history
    <3> QED BY Zenon, <2>0, <3>3, <3>4, NoBatchInv
  <2> QED BY Zenon, <1>2, <2>1, <2>2, <2>3 DEF PollWatchWorker
<1> QED BY Zenon, <1>1, <1>2

\* A frame that starts the next batch, or none, keeps the invariant.
LEMMA DrawInv ==
    ASSUME ScanInv, DrawWatchList
    PROVE  ScanInv'
<1>0. /\ frame = "draw" /\ frame' \in {"cancel", "busy", "buttons"}
      /\ frame' = "buttons" => ~watch_running'
      /\ UNCHANGED <<memory, access, watches, next_id, rows, authorized, consent, told>>
      /\ cursor \in 0 .. MaxId /\ memory' \in [Address -> Value]
  BY Zenon DEF DrawWatchList, target, list, history, ScanInv, ListOK
<1>1. CASE StartWatchBatch(cursor, authorized /\ ~full)
  <2>1. (authorized /\ ~full) \in BOOLEAN /\ ((authorized /\ ~full) => authorized)
    BY Zenon
  <2> QED BY Zenon, <1>0, <1>1, <2>1, StartBatchInv
<1>2. CASE UNCHANGED <<cursor, full, worker>>
  <2>1. UNCHANGED <<cursor, batch>> /\ (frame' = "buttons" => ~watch_running)
    BY Zenon, <1>0, <1>2 DEF worker, watch_running
  <2> QED BY Zenon, <1>0, <2>1, FrameInv
<1> QED BY Zenon, <1>1, <1>2 DEF DrawWatchList

\* StartScan after the join: what is still frozen is given up.
LEMMA JoinedInv ==
    ASSUME ScanInv, Joined
    PROVE  ScanInv'
<1>0. /\ frame = "join" /\ frame' = "draw" /\ ~watch_running
      /\ UNCHANGED <<memory, next_id, batch>>
  BY Zenon DEF Joined, worker
<1>1. CASE ~HasFrozenEntries(watches)
  <2>1. /\ UNCHANGED <<access, watches, rows, authorized, cursor, consent, told>>
        /\ memory' \in [Address -> Value]
    BY Zenon, <1>0, <1>1 DEF Joined, panel, history, ScanInv, ListOK
  <2> QED BY Zenon, <1>0, <2>1, FrameInv
<1>2. CASE HasFrozenEntries(watches)
  <2>1. PICK locked \in BOOLEAN :
          /\ FailCloseFreeze(watches, access, locked)
          /\ authorized' = FALSE
          /\ PublishAllWatches(cursor)
          /\ told' = ~locked
    BY Zenon, <1>2 DEF Joined
  <2>2. /\ watches \in Seq(Entry) /\ AccessOK(access) /\ Len(watches) <= MaxId
        /\ cursor \in 0 .. MaxId
    BY ScannerAssumption DEF ScanInv, ListOK, AccessKnown
  <2>3. /\ watches' \in Seq(Entry) /\ Len(watches') = Len(watches) /\ FrozenByConsent'
        /\ consent' = {} /\ AccessOK(access') /\ (locked => ~access'.armed)
    BY Zenon, <2>1, <2>2, FailCloseEffect
  <2>4. rows' \in Seq(Row) /\ cursor' \in 0 .. MaxId
    BY Zenon, <2>1, <2>2, <2>3, PublishEffect
  <2>5. ListOK'
    BY Zenon, <1>0, <2>3, <2>4 DEF ScanInv, ListOK
  <2>6. ~batch.closed
    BY Zenon, <1>0, <1>2 DEF ScanInv, AccessKnown
  <2>7. BatchOK'
    BY Zenon, <1>0 DEF ScanInv, BatchOK, watch_running, Writing
  <2>8. AccessKnown'
    BY Zenon, <1>0, <2>1, <2>3, <2>6 DEF AccessKnown
  <2> QED BY Zenon, <2>5, <2>7, <2>8 DEF ScanInv
<1> QED BY Zenon, <1>1, <1>2

\* The steps that leave the list, the worker and the access alone.
LEMMA QuietInv ==
    ASSUME ScanInv,
           \/ StartScan \/ ScanEnds \/ EndFrame \/ CancelWatchIO \/ LockAllWrites
           \/ \E a \in Address, v \in Value : TargetStores(a, v)
    PROVE  ScanInv'
<1>1. UNCHANGED <<watches, next_id, rows, cursor, consent, batch, access, authorized, told>>
  BY Zenon DEF StartScan, ScanEnds, EndFrame, CancelWatchIO, LockAllWrites, TargetStores,
         target, list, panel, worker, history
<1>2. memory' \in [Address -> Value]
  BY Zenon DEF StartScan, ScanEnds, EndFrame, CancelWatchIO, LockAllWrites, TargetStores,
         target, ScanInv, ListOK
<1>3. /\ frame' = "buttons" => ~watch_running
      /\ frame' = "join" => watch_running \/ frame = "join"
      /\ \/ frame' \in {"deferred", "poll"} \/ frame \notin {"deferred", "poll"}
         \/ batch.pc # "done"
  BY Zenon DEF StartScan, ScanEnds, EndFrame, CancelWatchIO, LockAllWrites, TargetStores, Shown,
         ScanInv, BatchOK
<1> QED BY Zenon, <1>1, <1>2, <1>3, FrameInv
-----------------------------------------------------------------------------
(* The buttons of the list. *)

\* The buttons are there when no worker runs, and end the frame.
LEMMA Buttons ==
    ASSUME ScanInv, Enabled
    PROVE  ~watch_running /\ frame' = "deferred"
BY Zenon DEF ScanInv, BatchOK, Enabled, Shown

\* An outcome nobody has collected yet was told about, or the access is the
\* same.
LEMMA SameAccessInv ==
    ASSUME ScanInv, ~watch_running, ListOK',
           UNCHANGED <<batch, access, authorized, told>>,
           frame' \in {"deferred", "poll"} \/ (frame' = "draw" /\ frame = "draw")
    PROVE  ScanInv'
<1>1. /\ AccessOK(access') /\ (access'.armed => authorized' \/ told')
      /\ batch.closed /\ batch.locked /\ access'.armed => told'
  BY Zenon DEF ScanInv, AccessKnown
<1> QED BY Zenon, <1>1, ButtonInv

\* Arm for the user who confirmed the PID.
LEMMA ArmInv ==
    ASSUME ScanInv, ArmProcessWrites
    PROVE  ScanInv'
<1>0. /\ frame \in {"cancel", "busy", "buttons"} /\ frame' = "deferred"
      /\ ~watch_running /\ ~authorized
      /\ UNCHANGED <<memory, watches, next_id, rows, cursor, consent, batch>>
  BY Zenon DEF ArmProcessWrites, Shown, Busy, list, worker
<1>1. PICK r \in Arm(access) : access' = r.a /\ authorized' = r.ok /\ told' = ~r.ok
  BY Zenon DEF ArmProcessWrites
<1>2. AccessOK(access') /\ r.ok \in BOOLEAN
  BY Zenon, <1>1, ArmEffect DEF ScanInv, AccessKnown
<1>3. ~batch.closed
  BY Zenon, <1>0 DEF ScanInv, BatchOK, AccessKnown, watch_running, Batch
<1>4. ListOK'
  BY Zenon, <1>0 DEF ScanInv, ListOK, FrozenByConsent
<1> QED BY Zenon, <1>0, <1>1, <1>2, <1>3, <1>4, ButtonInv

\* Lock withdraws the authorization, or tells the user that it failed.
LEMMA LockInv ==
    ASSUME ScanInv, LockProcessWrites
    PROVE  ScanInv'
<1>0. /\ frame' = "deferred" /\ ~watch_running
      /\ UNCHANGED <<memory, watches, next_id, rows, cursor, consent, batch>>
  BY Zenon, Buttons DEF LockProcessWrites, list, worker
<1>1. PICK d \in Disarm(access) : access' = d.a /\ told' = ~d.ok
  BY Zenon DEF LockProcessWrites
<1>2. AccessOK(access') /\ (access'.armed => told')
  BY Zenon, <1>1, DisarmEffect DEF ScanInv, AccessKnown
<1>3. ListOK'
  BY Zenon, <1>0 DEF ScanInv, ListOK, FrozenByConsent
<1> QED BY Zenon, <1>0, <1>2, <1>3, ButtonInv

\* Refresh of all values, from the first entry.
LEMMA RefreshInv ==
    ASSUME ScanInv, RefreshValues
    PROVE  ScanInv'
<1>1. /\ frame = "buttons" /\ frame' = "deferred" /\ StartWatchBatch(0, FALSE)
      /\ UNCHANGED <<memory, watches, next_id, rows, consent, access, authorized, told>>
  BY Zenon DEF RefreshValues, Enabled, Shown, target, list, history
<1>2. 0 \in 0 .. MaxId
  BY ScannerAssumption
<1> QED BY Zenon, <1>1, <1>2, StartBatchInv

\* An added entry is new and not frozen.
LEMMA AddInv ==
    ASSUME ScanInv, NEW a \in Address, AddAddress(a)
    PROVE  ScanInv'
<1> DEFINE e == [id |-> next_id, addr |-> a, value |-> memory[a], frozen_value |-> None]
<1>1. e \in Entry /\ ~Frozen(e)
  <2>1. next_id \in 1 .. MaxId /\ memory[a] \in Value
    BY ScannerAssumption DEF AddAddress, ScanInv, ListOK
  <2> QED BY Zenon, <2>1 DEF Entry, Frozen
<1>2. /\ watches' = Append(watches, e) /\ next_id' = next_id + 1 /\ next_id <= MaxId
      /\ PublishAllWatches(cursor)
      /\ UNCHANGED <<memory, access, authorized, batch, consent, told>>
  BY Zenon DEF AddAddress, target, worker, history
<1> HIDE DEF e
<1>3. /\ watches' \in Seq(Entry) /\ Len(watches') = Len(watches) + 1
      /\ \A i \in 1 .. Len(watches) : watches'[i] = watches[i]
      /\ watches'[Len(watches) + 1] = e
  BY <1>1, <1>2, AppendProperties DEF ScanInv, ListOK
<1>4. FrozenByConsent'
  <2>1. DOMAIN watches' = 1 .. Len(watches) + 1 /\ DOMAIN watches = 1 .. Len(watches)
        /\ Len(watches) \in Nat
    BY <1>3 DEF ScanInv, ListOK
  <2>2. ASSUME NEW i \in DOMAIN watches', Frozen(watches'[i])
        PROVE  watches'[i].id \in consent
    <3>1. CASE i \in 1 .. Len(watches)
      BY Zenon, <1>3, <2>1, <2>2, <3>1 DEF ScanInv, ListOK, FrozenByConsent
    <3>2. CASE i = Len(watches) + 1
      BY Zenon, <1>1, <1>3, <2>2, <3>2
    <3> QED BY <2>1, <3>1, <3>2
  <2> QED BY Zenon, <1>2, <2>2 DEF FrozenByConsent
<1>5. next_id' \in 1 .. MaxId + 1 /\ Len(watches') < next_id' /\ Len(watches') <= MaxId
  BY <1>2, <1>3, ScannerAssumption DEF ScanInv, ListOK
<1>6. rows' \in Seq(Row) /\ cursor' \in 0 .. MaxId
  BY Zenon, <1>2, <1>3, <1>5, PublishEffect DEF ScanInv, ListOK
<1>7. ListOK'
  BY Zenon, <1>2, <1>3, <1>4, <1>5, <1>6 DEF ScanInv, ListOK
<1>8. ~watch_running /\ (frame' = "deferred" \/ (frame' = "draw" /\ frame = "draw"))
  BY Zenon, Buttons DEF AddAddress, Busy
<1> QED BY Zenon, <1>2, <1>7, <1>8, SameAccessInv

\* The list without its i-th entry holds the other entries, in their order.
LEMMA EraseEffect ==
    ASSUME NEW w \in Seq(Entry), NEW i \in 1 .. Len(w)
    PROVE  LET u == SubSeq(w, 1, i - 1) \o SubSeq(w, i + 1, Len(w))
           IN  /\ u \in Seq(Entry) /\ Len(u) = Len(w) - 1
               /\ \A j \in 1 .. Len(w) - 1 : \E k \in 1 .. Len(w) : u[j] = w[k]
<1> DEFINE l == SubSeq(w, 1, i - 1)
           r == SubSeq(w, i + 1, Len(w))
           u == l \o r
<1>0. Len(w) \in Nat /\ i \in Nat /\ \A j \in 1 .. Len(w) : w[j] \in Entry
  BY ElementOfSeq
<1>1. l \in Seq(Entry) /\ Len(l) = i - 1 /\ \A j \in 1 .. i - 1 : l[j] = w[j]
  BY <1>0, SubSeqProperties
<1>2. /\ r \in Seq(Entry) /\ Len(r) = Len(w) - i
      /\ \A j \in 1 .. Len(w) - i : r[j] = w[i + j]
  BY <1>0, SubSeqProperties
<1> HIDE DEF l, r
<1>3. /\ u \in Seq(Entry) /\ Len(u) = Len(l) + Len(r)
      /\ \A j \in 1 .. Len(l) + Len(r) : u[j] = IF j <= Len(l) THEN l[j] ELSE r[j - Len(l)]
  BY Zenon, <1>1, <1>2, ConcatProperties
<1> HIDE DEF u
<1>4. Len(l) + Len(r) = Len(w) - 1
  BY <1>0, <1>1, <1>2
<1>5. ASSUME NEW j \in 1 .. Len(w) - 1
      PROVE  \E k \in 1 .. Len(w) : u[j] = w[k]
  <2>1. CASE j <= i - 1
    <3>1. u[j] = w[j] /\ j \in 1 .. Len(w)
      BY <1>0, <1>1, <1>3, <1>4, <2>1
    <3> QED BY Zenon, <3>1
  <2>2. CASE ~(j <= i - 1)
    <3>1. j - (i - 1) \in 1 .. Len(w) - i /\ i + (j - (i - 1)) = j + 1 /\ j + 1 \in 1 .. Len(w)
      BY <1>0, <2>2
    <3>2. u[j] = r[j - (i - 1)]
      BY Zenon, <1>0, <1>1, <1>3, <1>4, <2>2
    <3> QED BY Zenon, <1>2, <3>1, <3>2
  <2> QED BY Zenon, <2>1, <2>2
<1> QED BY Zenon, <1>3, <1>4, <1>5 DEF u, l, r

\* Remove: the entries that stay are as they were.
LEMMA RemoveInv ==
    ASSUME ScanInv, NEW id \in 1 .. MaxId, Remove(id)
    PROVE  ScanInv'
<1>0. /\ UNCHANGED <<memory, access, next_id, authorized, batch, consent, told>>
      /\ ~watch_running /\ frame' = "deferred"
      /\ watches \in Seq(Entry) /\ Len(watches) < next_id /\ Len(watches) \in Nat
      /\ next_id \in 1 .. MaxId + 1 /\ cursor \in 0 .. MaxId
  BY Buttons DEF Remove, target, worker, history, ScanInv, ListOK
<1>1. CASE UNCHANGED <<watches, rows, cursor>>
  <2>1. ListOK'
    BY Zenon, <1>0, <1>1 DEF ScanInv, ListOK, FrozenByConsent
  <2> QED BY Zenon, <1>0, <2>1, SameAccessInv
<1>2. ASSUME NEW i \in DOMAIN watches,
             watches' = SubSeq(watches, 1, i - 1) \o SubSeq(watches, i + 1, Len(watches)),
             PublishAllWatches(cursor)
      PROVE  ScanInv'
  <2>1. /\ watches' \in Seq(Entry) /\ Len(watches') = Len(watches) - 1
        /\ \A j \in 1 .. Len(watches) - 1 :
             \E k \in 1 .. Len(watches) : watches'[j] = watches[k]
    <3>1. i \in 1 .. Len(watches)
      BY <1>0, <1>2
    <3> QED BY Zenon, <1>0, <1>2, <3>1, EraseEffect
  <2>2. FrozenByConsent'
    <3>1. DOMAIN watches' = 1 .. Len(watches) - 1 /\ DOMAIN watches = 1 .. Len(watches)
      BY <1>0, <2>1
    <3> QED BY Zenon, <1>0, <2>1, <3>1 DEF ScanInv, ListOK, FrozenByConsent
  <2>3. Len(watches') < next_id /\ Len(watches') <= MaxId
    BY <1>0, <2>1, ScannerAssumption
  <2>4. rows' \in Seq(Row) /\ cursor' \in 0 .. MaxId
    BY Zenon, <1>0, <1>2, <2>1, <2>3, PublishEffect
  <2>5. ListOK'
    BY Zenon, <1>0, <2>1, <2>2, <2>3, <2>4 DEF ScanInv, ListOK
  <2> QED BY Zenon, <1>0, <2>5, SameAccessInv
<1> QED BY Zenon, <1>1, <1>2 DEF Remove
\* SetFrozen: the entry the row stands for is frozen, if it still exists, and no
\* other.
LEMMA FreezeEffect ==
    ASSUME watches \in Seq(Entry), NEW id
    PROVE  /\ SetFrozen(id, TRUE) \in Seq(Entry) /\ Len(SetFrozen(id, TRUE)) = Len(watches)
           /\ \A i \in 1 .. Len(watches) :
                /\ SetFrozen(id, TRUE)[i].id = watches[i].id
                /\ Frozen(SetFrozen(id, TRUE)[i]) => Frozen(watches[i]) \/ SetFrozen(id, TRUE)[i].id = id
<1> DEFINE f(e) == [e EXCEPT !.frozen_value = e.value]
           g(i) == IF watches[i].id # id THEN watches[i] ELSE f(watches[i])
           w == SetFrozen(id, TRUE)
<1>1. ASSUME NEW e \in Entry
      PROVE  f(e) \in Entry /\ f(e).id = e.id
  BY Zenon DEF Entry
<1>2. w = [i \in 1 .. Len(watches) |-> g(i)]
  BY DEF SetFrozen
<1>3. \A i \in 1 .. Len(watches) : watches[i] \in Entry
  BY Zenon, ElementOfSeq
<1> HIDE DEF f, w
<1>4. \A i \in 1 .. Len(watches) :
        /\ g(i) \in Entry /\ g(i).id = watches[i].id
        /\ Frozen(g(i)) => Frozen(watches[i]) \/ g(i).id = id
  BY Zenon, <1>1, <1>3 DEF Frozen
<1> HIDE DEF g
<1>5. /\ w \in Seq(Entry) /\ Len(w) = Len(watches)
      /\ \A i \in 1 .. Len(watches) : w[i] = g(i)
  BY <1>2, <1>4
<1> QED BY Zenon, <1>4, <1>5 DEF w

\* SetFrozen: the entry is unfrozen, and no other becomes frozen.
LEMMA UnfreezeOneEffect ==
    ASSUME watches \in Seq(Entry), NEW id
    PROVE  /\ SetFrozen(id, FALSE) \in Seq(Entry) /\ Len(SetFrozen(id, FALSE)) = Len(watches)
           /\ \A i \in 1 .. Len(watches) :
                /\ SetFrozen(id, FALSE)[i].id = watches[i].id
                /\ Frozen(SetFrozen(id, FALSE)[i]) => Frozen(watches[i])
<1> DEFINE f(e) == [e EXCEPT !.frozen_value = None]
           g(i) == IF watches[i].id # id THEN watches[i] ELSE f(watches[i])
           w == SetFrozen(id, FALSE)
<1>1. ASSUME NEW e \in Entry
      PROVE  f(e) \in Entry /\ f(e).id = e.id /\ f(e).frozen_value = None
  BY Zenon DEF Entry
<1>2. w = [i \in 1 .. Len(watches) |-> g(i)]
  BY DEF SetFrozen
<1>3. \A i \in 1 .. Len(watches) : watches[i] \in Entry
  BY Zenon, ElementOfSeq
<1> HIDE DEF f, w
<1>4. \A i \in 1 .. Len(watches) :
        /\ g(i) \in Entry /\ g(i).id = watches[i].id
        /\ Frozen(g(i)) => Frozen(watches[i])
  BY Zenon, <1>1, <1>3 DEF Frozen
<1> HIDE DEF g
<1>5. /\ w \in Seq(Entry) /\ Len(w) = Len(watches)
      /\ \A i \in 1 .. Len(watches) : w[i] = g(i)
  BY <1>2, <1>4
<1> QED BY Zenon, <1>4, <1>5 DEF w

\* A row of the window carries the identifier of an entry.
LEMMA RowId ==
    ASSUME ListOK, NEW i \in DOMAIN rows
    PROVE  rows[i].id \in 1 .. MaxId
<1>1. rows[i] \in Row
  BY Zenon, ElementOfSeq, LenProperties DEF ListOK
<1> QED BY Zenon, <1>1 DEF Row

\* Unfreezing takes an automatic writer away.
LEMMA UnfreezeRowInv ==
    ASSUME ScanInv, NEW i \in DOMAIN rows, UnfreezeRow(i)
    PROVE  ScanInv'
<1>0. /\ UNCHANGED <<memory, access, next_id, authorized, batch, consent, told>>
      /\ ~watch_running /\ frame' = "deferred" /\ ListOK
      /\ watches' = SetFrozen(rows[i].id, FALSE)
      /\ PublishAllWatches(cursor) \/ UNCHANGED <<rows, cursor>>
  BY Zenon, Buttons DEF UnfreezeRow, target, worker, history, ScanInv
<1>a. /\ watches \in Seq(Entry) /\ Len(watches) <= MaxId /\ FrozenByConsent
      /\ UNCHANGED consent
  BY <1>0, ScannerAssumption DEF ListOK
<1>1. /\ watches' \in Seq(Entry) /\ Len(watches') = Len(watches)
      /\ \A j \in 1 .. Len(watches) :
           watches'[j].id = watches[j].id /\ (Frozen(watches'[j]) => Frozen(watches[j]))
  <2>1. watches' = SetFrozen(rows[i].id, FALSE)
    BY Zenon, <1>0
  <2> QED BY Zenon, <1>a, <2>1, UnfreezeOneEffect
<1>2. FrozenByConsent'
  <2>1. DOMAIN watches' = 1 .. Len(watches) /\ DOMAIN watches = 1 .. Len(watches)
    BY <1>a, <1>1
  <2> QED BY Zenon, <1>a, <1>1, <2>1 DEF FrozenByConsent
<1>3. rows' \in Seq(Row) /\ cursor' \in 0 .. MaxId
  <2>1. Len(watches') <= MaxId
    BY Zenon, <1>a, <1>1
  <2> QED BY Zenon, <1>0, <1>1, <2>1, PublishEffect DEF ListOK
<1>4. ListOK'
  BY Zenon, <1>0, <1>1, <1>2, <1>3 DEF ListOK
<1> QED BY Zenon, <1>0, <1>4, SameAccessInv

\* Freezing an entry freezes what the user consented to, or fails closed.
LEMMA FreezeRowInv ==
    ASSUME ScanInv, NEW i \in DOMAIN rows, FreezeRow(i)
    PROVE  ScanInv'
<1> DEFINE w == SetFrozen(rows[i].id, TRUE)
           id == rows[i].id
<1>0. /\ UNCHANGED <<memory, next_id, batch>> /\ ListOK /\ AccessOK(access) /\ authorized
      /\ ~watch_running /\ frame' = "deferred" /\ id \in 1 .. MaxId
      /\ cursor \in 0 .. MaxId /\ watches \in Seq(Entry) /\ Len(watches) <= MaxId
  <2>1. /\ UNCHANGED <<memory, next_id, batch>> /\ authorized
        /\ ~watch_running /\ frame' = "deferred"
    <3>1. UNCHANGED <<memory, next_id>> /\ UNCHANGED worker /\ authorized /\ Enabled
      BY Zenon DEF FreezeRow
    <3> QED BY Zenon, <3>1, Buttons DEF worker
  <2>2. ListOK /\ AccessOK(access)
    BY Zenon DEF ScanInv, AccessKnown
  <2>3. /\ cursor \in 0 .. MaxId /\ watches \in Seq(Entry)
        /\ Len(watches) < next_id /\ next_id \in 1 .. MaxId + 1
    BY Zenon, <2>2 DEF ListOK
  <2>4. Len(watches) \in Nat /\ MaxId \in Nat
    BY Zenon, <2>3, LenProperties, ScannerAssumption
  <2>5. Len(watches) <= MaxId
    BY <2>3, <2>4
  <2>6. id \in 1 .. MaxId
    BY Zenon, <2>2, RowId
  <2> QED BY Zenon, <2>1, <2>2, <2>3, <2>5, <2>6
<1>1. PICK r \in Arm(access) :
           IF ~r.ok
           THEN access' = r.a /\ told' = TRUE /\ UNCHANGED <<watches, rows, authorized, cursor, consent>>
           ELSE \E d \in Disarm(r.a) :
                    IF d.ok
                    THEN /\ watches' = w /\ access' = d.a
                         /\ consent' = consent \cup {x \in {id} : Exists(x)}
                         /\ IF Exists(id) THEN PublishAllWatches(cursor)
                            ELSE UNCHANGED <<rows, cursor>>
                         /\ UNCHANGED <<authorized, told>>
                    ELSE \E locked \in BOOLEAN :
                         /\ FailCloseFreeze(w, d.a, locked)
                         /\ authorized' = FALSE /\ told' = ~locked
                         /\ PublishAllWatches(cursor)
  BY Zenon DEF FreezeRow
<1>2. AccessOK(r.a) /\ r.ok \in BOOLEAN
  BY Zenon, <1>0, ArmEffect
<1>3. /\ w \in Seq(Entry) /\ Len(w) = Len(watches)
      /\ \A j \in 1 .. Len(watches) :
           w[j].id = watches[j].id /\ (Frozen(w[j]) => Frozen(watches[j]) \/ w[j].id = id)
  <2>1. w = SetFrozen(id, TRUE) /\ watches \in Seq(Entry)
    BY Zenon, <1>0
  <2> HIDE DEF w, id
  <2> QED BY Zenon, <2>1, FreezeEffect
<1> HIDE DEF w, id
<1>4. CASE ~r.ok
  <2>1. /\ access' = r.a /\ told' = TRUE
        /\ UNCHANGED <<watches, rows, authorized, cursor, consent>>
    BY Zenon, <1>1, <1>4
  <2>2. ListOK'
    BY Zenon, <1>0, <2>1 DEF ListOK, FrozenByConsent
  <2> QED BY Zenon, <1>0, <1>2, <2>1, <2>2, ButtonInv
<1>5. CASE r.ok
  <2>1. PICK d \in Disarm(r.a) :
                    IF d.ok
                    THEN /\ watches' = w /\ access' = d.a
                         /\ consent' = consent \cup {x \in {id} : Exists(x)}
                         /\ IF Exists(id) THEN PublishAllWatches(cursor)
                            ELSE UNCHANGED <<rows, cursor>>
                         /\ UNCHANGED <<authorized, told>>
                    ELSE \E locked \in BOOLEAN :
                         /\ FailCloseFreeze(w, d.a, locked)
                         /\ authorized' = FALSE /\ told' = ~locked
                         /\ PublishAllWatches(cursor)
    BY Zenon, <1>1, <1>5
  <2>2. AccessOK(d.a) /\ d.ok \in BOOLEAN /\ (d.ok => ~d.a.armed)
    BY Zenon, <1>2, DisarmEffect
  <2>3. CASE d.ok
    <3>1. /\ watches' = w /\ access' = d.a
          /\ consent' = consent \cup {x \in {id} : Exists(x)}
          /\ PublishAllWatches(cursor) \/ UNCHANGED <<rows, cursor>>
          /\ UNCHANGED <<authorized, told>>
      BY Zenon, <2>1, <2>3
    <3>2. FrozenByConsent'
      <4>1. DOMAIN watches' = 1 .. Len(watches) /\ DOMAIN watches = 1 .. Len(watches)
        BY <1>0, <1>3, <3>1
      <4>2. ASSUME NEW j \in 1 .. Len(watches), Frozen(w[j])
            PROVE  w[j].id \in consent'
        <5>1. CASE Frozen(watches[j])
          BY Zenon, <1>0, <1>3, <3>1, <4>1, <5>1 DEF ListOK, FrozenByConsent
        <5>2. CASE w[j].id = id
          <6>1. Exists(id)
            BY Zenon, <1>3, <4>1, <5>2 DEF Exists
          <6> QED BY Zenon, <3>1, <5>2, <6>1
        <5> QED BY Zenon, <1>3, <4>2, <5>1, <5>2
      <4> QED BY Zenon, <3>1, <4>1, <4>2 DEF FrozenByConsent
    <3>3. rows' \in Seq(Row) /\ cursor' \in 0 .. MaxId
      BY Zenon, <1>0, <1>3, <3>1, PublishEffect DEF ListOK
    <3>4. consent' \subseteq 1 .. MaxId
      BY Zenon, <1>0, <3>1 DEF ListOK
    <3>5. ListOK'
      BY Zenon, <1>0, <1>3, <3>1, <3>2, <3>3, <3>4 DEF ListOK
    <3> QED BY Zenon, <1>0, <2>2, <2>3, <3>1, <3>5, ButtonInv
  <2>4. CASE ~d.ok
    <3>1. PICK locked \in BOOLEAN :
                         /\ FailCloseFreeze(w, d.a, locked)
                         /\ authorized' = FALSE /\ told' = ~locked
                         /\ PublishAllWatches(cursor)
      BY Zenon, <2>1, <2>4
    <3>2. /\ watches' \in Seq(Entry) /\ Len(watches') = Len(watches) /\ FrozenByConsent'
          /\ consent' = {} /\ AccessOK(access') /\ (locked => ~access'.armed)
      BY Zenon, <1>3, <2>2, <3>1, FailCloseEffect
    <3>3. rows' \in Seq(Row) /\ cursor' \in 0 .. MaxId
      BY Zenon, <1>0, <3>1, <3>2, PublishEffect
    <3>4. ListOK'
      BY Zenon, <1>0, <3>2, <3>3 DEF ListOK
    <3> QED BY Zenon, <1>0, <3>1, <3>2, <3>4, ButtonInv
  <2> QED BY Zenon, <2>2, <2>3, <2>4
<1> QED BY Zenon, <1>2, <1>4, <1>5

\* The guard of WriteValue disarms, or reports that it could not.
LEMMA GuardedDisarmEffect ==
    ASSUME NEW a, AccessOK(a), NEW d \in GuardedDisarm(a)
    PROVE  AccessOK(d.a) /\ d.ok \in BOOLEAN /\ (d.ok => ~d.a.armed)
<1>1. PICK c \in Disarm(a) :
        d \in IF c.ok THEN {c}
              ELSE {[ok |-> FALSE, a |-> x.a] : x \in DisarmRetry(c.a)}
  BY Zenon DEF GuardedDisarm, DisarmRetry
<1>2. AccessOK(c.a) /\ c.ok \in BOOLEAN /\ (c.ok => ~c.a.armed)
  BY Zenon, DisarmEffect
<1>3. CASE c.ok
  BY Zenon, <1>1, <1>2, <1>3
<1>4. CASE ~c.ok
  <2>1. PICK x \in DisarmRetry(c.a) : d = [ok |-> FALSE, a |-> x.a]
    BY Zenon, <1>1, <1>4
  <2>2. AccessOK(x.a)
    BY Zenon, <1>2, DisarmRetryEffect
  <2> QED BY Zenon, <2>1, <2>2
<1> QED BY Zenon, <1>2, <1>3, <1>4

\* A value that was written by hand is the frozen value of a frozen entry.
LEMMA EditedValue ==
    ASSUME watches \in Seq(Entry), NEW i \in 1 .. Len(watches), NEW v \in Value
    PROVE  SameEntries([watches EXCEPT ![i].value = v,
                            ![i].frozen_value = IF @ = None THEN None ELSE v])
<1> DEFINE x == watches[i]
           e == [x EXCEPT !.value = v, !.frozen_value = IF @ = None THEN None ELSE v]
           w == [watches EXCEPT ![i] = e]
<1>1. e \in Entry /\ e.id = watches[i].id
      /\ (e.frozen_value # None <=> watches[i].frozen_value # None)
  <2>1. x \in Entry
    BY Zenon, ElementOfSeq
  <2> HIDE DEF x
  <2>2. e \in Entry /\ e.id = x.id /\ (e.frozen_value # None <=> x.frozen_value # None)
    BY Zenon, <2>1, ScannerAssumption DEF Entry
  <2> QED BY Zenon, <2>2 DEF x
<1>2. w = [watches EXCEPT ![i].value = v, ![i].frozen_value = IF @ = None THEN None ELSE v]
  BY Zenon, LenProperties
<1> HIDE DEF e
<1>3. w \in Seq(Entry) /\ Len(w) = Len(watches)
  BY <1>1
<1>4. w[i] = e /\ \A j \in 1 .. Len(watches) : j # i => w[j] = watches[j]
  <2>1. DOMAIN watches = 1 .. Len(watches)
    BY Zenon, LenProperties
  <2> QED BY Zenon, <2>1
<1> HIDE DEF w
<1>5. SameEntries(w)
  BY Zenon, <1>1, <1>3, <1>4 DEF SameEntries, Frozen
<1> QED BY Zenon, <1>2, <1>5
\* Write & Verify of one value keeps the invariant, whichever step fails.
LEMMA WriteValueInv ==
    ASSUME ScanInv, NEW i \in DOMAIN watches, NEW v \in Value, WriteValue(i, v)
    PROVE  ScanInv'
<1>0. /\ UNCHANGED <<next_id, batch, consent>> /\ ListOK /\ AccessOK(access)
      /\ ~watch_running /\ frame' = "deferred" /\ cursor \in 0 .. MaxId
      /\ watches \in Seq(Entry) /\ Len(watches) <= MaxId /\ i \in 1 .. Len(watches)
  BY Buttons, ScannerAssumption DEF WriteValue, worker, ScanInv, AccessKnown, ListOK
<1>1. watches[i] \in Entry
  BY Zenon, <1>0, ElementOfSeq
<1> DEFINE w == [watches EXCEPT ![i].value = v,
                     ![i].frozen_value = IF @ = None THEN None ELSE v]
<1>2. PICK r \in {[ok |-> FALSE, done |-> {}, a |-> access]} \cup
                   (IF Unchanged(watches[i]) THEN Write(access, {watches[i].addr}) ELSE {}) :
           /\ Store(watches[i], v, r.done)
           /\ \E d \in GuardedDisarm(r.a), verified \in BOOLEAN :
                  /\ access' = d.a /\ told' = ~d.ok
                  /\ watches' = IF ~(r.ok /\ verified) THEN watches ELSE w
                  /\ IF r.ok /\ verified /\ d.ok THEN PublishAllWatches(cursor)
                     ELSE UNCHANGED <<rows, cursor>>
  BY Zenon DEF WriteValue
<1>3. SameEntries(w) /\ SameEntries(watches)
  BY Zenon, <1>0, EditedValue, SameList
<1> HIDE DEF w
<1>4. AccessOK(r.a)
  <2>1. CASE r = [ok |-> FALSE, done |-> {}, a |-> access]
    BY Zenon, <1>0, <2>1
  <2>2. CASE r \in Write(access, {watches[i].addr})
    BY Zenon, <1>0, <2>2, WriteEffect
  <2> QED BY Zenon, <1>2, <2>1, <2>2
<1>5. memory' \in [Address -> Value]
  BY Zenon, <1>0, <1>1, <1>2, StoreEffect DEF ListOK
<1>6. PICK d \in GuardedDisarm(r.a) :
           /\ access' = d.a /\ told' = ~d.ok
           /\ watches' = watches \/ watches' = w
           /\ PublishAllWatches(cursor) \/ UNCHANGED <<rows, cursor>>
  BY Zenon, <1>2
<1>7. AccessOK(access') /\ (access'.armed => told')
  BY Zenon, <1>4, <1>6, GuardedDisarmEffect
<1>8. SameEntries(watches')
  BY Zenon, <1>3, <1>6
<1>9. watches' \in Seq(Entry) /\ Len(watches') = Len(watches) /\ FrozenByConsent'
  BY Zenon, <1>0, <1>8, SameConsent DEF SameEntries
<1>10. rows' \in Seq(Row) /\ cursor' \in 0 .. MaxId
  BY Zenon, <1>0, <1>6, <1>9, PublishEffect DEF ListOK
<1>11. ListOK'
  BY Zenon, <1>0, <1>5, <1>9, <1>10 DEF ListOK
<1> QED BY Zenon, <1>0, <1>7, <1>11, ButtonInv

\* A table is loaded with nothing frozen.
LEMMA LoadTableInv ==
    ASSUME ScanInv, NEW t \in Table, LoadTable(t)
    PROVE  ScanInv'
<1>0. /\ UNCHANGED <<memory, access, authorized, batch, told>> /\ consent' = {}
      /\ ~watch_running /\ frame' = "deferred" /\ PublishAllWatches(0)
      /\ memory \in [Address -> Value]
      /\ watches' = [i \in DOMAIN t |-> Loaded(t, i)] /\ next_id' = Len(t) + 1
  BY Zenon, Buttons DEF LoadTable, target, worker, ScanInv, ListOK
<1>1. PICK n \in 0 .. MaxId : t \in [1 .. n -> Address]
  BY Zenon DEF Table
<1>2. n \in Nat /\ n <= MaxId /\ MaxId \in Nat
  BY ScannerAssumption
<1>3. DOMAIN t = 1 .. n /\ Len(t) = n
  BY <1>1, <1>2
<1>4. \A i \in 1 .. n : Loaded(t, i) \in Entry /\ Loaded(t, i).frozen_value = None
  BY <1>0, <1>1, <1>2 DEF Loaded, Entry
<1>5. watches' = [i \in 1 .. n |-> Loaded(t, i)]
  BY Zenon, <1>0, <1>3
<1>6. /\ watches' \in Seq(Entry) /\ Len(watches') = n
      /\ \A i \in 1 .. n : watches'[i].frozen_value = None
  BY <1>2, <1>4, <1>5
<1>7. FrozenByConsent'
  BY <1>6 DEF FrozenByConsent, Frozen
<1>8. rows' \in Seq(Row) /\ cursor' \in 0 .. MaxId
  BY <1>0, <1>2, <1>6, PublishEffect
<1>9. next_id' \in 1 .. MaxId + 1 /\ Len(watches') < next_id'
  BY <1>0, <1>2, <1>3, <1>6
<1>10. ListOK'
  BY Zenon, <1>0, <1>6, <1>7, <1>8, <1>9 DEF ListOK
<1> QED BY Zenon, <1>0, <1>10, SameAccessInv

\* Attaching another process empties the list and starts unauthorized.
LEMMA ReattachInv ==
    ASSUME ScanInv, Reattach
    PROVE  ScanInv'
<1>1. PICK d \in DisarmIfArmed(access) : access' = [Locked EXCEPT !.gate = d.a.gate]
  BY Zenon DEF Reattach
<1>2. AccessOK(d.a)
  BY Zenon, DisarmIfArmedEffect DEF ScanInv, AccessKnown
<1>3. d.a.gate \in BOOLEAN /\ (~Backend => ~d.a.gate)
  BY Zenon, <1>2 DEF AccessOK, Access
<1>4. AccessOK(access') /\ ~access'.armed
  BY Zenon, <1>1, <1>3 DEF AccessOK, Access, Locked
<1>5. ListOK'
  <2>1. <<>> \in Seq(Entry) /\ <<>> \in Seq(Row) /\ Len(<<>>) = 0 /\ DOMAIN <<>> = {}
    OBVIOUS
  <2> QED BY <2>1, ScannerAssumption DEF Reattach, ScanInv, ListOK, FrozenByConsent
<1>6. batch' = NoBatch
  BY Zenon DEF Reattach
<1> QED BY Zenon, <1>4, <1>5, <1>6, NoBatchInv

-----------------------------------------------------------------------------
(* The theorems. *)

\* The window starts with an empty list and a locked access.
LEMMA ScanInit == Init => ScanInv
<1> SUFFICES ASSUME Init PROVE ScanInv
  BY Zenon
<1>1. ListOK
  <2>1. <<>> \in Seq(Entry) /\ <<>> \in Seq(Row) /\ Len(<<>>) = 0 /\ DOMAIN <<>> = {}
    OBVIOUS
  <2> QED BY <2>1, ScannerAssumption DEF Init, ListOK, FrozenByConsent
<1>2. batch \in Batch /\ batch.pc = "idle" /\ ~batch.closed /\ ~batch.mode
  <2>1. <<>> \in Seq(Row) /\ 0 \in 0 .. MaxId
    BY ScannerAssumption
  <2> QED BY Zenon, <2>1 DEF Init, NoBatch, Batch
<1>3. BatchOK
  BY Zenon, <1>2 DEF BatchOK, watch_running, Writing
<1>4. AccessKnown
  <2>1. AccessOK(access) /\ ~access.armed
    BY Zenon DEF Init, AccessOK, Access, Locked
  <2> QED BY Zenon, <1>2, <2>1 DEF AccessKnown
<1> QED BY Zenon, <1>1, <1>3, <1>4 DEF ScanInv

\* Every step of the window, the worker and the target keeps the invariant.
LEMMA ScanNext == ScanInv /\ [Next]_vars => ScanInv'
<1> SUFFICES ASSUME ScanInv, [Next]_vars PROVE ScanInv'
  BY Zenon
<1>1. CASE WorkerStep
  BY Zenon, <1>1, RefreshEntryInv, CompareEntryInv, WriteEntryInv, ReadbackEntryInv, EndBatchInv,
     PublishOutcomeInv DEF WorkerStep
<1>2. CASE UNCHANGED vars
  <2>1. ListOK'
    BY Zenon, <1>2 DEF vars, target, list, panel, worker, history, ScanInv, ListOK, FrozenByConsent
  <2>2. BatchOK'
    BY Zenon, <1>2 DEF vars, target, list, panel, worker, history, ScanInv, BatchOK, watch_running,
                Writing, Slice, Freezing, At
  <2>3. AccessKnown'
    BY Zenon, <1>2 DEF vars, target, list, panel, worker, history, ScanInv, AccessKnown,
                watch_running
  <2> QED BY Zenon, <2>1, <2>2, <2>3 DEF ScanInv
<1> QED BY <1>1, <1>2, PollDeferredInv, PollWorkerInv, DrawInv, JoinedInv, QuietInv, ArmInv,
           LockInv, RefreshInv, AddInv, RemoveInv, UnfreezeRowInv, FreezeRowInv,
           WriteValueInv, LoadTableInv, ReattachInv DEF Next

\* The invariant of the scanner window, over any interleaving of its frames, its
\* worker and the stores of the target.
THEOREM ScannerInvariant == Spec => []ScanInv
BY ScanInit, ScanNext, PTL DEF Spec

\* The worker stays inside an address list whose length does not change under
\* it, and every variable keeps its type.
THEOREM ScannerTypes == Spec => []TypeOK
<1>1. ScanInv => TypeOK
  BY Zenon DEF ScanInv, ListOK, BatchOK, AccessKnown, AccessOK, TypeOK
<1> QED BY <1>1, ScannerInvariant, PTL

\* SetWritesArmed of the scanner: an armed access is authorized by the user, or
\* the user was told that locking it failed.
THEOREM ArmedStaysKnown == Spec => []ArmedIsKnown
<1>1. ScanInv => ArmedIsKnown
  BY Zenon DEF ScanInv, AccessKnown, ArmedIsKnown
<1> QED BY <1>1, ScannerInvariant, PTL

\* RefreshAndMaybeFreezeEntryOneShot: only entries the user froze are frozen,
\* and the worker writes only those, under an authorization still in force.
THEOREM WritesStayAutomatic == Spec => AutomaticWrites
<1>1. ScanInv => FrozenByConsent
  BY Zenon DEF ScanInv, ListOK
<1>2. ScanInv /\ [Next]_vars =>
        [WriteEntry /\ memory' # memory => authorized /\ watches[At].id \in consent]_vars
  <2> SUFFICES ASSUME ScanInv, WriteEntry
               PROVE  authorized /\ watches[At].id \in consent
    BY Zenon
  <2>1. Writing /\ watch_running
    BY Zenon DEF WriteEntry, Writing, watch_running
  <2>2. Len(batch.rows) < Slice /\ batch.include /\ Frozen(watches[At]) /\ authorized
    BY Zenon, <2>1 DEF ScanInv, BatchOK, Freezing
  <2>3. At \in DOMAIN watches
    BY <2>1, <2>2, Position DEF ScanInv, ListOK
  <2> QED BY Zenon, <2>2, <2>3 DEF ScanInv, ListOK, FrozenByConsent
<1> QED BY <1>1, <1>2, ScannerInvariant, PTL DEF AutomaticWrites, Spec
=============================================================================
