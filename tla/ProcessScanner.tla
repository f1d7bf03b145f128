---------------------------- MODULE ProcessScanner ----------------------------
(***************************************************************************)
(* The process scanner window (ProcessScannerPanel.cpp) and the address    *)
(* list behind it (WatchList.cpp).  Two threads meet here.  The window     *)
(* draws frames: it serves a deferred lock, polls the worker, starts the   *)
(* next batch and then reacts to at most one button.  The watch worker     *)
(* walks a slice of the address list, re-reading every value and writing   *)
(* frozen values back.  What they share is the list itself, which is       *)
(* guarded by watch_running alone, a cancel flag and an outcome slot.  The *)
(* target runs all the while.                                              *)
(*                                                                         *)
(* A generation counter makes an outcome that was overtaken by a newer     *)
(* batch worthless; here starting a batch empties the slot instead.  Value *)
(* types, descriptions, progress and status texts are only displayed.      *)
(***************************************************************************)
EXTENDS ProcessMemory, Sequences

CONSTANTS
    Address,   \* addresses the user watches
    Value,     \* values of a watched address
    None,      \* no value
    MaxId,     \* bound on the identifiers given to entries
    BatchCap   \* entries per batch: 64 in the code

ASSUME ScannerAssumption ==
    /\ None \notin Value
    /\ MaxId \in Nat \ {0}
    /\ BatchCap \in Nat \ {0}

VARIABLES
    memory,         \* the target's memory
    access,         \* the write access to it
    watches,        \* WatchList::entries_
    next_id,        \* WatchList::next_id_
    rows,           \* published_watches_: what the window shows
    authorized,     \* write_authorization_active_
    cursor,         \* watch_cursor_
    full,           \* watch_full_refresh_requested_
    frame,          \* where the window is in drawing a frame
    scanning,       \* scan_running_
    lock_requested, \* deferred_lock_requested_ of the main window
    batch,          \* the watch worker, and the outcome it leaves
    cancel,         \* watch_cancel_requested_, with the worker's stop token
    \* History, read by properties only:
    consent,        \* entries the user froze since freezing was last given up
    told            \* the last attempt to lock the gate was reported as failed

target == <<memory, access>>
list == <<watches, next_id>>
panel == <<rows, authorized, cursor, full>>
worker == <<batch, cancel>>
history == <<consent, told>>
vars == <<target, list, panel, frame, scanning, lock_requested, worker, history>>

\* frozen_value is empty exactly when the entry is not frozen.
Entry == [id : 1 .. MaxId, addr : Address, value : Value,
          frozen_value : Value \cup {None}]
Row == [id : 1 .. MaxId, frozen : BOOLEAN]

Frozen(e) == e.frozen_value # None
HasFrozenEntries(w) == \E i \in DOMAIN w : Frozen(w[i])
RowOf(e) == [id |-> e.id, frozen |-> Frozen(e)]
Rows(w) == [i \in DOMAIN w |-> RowOf(w[i])]

\* "done" is an outcome that has not been collected yet.
NoBatch == [pc |-> "idle", include |-> FALSE, mode |-> FALSE, begin |-> 0,
            total |-> 0, rows |-> <<>>, cancelled |-> FALSE, closed |-> FALSE,
            locked |-> FALSE]

watch_running == batch.pc \notin {"idle", "done"}
Busy == watch_running \/ scanning

Init ==
    /\ memory \in [Address -> Value]
    /\ access = Locked
    /\ watches = <<>> /\ next_id = 1
    /\ rows = <<>> /\ authorized = FALSE /\ cursor = 0 /\ full = FALSE
    /\ frame = "deferred"
    /\ scanning = FALSE
    /\ lock_requested = FALSE
    /\ batch = NoBatch /\ cancel = FALSE
    /\ consent = {} /\ told = FALSE

-----------------------------------------------------------------------------
(* Giving up freezing. *)

\* Every automatic writer goes before the gate is locked.
Unfreeze(w) == [i \in DOMAIN w |-> [w[i] EXCEPT !.frozen_value = None]]

\* SetWritesArmed(false), tried twice.
DisarmRetry(a) == UNION {IF d.ok THEN {d} ELSE Disarm(d.a) : d \in Disarm(a)}

\* FailCloseFreeze on the list w and the access a; locked is gate_locked.
FailCloseFreeze(w, a, locked) ==
    /\ watches' = Unfreeze(w)
    /\ consent' = {}
    /\ \E d \in DisarmRetry(a) : d.ok = locked /\ access' = d.a

PublishAllWatches(c) ==
    /\ rows' = Rows(watches')
    /\ cursor' = IF c > Len(watches') THEN 0 ELSE c

-----------------------------------------------------------------------------
(* The watch worker: RefreshAndMaybeFreezeEntryOneShot for every entry of  *)
(* its slice.                                                              *)

Slice == IF batch.total - batch.begin < BatchCap
         THEN batch.total - batch.begin ELSE BatchCap
At == batch.begin + Len(batch.rows) + 1
Freezing == batch.include /\ Frozen(watches[At])

\* What the worker does not touch.
workerFrame == <<next_id, panel, frame, scanning, lock_requested, cancel, told>>

\* The entry is done, with the list w and the access a: a frozen entry that
\* failed ends the batch and all freezing.
Finish(w, a, ok) ==
    IF ok \/ ~Freezing
    THEN /\ watches' = w /\ access' = a /\ consent' = consent
         /\ batch' = [batch EXCEPT !.pc = "entry", !.rows = Append(@, RowOf(w[At]))]
    ELSE \E locked \in BOOLEAN :
         /\ FailCloseFreeze(w, a, locked)
         /\ batch' = [batch EXCEPT !.pc = "final", !.closed = TRUE, !.locked = locked,
                                   !.rows = Append(@, RowOf(watches'[At]))]

\* A cancellation is noticed between two entries, or after the last one.
Notice ==
    IF batch.mode /\ ~batch.closed
    THEN \E locked \in BOOLEAN :
         /\ FailCloseFreeze(watches, access, locked)
         /\ batch' = [batch EXCEPT !.pc = "publish", !.cancelled = TRUE,
                                   !.closed = TRUE, !.locked = locked]
    ELSE /\ batch' = [batch EXCEPT !.pc = "publish", !.cancelled = TRUE]
         /\ UNCHANGED <<watches, access, consent>>

\* The refresh read of the next entry, which may fail.
RefreshEntry ==
    /\ batch.pc = "entry" /\ ~cancel /\ Len(batch.rows) < Slice
    /\ LET w == [watches EXCEPT ![At].value = memory[watches[At].addr]]
       IN  \/ Freezing /\ watches' = w /\ batch' = [batch EXCEPT !.pc = "compare"]
              /\ UNCHANGED <<access, consent>>
           \/ ~Freezing /\ Finish(w, access, TRUE)
           \/ Finish(watches, access, FALSE)
    /\ UNCHANGED <<memory, workerFrame>>

Unchanged(e) == memory[e.addr] = e.value

\* The second read must find the value just shown.
CompareEntry ==
    /\ batch.pc = "compare"
    /\ \/ /\ Unchanged(watches[At])
          /\ batch' = [batch EXCEPT !.pc = "write"]
          /\ UNCHANGED <<watches, access, consent>>
       \/ Finish(watches, access, FALSE)
    /\ UNCHANGED <<memory, workerFrame>>

Store(e, v, done) == memory' = [memory EXCEPT ![e.addr] = IF done = {} THEN @ ELSE v]

\* Arm, write, lock.
WriteEntry ==
    /\ batch.pc = "write"
    /\ LET e == watches[At]
       IN  \E r \in WriteOnce(access, {e.addr}) :
               /\ Store(e, e.frozen_value, r.done)
               /\ IF r.ok
                  THEN /\ batch' = [batch EXCEPT !.pc = "readback"]
                       /\ access' = r.a
                       /\ UNCHANGED <<watches, consent>>
                  ELSE Finish(watches, r.a, FALSE)
    /\ UNCHANGED workerFrame

ReadbackEntry ==
    /\ batch.pc = "readback"
    /\ \/ /\ memory[watches[At].addr] = watches[At].frozen_value
          /\ Finish([watches EXCEPT ![At].value = watches[At].frozen_value], access, TRUE)
       \/ Finish(watches, access, FALSE)
    /\ UNCHANGED <<memory, workerFrame>>

\* The end of the slice: a cancellation is looked for once more.
EndBatch ==
    /\ \/ batch.pc = "entry" /\ (cancel \/ Len(batch.rows) >= Slice)
       \/ batch.pc = "final"
    /\ IF cancel THEN Notice
       ELSE /\ batch' = [batch EXCEPT !.pc = "publish"]
            /\ UNCHANGED <<watches, access, consent>>
    /\ UNCHANGED <<memory, workerFrame>>

\* watch_outcome_ is set, then watch_running_ is cleared.
PublishOutcome ==
    /\ batch.pc = "publish"
    /\ batch' = [batch EXCEPT !.pc = "done"]
    /\ UNCHANGED <<target, watches, consent, workerFrame>>

-----------------------------------------------------------------------------
(* A frame of the window. *)

DisarmIfArmed(a) == IF a.armed THEN Disarm(a) ELSE {[ok |-> TRUE, a |-> a]}

\* faulty variant: the lock does not wait for the worker
LockAtOnce == lock_requested

LockDue == lock_requested /\ ~Busy

\* faulty variant: the process's own arm is forgotten
BackendOnly(process, backend) == backend

\* The lock succeeded if neither the process nor the backend failed.
AllLocked(process, backend) == process /\ backend

\* PollDeferredAction and FinishLockAllWrites of the main window.
PollDeferredAction ==
    /\ frame = "deferred" /\ frame' = "poll"
    /\ IF ~LockDue THEN UNCHANGED <<lock_requested, authorized, access, told>>
       ELSE /\ lock_requested' = FALSE
            /\ authorized' = FALSE
            /\ \E p \in DisarmIfArmed(access) :
                   \E b \in IF Backend THEN SetGate(FALSE, p.a.gate)
                            ELSE {[ok |-> TRUE, gate |-> p.a.gate]} :
                       /\ access' = [p.a EXCEPT !.gate = b.gate]
                       /\ told' = ~AllLocked(p.ok, b.ok)
    /\ UNCHANGED <<memory, list, rows, cursor, full, scanning, worker, consent>>

\* The rows of the outcome replace the ones the window shows.
Collected ==
    [i \in DOMAIN rows |->
        IF i - batch.begin \in DOMAIN batch.rows THEN batch.rows[i - batch.begin]
        ELSE rows[i]]

\* A cancellation that came too late for the worker is served here.
TooLate == cancel /\ batch.mode /\ ~batch.closed

\* Everything a closed batch means for the window.
StopFreezing(locked) ==
    /\ authorized' = FALSE
    /\ PublishAllWatches(0)
    /\ full' = FALSE
    /\ told' = (told \/ ~locked)

PollWatchWorker ==
    /\ frame = "poll" /\ frame' = "draw"
    /\ IF batch.pc # "done"
       THEN /\ cancel' = (cancel /\ watch_running)
            /\ UNCHANGED <<access, watches, panel, batch, history>>
       ELSE /\ cancel' = FALSE
            /\ batch' = NoBatch
            /\ \/ /\ TooLate
                  /\ \E locked \in BOOLEAN :
                         FailCloseFreeze(watches, access, locked) /\ StopFreezing(locked)
               \/ /\ ~TooLate /\ batch.closed
                  /\ UNCHANGED <<access, watches, consent>>
                  /\ StopFreezing(batch.locked)
               \/ /\ ~TooLate /\ ~batch.closed
                  /\ rows' = Collected
                  /\ LET reached == batch.begin + Len(batch.rows)
                         wrapped == reached >= batch.total
                     IN  IF batch.cancelled
                         THEN cursor' = cursor /\ full' = FALSE
                         ELSE /\ cursor' = IF wrapped THEN 0 ELSE reached
                              /\ full' = (full /\ ~wrapped)
                  /\ UNCHANGED <<access, watches, authorized, history>>
    /\ UNCHANGED <<memory, next_id, scanning, lock_requested>>

\* faulty variant: the cursor is taken as it stands
Unclamped(c) == c

\* A list that shrank meanwhile is walked from its first entry again.
Begin(c) == IF c >= Len(watches) THEN 0 ELSE c

\* StartWatchBatch from cursor c.  An outcome nobody collected is overtaken.
StartWatchBatch(c, include) ==
    /\ ~Busy
    /\ IF watches = <<>>
       THEN cursor' = 0 /\ UNCHANGED worker
       ELSE /\ cursor' = Begin(c)
            /\ cancel' = FALSE
            /\ batch' = [NoBatch EXCEPT !.pc = "entry", !.include = include,
                             !.mode = include /\ HasFrozenEntries(watches),
                             !.begin = Begin(c), !.total = Len(watches)]

\* DrawWatchList: the next batch, when its time has come.  The cancel button is
\* drawn when a batch was seen running.
DrawWatchList ==
    /\ frame = "draw"
    /\ \/ /\ StartWatchBatch(cursor, authorized /\ ~full)
          /\ full' = (full /\ watches # <<>>)
       \/ /\ Busy \/ ~full
          /\ UNCHANGED <<cursor, full, worker>>
    /\ frame' = IF watch_running' THEN "cancel" ELSE IF scanning THEN "busy" ELSE "buttons"
    /\ UNCHANGED <<target, list, rows, authorized, scanning, lock_requested, history>>

\* StartScan stops the watch worker first, and joins it.
StartScan ==
    /\ frame = "draw" /\ ~scanning
    /\ IF watch_running THEN frame' = "join" /\ cancel' = TRUE /\ scanning' = scanning
       ELSE UNCHANGED <<frame, cancel>> /\ scanning' = TRUE
    /\ UNCHANGED <<target, list, panel, lock_requested, batch, history>>

\* The rest of StopWatchWorker once the worker is joined, and of StartScan.
Joined ==
    /\ frame = "join" /\ ~watch_running
    /\ frame' = "draw" /\ scanning' = TRUE
    /\ IF HasFrozenEntries(watches)
       THEN \E locked \in BOOLEAN :
                /\ FailCloseFreeze(watches, access, locked)
                /\ authorized' = FALSE
                /\ PublishAllWatches(cursor)
                /\ told' = ~locked
                /\ UNCHANGED full
       ELSE UNCHANGED <<access, watches, panel, history>>
    /\ UNCHANGED <<memory, next_id, lock_requested, worker>>

ScanEnds ==
    /\ scanning /\ scanning' = FALSE
    /\ UNCHANGED <<target, list, panel, frame, lock_requested, worker, history>>

-----------------------------------------------------------------------------
(* The buttons of a frame. *)

Shown == frame \in {"cancel", "busy", "buttons"} /\ frame' = "deferred"

\* watch_busy was found false when the frame was drawn.
Enabled == frame = "buttons" /\ Shown /\ UNCHANGED <<scanning, lock_requested>>

\* The frame ends, or the scanner's tab is not shown.
EndFrame ==
    /\ frame = "poll" \/ Shown
    /\ frame' = "deferred"
    /\ UNCHANGED <<target, list, panel, scanning, lock_requested, worker, history>>

CancelWatchIO ==
    /\ Shown /\ frame = "cancel"
    /\ cancel' = TRUE /\ full' = FALSE
    /\ UNCHANGED <<target, list, rows, authorized, cursor, scanning, lock_requested, batch, history>>

LockAllWrites ==
    /\ Shown /\ lock_requested' = TRUE
    /\ UNCHANGED <<target, list, panel, scanning, worker, history>>

\* The PID confirmation, offered when nothing is authorized or armed.
ArmProcessWrites ==
    /\ Shown /\ ~Busy /\ ~authorized /\ ~access.armed
    /\ \E r \in Arm(access) : access' = r.a /\ authorized' = r.ok /\ told' = ~r.ok
    /\ UNCHANGED <<memory, list, rows, cursor, full, scanning, lock_requested, worker,
                   consent>>

LockProcessWrites ==
    /\ Enabled /\ (authorized \/ access.armed)
    /\ authorized' = FALSE
    /\ \E d \in Disarm(access) : access' = d.a /\ told' = ~d.ok
    /\ UNCHANGED <<memory, list, rows, cursor, full, worker, consent>>

RefreshValues ==
    /\ Enabled /\ rows # <<>>
    /\ full' = (watches # <<>>)
    /\ StartWatchBatch(0, FALSE)
    /\ UNCHANGED <<target, list, rows, authorized, history>>

\* From a scan result, or by hand further down.
AddAddress(a) ==
    /\ \/ frame = "draw" /\ ~Busy /\ UNCHANGED <<frame, scanning, lock_requested>>
       \/ Enabled
    /\ next_id <= MaxId
    /\ watches' = Append(watches, [id |-> next_id, addr |-> a, value |-> memory[a],
                                   frozen_value |-> None])
    /\ next_id' = next_id + 1
    /\ PublishAllWatches(cursor)
    /\ UNCHANGED <<target, authorized, full, worker, history>>

\* The row shown may be out of date: its entry need not exist any more.
Exists(id) == \E e \in DOMAIN watches : watches[e].id = id

\* The first entry with the identifier is erased.
Remove(id) ==
    /\ Enabled /\ \E i \in DOMAIN rows : rows[i].id = id
    /\ \/ /\ ~Exists(id) /\ UNCHANGED <<watches, rows, cursor>>
       \/ \E i \in DOMAIN watches :
            /\ watches[i].id = id /\ \A j \in 1 .. i - 1 : watches[j].id # id
            /\ watches' = SubSeq(watches, 1, i - 1) \o SubSeq(watches, i + 1, Len(watches))
            /\ PublishAllWatches(cursor)
    /\ UNCHANGED <<target, next_id, authorized, full, worker, history>>

SetFrozen(id, frozen) ==
    [i \in DOMAIN watches |->
        IF watches[i].id # id THEN watches[i]
        ELSE [watches[i] EXCEPT !.frozen_value = IF frozen THEN watches[i].value ELSE None]]

UnfreezeRow(i) ==
    /\ Enabled /\ rows[i].frozen
    /\ watches' = SetFrozen(rows[i].id, FALSE)
    /\ IF Exists(rows[i].id) THEN PublishAllWatches(cursor) ELSE UNCHANGED <<rows, cursor>>
    /\ UNCHANGED <<target, next_id, authorized, full, worker, history>>

\* The checkbox arms, freezes and locks; a lock that fails gives freezing up.
FreezeRow(i) ==
    /\ Enabled /\ authorized /\ ~rows[i].frozen
    /\ \E r \in Arm(access) :
           IF ~r.ok
           THEN access' = r.a /\ told' = TRUE /\ UNCHANGED <<watches, rows, authorized, cursor, consent>>
           ELSE \E d \in Disarm(r.a) :
                LET w == SetFrozen(rows[i].id, TRUE)
                IN  IF d.ok
                    THEN /\ watches' = w /\ access' = d.a
                         /\ consent' = consent \cup {id \in {rows[i].id} : Exists(id)}
                         /\ IF Exists(rows[i].id) THEN PublishAllWatches(cursor)
                            ELSE UNCHANGED <<rows, cursor>>
                         /\ UNCHANGED <<authorized, told>>
                    ELSE \E locked \in BOOLEAN :
                         /\ FailCloseFreeze(w, d.a, locked)
                         /\ authorized' = FALSE /\ told' = ~locked
                         /\ PublishAllWatches(cursor)
    /\ UNCHANGED <<memory, next_id, full, worker>>

\* The guard of WriteValue: a lock that needed the retry fails the write; the
\* destructor tries once more.
GuardedDisarm(a) ==
    UNION {IF d.ok THEN {d}
           ELSE {[ok |-> FALSE, a |-> x.a] :
                     x \in UNION {IF y.ok THEN {y} ELSE Disarm(y.a) : y \in Disarm(d.a)}} :
               d \in Disarm(a)}

\* Write & Verify.  Stores of the target between its reads and its write amount
\* to stores before or after the whole.
WriteValue(i, v) ==
    /\ Enabled /\ access.armed
    /\ authorized' = FALSE
    /\ \E r \in {[ok |-> FALSE, done |-> {}, a |-> access]} \cup
                   (IF Unchanged(watches[i]) THEN Write(access, {watches[i].addr}) ELSE {}) :
           /\ Store(watches[i], v, r.done)
           /\ \E d \in GuardedDisarm(r.a), verified \in BOOLEAN :
                  /\ access' = d.a /\ told' = ~d.ok
                  /\ watches' = IF ~(r.ok /\ verified) THEN watches
                                ELSE [watches EXCEPT ![i].value = v,
                                          ![i].frozen_value = IF @ = None THEN None ELSE v]
                  /\ IF r.ok /\ verified /\ d.ok THEN PublishAllWatches(cursor)
                     ELSE UNCHANGED <<rows, cursor>>
    /\ UNCHANGED <<next_id, full, worker, consent>>

-----------------------------------------------------------------------------
(* Address tables.  How a table gets to disk is TableFile's matter; saving *)
(* changes nothing here, and the table loaded may be any valid one.        *)

Table == UNION {[1 .. n -> Address] : n \in 0 .. MaxId}

\* An entry that was saved frozen is loaded unfrozen.
Loaded(t, i) ==
    [id |-> i, addr |-> t[i], value |-> memory[t[i]], frozen_value |-> None]

\* Identifiers start over; nothing is loaded unless everything is valid.
LoadTable(t) ==
    /\ Enabled
    /\ watches' = [i \in DOMAIN t |-> Loaded(t, i)] /\ next_id' = Len(t) + 1
    /\ consent' = {}
    /\ PublishAllWatches(0)
    /\ UNCHANGED <<target, authorized, full, worker, told>>

-----------------------------------------------------------------------------
(* The rest of the world. *)

\* FinishDisconnectProcess and a new attachment: an arm that cannot be closed
\* blocks it.
Reattach ==
    /\ frame = "deferred" /\ ~Busy
    /\ \E d \in DisarmIfArmed(access) :
           /\ d.ok
           /\ access' = [Locked EXCEPT !.gate = d.a.gate]
    /\ watches' = <<>> /\ next_id' = 1 /\ rows' = <<>> /\ cursor' = 0
    /\ authorized' = FALSE /\ full' = FALSE
    /\ batch' = NoBatch /\ consent' = {}
    /\ UNCHANGED <<memory, frame, scanning, lock_requested, cancel, told>>

TargetStores(a, v) ==
    /\ memory[a] # v
    /\ memory' = [memory EXCEPT ![a] = v]
    /\ UNCHANGED <<access, list, panel, frame, scanning, lock_requested, worker, history>>

WorkerStep ==
    \/ RefreshEntry \/ CompareEntry \/ WriteEntry \/ ReadbackEntry
    \/ EndBatch \/ PublishOutcome

Next ==
    \/ WorkerStep
    \/ PollDeferredAction \/ PollWatchWorker \/ DrawWatchList
    \/ StartScan \/ Joined \/ ScanEnds
    \/ EndFrame \/ CancelWatchIO \/ LockAllWrites
    \/ ArmProcessWrites \/ LockProcessWrites \/ RefreshValues
    \/ \E a \in Address : AddAddress(a)
    \/ \E id \in 1 .. MaxId : Remove(id)
    \/ \E i \in DOMAIN rows : UnfreezeRow(i) \/ FreezeRow(i)
    \/ \E i \in DOMAIN watches, v \in Value : WriteValue(i, v)
    \/ \E t \in Table : LoadTable(t)
    \/ Reattach
    \/ \E a \in Address, v \in Value : TargetStores(a, v)

Spec == Init /\ [][Next]_vars

-----------------------------------------------------------------------------
(* Properties. *)

\* Every variable keeps its type, and a worker works inside the list: the list
\* does not change its length under it, although the cursor may be out of date.
TypeOK ==
    /\ memory \in [Address -> Value]
    /\ access \in Access
    /\ watches \in Seq(Entry) /\ next_id \in 1 .. MaxId + 1
    /\ rows \in Seq(Row) /\ cursor \in 0 .. MaxId
    /\ consent \subseteq 1 .. MaxId
    /\ watch_running => batch.total = Len(watches) /\ batch.begin < Len(watches)

\* Only entries the user froze since freezing was last given up, in a list
\* that was not loaded since, are frozen: neither a loaded table, nor a batch
\* that failed, nor a reused identifier brings an automatic writer back.
FrozenByConsent == \A i \in DOMAIN watches : Frozen(watches[i]) => watches[i].id \in consent

\* The worker changes the target only while the freeze authorization that was
\* confirmed with the PID is still in force, and only for an entry the user
\* froze since (FrozenByConsent).
AutomaticWrites ==
    /\ []FrozenByConsent
    /\ [][WriteEntry /\ memory' # memory => authorized /\ watches[At].id \in consent]_vars

\* An armed access is always accounted for: a worker is inside its one write,
\* the user armed it, or the user was told that locking failed.
ArmedIsKnown == access.armed => watch_running \/ authorized \/ told

\* What ProcessScannerState.h promises of an automatic writer whose state has
\* become uncertain: a batch that starts after a cancel was asked for, and not
\* served, has nothing frozen any more.
CancelHonoured ==
    [][cancel /\ ~watch_running /\ watch_running' => ~HasFrozenEntries(watches')]_vars
=============================================================================
