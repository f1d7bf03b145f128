# KDBG verification project

KDBG is a memory debugger for Windows: a kernel driver that reads and writes
physical pages, a user-mode core that stages, applies and rolls back edits, and a
desktop window on top of it. This directory holds TLA+ models of the parts of KDBG
where the order of events, failures and retries matter, the TLC configurations
that check them on small instances, and TLAPS proofs of nearly all safety properties
for instances of every size. `PROJECT.json` lists components, runs, mutants, hazards,
theorems and, under `map`, the source lines behind every definition.

To repeat a check: `tlc -config KDbgDriverPage.cfg MCKDbgDriver`; to repeat the
proofs: `tlapm KDbgDriverProofs.tla`, and so for the other `...Proofs` modules (between
some seconds and ten minutes each, about 40 minutes together). The map covers about a third of the C++ outside the tests.

## The system

| part | state | what makes it hard |
|---|---|---|
| `KDbgDriver.sys` (`driver/KDbgDriver/Driver.cpp`) | owner process and handle count, a write gate and a lock per handle, one global transaction lock, counters and diagnostics, physical memory | IOCTLs of several threads and handles interleave with create, cleanup and close; pages are copied in pieces; a dozen early exits under two locks |
| `KDbgBackend` (`core/memory`) | the device handle, the client's mirror of the gate, the transaction counter | a request or its answer is lost; the mirror decides what is sent |
| `PhysicalPageSession` and the physical tab | baseline, working copy, undo and redo, rollback snapshot, evidence, unlock, recovery flag | every backend call can fail, finish partly or stay unanswered; the user decides what happens next |
| `Win32ProcessMemory` | the arm, the backend's gate, the direct handle | closing can fail; a write consumes the arm |
| `ProcessMemorySession` and its panel | a staged view of a process, its rollback, a worker on a copy | several writes per apply, the target runs meanwhile |
| scanner window, `WatchList` | address list, frozen values, authorization, a watch worker, a scan worker | a window and two workers share a list guarded by one flag; cancel, lock, load, remove at any moment |
| `MemoryScanner` | candidates of the last scan | chunked reads that fail, cancel, a running target |
| saving (`WatchList`, `AddressList`, `MemorySnapshot`) | temporary file, destination | failures, kills, power loss, two instances |
| driver services (`DriverService`, lifecycle page) | two services, a task on another thread | any service call can fail or be cancelled; rollback; the window goes on meanwhile |
| page walks (driver, `PageTableReverseMapper`) | none | the same tables are walked by two programs |
| snapshots (`MemorySnapshot`, `SnapshotPanel`) | two snapshots, a difference list, one worker with a generation | the worker ends between two looks of a frame; files are damaged; limits |
| PFN ownership (`MemProcFsProvider`, the bridge program, `ProcessUsagePanel`) | a child process, a pipe, a deadline, the published answer | the child hangs, floods, dies or prints something else; cancel and join at any time |
| `PointerScanner` | frontier, parents, carried bytes | chunked reads that fail or are short, limits |
| `KernelExplorerPanel` | catalogue, resolver, last read, four futures | results arrive in any order and replace what another worker points to |
| main window (`MainWindow`) | the process object, the workers, one deferred action, the lifecycle task | workers hold a bare pointer to what the window replaces |
| live verifier (`tools/live_verify`) with `KDbgProbe.sys` | a page session, a report, the fixture's page and generation | any of two dozen calls fails, the operator cancels, the fixture is reset, Run throws |

A physical edit goes through all layers: the window's buttons call the page
session, the session opens the gate through `KDbgBackend`, sends one
compare-write transaction and closes the gate; the driver checks ownership and
the gate, compares, copies and reads back under its locks. Process edits and
freezing go through `Win32ProcessMemory`, which uses the same gate when it has to
write through the driver. The lifecycle page replaces the driver under all of
them, the main window decides when it may, and the command-line verifier goes
through the same page session and backend without a window.

## Modules

- **KDbgDriver** models the driver's dispatch routines. A thread carries one IRP;
  `pc[t]` is its place in the routine. A step ends wherever another thread can
  interfere: before a lock, at an interlocked access outside a lock, after each
  byte of a copy. `OwnerLock` is never held across such a point, so its critical
  sections are single steps. Create, cleanup, close and the five IOCTLs of
  `Requested` are actions; an I/O manager that serialises the requests of a
  synchronous file object is the constant `Synchronous`; other writers of the page
  are `ExternalWriters`.
- **PageStore** is what the driver promises: every request takes effect at one
  instant. `KDbgDriver` implements it (`ImplementsPageStore`, by an `INSTANCE` with
  `CommittedPage` for the page: the copy in progress is invisible).
- **KDbgBackend** models the client: each public operation is one action (a
  recursive mutex makes it so), each request to the driver may be lost before or
  after its effect.
- **PhysicalPageSession** has one action per method; the live page and the gate
  are its environment, and a backend call has all the outcomes that `PageStore` and
  `KDbgBackend` leave open. **PhysicalPageWorkflow** restricts the calls to what the
  buttons of the main window allow.
- **ProcessMemory** gives, for each method of `Win32ProcessMemory`, the set of its
  outcomes. `Backend` says whether a driver is connected, `Opened` whether the process has a
  handle of its own (`impl_->process`). **ProcessMemorySession** (the memory browser and its worker) and
  **ProcessScanner** (the watch list, the watch worker, the window's frames) are
  built on it.
- **MemoryScanner** models first and next scans, read by read, and their
  publication in the window; an exception ends a scan (`Thrown`) or loses its results at
  the publication (`scan_error` is then `"lost"`). **TableFile** models the saving protocol, **Paging**
  the two page walks, as recursive functions of the level, and compares them with each other.
- **DriverLifecycle** extends `KDbgBackend` with the two services and the lifecycle
  task, one Service Control Manager call per step.
- **LiveVerify** extends `PhysicalPageSession` with `main` and `Run` of the verifier:
  one action per call on the session, the backend or the probe, in the order of the
  code (`lv` is the place in it). `Main` is everything before `Run`, including the
  attestation of the host; `EmergencyRecovery` an exception anywhere in `Run`;
  `CloseAndReport` the publication and the exit code. A CRC is the page it was
  computed from. `ProbeControl` and `Others` are the fixture and other writers.
- **MemorySnapshot** holds captures, `Diff` (a recursive function on the locals of its
  loop) and the file format; **SnapshotPanel** the panel: a frame is split into its consume, its look at
  `running_` and one button, and worker steps come in between.
- **PfnUsage** models one query end to end: the panel, the supervision loop with
  stop token, deadline and output limit, the pipe, the bridge process and the parser.
- **PointerScan** models the scan read by read; its result is compared with the chains
  of stored pointers that lead to the target (`Chains`, `Paths`). Each level lists the
  regions again, and a listing may fail (`ListingFails`).
- **KernelExplorer** models the panel as functions on its fields, applied in the
  order of `PollJobs`, and its four workers. Stamps tell an object from its successor.
- **ProcessWorkspace** models `MainWindow` as the owner of all workers: the conditions
  under which each tab starts one, the deferred actions, the polls of a frame and the
  destructor.
- **MC...** modules give the constants of the runs and symmetry sets. Where a run
  checks components that share no state, a variable `part`, chosen at the start, says
  which of them moves, so that their state spaces add up instead of multiplying.
- The **...Proofs** modules hold the theorems and their proofs; see Proofs below.

Operators marked *faulty variant* are not used by any specification: each is a
plausible bug of the definition below it, and PROJECT.json names the property that
finds it.

## Runs

| run | instance | bounds | shows |
|---|---|---|---|
| driver_owner | 2 processes, 2 synchronous handles, 2 threads | 3 IOCTLs, a 1-byte page | ownership and the handle count agree; only the controller writes, and a gate is closed after cleanup |
| driver_page | 2 handles, 2 threads | 4 IOCTLs, a 2-byte page | an opened gate pays for one write; a copy is isolated; the driver implements `PageStore` |
| requests_end | the driver with overlapped handles; a PFN query with its bridge | 3 IOCTLs, a 1-byte page; a pipe of 2 records, a limit of 4 | every request completes and is counted once; every query ends, with the whole answer for its frame or none |
| session | all calls of the page session | 2-byte page, undo limit 2 | dirty map and history are exact; a rollback is bound to the live page; evidence is sound; an uncertain write can be observed; an open gate is reported |
| clients | the window's page workflow, the live verifier, the backend with the lifecycle task | 1-byte page, one read sample, one reset of the fixture, ids modulo 3 | an uncertain transaction is observed before another write, what is written was reviewed, no snapshot is unusable; PASS is true and a rollback is tried and honest; the mirror is sound, a close truthful, writes founded; a reported rollback of services is true, Bring Online runs the new images, no gate is open meanwhile |
| workflow_kept | the buttons of the physical tab | 2-byte page | finding 1 |
| panels | process session, snapshots, pointer scan, kernel explorer | 3-byte view; ranges of 1 and 3 bytes in chunks of 2; 5 addresses, 2-byte pointers, chunks of 3, depth 2; 2 kernel addresses | a rollback is accepted after any partial apply, the baseline is live, success means locked; a displayed diff is exact; pointer paths are true, and complete unless reported partial; symbol evidence is of one session |
| workers | the process session while the target writes; the window with all its workers | 2-byte view, history of 1; 8 workers, 2 process objects | an apply writes edited bytes only and operations finish; no worker loses its process object, process I/O is exclusive, the driver is replaced in peace |
| watch | 2 entries, batches of 1 | 2 values | only frozen entries are written, by consent and authorization; an armed target is known |
| watch_cancel | the same | | finding 2 |
| tools | a region of two chunks and two degenerate ones; two savers; four tables | one store of the target; 3 saves | scans are exact, failed scans change nothing; files survive; the walks agree |
| snapshot_shown | the snapshot panel | as in panels | finding 3 |

Why the bounds are enough for the cases of interest: two handles of two processes
are the smallest conflict over ownership; four IOCTLs are an enable and a
transaction on each of two handles, the least for two writes at once; two bytes are
needed to see half of a copy; a history of two overflows with three edits; a view of three bytes has two separate runs; two entries in
batches of one make every slice boundary, and a target that only the driver reaches
(`Opened = FALSE`) has every outcome of arming and writing that these properties see; four tables make a full four-level walk
that repeats no table; chunks of three bytes and values of two make a value (or a
pointer) that straddles chunks; two captured chunks and three bytes make two runs of
changes, one more than the smaller of the two run limits; an answer of the bridge has three records and
the pipe two, so the bridge has to be drained while it writes, and five records are one too many; a
depth of two makes a path through a path; one reset of the fixture is enough for a
stale identity at each of the verifier's three later queries, and a page of one byte
for every comparison it makes, since it compares whole pages (the copy of a page in
pieces is `driver_page`'s); two process objects are one to lose and one to get.

Every run checks for deadlock: no specification has a state in which the system is stuck.

**Environment.** Both halves of `ControllerOnlyWrites` (who writes, and that a gate
is closed after cleanup) hold for synchronous handles only, which is how `KDbgBackend::Open` opens the device
(`KDbgBackend.cpp:167-174`): the I/O manager then serialises the requests of a
handle, so cleanup does not overtake one. Without that
serialisation TLC violates both. The other invariants proved below hold for overlapped
handles too, and so does the refinement; `ImplementsPageStore` was also checked with
`Synchronous = FALSE` on the same instance (4,276,274 states; not kept as a run, it
takes too long). `CopyIsolated` and
`ImplementsPageStore` are about physical requests among themselves: they assume that
nothing else writes the page (`ExternalWriters = FALSE`), as no lock of the driver
could prevent it. The diagnostics of the last physical write are shared
by all handles without a lock; a status request between two stores can see a
mixture, and no property says otherwise.

`ProbeControl` resets the fixture while the verifier runs, although `KDbgProbe.sys`
serves only the process that owns it: `Run` takes the probe query as a parameter and
checks the identity again before each rollback of a local run, which is what
`RollbackHonest` is about.

**Fairness.** `requests_end` assumes weak fairness of each thread's steps inside the
driver: a dispatch routine has no unbounded wait except for the two locks, and
Windows schedules a runnable thread eventually; nothing is assumed about clients.
`MaxRequests` makes contention end, so the run shows freedom from deadlock and from
forgotten locks, not from starvation by an endless stream of requests. For a PFN query
it assumes weak fairness of the query's own thread and of the clock passing the
deadline, and nothing about the bridge process, which may hang for ever.
`workers` assumes weak fairness of the worker thread and of the window's poll,
which runs on every frame.

## Findings

1. *workflow_kept* (`PhysicalPageSession.cpp:470`). A second apply replaces the
   rollback snapshot before it opens the gate; when it then writes nothing, the
   rollback of the successful apply before it is gone, although `docs/PRD.md:148`
   and `docs/ARCHITECTURE.md:143` promise it.
2. *watch_cancel* (`ProcessScannerPanel.cpp:418`). A cancel that arrives after the
   worker's last look at it, when the worker ends between the window's poll and its
   start of the next batch, is cleared by that start, and the frozen values go on
   being written.

3. *snapshot_shown* (`SnapshotPanel.cpp:538`). A comparison that ends between the
   consume at the head of a frame and its look at `running_` is consumed one frame
   later; when Clear Snapshots was pressed in that frame, the table lists differences
   of snapshots the panel no longer holds, and computes addresses from the empty
   `baseline_`. `docs/PRD.md:221` says the differences of two snapshots are displayed.
   `DiffExact` of the run *panels* shows that this race is the only way: without it
   (`raced`) the list is always that of the two snapshots held.

Each is shown by a counterexample of TLC.

Read in the code while modelling, and not stated as properties: the kernel
explorer says "address resolution is deferred" when a resolve is running and does not
perform it later; the pointer panel reports a partial scan as complete; the
process and address in the header of a snapshot file are not covered by its checksum; rows
of a late watch outcome are matched by identifiers that restart when a table is loaded,
which affects the display only; a next scan does not mention that the first one was
cut at its limit.

## Proofs

Every theorem is checked by TLAPS without a gap, for any value of the constants
that satisfies the named assumptions of the modules. The assumptions only say what
the constants are (`Zero \in Byte`, `MaxEditHistory \in Nat \ {0}`, handles form a
finite set, a "nothing" value is no page, no task, no address); TLC evaluates them in
the runs. Two groups of theorems have a hypothesis of their own, because the property
is false without it: the refinement of `PageStore` is proved for `~ExternalWriters`,
`RollbackAccepted` and `BaselineLive` for `~TargetWrites`. An invariant is proved as
`Init => Inv`, `Inv /\ [Next]_vars => Inv'` with one step or lemma per action, and
`Inv => Property`; an action property from the invariant and one step.

**KDbgDriverProofs** (`KDbgDriver`: any processes, handles, threads, offsets, bytes and
number of requests).

- *TypeCorrect*, `[](TypeOK /\ Carry)`: the types alone are not inductive, `Carry` says
  that a request keeps the page it was issued with until it completes.
- *OneShotGateHolds*: no opening of a gate authorises two physical writes.
- *OwnershipHolds*: the count is the number of handles created and not cleaned up, with
  an owner exactly while it is positive. The strengthening `Cleaning` says that a
  thread in cleanup is alone in it for its handle and has not given up its count yet.
- *CopyIsolatedHolds*: mutual exclusion of the transaction lock (`TxHeld`) and a copy
  that stays within the span of its request (`WithinSpan`).
- *ControllerOnlyWritesHolds*: `Serial` says what the serialisation of a synchronous
  handle gives: a request has its open file object to itself, and its process is
  the owner of the context from the check at the entry to the end.
- *AccountingHolds*: every write request and every refused gate request is counted
  once, whichever of the early exits it takes. No run states it.
- *DriverImplementsPageStore*, `Spec => ImplementsPageStore`: the initial state maps to
  a store without requests, and each of the driver's steps to a step of the store (the
  request takes effect) or to a stutter (the committed page is what it was).

**PhysicalPageSessionProofs** (`PhysicalPageSession`, `PhysicalPageWorkflow`,
`LiveVerify`: any page, history limit and number of samples). *SessionInvariant* proves
`SessionInv`; from it *RollbackStaysExact*, *RecoveryStaysObservable*,
*EvidenceStaysSound*, *EditsStayExact*, *OnlyReviewedWrites*, *OpenGateIsReported*.
`EvidenceSound` needs that the page a rollback read back is still live (`RollbackLive`).
`HistoryExact` speaks of undoing everything, which no step sees at once: `History` says
that there is a chain of working copies through both stacks, each edit leading from one to the next.
`ReviewCurrent` (an unlocked session is the one that was reviewed) makes
`ReviewedWritesOnly` a step property. For the buttons of the physical tab, while other
programs write the page: *WindowInvariant*, *WindowWritesReviewed*,
*SnapshotStaysUsable*, *ObservedBeforeWritten*. For the verifier: *VerifierInvariant*
(`ToolInv`: what each stage of a run without errors has established), and from it
*PassStaysTruthful*, *RollbackStaysHonest*, *VerifierWritesReviewed*.

**ProcessMemoryProofs** has the effects of arming, disarming and writing
(*WriteOnceEffect*); the two modules after it use them.

**ProcessProofs** (`ProcessMemorySession`: any view and history limit, any
interleaving of window, worker and target). *ProcessSessionInvariant* proves `ProcInv`: the
session and the worker's copy are exact, what each step of an operation has
established, and while the target is quiet which views the memory is a mixture
of. From it *SuccessAlwaysLocks*, *RollbackStaysAccepted*, *BaselineStaysLive* and
*OnlyEditedBytesWritten*. The second part is about the workers that share the process
(`ProcessWorkspace`): *WorkersAreSafe*, for any panels and process objects; the three
parts of `WorkersSafe` need each other. The third is about the page tables of a process
(`Paging`: any number of levels from three on, any size and contents of the tables, any
frames that cannot be read; `PagingAssumption`). *MappingsStayExact*: the reverse mapper
and the driver's walk agree. The induction goes down the levels: a visit of a table adds
exactly the addresses below its prefix that the walk from this table takes to the target,
because each entry adds those in its span; a limit or a failed read makes the query
fail, an unreadable table only loses addresses whose way leads through it. That the
walks satisfy their recursive equations, and the induction itself, are again shown as
the absence of a least counterexample (see PanelProofs).

**ProcessScannerProofs** (`ProcessScanner`: any list and batch size). *ScannerInvariant*
proves `ScanInv` (the list, the batch of the worker, the write access); from it
*ScannerTypes*, *ArmedStaysKnown*, *WritesStayAutomatic*.

**PanelProofs** (`MemorySnapshot`, `SnapshotPanel`: snapshots of any size; `PointerScan`:
any memory, regions and options the scanner accepts).
*DiffIsExact*: whatever the loop of `MemorySnapshot::Diff` returns is the list of the
maximal runs of differing bytes, in order. The loop is a recursive function on its
locals; that it has a value, and which one, is shown by induction over the bytes that are
left, as the absence of a least counterexample (`NatLessThanWellFounded` and `WFMin` of
the library take no operator, which the provers could not instantiate).
*DiffStaysExact* carries it through the panel: `PanelInv` says what a published result was
computed from, and that without the race of finding 3 the table belongs to the snapshots
held.

*PathsStayExact*: what a pointer scan shows are paths, and without `partial` they are
all of them. `ChaseInv` says where the scan is; that the nodes of a level are paths of
that length (`Correct`); and, unless the scan calls itself partial, that every parent of
a node of the level that ends before the cursor, or in a region done before, has been
found (`Complete`). A pointer that straddles two chunks is found because the carried bytes
are the last ones before the cursor. The number of pointers per chunk, the levels and
the regions have no bound; that the regions are kept in their order (`Scannable`) is
shown by the same kind of induction.

**MemoryScannerProofs** (`MemoryScanner`: any memory, chunk, value and batch size, any
regions in ascending order, as `VirtualQueryEx` lists them: `RegionsAssumption`).
*NextScanStaysFounded* from `ScannerInv`: where the worker is, and that it changes the
candidates only in the step in which it succeeds; when the results of a scan could not
be published, the window offers no next scan. *ScanStaysExact* from `ExactInv`: as far as the target left
the bytes alone, what was found so far is a match with its value (`Sound`), in ascending
order (`Listing`), and unless the scan is partial every match behind the worker was found
(`Covers`). For a first scan *behind* means that the value ends at or before the cursor;
`CarryAt` says that the carried bytes are the last ones before the cursor, as many as
the overlap or as the region has so far, and after a gap possibly fewer. For a next scan
it means a candidate before the index, alone or in a batch. What the loops over regions,
offsets and candidates list (`Collected`) is shown by induction to be the ascending
enumeration of a set.

**WindowProofs**: four parts of the window that share no variable, each with its own
invariant.

- The connection and the driver page (`KDbgBackend`, `DriverLifecycle`). For the backend alone:
  *MirrorIsSound*, *BackendTypes*, *CloseIsTruthful*, *FailureCloses*, *WritesAreFounded*;
  the invariant is `BackendTypeOK /\ MirrorSound`, and for the last one that an open mirror
  has an origin (`Founded`). With the task of the driver page beside it:
  *LifecycleMirrorSound*, *LifecycleCloseTruthful*, *LifecycleWritesFounded*,
  *GateStaysClosed* (`GateInv`), and *RollbackStaysTruthful* and *OnlineStaysNew* from
  `TaskInv`: what every stage of Bring Online has established for the next one
  (`Established`), which stages belong to which action (`Stages`).
- *SymbolsStayBound* (`KernelExplorer`): results of four workers in any order.
- *AnswerStaysWhole* (`PfnUsage`, any output limit): what the pipe and the buffer hold is
  a beginning of what the bridge printed, and only a whole answer parses.
- *TableAlwaysSurvives* (`TableFile`): any number of saving programs, crashes at any step.

What stays with TLC:

- liveness under fairness, which this prover does not do: `RequestsComplete`,
  `QueryEnds`, `OperationsFinish`;
- the three properties that do not hold, of the findings.

## Not modelled, and abstractions to know

- Read-only IOCTLs, process and kernel reads, unload of the driver; the offsets and
  lengths of requests beyond one page.
- Texts, formats, localisation, telemetry, drawing. Value types other than unsigned
  numbers; parsing of tables (it succeeds or fails).
- The rename of the POSIX build, which does not sync the directory. Access rights
  in the page walks; TLC checks four levels, the proof any number from three on. Self-referencing tables are walked by the
  driver and skipped by the reverse mapper; so are PML entries with bit 7 set
  (`Excused` in `Paging`).
- The contents of the analysis evidence export and of JSON reports; the parsing of
  kernel modules, images and PDB files; the loading of `vmm.dll` and the validation of
  its configuration: each succeeds or fails.
- `AddressList` with its `PointerResolver`, `VerifiedWriter` and `AsyncScanController` have no
  user in this version of the program except for tests; of the first, saving is
  modelled. The setup tool, the application shell, telemetry, diagnostics and mocks
  hold no state that the parts above rest on.
- The pointer scan sees memory and a region list that do not change while it runs, and
  which nodes survive a limit is left open.
- `LifecycleQuiet` leaves out the evidence export and the kernel read on purpose: the
  window lets them start while a lifecycle task runs, the backend's own mutex and the
  closed device then make them fail.
- The components of the runs `clients`, `panels`, `workers` and `requests_end` are
  checked one at a time; that they do not touch each other's state is a fact of the
  code outside the model. What they share (the driver, the process object, the gate)
  is the subject of `driver_page`, `ProcessWorkspace` and `DriverLifecycle`.
- A lifecycle action is offered in more states than the window offers it in (the
  page session's recovery flag is not in that model), which only adds behaviours.

## What would come next

A composition of `KDbgBackend` with `KDbgDriver` (two clients, one driver).
