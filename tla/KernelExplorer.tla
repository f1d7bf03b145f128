--------------------------- MODULE KernelExplorer ---------------------------
(***************************************************************************)
(* KernelExplorerPanel: four workers, each behind a future of its own,     *)
(* refresh the module catalogue, read kernel memory, load local symbols    *)
(* and resolve an address or a name.  A frame polls all four; what one of  *)
(* them publishes can replace or destroy what another one is using.        *)
(*                                                                         *)
(* A worker may fail at any time.  Cancelling one adds nothing to that: it *)
(* then fails, or publishes because it looked at its flag too early.       *)
(* Resolvers and catalogues carry stamps that tell one object from the     *)
(* next at the same place; a stamp is taken again only once no reference   *)
(* to its old bearer is left.                                              *)
(***************************************************************************)
EXTENDS Integers

CONSTANTS
    KernelVa,     \* canonical kernel addresses
    NoVa,         \* last_read_address_ = 0, or an empty optional
    Stamp         \* names of catalogues and of resolvers

ASSUME KernelAssumption == NoVa \notin KernelVa

VARIABLE panel    \* the fields of KernelExplorerPanel

NoJob == [pc |-> "idle"]
Working(arg) == [pc |-> "running", arg |-> arg]
Ready(out) == [pc |-> "ready", out |-> out]
Nothing == [ok |-> FALSE]
Given(value) == [ok |-> TRUE, value |-> value]

Symbols(id, stamp, proofs) == [id |-> id, stamp |-> stamp, proofs |-> proofs]
NoSymbols == Symbols(NoVa, NoVa, {})

KInit ==
    panel = [modules |-> [stamp |-> NoVa, contains |-> {}],
             symbols |-> NoSymbols,
             last_read_address |-> NoVa, read_exact |-> FALSE,
             resolved |-> Nothing,
             module |-> NoJob, read |-> NoJob, symbol |-> NoJob, resolve |-> NoJob]

Valid(job) == job.pc # "idle"
KernelBusy(p) == \E job \in {p.module, p.read, p.symbol, p.resolve} : Valid(job)

\* A stamp no catalogue, no resolver and no reference to one bears.
InUse(p) ==
    {p.modules.stamp, p.symbols.id, p.symbols.stamp}
        \cup (IF p.resolve.pc = "running" THEN {p.resolve.arg.id} ELSE {})
        \cup (IF p.symbol.pc = "running" THEN {p.symbol.arg.stamp} ELSE {})
        \cup (IF p.resolved.ok THEN {p.resolved.value.id} ELSE {})
Fresh(p) == CHOOSE s \in Stamp : s \notin InUse(p)
-----------------------------------------------------------------------------
\* A click that finds a symbol operation running only reports it.
RefreshUnchecked(p) ==                                        \* faulty variant
    IF Valid(p.module) \/ Valid(p.symbol) THEN p
    ELSE [p EXCEPT !.module = Working(NoVa)]
StartModuleRefresh(p) ==
    IF Valid(p.module) \/ Valid(p.symbol) \/ Valid(p.resolve) THEN p
    ELSE [p EXCEPT !.module = Working(NoVa)]

StartRead(p, address) ==
    IF Valid(p.read) THEN p ELSE [p EXCEPT !.read = Working(address)]

\* The worker gets a copy of the catalogue.
StartSymbolLoad(p) ==
    IF Valid(p.symbol) \/ Valid(p.module) \/ Valid(p.resolve)
           \/ p.modules.contains = {}
    THEN p
    ELSE [p EXCEPT !.symbol = Working(p.modules)]

\* The worker gets the bare pointer of the resolver.
Resolve(p, query) ==
    IF Valid(p.resolve) \/ Valid(p.symbol) \/ Valid(p.module) \/ p.symbols = NoSymbols
    THEN p
    ELSE [p EXCEPT !.resolve = Working([id |-> p.symbols.id, query |-> query])]
StartAddressResolve(p, address) == Resolve(p, address)
StartNameResolve(p) == Resolve(p, NoVa)
-----------------------------------------------------------------------------
\* PollJobs looks at the four futures in this order.
PollModule(p) ==
    IF p.module.pc # "ready" THEN p
    ELSE LET q == [p EXCEPT !.module = NoJob] IN
         IF ~p.module.out.ok THEN q
         ELSE [q EXCEPT !.modules = p.module.out.value, !.symbols = NoSymbols,
                        !.resolved = Nothing]

PollRead(p) ==
    IF p.read.pc # "ready" THEN p
    ELSE LET q == [p EXCEPT !.read = NoJob, !.resolved = Nothing] IN
         IF ~p.read.out.ok THEN [q EXCEPT !.read_exact = FALSE]
         ELSE LET r == [q EXCEPT !.last_read_address = p.read.out.value.address,
                                 !.read_exact = p.read.out.value.exact]
              IN  IF Valid(r.symbol) \/ Valid(r.resolve) THEN r
                  ELSE StartAddressResolve(r, r.last_read_address)

PollSymbol(p) ==
    IF p.symbol.pc # "ready" THEN p
    ELSE LET q == [p EXCEPT !.symbol = NoJob] IN
         IF ~p.symbol.out.ok THEN q
         ELSE LET r == [q EXCEPT !.symbols = p.symbol.out.value]
              IN  IF r.last_read_address = NoVa \/ Valid(r.resolve) THEN r
                  ELSE StartAddressResolve(r, r.last_read_address)

PollResolve(p) ==
    IF p.resolve.pc # "ready" THEN p
    ELSE [p EXCEPT !.resolve = NoJob, !.resolved = p.resolve.out]

PollJobs(p) == PollResolve(PollSymbol(PollRead(PollModule(p))))
-----------------------------------------------------------------------------
Frame == panel' = PollJobs(panel) /\ panel' # panel

Click ==
    /\ \/ panel' = StartModuleRefresh(panel)
       \/ \E va \in KernelVa : panel' = StartRead(panel, va)
       \/ panel' = StartSymbolLoad(panel)
       \/ \E va \in KernelVa : panel' = StartAddressResolve(panel, va)
       \/ panel' = StartNameResolve(panel)
    /\ panel' # panel

WorkerEnds(job, outcomes) ==
    /\ panel[job].pc = "running"
    /\ \E out \in {Nothing} \cup {Given(v) : v \in outcomes} :
         panel' = [panel EXCEPT ![job] = Ready(out)]

\* EnumerateKernelModules: any set of modules, as the kernel has it now.
ModuleWorker ==
    WorkerEnds("module",
        [stamp : {Fresh(panel)}, contains : (SUBSET KernelVa) \ {{}}])

\* An exact read is disassembled to its last byte; a part of one may not be.
ReadWorker ==
    WorkerEnds("read", [address : {panel.read.arg}, exact : BOOLEAN])

\* LocalSymbolResolver::Configure over the copied catalogue: at least one of
\* its modules has an exact PDB.
SymbolWorker ==
    WorkerEnds("symbol",
        {Symbols(Fresh(panel), panel.symbol.arg.stamp, proofs) :
            proofs \in (SUBSET panel.symbol.arg.contains) \ {{}}})

\* LocalSymbolResolver::Resolve, ResolveName.
ResolveWorker == WorkerEnds("resolve", {panel.resolve.arg})

KNext ==
    \/ Frame
    \/ Click
    \/ ModuleWorker
    \/ ReadWorker
    \/ SymbolWorker
    \/ ResolveWorker

KSpec == KInit /\ [][KNext]_panel
-----------------------------------------------------------------------------
\* CurrentEvidence: what the analysis export may bind to.
CurrentEvidence(p) ==
    /\ ~KernelBusy(p) /\ p.symbols # NoSymbols /\ p.read_exact /\ p.resolved.ok
    /\ p.resolved.value.query = p.last_read_address
    /\ p.last_read_address \in p.modules.contains \cap p.symbols.proofs

\* A symbol worker never outlives the resolver it was given a pointer to, and
\* evidence never mixes sessions: its symbol was found by the resolver that is
\* loaded, and that resolver was built from the catalogue that is displayed.
SymbolsBound ==
    /\ panel.resolve.pc = "running" => panel.resolve.arg.id = panel.symbols.id
    /\ CurrentEvidence(panel) =>
         /\ panel.resolved.value.id = panel.symbols.id
         /\ panel.symbols.stamp = panel.modules.stamp
=============================================================================
