---------------------------- MODULE PointerScan -----------------------------
(***************************************************************************)
(* PointerScanner: which chains of stored pointers lead to a target.  Each *)
(* level reads every region again in chunks, carries the tail of one chunk *)
(* into the next and collects the parents of the frontier found so far.    *)
(*                                                                         *)
(* A pointer has PointerSize bytes, the least significant one first.  A    *)
(* frontier is a set: the scanner sorts it and removes duplicates.  Which  *)
(* nodes remain when a limit cuts a level short is left open.              *)
(***************************************************************************)
EXTENDS Integers, Sequences, FiniteSets

CONSTANTS
    Digit,              \* byte values, 0 .. n - 1
    RegionLists,        \* what Regions() may return
    PointerOptions,     \* the options of a scan
    Targets,
    MaxFrontierNodes,   \* kMaxFrontierNodes
    MaxBadReads         \* bound: reads that fail or come back short

PointerSize == 2

Regions == Seq([base : Nat, size : Nat \ {0}, readable : BOOLEAN, writable : BOOLEAN])

\* What PointerScanner::Scan accepts.
Options ==
    [chunk_size : Nat \ {0}, max_offset : Nat, max_depth : Nat \ {0},
     max_results : Nat \ {0}, aligned_only : BOOLEAN, writable_only : BOOLEAN,
     static_roots_only : BOOLEAN, modules : SUBSET Nat]

ASSUME PointerAssumption ==
    /\ Digit \subseteq Nat /\ Cardinality(Digit) \in Nat
    /\ RegionLists \subseteq Regions /\ PointerOptions \subseteq Options
    /\ Targets \subseteq Nat \ {0}
    /\ MaxFrontierNodes \in Nat \ {0} /\ MaxBadReads \in Nat

VARIABLES
    cells,              \* the target's bytes by address; they do not change
    chase               \* the scan

Cell(regions) ==
    UNION {r.base .. (r.base + r.size - 1) : r \in {regions[i] : i \in DOMAIN regions}}

ReadPointer(bytes) == bytes[1] + Cardinality(Digit) * bytes[2]
IsCanonicalUserPointer(value) == value > 0

\* The regions of a level, after the filter on their protection.  Each level lists
\* them again; the list does not change, but a listing can fail (ListingFails).
Scannable(regions, options) ==
    LET kept[i \in 0 .. Len(regions)] ==
          IF i = 0 THEN <<>>
          ELSE IF regions[i].readable /\ (options.writable_only => regions[i].writable)
          THEN Append(kept[i - 1], regions[i])
          ELSE kept[i - 1]
    IN  kept[Len(regions)]

PSInit ==
    \E regions \in RegionLists, options \in PointerOptions, target \in Targets :
        /\ cells \in [Cell(regions) -> Digit]
        /\ LET scanned == Scannable(regions, options) IN
           chase = [pc |-> "level", target |-> target, options |-> options,
                    regions |-> scanned, region |-> 1,
                    cursor |-> IF scanned = <<>> THEN 0 ELSE scanned[1].base,
                    carry |-> <<>>, depth |-> 1,
                    frontier |-> {[address |-> target, offsets |-> <<>>]},
                    parents |-> {}, results |-> {}, partial |-> FALSE, bad |-> 0]

Alignment == IF chase.options.aligned_only THEN PointerSize ELSE 1
End == LET r == chase.regions[chase.region] IN r.base + r.size
Request ==
    LET chunk == IF chase.options.chunk_size < PointerSize THEN PointerSize
                 ELSE chase.options.chunk_size
    IN  IF End - chase.cursor < chunk THEN End - chase.cursor ELSE chunk

\* The nodes one pointer away from the frontier, among the pointers stored in
\* the window that starts at base.
ParentsIn(base, window) ==
    UNION {LET pointer == ReadPointer(SubSeq(window, i, i + PointerSize - 1)) IN
           {[address |-> base + i - 1,
             offsets |-> <<n.address - pointer>> \o n.offsets] :
               n \in {n \in chase.frontier :
                        /\ IsCanonicalUserPointer(pointer)
                        /\ n.address \in pointer .. (pointer + chase.options.max_offset)}} :
           i \in {i \in 1 .. (Len(window) - PointerSize + 1) :
                    (base + i - 1) % Alignment = 0}}

\* A level that is cut at the limit keeps some of what it found.
Capped(found) ==
    IF Cardinality(found) < MaxFrontierNodes THEN {found}
    ELSE {s \in SUBSET found : Cardinality(s) = MaxFrontierNodes /\ chase.parents \subseteq s}

\* The end of a read: the next chunk, the next region or the end of the level.
Advance(s) ==
    LET cursor == s.cursor + Request IN
    IF cursor < End THEN [s EXCEPT !.cursor = cursor]
    ELSE IF s.region < Len(s.regions)
    THEN [s EXCEPT !.region = @ + 1, !.cursor = s.regions[s.region + 1].base,
                   !.carry = <<>>]
    ELSE [s EXCEPT !.pc = "collect"]

KeepTail(window, whole) ==                                    \* faulty variant
    LET n == IF Len(window) < PointerSize - 1 THEN Len(window) ELSE PointerSize - 1
    IN  SubSeq(window, Len(window) - n + 1, Len(window))
Carry(window, whole) ==
    IF ~whole THEN <<>>
    ELSE LET n == IF Len(window) < PointerSize - 1 THEN Len(window) ELSE PointerSize - 1
         IN  SubSeq(window, Len(window) - n + 1, Len(window))

\* A chunk of which count bytes were read.
ChunkRead(count) ==
    LET bytes == [i \in 1 .. count |-> cells[chase.cursor + i - 1]]
        window == chase.carry \o bytes
        found == chase.parents \cup ParentsIn(chase.cursor - Len(chase.carry), window)
        whole == count = Request
        s == [chase EXCEPT !.carry = Carry(window, whole),
                           !.partial = @ \/ ~whole,
                           !.bad = IF whole THEN @ ELSE @ + 1]
    IN  \E parents \in Capped(found) :
          chase' = IF Cardinality(parents) >= MaxFrontierNodes
                   THEN [s EXCEPT !.parents = parents, !.partial = TRUE, !.pc = "collect"]
                   ELSE Advance([s EXCEPT !.parents = parents])

ScanWhole == chase.pc = "level" /\ chase.regions # <<>> /\ ChunkRead(Request) /\ UNCHANGED cells

ScanShort ==
    /\ chase.pc = "level" /\ chase.regions # <<>> /\ chase.bad < MaxBadReads
    /\ \E count \in 0 .. (Request - 1) : ChunkRead(count)
    /\ UNCHANGED cells

\* A failed read leaves a gap: nothing is carried over it.
ScanFailed ==
    /\ chase.pc = "level" /\ chase.regions # <<>> /\ chase.bad < MaxBadReads
    /\ chase' = Advance([chase EXCEPT !.carry = Carry(@, FALSE), !.partial = TRUE,
                                      !.bad = @ + 1])
    /\ UNCHANGED cells

NoRegions ==
    /\ chase.pc = "level" /\ chase.regions = <<>>
    /\ chase' = [chase EXCEPT !.pc = "collect"]
    /\ UNCHANGED cells

\* A level is over: its nodes are results, and the frontier of the next one.
Roots(nodes) ==
    {n \in nodes : chase.options.static_roots_only => n.address \in chase.options.modules}
CollectLevel ==
    /\ chase.pc = "collect"
    /\ LET all == chase.results \cup Roots(chase.parents)
           full == Cardinality(all) >= chase.options.max_results
       IN  \E results \in IF ~full THEN {all}
                          ELSE {s \in SUBSET all : /\ Cardinality(s) = chase.options.max_results
                                                   /\ chase.results \subseteq s} :
             chase' =
               [chase EXCEPT
                  !.results = results, !.partial = @ \/ full,
                  !.frontier = chase.parents, !.parents = {}, !.carry = <<>>,
                  !.depth = @ + 1, !.region = 1,
                  !.cursor = IF chase.regions = <<>> THEN 0 ELSE chase.regions[1].base,
                  !.pc = IF chase.parents = {} \/ full \/ chase.depth = chase.options.max_depth
                         THEN "done" ELSE "level"]
    /\ UNCHANGED cells

\* A scan that fails as a whole returns none of the results it has.  Only a
\* cancelled one also says in its report that it is partial.
Abandon(reason) ==
    /\ chase.pc = "level"
    /\ chase' = [chase EXCEPT !.pc = reason, !.results = {}, !.parents = {},
                              !.frontier = {},
                              !.partial = @ \/ reason = "cancelled"]
    /\ UNCHANGED cells

\* The stop token, at the next chunk.
CancelScan == Abandon("cancelled")

\* Regions(), before the first chunk of a level; at the first level also Modules().
ListingFails ==
    /\ chase.region = 1
    /\ chase.regions # <<>> => chase.cursor = chase.regions[1].base
    /\ Abandon("failed")

ScanOver == chase.pc \in {"done", "cancelled", "failed"} /\ UNCHANGED <<cells, chase>>

PSNext ==
    \/ ScanWhole \/ ScanShort \/ ScanFailed \/ NoRegions
    \/ CollectLevel
    \/ CancelScan \/ ListingFails
    \/ ScanOver

PSSpec == PSInit /\ [][PSNext]_<<cells, chase>>
-----------------------------------------------------------------------------
\* A pointer the scan may use is stored at a.
Pointer(a) == ReadPointer(<<cells[a], cells[a + 1]>>)
Stored(a) ==
    /\ \E i \in DOMAIN chase.regions :
         LET r == chase.regions[i] IN a \in r.base .. (r.base + r.size - PointerSize)
    /\ a % Alignment = 0
    /\ Pointer(a) > 0

\* The chains of k stored pointers that lead to the target: each points at the
\* next one, or a little before it.
After(way, i) == IF i = Len(way) THEN chase.target ELSE way[i + 1]
Chains(k) ==
    {way \in [1 .. k -> DOMAIN cells] :
       \A i \in 1 .. k :
         /\ Stored(way[i])
         /\ After(way, i) \in Pointer(way[i]) .. (Pointer(way[i]) + chase.options.max_offset)}

\* A chain as the scanner shows it: its root, and what to add at each pointer.
PathOf(way) ==
    [address |-> After(way, 0),
     offsets |-> [i \in 1 .. Len(way) |-> After(way, i) - Pointer(way[i])]]
Paths(k) == {PathOf(way) : way \in Chains(k)}

\* Every path of a finished scan leads to the target when its pointers are
\* followed, whatever chunks were short, unreadable or cut by a limit; and a
\* scan that does not call itself partial has every path within its limits.
PathsExact ==
    chase.pc = "done" =>
        LET paths == Roots(UNION {Paths(k) : k \in 1 .. chase.options.max_depth})
        IN  chase.results \subseteq paths /\ (~chase.partial => chase.results = paths)
=============================================================================
