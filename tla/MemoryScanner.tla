---------------------------- MODULE MemoryScanner ----------------------------
(***************************************************************************)
(* First and next scans of a process (core/scanner/MemoryScanner.cpp) as   *)
(* the scanner window runs them (ProcessScannerPanel.cpp): on a worker     *)
(* thread, one read at a time, while the target stores to its memory, any  *)
(* read can fail and the user can cancel.  A first scan walks the regions  *)
(* in chunks and carries the end of a chunk over to the next one; a next   *)
(* scan re-reads the candidates, several neighbours in one read where that *)
(* pays.                                                                   *)
(*                                                                         *)
(* A value is an unsigned little-endian number of Width digits in Base;    *)
(* the other types differ in decoding only.  previous is displayed, never  *)
(* compared, and progress is left out.                                     *)
(***************************************************************************)
EXTENDS Integers, Sequences, FiniteSetsExt

CONSTANTS
    Base,          \* values of a byte are 0 .. Base - 1
    Width,         \* bytes of a value
    Regions,       \* the target's regions, as a sequence of [base, size, allowed]
    Comparison,    \* the ScanCompare values used
    Alignment,     \* the alignments used
    Limit,         \* the result limits used
    ChunkSize, Amplification,
    MaxStores,     \* bound on the target's stores
    None

ASSUME ScannerAssumption ==
    /\ Base \in Nat \ {0, 1} /\ Width \in Nat \ {0}
    /\ Alignment \subseteq Nat \ {0}
    /\ Limit \subseteq Nat \ {0}
    /\ ChunkSize \in Nat /\ ChunkSize >= Width /\ Amplification > 0

\* Win32ProcessMemory::Regions lists the regions in the order of their addresses.
ASSUME RegionsAssumption ==
    /\ Regions \in Seq([base : Nat, size : Nat, allowed : BOOLEAN])
    /\ \A i, j \in 1 .. Len(Regions) :
         i < j => Regions[i].base + Regions[i].size <= Regions[j].base

VARIABLES
    bytes,          \* the target's memory
    stores,         \* stores of the target so far
    candidates,     \* MemoryScanner::candidates_
    has_scan,       \* MemoryScanner::has_scan_
    scan,           \* the scan worker
    stop,           \* its stop token
    published_scan, \* published_scan_ of the window
    scan_error,     \* scan_error_ of the window: "none", a scan that "failed" or one
                    \* that succeeded and whose results were "lost" on the way
    moved           \* history: addresses stored to since the scan started

memory == <<bytes, stores>>
scanner == <<candidates, has_scan>>
window == <<published_scan, scan_error>>
scanVars == <<memory, scanner, scan, stop, window, moved>>

Address == UNION {r.base .. r.base + r.size - 1 : r \in {Regions[i] : i \in DOMAIN Regions}}
MaxValue == Base ^ Width - 1

\* Load<T>: the number in the Width bytes of s from position i.
Number(digits) == FoldSet(LAMBDA k, sum : sum + digits[k] * Base ^ k, 0, 0 .. Width - 1)
Load(s, i) == Number([k \in 0 .. Width - 1 |-> s[i + k]])

\* What a loop over 1 .. n lists that appends the members of S.
Collected(S, n) ==
    LET list[i \in 0 .. n] ==
          IF i = 0 THEN <<>>
          ELSE IF i \in S THEN Append(list[i - 1], i) ELSE list[i - 1]
    IN  list[n]

RegionAllowed(r) == r.allowed /\ r.size > 0

Allowed ==
    LET kept == Collected({i \in DOMAIN Regions : RegionAllowed(Regions[i])}, Len(Regions))
    IN  [k \in DOMAIN kept |-> Regions[kept[k]]]

\* The values a comparison does not use are 0.
ScanQuery ==
    {q \in [comparison : Comparison, value : 0 .. MaxValue, second : 0 .. MaxValue,
            alignment : Alignment, max_results : Limit] :
        /\ q.comparison \in {"UnknownInitial", "Changed", "Unchanged", "Increased",
                             "Decreased"} => q.value = 0
        /\ q.comparison # "Between" => q.second = 0}

Idle == [pc |-> "idle"]

NoScan ==
    /\ stores = 0
    /\ candidates = <<>> /\ has_scan = FALSE
    /\ scan = Idle /\ stop = FALSE
    /\ published_scan = None /\ scan_error = "none"
    /\ moved = {}

ScanInit == bytes \in [Address -> 0 .. Base - 1] /\ NoScan

-----------------------------------------------------------------------------
(* Comparisons. *)

MatchInitialValue(q, v) ==
    CASE q.comparison = "Exact" -> v = q.value
      [] q.comparison = "NotEqual" -> v # q.value
      [] q.comparison = "GreaterThan" -> v > q.value
      [] q.comparison = "LessThan" -> v < q.value
      [] q.comparison = "Between" ->
             v \in Min({q.value, q.second}) .. Max({q.value, q.second})
      [] q.comparison = "UnknownInitial" -> TRUE
      [] OTHER -> FALSE

\* A sum or difference that leaves the type matches nothing.
MatchNextValue(q, old, v) ==
    CASE q.comparison = "Changed" -> v # old
      [] q.comparison = "Unchanged" -> v = old
      [] q.comparison = "Increased" -> v > old
      [] q.comparison = "Decreased" -> v < old
      [] q.comparison = "IncreasedBy" -> old + q.value <= MaxValue /\ v = old + q.value
      [] q.comparison = "DecreasedBy" -> old >= q.value /\ v = old - q.value
      [] OTHER -> MatchInitialValue(q, v)

-----------------------------------------------------------------------------
(* The window. *)

NextScanAllowed == published_scan # None /\ published_scan.state = "Complete" /\ scan_error = "none"

\* A first scan forgets the previous one before it starts.
StartScan(first, q) ==
    /\ scan.pc = "idle"
    /\ first \/ NextScanAllowed
    /\ IF first THEN candidates' = <<>> /\ has_scan' = FALSE /\ published_scan' = None
       ELSE UNCHANGED <<candidates, has_scan, published_scan>>
    /\ scan' = [pc |-> "begin", first |-> first, query |-> q, region |-> 1, cursor |-> 0,
                carry |-> <<>>, index |-> 1, until |-> 0, output |-> <<>>, partial |-> FALSE,
                truncated |-> FALSE, ok |-> FALSE, old |-> candidates']
    /\ scan_error' = "none"
    /\ UNCHANGED <<memory, stop, moved>>

CancelScan ==
    /\ scan.pc # "idle" /\ ~stop /\ stop' = TRUE
    /\ UNCHANGED <<memory, scanner, scan, window, moved>>

ResetScan ==
    /\ scan.pc = "idle"
    /\ candidates' = <<>> /\ has_scan' = FALSE
    /\ published_scan' = None /\ scan_error' = "none"
    /\ UNCHANGED <<memory, scan, stop, moved>>

\* A scan that succeeded is complete unless a read was skipped.
ClassifyScanPublication(partial) == IF partial THEN "Partial" ELSE "Complete"

\* The copies of the report and of the results can throw; then the window shows an
\* error next to the results from before, although the scanner has the new ones.
PublishScanCompletion ==
    /\ scan.pc = "publish" /\ scan' = Idle /\ stop' = FALSE /\ moved' = {}
    /\ \/ /\ scan.ok /\ scan_error' = "none"
          /\ published_scan' = [state |-> ClassifyScanPublication(scan.partial),
                                truncated |-> scan.truncated, results |-> candidates]
       \/ /\ scan_error' = IF scan.ok THEN "lost" ELSE "failed"
          /\ UNCHANGED published_scan
    /\ UNCHANGED <<memory, scanner>>

-----------------------------------------------------------------------------
(* The worker. *)

workerFrame == <<memory, stop, window, moved>>

\* faulty variant: what was found so far replaces the results
Salvaged(s) == IF s.first THEN candidates ELSE s.output

\* A scan that fails leaves the results of the one before.
Kept(s) == candidates

Fail ==
    /\ scan' = [scan EXCEPT !.pc = "publish"]
    /\ candidates' = Kept(scan)
    /\ UNCHANGED has_scan

Succeed(s) ==
    /\ scan' = [s EXCEPT !.pc = "publish", !.ok = TRUE]
    /\ candidates' = s.output
    /\ has_scan' = TRUE

\* The scan goes on as s, or is over.
Continue(s, over) ==
    IF s.truncated \/ over THEN Succeed(s)
    ELSE scan' = s /\ UNCHANGED scanner

\* An invalid query, a closed process or regions that cannot be listed.
Begin ==
    /\ scan.pc = "begin"
    /\ \/ Fail
       \/ /\ scan.first
          /\ Continue([scan EXCEPT !.pc = "chunk", !.cursor = IF Allowed = <<>> THEN 0
                                                             ELSE Allowed[1].base],
                      Allowed = <<>>)
       \/ /\ ~scan.first
          /\ Continue([scan EXCEPT !.pc = "batch"], scan.old = <<>>)
    /\ UNCHANGED workerFrame

\* stop_requested() between two reads
Cancelled ==
    /\ scan.pc \in {"chunk", "batch", "each"} /\ stop
    /\ Fail
    /\ UNCHANGED workerFrame

\* An exception between two reads, which the worker turns into a failure.
Thrown ==
    /\ scan.pc \in {"chunk", "batch", "each"}
    /\ Fail
    /\ UNCHANGED workerFrame

LimitReached(n) == n >= scan.query.max_results

\* The hits join the output, in order, up to the limit.
Emit(s, hits) ==
    LET all == s.output \o hits
        full == {n \in Len(s.output) + 1 .. Len(all) : LimitReached(n)}
    IN  [s EXCEPT !.output = SubSeq(all, 1, Min(full \cup {Len(all)})),
                  !.truncated = full # {}]

\* faulty variant: chunks do not overlap
NoOverlap == 0

Overlap == Width - 1

\* The next chunk of the region, or the next region.
Advance(s, request) ==
    LET r == Allowed[s.region]
        last == s.region = Len(Allowed)
    IN  IF s.cursor + request < r.base + r.size THEN [s EXCEPT !.cursor = @ + request]
        ELSE [s EXCEPT !.region = @ + 1, !.carry = <<>>,
                       !.cursor = IF last THEN @ ELSE Allowed[s.region + 1].base]

\* The values in the bytes w, read at address a, that lie in the region r.
Hits(w, a, r) ==
    LET alignment == scan.query.alignment
        first == IF a % alignment = 0 THEN 0 ELSE alignment - (a % alignment)
        offsets == {o \in first .. Len(w) - Width :
                       /\ (o - first) % alignment = 0
                       /\ a + o + Width <= r.base + r.size
                       /\ scan.carry # <<>> => o + Width > Len(scan.carry)
                       /\ MatchInitialValue(scan.query, Load(w, o + 1))}
        hit == Collected({o + 1 : o \in offsets}, Len(w))
    IN  [k \in DOMAIN hit |-> [address |-> a + hit[k] - 1, current |-> Load(w, hit[k])]]

\* One round of the loop of ScanRegion.  A chunk that cannot be read is skipped,
\* a short read is fatal.
ScanRegion ==
    /\ scan.pc = "chunk" /\ ~stop
    /\ LET r == Allowed[scan.region]
           request == Min({ChunkSize, r.base + r.size - scan.cursor})
           w == scan.carry \o [i \in 1 .. request |-> bytes[scan.cursor + i - 1]]
           carry == SubSeq(w, Len(w) - Min({Overlap, Len(w)}) + 1, Len(w))
           found == Emit(scan, Hits(w, scan.cursor - Len(scan.carry), r))
           Go(s) == Continue(Advance(s, request), Advance(s, request).region > Len(Allowed))
       IN  \/ Go([found EXCEPT !.carry = carry])
           \/ Go([scan EXCEPT !.partial = TRUE, !.carry = <<>>])
           \/ Fail
    /\ UNCHANGED workerFrame

\* Candidate j may join the batch that starts at the candidate scan.index.
Joins(j) ==
    LET start == scan.old[scan.index].address
        span == scan.old[j].address + Width - start
    IN  /\ scan.old[j].address >= start
        /\ span <= ChunkSize
        /\ span <= (j - scan.index + 1) * Width * Amplification

BatchEnd ==
    Max({e \in scan.index .. Len(scan.old) : \A j \in scan.index + 1 .. e : Joins(j)})

\* The survivors among the candidates i .. e, which now hold what the target's
\* memory does.
Survivors(i, e) ==
    LET Current(j) == Load([k \in 1 .. Width |-> bytes[scan.old[j].address + k - 1]], 1)
        kept == Collected({j \in i .. e : MatchNextValue(scan.query, scan.old[j].current,
                                                         Current(j))}, e)
    IN  [k \in DOMAIN kept |-> [address |-> scan.old[kept[k]].address,
                                current |-> Current(kept[k])]]

\* The candidates up to e are done.
Past(s, e) ==
    LET done == e = s.until
    IN  Continue([s EXCEPT !.index = e + 1, !.pc = IF done THEN "batch" ELSE "each"],
                 e = Len(s.old))

\* A batch is read at once; when that fails its candidates are read one by one.
ReadBatch ==
    /\ scan.pc = "batch" /\ ~stop
    /\ \/ /\ BatchEnd > scan.index
          /\ Past([Emit(scan, Survivors(scan.index, BatchEnd)) EXCEPT !.until = BatchEnd],
                  BatchEnd)
       \/ scan' = [scan EXCEPT !.pc = "each", !.until = BatchEnd] /\ UNCHANGED scanner
    /\ UNCHANGED workerFrame

ReadCandidate ==
    /\ scan.pc = "each" /\ ~stop
    /\ \/ Past(Emit(scan, Survivors(scan.index, scan.index)), scan.index)
       \/ Past([scan EXCEPT !.partial = TRUE], scan.index)
    /\ UNCHANGED workerFrame

TargetStoresByte(a, b) ==
    /\ stores < MaxStores /\ stores' = stores + 1
    /\ b # bytes[a] /\ bytes' = [bytes EXCEPT ![a] = b]
    /\ moved' = IF scan.pc = "idle" THEN {} ELSE moved \cup {a}
    /\ UNCHANGED <<scanner, scan, stop, window>>

ScanNext ==
    \/ \E first \in BOOLEAN, q \in ScanQuery : StartScan(first, q)
    \/ CancelScan \/ ResetScan \/ PublishScanCompletion
    \/ Begin \/ Cancelled \/ Thrown \/ ScanRegion \/ ReadBatch \/ ReadCandidate
    \/ \E a \in Address, b \in 0 .. Base - 1 : TargetStoresByte(a, b)

ScanSpec == ScanInit /\ [][ScanNext]_scanVars

-----------------------------------------------------------------------------
(* Properties. *)

Span(a) == a .. a + Width - 1
Value(a) == Load([k \in 1 .. Width |-> bytes[a + k - 1]], 1)

\* The values a first scan has to look at.
Scannable ==
    UNION {{a \in Allowed[i].base .. Allowed[i].base + Allowed[i].size - Width :
                a % scan.query.alignment = 0} : i \in DOMAIN Allowed}

\* The matches, by definition.
Matching ==
    IF scan.first THEN {a \in Scannable : MatchInitialValue(scan.query, Value(a))}
    ELSE {scan.old[i].address :
             i \in {j \in DOMAIN scan.old :
                       MatchNextValue(scan.query, scan.old[j].current,
                                      Value(scan.old[j].address))}}

\* A scan that is reported complete and not truncated found every match, once,
\* in ascending order and with its value, and nothing else, wherever the target
\* left the bytes alone while the scan ran: no match is lost at the border of two
\* chunks, in a batch or behind a failed read, and no limit is exceeded.
ScanExact ==
    scan.pc = "publish" /\ scan.ok =>
        LET found == {candidates[i].address : i \in DOMAIN candidates}
            Still(S) == {a \in S : Span(a) \cap moved = {}}
        IN  /\ Len(candidates) <= scan.query.max_results
            /\ Still(found) \subseteq Matching
            /\ ~scan.partial /\ ~scan.truncated => Still(Matching) \subseteq found
            /\ \A i \in DOMAIN candidates :
                   candidates[i].address \in Still(found) =>
                       candidates[i].current = Value(candidates[i].address)
            /\ \A i \in 1 .. Len(candidates) - 1 :
                   candidates[i].address < candidates[i + 1].address

\* The results on display are the scanner's own, whatever scan failed, threw or was
\* cancelled half-way: a next scan starts from what the user sees.  The exception
\* is a scan whose results could not be published, and after it the window offers
\* no next scan until a first one has succeeded.
NextScanFounded ==
    scan.pc = "idle" /\ published_scan # None =>
        IF scan_error = "lost" THEN ~NextScanAllowed
        ELSE has_scan /\ published_scan.results = candidates
=============================================================================
