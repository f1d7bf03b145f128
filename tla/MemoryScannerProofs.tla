------------------------ MODULE MemoryScannerProofs ------------------------
(***************************************************************************)
(* Proofs about the scans of a process (MemoryScanner), for every memory,  *)
(* layout of regions, chunk size, value size and batch size.               *)
(*                                                                         *)
(* ScannerInv ties the results on display to the ones the scanner holds:   *)
(* NextScanFounded follows.                                                *)
(*                                                                         *)
(* ExactInv says what a running scan has found: its output lists, in the   *)
(* order of the addresses, matches of the memory only; and as long as      *)
(* nothing was left out it lists every match that lies behind the worker,  *)
(* both where the target left the bytes alone while the scan ran.          *)
(* For a first scan, behind means that the last byte of the value has been *)
(* read, in an earlier region or in this one below the cursor, and the     *)
(* carry holds the bytes of the values that are still to be completed; for *)
(* a next scan, behind means a candidate before the index.  ScanExact      *)
(* follows.                                                                *)
(***************************************************************************)
EXTENDS MemoryScanner, TLAPS, WellFoundedInduction

-----------------------------------------------------------------------------
(* The scans of a window: between two scans the results on display are the   *)
(* ones the scanner holds.  ScannerInv adds where the worker is: it changes  *)
(* the candidates only in the step in which it succeeds, and the window then *)
(* publishes them before it can start another scan.  When that fails, only a *)
(* first scan or a reset takes the error away, and both clear the display.   *)

\* The fields of a scan that is running.
ScanFields ==
    {"pc", "first", "query", "region", "cursor", "carry", "index", "until", "output",
     "partial", "truncated", "ok", "old"}

\* A worker between two reads: it has not succeeded yet.
Scanning(s) ==
    /\ s = [f \in ScanFields |-> s[f]]
    /\ s.pc \in {"begin", "chunk", "batch", "each"} /\ s.ok = FALSE

\* A worker that is done: when it succeeded, the scanner has its results.
Scanned(s) ==
    /\ s = [f \in ScanFields |-> s[f]]
    /\ s.pc = "publish" /\ s.ok \in BOOLEAN
    /\ s.ok => has_scan

\* Until a worker has succeeded the results on display are the scanner's, unless
\* those of an earlier one were lost; then no next scan starts.
ScannerInv ==
    /\ scan = Idle \/ Scanning(scan) \/ Scanned(scan)
    /\ published_scan # None =>
         \/ has_scan /\ published_scan.results = candidates
         \/ Scanned(scan) /\ scan.ok
         \/ scan = Idle /\ scan_error = "lost"

\* A worker that runs, or is done and not yet published.
LEMMA NotIdle ==
    ASSUME NEW s, Scanning(s) \/ Scanned(s) PROVE s # Idle
<1>1. Idle.pc = "idle" /\ s.pc # "idle"
  BY DEF Scanning, Scanned, Idle
<1> QED BY Zenon, <1>1

\* Fail keeps the results of the scan before.
LEMMA FailKeeps ==
    ASSUME ScannerInv, Scanning(scan), Fail, UNCHANGED window
    PROVE  ScannerInv'
BY Zenon DEF ScannerInv, Fail, Kept, window, ScanFields, Idle, Scanning, Scanned

\* A scan that goes on has changed nothing, one that is over has published to
\* the scanner.
LEMMA ContinueKeeps ==
    ASSUME ScannerInv, Scanning(scan), NEW s, Scanning(s), NEW over, Continue(s, over),
           UNCHANGED window
    PROVE  ScannerInv'
<1>1. CASE s.truncated \/ over
  BY Zenon, <1>1 DEF ScannerInv, Continue, Succeed, window, ScanFields, Idle, Scanning, Scanned
<1>2. CASE ~(s.truncated \/ over)
  <2>1. ~(scan = Idle) /\ ~(Scanned(scan) /\ scan.ok)
    BY Zenon, NotIdle DEF Scanning
  <2>2. scan' = s /\ UNCHANGED <<candidates, has_scan, published_scan>>
    BY Zenon, <1>2 DEF Continue, scanner, window
  <2> QED BY Zenon, <2>1, <2>2 DEF ScannerInv
<1> QED BY Zenon, <1>1, <1>2

\* Adding hits to the output, up to the limit, does not end a scan.
LEMMA EmitScanning ==
    ASSUME NEW s, Scanning(s), NEW hits
    PROVE  Scanning(Emit(s, hits))
BY Zenon DEF Emit, Scanning, ScanFields

\* Moving the cursor to the next chunk does not end a scan either.
LEMMA AdvanceScanning ==
    ASSUME NEW s, Scanning(s), NEW request
    PROVE  Scanning(Advance(s, request))
BY Zenon DEF Advance, Scanning, ScanFields

\* The start of Scan and NextScan: an empty range or candidate list ends it.
LEMMA BeginKeeps ==
    ASSUME ScannerInv, Begin
    PROVE  ScannerInv'
<1>1. Scanning(scan) /\ UNCHANGED window
  BY DEF ScannerInv, Begin, workerFrame, window, Idle, Scanned
<1>2. CASE Fail
  BY Zenon, <1>1, <1>2, FailKeeps
<1>3. CASE ~Fail
  <2> DEFINE c == [scan EXCEPT !.pc = "chunk", !.cursor = IF Allowed = <<>> THEN 0
                                                             ELSE Allowed[1].base]
             b == [scan EXCEPT !.pc = "batch"]
  <2>1. Continue(c, Allowed = <<>>) \/ Continue(b, scan.old = <<>>)
    BY Zenon, <1>3 DEF Begin
  <2>2. Scanning(c) /\ Scanning(b)
    BY Zenon, <1>1 DEF Scanning, ScanFields
  <2> HIDE DEF c, b
  <2> QED BY Zenon, <1>1, <2>1, <2>2, ContinueKeeps
<1> QED BY Zenon, <1>2, <1>3

\* A chunk of a first scan that was read, could not be read or ends the scan.
LEMMA RegionKeeps ==
    ASSUME ScannerInv, ScanRegion
    PROVE  ScannerInv'
<1>0. scan.pc = "chunk" /\ UNCHANGED workerFrame
  BY Zenon DEF ScanRegion
<1>1. Scanning(scan) /\ UNCHANGED window
  BY <1>0 DEF ScannerInv, workerFrame, window, Idle, Scanned
<1> DEFINE r == Allowed[scan.region]
           request == Min({ChunkSize, r.base + r.size - scan.cursor})
           w == scan.carry \o [i \in 1 .. request |-> bytes[scan.cursor + i - 1]]
           carry == SubSeq(w, Len(w) - Min({Overlap, Len(w)}) + 1, Len(w))
           found == Emit(scan, Hits(w, scan.cursor - Len(scan.carry), r))
           Go(s) == Continue(Advance(s, request), Advance(s, request).region > Len(Allowed))
           c == [found EXCEPT !.carry = carry]
           p == [scan EXCEPT !.partial = TRUE, !.carry = <<>>]
<1>2. Go(c) \/ Go(p) \/ Fail
  BY Zenon DEF ScanRegion
<1>3. Scanning(c)
  <2>1. Scanning(found)
    BY Zenon, <1>1, EmitScanning
  <2> HIDE DEF found, carry
  <2> QED BY Zenon, <2>1 DEF Scanning, ScanFields
<1>4. Scanning(p)
  BY Zenon, <1>1 DEF Scanning, ScanFields
<1> HIDE DEF c, p, request
<1>5. Scanning(Advance(c, request)) /\ Scanning(Advance(p, request))
  BY Zenon, <1>3, <1>4, AdvanceScanning
<1> QED BY Zenon, <1>1, <1>2, <1>5, ContinueKeeps, FailKeeps

\* Going on behind candidate e.
LEMMA PastKeeps ==
    ASSUME ScannerInv, Scanning(scan), NEW s, Scanning(s), NEW e, Past(s, e),
           UNCHANGED window
    PROVE  ScannerInv'
<1> DEFINE t == [s EXCEPT !.index = e + 1, !.pc = IF e = s.until THEN "batch" ELSE "each"]
<1>1. Continue(t, e = Len(s.old))
  BY Zenon DEF Past
<1>2. Scanning(t)
  BY Zenon DEF Scanning, ScanFields
<1> HIDE DEF t
<1> QED BY Zenon, <1>1, <1>2, ContinueKeeps

\* A read of neighbouring candidates, or the decision to read them one by one.
LEMMA BatchKeeps ==
    ASSUME ScannerInv, ReadBatch
    PROVE  ScannerInv'
<1>1. Scanning(scan) /\ UNCHANGED window
  BY DEF ScannerInv, ReadBatch, workerFrame, window, Idle, Scanned
<1> DEFINE found == Emit(scan, Survivors(scan.index, BatchEnd))
           b == [found EXCEPT !.until = BatchEnd]
           c == [scan EXCEPT !.pc = "each", !.until = BatchEnd]
<1>2. Past(b, BatchEnd) \/ (scan' = c /\ UNCHANGED scanner)
  BY Zenon DEF ReadBatch
<1>3. Scanning(b)
  <2>1. Scanning(found)
    BY Zenon, <1>1, EmitScanning
  <2> HIDE DEF found
  <2> QED BY Zenon, <2>1 DEF Scanning, ScanFields
<1>4. Scanning(c)
  BY Zenon, <1>1 DEF Scanning, ScanFields
<1> HIDE DEF b, c
<1>5. CASE Past(b, BatchEnd)
  BY Zenon, <1>1, <1>3, <1>5, PastKeeps
<1>6. CASE scan' = c /\ UNCHANGED scanner
  <2>1. ~(scan = Idle) /\ ~(Scanned(scan) /\ scan.ok)
    BY Zenon, <1>1, NotIdle DEF Scanning
  <2>2. UNCHANGED <<candidates, has_scan, published_scan>>
    BY Zenon, <1>1, <1>6 DEF scanner, window
  <2> QED BY Zenon, <1>4, <1>6, <2>1, <2>2 DEF ScannerInv
<1> QED BY Zenon, <1>2, <1>5, <1>6

\* A read of one candidate of a next scan.
LEMMA CandidateKeeps ==
    ASSUME ScannerInv, ReadCandidate
    PROVE  ScannerInv'
<1>1. Scanning(scan) /\ UNCHANGED window
  BY DEF ScannerInv, ReadCandidate, workerFrame, window, Idle, Scanned
<1> DEFINE f == Emit(scan, Survivors(scan.index, scan.index))
           p == [scan EXCEPT !.partial = TRUE]
<1>2. Past(f, scan.index) \/ Past(p, scan.index)
  BY Zenon DEF ReadCandidate
<1>3. Scanning(f)
  BY Zenon, <1>1, EmitScanning
<1>4. Scanning(p)
  BY Zenon, <1>1 DEF Scanning, ScanFields
<1> HIDE DEF f, p
<1> QED BY Zenon, <1>1, <1>2, <1>3, <1>4, PastKeeps

\* A first scan clears the results on display before its worker runs; a next
\* scan leaves them with the candidates they show.
LEMMA StartScanKeeps ==
    ASSUME ScannerInv, NEW first \in BOOLEAN, NEW q, StartScan(first, q)
    PROVE  ScannerInv'
<1>1. scan = Idle
  BY Zenon DEF ScannerInv, StartScan, Scanning, Scanned
<1>2. Scanning(scan')
  BY Zenon DEF StartScan, Scanning, ScanFields
<1> QED BY Zenon, <1>1, <1>2 DEF ScannerInv, StartScan, NextScanAllowed, Idle, Scanned

\* PublishScanCompletion shows the scanner's results, or the error and the
\* results from before, which a scan that succeeded has replaced.
LEMMA CompletionKeeps ==
    ASSUME ScannerInv, PublishScanCompletion
    PROVE  ScannerInv'
<1>1. Scanned(scan)
  BY DEF ScannerInv, PublishScanCompletion, Idle, Scanning
<1>2. scan' = Idle /\ UNCHANGED <<candidates, has_scan>>
  BY Zenon DEF PublishScanCompletion, scanner
<1>3. CASE published_scan' = published_scan /\ scan_error' = IF scan.ok THEN "lost" ELSE "failed"
  <2>1. CASE scan.ok
    BY Zenon, <1>2, <1>3, <2>1 DEF ScannerInv
  <2>2. CASE ~scan.ok
    <3>1. scan # Idle
      BY Zenon, <1>1, NotIdle
    <3> QED BY Zenon, <1>2, <1>3, <2>2, <3>1 DEF ScannerInv
  <2> QED BY Zenon, <2>1, <2>2
<1>4. CASE scan.ok /\ published_scan' = [state |-> ClassifyScanPublication(scan.partial),
                                        truncated |-> scan.truncated, results |-> candidates]
  BY Zenon, <1>1, <1>2, <1>4 DEF ScannerInv, Scanned
<1> QED BY Zenon, <1>3, <1>4 DEF PublishScanCompletion

\* Every step of the window, the worker and the target keeps the invariant.
LEMMA ScannerStep == ScannerInv /\ [ScanNext]_scanVars => ScannerInv'
<1> SUFFICES ASSUME ScannerInv, [ScanNext]_scanVars PROVE ScannerInv'
  BY Zenon
<1>1. CASE ResetScan
  BY Zenon, <1>1 DEF ScannerInv, ResetScan, Scanned, Scanning
<1>2. CASE Cancelled \/ Thrown
  <2>1. Scanning(scan) /\ UNCHANGED window
    BY <1>2 DEF ScannerInv, Cancelled, Thrown, workerFrame, window, Idle, Scanned
  <2> QED BY Zenon, <1>2, <2>1, FailKeeps DEF Cancelled, Thrown
<1>3. CASE UNCHANGED <<scanner, scan, window>>
  BY Zenon, <1>3 DEF ScannerInv, scanner, window, Scanned, Scanning
<1>4. CASE CancelScan \/ UNCHANGED scanVars
  BY Zenon, <1>3, <1>4 DEF CancelScan, scanVars
<1>5. CASE \E a \in Address, b \in 0 .. Base - 1 : TargetStoresByte(a, b)
  BY Zenon, <1>3, <1>5 DEF TargetStoresByte
<1> QED BY Zenon, <1>1, <1>2, <1>4, <1>5, BeginKeeps, RegionKeeps, BatchKeeps, CandidateKeeps,
           StartScanKeeps, CompletionKeeps DEF ScanNext

\* Whatever a worker met (a failed read, an exception, a cancellation, a limit), with
\* none running the results on display are the candidates a next scan will narrow,
\* or there is no next scan.
THEOREM NextScanStaysFounded == ScanSpec => []NextScanFounded
<1>1. ScanInit => ScannerInv
  BY Zenon DEF ScanInit, NoScan, ScannerInv
<1>2. ScannerInv => NextScanFounded
  BY Zenon DEF ScannerInv, NextScanFounded, NextScanAllowed, Idle, Scanning, Scanned
<1> QED BY <1>1, <1>2, ScannerStep, PTL DEF ScanSpec

-----------------------------------------------------------------------------
(* What a scan finds. *)

\* Two numbers with the same successor.
LEMMA NextDiffers ==
    ASSUME NEW x \in Nat, NEW y \in Nat, x + 1 = y + 1 PROVE x = y
OBVIOUS

\* Induction for the proofs about loops: a set of numbers has a least one.
LEMMA LeastNumber ==
    ASSUME NEW T, T \subseteq Nat, T # {}
    PROVE  \E x \in T : \A y \in T : x <= y
<1>1. \E x \in T : \A y \in T : ~ (<<y, x>> \in OpToRel(<,Nat))
  BY Zenon, NatLessThanWellFounded, WFMin
<1>2. PICK x \in T : \A y \in T : ~ (<<y, x>> \in OpToRel(<,Nat))
  BY Zenon, <1>1
<1>3. \A y \in T : ~(y < x)
  BY Zenon, <1>2 DEF OpToRel
<1> QED BY <1>3

\* A set of numbers below a bound has a greatest one.
LEMMA GreatestNumber ==
    ASSUME NEW m \in Nat, NEW n \in Nat, NEW T, T \subseteq m .. n, T # {}
    PROVE  Max(T) \in T /\ \A y \in T : y <= Max(T)
<1> DEFINE D == {n - x : x \in T}
<1>1. D \subseteq Nat /\ D # {}
  <2>1. \A x \in T : n - x \in Nat
    OBVIOUS
  <2> QED BY Zenon, <2>1
<1>2. PICK d \in D : \A y \in D : d <= y
  BY Zenon, <1>1, LeastNumber
<1>3. PICK x \in T : d = n - x
  BY Zenon, <1>2
<1>4. \A y \in T : n - x <= n - y
  BY Zenon, <1>2, <1>3
<1>5. \A y \in T : x >= y
  BY <1>3, <1>4
<1>6. Max(T) \in T /\ \A y \in T : Max(T) >= y
  BY Zenon, <1>3, <1>5 DEF Max
<1> QED BY <1>6

\* The smaller one of two numbers.
LEMMA SmallerOf ==
    ASSUME NEW m \in Nat, NEW n \in Nat
    PROVE  Min({m, n}) = IF m <= n THEN m ELSE n
<1> DEFINE x == IF m <= n THEN m ELSE n
<1>1. x \in {m, n} /\ \A y \in {m, n} : x <= y
  OBVIOUS
<1>2. \A z \in {m, n} : (\A y \in {m, n} : z <= y) => z = x
  OBVIOUS
<1> HIDE DEF x
<1>3. Min({m, n}) \in {m, n} /\ \A y \in {m, n} : Min({m, n}) <= y
  BY Zenon, <1>1 DEF Min
<1> QED BY Zenon, <1>2, <1>3 DEF x

\* One round of the loop of Collected, with f for the rounds before.
Collects(S, f, i) ==
    IF i = 0 THEN <<>>
    ELSE IF i \in S THEN Append(f[i - 1], i) ELSE f[i - 1]

\* A list of members of S up to n: ascending and complete.
Lists(c, S, n) ==
    /\ c \in Seq(1 .. n)
    /\ \A k \in 1 .. Len(c) : c[k] \in S
    /\ \A j, k \in 1 .. Len(c) : j < k => c[j] < c[k]
    /\ \A x \in S : x \in 1 .. n => \E k \in 1 .. Len(c) : c[k] = x

\* A round adds its number at the end of the list, if it is a member.
LEMMA OneMore ==
    ASSUME NEW S, NEW n \in Nat, NEW c, Lists(c, S, n)
    PROVE  /\ n + 1 \in S => Lists(Append(c, n + 1), S, n + 1)
           /\ n + 1 \notin S => Lists(c, S, n + 1)
<1>0. c \in Seq(1 .. n) /\ Len(c) \in Nat /\ 1 .. n \subseteq 1 .. (n + 1) /\ n + 1 \in 1 .. (n + 1)
  BY DEF Lists
<1>1. \A k \in 1 .. Len(c) : c[k] \in 1 .. n
  BY <1>0
<1>2. c \in Seq(1 .. (n + 1))
  BY <1>0
<1>3. ASSUME n + 1 \notin S PROVE Lists(c, S, n + 1)
  <2>1. \A x \in S : x \in 1 .. (n + 1) => x \in 1 .. n
    BY <1>3
  <2> QED BY Zenon, <1>2, <2>1 DEF Lists
<1>4. ASSUME n + 1 \in S PROVE Lists(Append(c, n + 1), S, n + 1)
  <2> DEFINE d == Append(c, n + 1)
  <2>1. /\ d \in Seq(1 .. (n + 1)) /\ Len(d) = Len(c) + 1 /\ d[Len(c) + 1] = n + 1
        /\ \A k \in 1 .. Len(c) : d[k] = c[k]
    BY <1>0, <1>2
  <2> HIDE DEF d
  <2>2. \A k \in 1 .. Len(d) : k \in 1 .. Len(c) \/ k = Len(c) + 1
    BY <1>0, <2>1
  <2>3. \A k \in 1 .. Len(d) : d[k] \in S
    BY Zenon, <1>4, <2>1, <2>2 DEF Lists
  <2>4. ASSUME NEW j \in 1 .. Len(d), NEW k \in 1 .. Len(d), j < k PROVE d[j] < d[k]
    <3>1. j \in 1 .. Len(c)
      BY <1>0, <2>1, <2>4
    <3>2. CASE k \in 1 .. Len(c)
      BY Zenon, <2>1, <2>4, <3>1, <3>2 DEF Lists
    <3>3. CASE k = Len(c) + 1
      <4>1. d[j] \in 1 .. n /\ d[k] = n + 1
        BY Zenon, <1>1, <2>1, <3>1, <3>3
      <4> QED BY <4>1
    <3> QED BY Zenon, <2>2, <3>2, <3>3
  <2>5. ASSUME NEW x \in S, x \in 1 .. (n + 1) PROVE \E k \in 1 .. Len(d) : d[k] = x
    <3>0. Len(c) + 1 \in 1 .. Len(d) /\ 1 .. Len(c) \subseteq 1 .. Len(d)
      BY <1>0, <2>1
    <3>1. CASE x = n + 1
      BY Zenon, <2>1, <3>0, <3>1
    <3>2. CASE x # n + 1
      <4>1. x \in 1 .. n
        BY <2>5, <3>2
      <4>2. PICK k \in 1 .. Len(c) : c[k] = x
        BY Zenon, <4>1 DEF Lists
      <4> QED BY Zenon, <2>1, <3>0, <4>2
    <3> QED BY Zenon, <3>1, <3>2
  <2> QED BY Zenon, <2>1, <2>3, <2>4, <2>5 DEF Lists, d
<1> QED BY Zenon, <1>3, <1>4

\* The loops of the scanner list what they are to collect, in ascending order.
LEMMA CollectedLists ==
    ASSUME NEW S, NEW n \in Nat
    PROVE  Lists(Collected(S, n), S, n)
<1> DEFINE Rounds(f, m) == f = [i \in 0 .. m |-> Collects(S, f, i)]
           T == {m \in 0 .. n : \A f : ~Rounds(f, m)}
<1>1. \E f : Rounds(f, 0)
  <2> DEFINE f == [i \in 0 .. 0 |-> <<>>]
  <2>1. \A i \in 0 .. 0 : Collects(S, f, i) = <<>>
    BY DEF Collects
  <2>2. Rounds(f, 0)
    BY Zenon, <2>1
  <2> QED BY Zenon, <2>2
<1>2. ASSUME NEW m \in 1 .. n, NEW f, Rounds(f, m - 1) PROVE \E h : Rounds(h, m)
  <2> DEFINE h == [i \in 0 .. m |-> Collects(S, f, i)]
  <2>1. ASSUME NEW i \in 0 .. m PROVE Collects(S, h, i) = Collects(S, f, i)
    <3>1. CASE i = 0
      BY Zenon, <3>1 DEF Collects
    <3>2. CASE i # 0
      <4>1. i - 1 \in 0 .. m - 1 /\ i - 1 \in 0 .. m
        BY <3>2
      <4>2. f[i - 1] = Collects(S, f, i - 1)
        BY Zenon, <1>2, <4>1
      <4>3. h[i - 1] = f[i - 1]
        BY Zenon, <4>1, <4>2
      <4> HIDE DEF h
      <4> QED BY Zenon, <4>3 DEF Collects
    <3> QED BY Zenon, <3>1, <3>2
  <2>2. Rounds(h, m)
    BY Zenon, <2>1
  <2> QED BY Zenon, <2>2
<1> HIDE DEF Rounds
<1>3. T = {}
  <2> SUFFICES ASSUME T # {} PROVE FALSE
    BY Zenon
  <2>1. T \subseteq Nat
    OBVIOUS
  <2>2. PICK m \in T : \A y \in T : m <= y
    BY Zenon, <2>1, LeastNumber
  <2>3. m \in 0 .. n /\ \A f : ~Rounds(f, m)
    BY Zenon, <2>2
  <2>4. m # 0
    BY Zenon, <1>1, <2>3
  <2>5. m \in 1 .. n /\ m - 1 \in 0 .. n /\ ~(m <= m - 1)
    BY <2>3, <2>4
  <2>6. m - 1 \notin T
    BY Zenon, <2>2, <2>5
  <2>7. PICK f : Rounds(f, m - 1)
    BY Zenon, <2>5, <2>6
  <2> QED BY Zenon, <1>2, <2>3, <2>5, <2>7
<1> DEFINE list == CHOOSE f : Rounds(f, n)
<1>4. n \in 0 .. n
  OBVIOUS
<1>5. Rounds(list, n)
  BY Zenon, <1>3, <1>4
<1>6. Collected(S, n) = list[n]
  BY Zenon DEF Collected, Collects, Rounds
<1> HIDE DEF list
<1> DEFINE W == {i \in 0 .. n : ~Lists(list[i], S, i)}
<1>7. W = {}
  <2> SUFFICES ASSUME W # {} PROVE FALSE
    BY Zenon
  <2>1. W \subseteq Nat
    OBVIOUS
  <2>2. PICK m \in W : \A y \in W : m <= y
    BY Zenon, <2>1, LeastNumber
  <2>3. m \in 0 .. n /\ ~Lists(list[m], S, m) /\ list[m] = Collects(S, list, m)
    BY Zenon, <1>5, <2>2 DEF Rounds
  <2>4. m # 0
    <3>1. Lists(<<>>, S, 0)
      BY DEF Lists
    <3> QED BY Zenon, <2>3, <3>1 DEF Collects
  <2>5. m \in 1 .. n /\ m - 1 \in 0 .. n /\ ~(m <= m - 1) /\ m - 1 \in Nat /\ (m - 1) + 1 = m
    BY <2>3, <2>4
  <2>6. Lists(list[m - 1], S, m - 1)
    BY Zenon, <2>2, <2>5
  <2>7. /\ (m - 1) + 1 \in S => Lists(Append(list[m - 1], (m - 1) + 1), S, (m - 1) + 1)
        /\ (m - 1) + 1 \notin S => Lists(list[m - 1], S, (m - 1) + 1)
    BY Zenon, <2>5, <2>6, OneMore
  <2> QED BY Zenon, <2>3, <2>4, <2>5, <2>7 DEF Collects
<1> QED BY Zenon, <1>4, <1>6, <1>7

\* A number that is a multiple of n apart from another one has the same remainder.
LEMMA Remainder ==
    ASSUME NEW n \in Nat \ {0}, NEW q \in Int, NEW m \in 0 .. n - 1
    PROVE  (q * n + m) % n = m
OBVIOUS

\* A number is its quotient and its remainder.
LEMMA Division ==
    ASSUME NEW n \in Nat \ {0}, NEW x \in Int
    PROVE  \E q \in Int : x = q * n + (x % n) /\ x % n \in 0 .. n - 1
<1>1. x \div n \in Int /\ x = (x \div n) * n + (x % n) /\ x % n \in 0 .. n - 1
  OBVIOUS
<1> QED BY Zenon, <1>1

\* A multiple of n that is greater than -n is not negative.
LEMMA Multiple ==
    ASSUME NEW n \in Nat \ {0}, NEW q \in Int, q * n > -n
    PROVE  q * n >= 0
OBVIOUS

\* The offset of the first aligned address behind a.
FirstOffset(n, a) == IF a % n = 0 THEN 0 ELSE n - (a % n)

\* The loop over a chunk takes the offsets of the aligned addresses: it starts
\* first bytes behind a and goes on in steps of the alignment.
LEMMA AlignedOffsets ==
    ASSUME NEW n \in Nat \ {0}, NEW a \in Nat, NEW o \in Nat
    PROVE  /\ FirstOffset(n, a) \in 0 .. n - 1
           /\ o >= FirstOffset(n, a) /\ (o - FirstOffset(n, a)) % n = 0 <=> (a + o) % n = 0
<1> DEFINE first == FirstOffset(n, a)
<1>0. a \in Int /\ 0 \in 0 .. n - 1
  OBVIOUS
<1>1. PICK q \in Int : a = q * n + (a % n) /\ a % n \in 0 .. n - 1
  BY Zenon, <1>0, Division
<1> DEFINE m == a % n
<1>2. first \in 0 .. n - 1 /\ m \in 0 .. n - 1
  BY <1>1 DEF FirstOffset
<1>3. \E p \in Int : a + first = p * n
  <2>1. CASE m = 0
    <3>1. a + first = q * n
      BY <1>1, <2>1 DEF FirstOffset
    <3> QED BY Zenon, <3>1
  <2>2. CASE m # 0
    <3>1. a + first = q * n + n
      BY <1>1, <2>2 DEF FirstOffset
    <3>2. q * n + n = (q + 1) * n /\ q + 1 \in Int
      OBVIOUS
    <3> QED BY Zenon, <3>1, <3>2
  <2> QED BY Zenon, <2>1, <2>2
<1>4. PICK p \in Int : a + first = p * n
  BY Zenon, <1>3
<1> HIDE DEF m, first
<1>5. ASSUME o >= first, (o - first) % n = 0 PROVE (a + o) % n = 0
  <2>1. o - first \in Int
    BY <1>2
  <2>2. PICK r \in Int : o - first = r * n + ((o - first) % n)
    BY Zenon, <2>1, Division
  <2>3. o - first = r * n
    BY <1>5, <2>2
  <2>4. a + o = p * n + r * n
    BY <1>2, <1>4, <2>3
  <2>5. p * n + r * n = (p + r) * n + 0 /\ p + r \in Int
    OBVIOUS
  <2>6. ((p + r) * n + 0) % n = 0
    BY Zenon, <1>0, <2>5, Remainder
  <2> QED BY Zenon, <2>4, <2>5, <2>6
<1>6. ASSUME (a + o) % n = 0 PROVE o >= first /\ (o - first) % n = 0
  <2>1. a + o \in Int
    OBVIOUS
  <2>2. PICK r \in Int : a + o = r * n + ((a + o) % n)
    BY Zenon, <2>1, Division
  <2>3. a + o = r * n
    BY <1>6, <2>2
  <2>4. o - first = r * n - p * n
    BY <1>2, <1>4, <2>3
  <2>5. r * n - p * n = (r - p) * n /\ r - p \in Int
    OBVIOUS
  <2>6. o - first > -n /\ o - first \in Int
    BY <1>2
  <2>7. o - first = (r - p) * n
    BY Zenon, <2>4, <2>5
  <2>8. o - first >= 0
    BY Zenon, <2>5, <2>6, <2>7, Multiple
  <2>9. o - first = (r - p) * n + 0
    BY <2>6, <2>7
  <2>10. ((r - p) * n + 0) % n = 0
    BY Zenon, <1>0, <2>5, Remainder
  <2>11. o >= first
    BY <1>2, <2>8
  <2> QED BY Zenon, <2>9, <2>10, <2>11
<1> QED BY Zenon, <1>2, <1>5, <1>6 DEF first

-----------------------------------------------------------------------------
(* The invariant of a scan. *)

\* An address whose value lies in the target's memory.
Whole(a) == a \in Nat /\ \A x \in Span(a) : x \in Address

\* The target has left the value at a alone since the scan started.
Untouched(a) == \A x \in Span(a) : x \notin moved

\* The address a in the region i, with the whole value.
InRegion(i, a) ==
    a \in Allowed[i].base .. Allowed[i].base + Allowed[i].size - Width

\* The addresses a first scan looks at.
Looked(q, a) == a % q.alignment = 0 /\ \E i \in 1 .. Len(Allowed) : InRegion(i, a)

\* The value at a is a match of the scan s.
Matches(s, a) ==
    IF s.first THEN Looked(s.query, a) /\ MatchInitialValue(s.query, Value(a))
    ELSE \E j \in 1 .. Len(s.old) :
           s.old[j].address = a /\ MatchNextValue(s.query, s.old[j].current, Value(a))

\* Scan results: values in memory, in ascending order.
Listing(c) ==
    /\ \E S : c \in Seq(S)
    /\ \A i \in 1 .. Len(c) : Whole(c[i].address)
    /\ \A i, j \in 1 .. Len(c) : i < j => c[i].address < c[j].address

\* The scan s has read the value at a, or failed to.
Behind(s, a) ==
    IF s.first THEN a + Width <= s.cursor
    ELSE \E j \in 1 .. Len(s.old) : j < s.index /\ s.old[j].address = a

\* What was found is a match and has its value, where the target left it alone ...
Sound(s) ==
    \A i \in 1 .. Len(s.output) : \A a :
        a = s.output[i].address /\ Untouched(a)
            => s.output[i].current = Value(a) /\ Matches(s, a)

\* ... and every match is found.
Has(s, a) == \E i \in 1 .. Len(s.output) : s.output[i].address = a
Covers(s) == \A a : Matches(s, a) /\ Untouched(a) /\ Behind(s, a) => Has(s, a)
CoversAll(s) == \A a : Matches(s, a) /\ Untouched(a) => Has(s, a)

\* A first scan carries the last bytes before c of the region at b, as far as it
\* has read them.
CarryAt(carry, b, partial, c) ==
    /\ \E S : carry \in Seq(S)
    /\ Len(carry) <= Overlap
    /\ Len(carry) <= c - b
    /\ ~partial => Len(carry) = Overlap \/ Len(carry) = c - b
    /\ \A k \in 1 .. Len(carry) : \A x :
         x = (c - Len(carry)) + (k - 1) /\ x \notin moved => carry[k] = bytes[x]

\* It is in a region, and has what is before its cursor.
ChunkAt(s) ==
    /\ s.region \in 1 .. Len(Allowed)
    /\ s.cursor \in Nat
    /\ Allowed[s.region].base <= s.cursor
    /\ s.cursor < Allowed[s.region].base + Allowed[s.region].size
    /\ CarryAt(s.carry, Allowed[s.region].base, s.partial, s.cursor)

\* A next scan is at a candidate, in a batch that ends with one.
CandidateAt(s) ==
    /\ s.index \in 1 .. Len(s.old)
    /\ s.pc = "each" => s.until \in s.index .. Len(s.old)

\* What a scan is for.
Wanted(s) == s.first \in BOOLEAN /\ s.query \in ScanQuery /\ Listing(s.old)

Begun(s) ==
    /\ s.output = <<>> /\ s.carry = <<>> /\ s.region = 1 /\ s.index = 1
    /\ s.truncated = FALSE /\ s.partial = FALSE

\* Between two reads.
Going(s) ==
    /\ Listing(s.output) /\ Sound(s)
    /\ s.truncated = FALSE /\ Len(s.output) < s.query.max_results
    /\ \A i \in 1 .. Len(s.output) : Behind(s, s.output[i].address)
    /\ ~s.partial => Covers(s)
    /\ IF s.first THEN s.pc = "chunk" /\ ChunkAt(s)
       ELSE s.pc \in {"batch", "each"} /\ CandidateAt(s)

\* After the last one.
Over(s) ==
    /\ Listing(s.output) /\ Sound(s)
    /\ Len(s.output) <= s.query.max_results
    /\ ~s.partial /\ ~s.truncated => CoversAll(s)

Consistent(s) ==
    /\ s.pc # "idle" => Wanted(s)
    /\ s.pc = "begin" => Begun(s)
    /\ s.pc \in {"chunk", "batch", "each"} => Going(s)
    /\ s.pc = "publish" /\ s.ok => Over(s)

\* The inductive invariant.
ExactInv ==
    /\ bytes = [x \in Address |-> bytes[x]]
    /\ Listing(candidates)
    /\ \A s : s = scan => Consistent(s)
    /\ scan.pc = "publish" /\ scan.ok => candidates = scan.output

\* The regions of a scan have bytes, and follow one another.
LEMMA AllowedRegions ==
    /\ Len(Allowed) \in Nat
    /\ DOMAIN Allowed = 1 .. Len(Allowed)
    /\ Allowed = <<>> <=> Len(Allowed) = 0
    /\ \A i \in 1 .. Len(Allowed) :
         /\ Allowed[i].base \in Nat /\ Allowed[i].size \in Nat /\ Allowed[i].size > 0
         /\ \A x \in Allowed[i].base .. Allowed[i].base + Allowed[i].size - 1 : x \in Address
    /\ \A i, j \in 1 .. Len(Allowed) :
         i < j => Allowed[i].base + Allowed[i].size <= Allowed[j].base
<1> DEFINE n == Len(Regions)
           R == [base : Nat, size : Nat, allowed : BOOLEAN]
           S == {i \in DOMAIN Regions : RegionAllowed(Regions[i])}
           kept == Collected(S, n)
<1>1. Regions \in Seq(R) /\ n \in Nat /\ DOMAIN Regions = 1 .. n
  BY RegionsAssumption
<1>2. Lists(kept, S, n)
  BY Zenon, <1>1, CollectedLists
<1>3. kept \in Seq(1 .. n) /\ DOMAIN kept = 1 .. Len(kept) /\ Len(kept) \in Nat
  BY <1>2 DEF Lists
<1>4. Allowed = [k \in 1 .. Len(kept) |-> Regions[kept[k]]]
  BY Zenon, <1>3 DEF Allowed
<1>5. \A i \in 1 .. n : Regions[i] \in R
  <2>1. ASSUME NEW T, NEW s \in Seq(T), NEW i \in 1 .. Len(s) PROVE s[i] \in T
    BY <2>1
  <2> QED BY Zenon, <1>1, <2>1
<1>6. \A k \in 1 .. Len(kept) : kept[k] \in 1 .. n /\ kept[k] \in S
  BY <1>2, <1>3 DEF Lists
<1> HIDE DEF n, kept
<1>7. ASSUME NEW T, NEW m \in Nat, NEW f \in [1 .. m -> T]
      PROVE  Len(f) = m /\ (f = <<>> <=> m = 0)
  BY <1>7
<1>8. Allowed \in [1 .. Len(kept) -> R]
  BY Zenon, <1>4, <1>5, <1>6
<1>9. Len(Allowed) = Len(kept) /\ DOMAIN Allowed = 1 .. Len(kept) /\ (Allowed = <<>> <=> Len(kept) = 0)
  <2> HIDE DEF R
  <2> QED BY Zenon, <1>3, <1>7, <1>8
<1>10. ASSUME NEW i \in 1 .. Len(Allowed)
       PROVE  /\ Allowed[i].base \in Nat /\ Allowed[i].size \in Nat /\ Allowed[i].size > 0
              /\ \A x \in Allowed[i].base .. Allowed[i].base + Allowed[i].size - 1 : x \in Address
  <2>1. Allowed[i] = Regions[kept[i]] /\ kept[i] \in 1 .. n /\ kept[i] \in S
    BY Zenon, <1>4, <1>6, <1>9
  <2>2. Regions[kept[i]] \in R
    BY Zenon, <1>5, <2>1
  <2>3. Allowed[i].base \in Nat /\ Allowed[i].size \in Nat
    BY Zenon, <2>1, <2>2
  <2>4. Allowed[i].size > 0
    BY Zenon, <2>1 DEF RegionAllowed
  <2>5. \A x \in Allowed[i].base .. Allowed[i].base + Allowed[i].size - 1 : x \in Address
    BY Zenon, <1>1, <2>1 DEF Address
  <2> QED BY Zenon, <2>3, <2>4, <2>5
<1>11. ASSUME NEW i \in 1 .. Len(Allowed), NEW j \in 1 .. Len(Allowed), i < j
       PROVE  Allowed[i].base + Allowed[i].size <= Allowed[j].base
  <2>1. Allowed[i] = Regions[kept[i]] /\ kept[i] \in 1 .. n
    BY Zenon, <1>4, <1>6, <1>9
  <2>2. Allowed[j] = Regions[kept[j]] /\ kept[j] \in 1 .. n
    BY Zenon, <1>4, <1>6, <1>9
  <2>3. kept[i] < kept[j]
    BY Zenon, <1>2, <1>9, <1>11 DEF Lists
  <2>4. Regions[kept[i]].base + Regions[kept[i]].size <= Regions[kept[j]].base
    BY Zenon, <2>1, <2>2, <2>3, RegionsAssumption DEF n
  <2> QED BY Zenon, <2>1, <2>2, <2>4
<1> QED BY Zenon, <1>3, <1>9, <1>10, <1>11

\* What a first scan looks at is in memory, within its region.
LEMMA LookedWhole ==
    ASSUME NEW i \in 1 .. Len(Allowed), NEW a, InRegion(i, a)
    PROVE  /\ Whole(a) /\ Allowed[i].base <= a
           /\ a + Width <= Allowed[i].base + Allowed[i].size
<1> DEFINE b == Allowed[i].base
           z == Allowed[i].size
<1>1. b \in Nat /\ z \in Nat /\ z > 0 /\ \A x \in b .. b + z - 1 : x \in Address
  BY Zenon, AllowedRegions
<1>2. a \in b .. b + z - Width
  BY Zenon DEF InRegion
<1>3. Width \in Nat /\ Width > 0
  BY ScannerAssumption
<1> HIDE DEF b, z
<1>4. a \in Nat /\ b <= a /\ a + Width <= b + z
  BY <1>1, <1>2, <1>3
<1>5. \A x \in a .. a + Width - 1 : x \in b .. b + z - 1
  BY <1>1, <1>3, <1>4
<1>6. Whole(a)
  BY Zenon, <1>1, <1>4, <1>5 DEF Whole, Span
<1> QED BY Zenon, <1>4, <1>6 DEF b, z

\* A step of the target or of the program: a byte that still counts as left alone
\* is the same.
Respects == \A x \in Address : x \notin moved' => x \notin moved /\ bytes'[x] = bytes[x]

\* A value that still counts as left alone is the same.
LEMMA ValueKept ==
    ASSUME Respects, NEW a, Whole(a), Untouched(a)'
    PROVE  Untouched(a) /\ Value(a)' = Value(a)
<1>1. Width \in Nat /\ a \in Nat
  BY ScannerAssumption DEF Whole
<1>2. \A k \in 1 .. Width : a + k - 1 \in a .. a + Width - 1
  BY <1>1
<1>3. \A x \in a .. a + Width - 1 : x \in Address /\ x \notin moved'
  BY Zenon DEF Whole, Untouched, Span
<1>4. \A x \in a .. a + Width - 1 : x \notin moved /\ bytes'[x] = bytes[x]
  BY Zenon, <1>3 DEF Respects
<1>5. \A k \in 1 .. Width : bytes'[a + k - 1] = bytes[a + k - 1]
  BY Zenon, <1>2, <1>4
<1>6. [k \in 1 .. Width |-> bytes'[a + k - 1]] = [k \in 1 .. Width |-> bytes[a + k - 1]]
  BY Zenon, <1>5
<1> QED BY Zenon, <1>4, <1>6 DEF Value, Untouched, Span

\* The matches of a scan are values in memory.
LEMMA MatchWhole ==
    ASSUME NEW s, Wanted(s), NEW a
    PROVE  (Matches(s, a) \/ Matches(s, a)') => Whole(a)
<1>1. CASE s.first
  <2>1. (Matches(s, a) \/ Matches(s, a)') => Looked(s.query, a)
    BY Zenon, <1>1 DEF Matches
  <2> QED BY Zenon, <2>1, LookedWhole DEF Looked
<1>2. CASE ~s.first
  <2>1. Matches(s, a) \/ Matches(s, a)' => \E j \in 1 .. Len(s.old) : s.old[j].address = a
    BY Zenon, <1>2 DEF Matches
  <2> QED BY Zenon, <2>1 DEF Wanted, Listing
<1> QED BY Zenon, <1>1, <1>2

\* What is known of a scan stays known while the target stores and the window
\* draws.
LEMMA ScanKept ==
    ASSUME NEW s, Wanted(s), Respects
    PROVE  (Going(s) => Going(s)') /\ (Over(s) => Over(s)')
<1>1. ASSUME NEW a, Whole(a), Untouched(a)'
      PROVE  Untouched(a) /\ Value(a)' = Value(a) /\ (Matches(s, a)' <=> Matches(s, a))
  <2>1. Untouched(a) /\ Value(a)' = Value(a)
    BY Zenon, <1>1, ValueKept
  <2> QED BY Zenon, <2>1 DEF Matches
<1>2. ASSUME Listing(s.output), Sound(s) PROVE Sound(s)'
  BY Zenon, <1>1, <1>2 DEF Sound, Listing
<1>3. Covers(s) => Covers(s)'
  BY Zenon, <1>1, MatchWhole DEF Covers, Behind, Has
<1>4. CoversAll(s) => CoversAll(s)'
  BY Zenon, <1>1, MatchWhole DEF CoversAll, Has
<1>5. ASSUME ChunkAt(s) PROVE ChunkAt(s)'
  <2> DEFINE b == Allowed[s.region].base
             z == Allowed[s.region].size
             l == Len(s.carry)
  <2>1. b \in Nat /\ z \in Nat /\ \A x \in b .. b + z - 1 : x \in Address
    BY Zenon, <1>5, AllowedRegions DEF ChunkAt, CarryAt
  <2>2. s.cursor \in Nat /\ b <= s.cursor /\ s.cursor < b + z /\ l <= s.cursor - b
    BY Zenon, <1>5 DEF ChunkAt, CarryAt
  <2>3. l \in Nat
    BY <1>5 DEF ChunkAt, CarryAt
  <2> HIDE DEF b, z, l
  <2>4. \A k \in 1 .. l : (s.cursor - l) + (k - 1) \in b .. b + z - 1
    BY <2>1, <2>2, <2>3
  <2>5. \A k \in 1 .. l : \A x : x = (s.cursor - l) + (k - 1) => x \in Address
    BY Zenon, <2>1, <2>4
  <2>6. \A k \in 1 .. l : \A x :
          x = (s.cursor - l) + (k - 1) /\ x \notin moved' => s.carry[k] = bytes'[x]
    BY Zenon, <1>5, <2>5 DEF ChunkAt, CarryAt, Respects, l
  <2> QED BY Zenon, <1>5, <2>6 DEF ChunkAt, CarryAt, l
<1>6. Going(s) => Going(s)'
  BY Zenon, <1>2, <1>3, <1>5 DEF Going, Listing, Whole, Behind, CandidateAt
<1>7. Over(s) => Over(s)'
  BY Zenon, <1>2, <1>4 DEF Over, Listing, Whole
<1> QED BY Zenon, <1>6, <1>7

\* A store of the target counts from then on.
LEMMA StoreKeeps ==
    ASSUME ExactInv, NEW a \in Address, NEW b, TargetStoresByte(a, b)
    PROVE  ExactInv'
<1>1. scan' = scan /\ candidates' = candidates /\ bytes' = [bytes EXCEPT ![a] = b]
  BY Zenon DEF TargetStoresByte, scanner
<1>2. bytes' = [x \in Address |-> bytes'[x]]
  BY Zenon, <1>1 DEF ExactInv
<1>3. ASSUME NEW s, s = scan' PROVE Consistent(s)'
  <2>1. s = scan /\ Consistent(s)
    BY Zenon, <1>1, <1>3 DEF ExactInv
  <2>2. CASE s.pc = "idle"
    <3>1. s.pc # "begin" /\ s.pc \notin {"chunk", "batch", "each"} /\ s.pc # "publish"
      BY <2>2
    <3> QED BY Zenon, <2>2, <3>1 DEF Consistent
  <2>3. CASE s.pc # "idle"
    <3>1. moved' = moved \cup {a}
      BY Zenon, <2>1, <2>3 DEF TargetStoresByte
    <3>2. Respects
      BY Zenon, <1>1, <3>1 DEF Respects, ExactInv
    <3> QED BY Zenon, <2>1, <2>3, <3>2, ScanKept DEF Consistent, Wanted, Begun, Listing, Whole
  <2> QED BY Zenon, <2>2, <2>3
<1> QED BY Zenon, <1>1, <1>2, <1>3 DEF ExactInv, Listing, Whole

\* A scan whose worker does nothing is the same scan.
LEMMA NothingKeeps ==
    ASSUME ExactInv, UNCHANGED <<bytes, moved, scan, candidates>>
    PROVE  ExactInv'
<1>1. Respects
  BY Zenon DEF Respects
<1>2. ASSUME NEW s, s = scan' PROVE Consistent(s)'
  <2>1. Consistent(s)
    BY Zenon, <1>2 DEF ExactInv
  <2>2. CASE s.pc = "idle"
    <3>1. s.pc # "begin" /\ s.pc \notin {"chunk", "batch", "each"} /\ s.pc # "publish"
      BY <2>2
    <3> QED BY Zenon, <2>2, <3>1 DEF Consistent
  <2>3. CASE s.pc # "idle"
    BY Zenon, <1>1, <2>1, <2>3, ScanKept DEF Consistent, Wanted, Begun, Listing, Whole
  <2> QED BY Zenon, <2>2, <2>3
<1> QED BY Zenon, <1>2 DEF ExactInv, Listing, Whole

\* The invariant is the property.
LEMMA InvExact == ExactInv => ScanExact
<1> SUFFICES ASSUME ExactInv, scan.pc = "publish", scan.ok PROVE ScanExact
  BY Zenon DEF ScanExact
<1> DEFINE found == {candidates[i].address : i \in DOMAIN candidates}
           Still(S) == {a \in S : Span(a) \cap moved = {}}
<1>1. PICK s : s = scan
  BY Zenon
<1>2. Consistent(s) /\ candidates = s.output
  BY Zenon, <1>1 DEF ExactInv
<1>3. Over(s) /\ Wanted(s)
  <2>1. s.pc = "publish" /\ s.ok /\ s.pc # "idle"
    BY <1>1
  <2> QED BY Zenon, <1>2, <2>1 DEF Consistent
<1>4. DOMAIN candidates = 1 .. Len(candidates) /\ Len(candidates) \in Nat
  BY <1>2, <1>3 DEF Over, Listing
<1>5. \A a : Span(a) \cap moved = {} <=> Untouched(a)
  BY Zenon DEF Untouched
<1>6. \A a : a \in Matching <=> Matches(s, a)
  <2>1. CASE s.first
    <3>1. /\ DOMAIN Allowed = 1 .. Len(Allowed)
          /\ scan.query.alignment = s.query.alignment
      BY Zenon, <1>1, AllowedRegions
    <3>2. \A a : a \in Scannable <=> Looked(s.query, a)
      <4>1. ASSUME NEW a \in Scannable PROVE Looked(s.query, a)
        <5>1. PICK i \in 1 .. Len(Allowed) :
                a \in {x \in Allowed[i].base .. Allowed[i].base + Allowed[i].size - Width :
                         x % s.query.alignment = 0}
          BY Zenon, <3>1, <4>1 DEF Scannable
        <5> QED BY Zenon, <5>1 DEF Looked, InRegion
      <4>2. ASSUME NEW a, Looked(s.query, a) PROVE a \in Scannable
        <5>1. PICK i \in 1 .. Len(Allowed) :
                a \in {x \in Allowed[i].base .. Allowed[i].base + Allowed[i].size - Width :
                         x % s.query.alignment = 0}
          BY Zenon, <4>2 DEF Looked, InRegion
        <5> QED BY Zenon, <3>1, <5>1 DEF Scannable
      <4> QED BY Zenon, <4>1, <4>2
    <3>3. Matching = {a \in Scannable : MatchInitialValue(s.query, Value(a))}
      BY Zenon, <1>1, <2>1 DEF Matching
    <3> QED BY Zenon, <2>1, <3>2, <3>3 DEF Matches
  <2>2. CASE ~s.first
    <3>1. DOMAIN s.old = 1 .. Len(s.old)
      BY <1>3 DEF Wanted, Listing
    <3>2. Matching = {s.old[i].address :
                        i \in {j \in 1 .. Len(s.old) :
                                 MatchNextValue(s.query, s.old[j].current,
                                                Value(s.old[j].address))}}
      BY Zenon, <1>1, <2>2, <3>1 DEF Matching
    <3> QED BY Zenon, <2>2, <3>2 DEF Matches
  <2> QED BY Zenon, <2>1, <2>2
<1>7. \A a : a \in found <=> Has(s, a)
  BY Zenon, <1>2, <1>4 DEF Has
<1>8. Len(candidates) <= scan.query.max_results
  BY Zenon, <1>1, <1>2, <1>3 DEF Over
<1>9. Still(found) \subseteq Matching
  BY Zenon, <1>2, <1>3, <1>5, <1>6, <1>7 DEF Over, Sound, Has
<1>10. ~scan.partial /\ ~scan.truncated => Still(Matching) \subseteq found
  BY Zenon, <1>1, <1>3, <1>5, <1>6, <1>7 DEF Over, CoversAll
<1>11. \A i \in DOMAIN candidates :
         candidates[i].address \in Still(found) =>
           candidates[i].current = Value(candidates[i].address)
  BY Zenon, <1>2, <1>3, <1>4, <1>5 DEF Over, Sound
<1>12. \A i \in 1 .. Len(candidates) - 1 : candidates[i].address < candidates[i + 1].address
  <2>1. \A i \in 1 .. Len(candidates) - 1 :
          i \in 1 .. Len(candidates) /\ i + 1 \in 1 .. Len(candidates) /\ i < i + 1
    BY <1>4
  <2> QED BY Zenon, <2>1 DEF ExactInv, Listing
<1> QED BY Zenon, <1>8, <1>9, <1>10, <1>11, <1>12 DEF ScanExact

-----------------------------------------------------------------------------
(* The steps of the worker. *)

\* A scan that fails has no results of its own.
LEMMA FailExact ==
    ASSUME ScannerInv, ExactInv, Scanning(scan), Fail, UNCHANGED <<bytes, moved>>
    PROVE  ExactInv'
<1>1. candidates' = candidates /\ scan' = [scan EXCEPT !.pc = "publish"]
  BY Zenon DEF Fail, Kept
<1>2. PICK s : s = scan
  BY Zenon
<1>3. Consistent(s) /\ s.ok = FALSE /\ s.pc # "idle" /\ s = [f \in ScanFields |-> s[f]]
  <2>1. Scanning(s)
    BY Zenon, <1>2
  <2>2. s.pc # "idle"
    BY <2>1 DEF Scanning
  <2> QED BY Zenon, <1>2, <2>1, <2>2 DEF ExactInv, Scanning
<1> DEFINE t == [s EXCEPT !.pc = "publish"]
<1>4. /\ t.pc = "publish" /\ t.ok = FALSE /\ t.first = s.first /\ t.query = s.query
      /\ t.old = s.old
  BY Zenon, <1>3 DEF ScanFields
<1>5. scan' = t
  BY Zenon, <1>1, <1>2
<1> HIDE DEF t
<1>6. t.pc # "begin" /\ t.pc \notin {"chunk", "batch", "each"}
  BY <1>4
<1>7. Wanted(t)'
  BY Zenon, <1>3, <1>4 DEF Consistent, Wanted, Listing, Whole
<1>8. Consistent(t)'
  BY Zenon, <1>4, <1>6, <1>7 DEF Consistent
<1> QED BY Zenon, <1>1, <1>4, <1>5, <1>8 DEF ExactInv, Listing, Whole

\* What is found is a matter of what is searched and of the output.
LEMMA SameScan ==
    ASSUME NEW s, NEW t, t.first = s.first, t.query = s.query, t.old = s.old,
           t.output = s.output
    PROVE  /\ \A a : Matches(t, a) <=> Matches(s, a)
           /\ \A a : Has(t, a) <=> Has(s, a)
           /\ Sound(t) <=> Sound(s)
           /\ CoversAll(t) <=> CoversAll(s)
<1>1. \A a : Matches(t, a) <=> Matches(s, a)
  BY Zenon DEF Matches
<1>2. \A a : Has(t, a) <=> Has(s, a)
  BY Zenon DEF Has
<1>3. Sound(t) <=> Sound(s)
  BY Zenon, <1>1 DEF Sound
<1>4. CoversAll(t) <=> CoversAll(s)
  BY Zenon, <1>1, <1>2 DEF CoversAll
<1> QED BY Zenon, <1>1, <1>2, <1>3, <1>4

\* A scan goes on as s, or is over with what s has found.
LEMMA ContinueExact ==
    ASSUME ExactInv, NEW s, Scanning(s), Wanted(s), NEW over, Continue(s, over),
           UNCHANGED <<bytes, moved>>,
           s.truncated \/ over => Over(s),
           ~(s.truncated \/ over) => Going(s)
    PROVE  ExactInv'
<1>0. Respects
  BY Zenon DEF Respects
<1>1. CASE s.truncated \/ over
  <2> DEFINE t == [s EXCEPT !.pc = "publish", !.ok = TRUE]
  <2>1. scan' = t /\ candidates' = s.output
    BY Zenon, <1>1 DEF Continue, Succeed
  <2>2. /\ t.pc = "publish" /\ t.ok = TRUE /\ t.first = s.first /\ t.query = s.query
        /\ t.old = s.old /\ t.output = s.output /\ t.partial = s.partial
        /\ t.truncated = s.truncated
    BY Zenon DEF ScanFields, Scanning
  <2> HIDE DEF t
  <2>3. Over(t) /\ Wanted(t)
    BY Zenon, <1>1, <2>2, SameScan DEF Over, Wanted
  <2>4. Over(t)'
    BY Zenon, <1>0, <2>3, ScanKept
  <2>5. Wanted(t)'
    BY Zenon, <2>3 DEF Wanted, Listing, Whole
  <2>6. t.pc # "begin" /\ t.pc \notin {"chunk", "batch", "each"}
    BY <2>2
  <2>7. Consistent(t)'
    BY Zenon, <2>4, <2>5, <2>6 DEF Consistent
  <2>8. Listing(candidates')
    BY Zenon, <1>1, <2>1 DEF Over
  <2> QED BY Zenon, <2>1, <2>2, <2>7, <2>8 DEF ExactInv, Listing, Whole
<1>2. CASE ~(s.truncated \/ over)
  <2>1. scan' = s /\ candidates' = candidates
    BY Zenon, <1>2 DEF Continue, scanner
  <2>2. Going(s)' /\ Wanted(s)'
    BY Zenon, <1>0, <1>2, ScanKept DEF Wanted, Listing, Whole
  <2>3. s.pc # "begin" /\ s.pc # "publish"
    BY <1>2 DEF Going
  <2>4. Consistent(s)'
    BY Zenon, <2>2, <2>3 DEF Consistent
  <2> QED BY Zenon, <2>1, <2>3, <2>4 DEF ExactInv, Listing, Whole
<1> QED BY Zenon, <1>1, <1>2

\* The lengths of a cut list.
LEMMA CutAt ==
    ASSUME NEW l \in Nat, NEW h \in Nat, NEW m \in Nat, l < m
    PROVE  LET full == {n \in l + 1 .. l + h : n >= m}
               n == Min(full \cup {l + h})
           IN  /\ n \in l .. l + h /\ n <= m
               /\ full = {} => n = l + h /\ n < m
<1> DEFINE full == {n \in l + 1 .. l + h : n >= m}
           T == full \cup {l + h}
           n == IF full = {} THEN l + h ELSE m
<1>1. n \in T /\ \A y \in T : n <= y
  <2>1. CASE full = {}
    BY <2>1
  <2>2. CASE full # {}
    <3>1. m \in full
      BY <2>2
    <3>2. \A y \in T : m <= y
      BY <2>2
    <3> QED BY Zenon, <2>2, <3>1, <3>2
  <2> QED BY Zenon, <2>1, <2>2
<1>2. Min(T) \in T /\ \A y \in T : Min(T) <= y
  BY Zenon, <1>1 DEF Min
<1>3. T \subseteq Nat /\ n \in Nat
  OBVIOUS
<1>4. n \in l .. l + h /\ n <= m /\ (full = {} => n < m)
  <2>1. CASE full = {}
    <3>1. h = 0 \/ l + h \notin full
      BY <2>1
    <3>2. l + h < m
      BY <3>1
    <3> QED BY <2>1, <3>2
  <2>2. CASE full # {}
    BY <2>2
  <2> QED BY Zenon, <2>1, <2>2
<1> HIDE DEF T, n
<1>5. Min(T) \in Nat /\ Min(T) <= n /\ n <= Min(T)
  BY Zenon, <1>1, <1>2, <1>3
<1>6. Min(T) = n
  BY <1>3, <1>5
<1> QED BY Zenon, <1>4, <1>6 DEF T, n

\* z is the list x and behind it the beginning of the list y, n elements in all.
CutTo(z, x, y, n, S) ==
    /\ z \in Seq(S) /\ Len(z) = n
    /\ \A i \in 1 .. Len(x) : i \in 1 .. n /\ z[i] = x[i]
    /\ \A i \in 1 .. n : i \notin 1 .. Len(x) =>
         i - Len(x) \in 1 .. Len(y) /\ z[i] = y[i - Len(x)]
    /\ n = Len(x) + Len(y) => \A k \in 1 .. Len(y) :
         Len(x) + k \in 1 .. n /\ z[Len(x) + k] = y[k]

\* The elements of a cut list.
LEMMA CutList ==
    ASSUME NEW S, NEW x \in Seq(S), NEW y \in Seq(S), NEW n \in Len(x) .. Len(x) + Len(y)
    PROVE  CutTo(SubSeq(x \o y, 1, n), x, y, n, S)
BY DEF CutTo

\* Values that a read of the scan s has found: in memory, matches where the target
\* left them alone, in ascending order and behind what was found before.
NewHits(s, hits) ==
    /\ \E S : hits \in Seq(S)
    /\ \A k \in 1 .. Len(hits) : \A a : a = hits[k].address =>
         Whole(a) /\ (Untouched(a) => hits[k].current = Value(a) /\ Matches(s, a))
    /\ \A i \in 1 .. Len(s.output), k \in 1 .. Len(hits) :
         s.output[i].address < hits[k].address
    /\ \A j, k \in 1 .. Len(hits) : j < k => hits[j].address < hits[k].address

\* What Emit makes of them: r has found all of them, or has reached the limit and
\* says so.
Emitted(s, hits, r) ==
    /\ \A f \in ScanFields \ {"output", "truncated"} : r[f] = s[f]
    /\ r = [f \in ScanFields |-> r[f]]
    /\ Listing(r.output) /\ Sound(r)
    /\ r.truncated \in BOOLEAN
    /\ Len(r.output) <= s.query.max_results
    /\ \A i \in 1 .. Len(r.output) :
         \/ \E j \in 1 .. Len(s.output) : r.output[i] = s.output[j]
         \/ \E k \in 1 .. Len(hits) : r.output[i] = hits[k]
    /\ ~r.truncated =>
         /\ Len(r.output) < s.query.max_results
         /\ \A a : Has(s, a) => Has(r, a)
         /\ \A k \in 1 .. Len(hits) : Has(r, hits[k].address)

\* Emit adds new hits up to the limit.
LEMMA EmitEffect ==
    ASSUME NEW s, s = scan, Wanted(s), Listing(s.output), Sound(s),
           s = [f \in ScanFields |-> s[f]],
           Len(s.output) < s.query.max_results,
           NEW hits, NewHits(s, hits)
    PROVE  Emitted(s, hits, Emit(s, hits))
<1>0. PICK r : r = Emit(s, hits)
  BY Zenon
<1> DEFINE x == s.output
           m == s.query.max_results
           l == Len(x)
           h == Len(hits)
           all == x \o hits
           full == {n \in l + 1 .. Len(all) : LimitReached(n)}
<1>1. r = [s EXCEPT !.output = SubSeq(all, 1, Min(full \cup {Len(all)})),
                    !.truncated = full # {}]
  BY Zenon, <1>0 DEF Emit
<1>2. PICK S1 : x \in Seq(S1)
  BY Zenon DEF Listing
<1>3. PICK S2 : hits \in Seq(S2)
  BY Zenon DEF NewHits
<1>4. PICK S : x \in Seq(S) /\ hits \in Seq(S)
  <2>1. ASSUME NEW A, NEW B, NEW c \in Seq(A), NEW d \in Seq(B)
        PROVE  c \in Seq(A \cup B) /\ d \in Seq(A \cup B)
    BY <2>1
  <2> QED BY Zenon, <1>2, <1>3, <2>1
<1>5. m \in Nat
  BY Zenon, ScannerAssumption DEF Wanted, ScanQuery
<1>6. l \in Nat /\ h \in Nat /\ Len(all) = l + h
  BY <1>4
<1> DEFINE F == {k \in l + 1 .. l + h : k >= m}
           c == Min(F \cup {l + h})
           y == SubSeq(x \o hits, 1, c)
<1>7. full = F
  BY Zenon, <1>6 DEF LimitReached
<1>8. l < m
  BY Zenon
<1>9. r = [s EXCEPT !.output = y, !.truncated = F # {}]
  <2> HIDE DEF full, F, l, h
  <2> QED BY Zenon, <1>1, <1>6, <1>7
<1> HIDE DEF l, h, m
<1>10. c \in l .. l + h /\ c <= m /\ (F = {} => c = l + h /\ c < m)
  BY Zenon, <1>5, <1>6, <1>8, CutAt
<1> HIDE DEF F, c, x
<1>11. /\ y \in Seq(S) /\ Len(y) = c
       /\ \A i \in 1 .. l : i \in 1 .. c /\ y[i] = x[i]
       /\ \A i \in 1 .. c : i \notin 1 .. l => i - l \in 1 .. h /\ y[i] = hits[i - l]
       /\ c = l + h => \A k \in 1 .. h : l + k \in 1 .. c /\ y[l + k] = hits[k]
  <2>1. c \in Len(x) .. Len(x) + Len(hits)
    BY Zenon, <1>10 DEF l, h
  <2>2. CutTo(y, x, hits, c, S)
    BY Zenon, <1>4, <2>1, CutList
  <2> HIDE DEF y
  <2> QED BY Zenon, <2>2 DEF CutTo, l, h
<1> HIDE DEF y
<1>12. /\ r.output = y /\ r.truncated = (F # {})
       /\ \A f \in ScanFields \ {"output", "truncated"} : r[f] = s[f]
       /\ r = [f \in ScanFields |-> r[f]]
  BY Zenon, <1>9 DEF ScanFields
<1>13. r.first = s.first /\ r.query = s.query /\ r.old = s.old
  <2>1. {"first", "query", "old"} \subseteq ScanFields \ {"output", "truncated"}
    BY DEF ScanFields
  <2> QED BY Zenon, <1>12, <2>1
<1>14. \A i \in 1 .. c : \/ i \in 1 .. l /\ y[i] = x[i]
                         \/ i - l \in 1 .. h /\ y[i] = hits[i - l]
  BY Zenon, <1>11
<1>15. Listing(y)
  <2>1. ASSUME NEW i \in 1 .. c PROVE Whole(y[i].address)
    <3>1. CASE i \in 1 .. l /\ y[i] = x[i]
      BY Zenon, <3>1 DEF Listing, x, l
    <3>2. CASE i - l \in 1 .. h /\ y[i] = hits[i - l]
      BY Zenon, <3>2 DEF NewHits, h
    <3> QED BY Zenon, <1>14, <3>1, <3>2
  <2>2. ASSUME NEW i \in 1 .. c, NEW j \in 1 .. c, i < j PROVE y[i].address < y[j].address
    <3>1. CASE i \in 1 .. l /\ j \in 1 .. l
      BY Zenon, <1>11, <2>2, <3>1 DEF Listing, x, l
    <3>2. CASE i \in 1 .. l /\ j \notin 1 .. l
      BY Zenon, <1>11, <2>2, <3>2 DEF NewHits, x, l, h
    <3>3. CASE i \notin 1 .. l
      <4>1. j \notin 1 .. l /\ i - l < j - l
        BY <1>6, <2>2, <3>3
      <4> QED BY Zenon, <1>11, <2>2, <3>3, <4>1 DEF NewHits, h
    <3> QED BY Zenon, <3>1, <3>2, <3>3
  <2> QED BY Zenon, <1>11, <2>1, <2>2 DEF Listing
<1>16. Sound(r)
  <2>1. \A a : Matches(r, a) <=> Matches(s, a)
    BY Zenon, <1>13 DEF Matches
  <2>2. ASSUME NEW i \in 1 .. c, NEW a, a = y[i].address, Untouched(a)
        PROVE  y[i].current = Value(a) /\ Matches(s, a)
    <3>1. CASE i \in 1 .. l /\ y[i] = x[i]
      BY Zenon, <2>2, <3>1 DEF Sound, x, l
    <3>2. CASE i - l \in 1 .. h /\ y[i] = hits[i - l]
      BY Zenon, <2>2, <3>2 DEF NewHits, h
    <3> QED BY Zenon, <1>14, <3>1, <3>2
  <2> SUFFICES ASSUME NEW i \in 1 .. Len(r.output), NEW a, a = r.output[i].address, Untouched(a)
               PROVE  r.output[i].current = Value(a) /\ Matches(r, a)
    BY Zenon DEF Sound
  <2>3. i \in 1 .. c /\ r.output[i] = y[i]
    BY Zenon, <1>11, <1>12
  <2> QED BY Zenon, <2>1, <2>2, <2>3
<1>17. \A i \in 1 .. Len(r.output) :
         \/ \E j \in 1 .. Len(s.output) : r.output[i] = s.output[j]
         \/ \E k \in 1 .. Len(hits) : r.output[i] = hits[k]
  <2>1. \A i \in 1 .. c : \/ \E j \in 1 .. l : y[i] = x[j]
                          \/ \E k \in 1 .. h : y[i] = hits[k]
    BY Zenon, <1>14
  <2> QED BY Zenon, <1>11, <1>12, <2>1 DEF x, l, h
<1>18. \A a : Has(s, a) => Has(r, a)
  <2>1. ASSUME NEW i \in 1 .. l PROVE i \in 1 .. Len(r.output) /\ r.output[i] = x[i]
    BY Zenon, <1>11, <1>12
  <2> QED BY Zenon, <2>1 DEF Has, x, l
<1>19. ASSUME F = {}, NEW k \in 1 .. Len(hits) PROVE Has(r, hits[k].address)
  <2>1. c = l + h /\ k \in 1 .. h
    BY Zenon, <1>10, <1>19 DEF h
  <2>2. l + k \in 1 .. Len(r.output) /\ r.output[l + k] = hits[k]
    BY Zenon, <1>11, <1>12, <2>1
  <2> QED BY Zenon, <2>2 DEF Has
<1>20. Len(r.output) <= s.query.max_results /\ (F = {} => Len(r.output) < s.query.max_results)
  BY Zenon, <1>10, <1>11, <1>12 DEF m
<1>21. Listing(r.output) /\ r.truncated \in BOOLEAN /\ (~r.truncated <=> F = {})
  BY Zenon, <1>12, <1>15
<1>22. Emitted(s, hits, r)
  BY Zenon, <1>12, <1>16, <1>17, <1>18, <1>19, <1>20, <1>21 DEF Emitted
<1> QED BY Zenon, <1>0, <1>22

-----------------------------------------------------------------------------
(* A next scan. *)

\* The candidates of a next scan have different addresses.
LEMMA OldUnique ==
    ASSUME NEW s, Wanted(s), NEW i \in 1 .. Len(s.old), NEW j \in 1 .. Len(s.old),
           s.old[i].address = s.old[j].address
    PROVE  i = j
<1>1. s.old[i].address \in Nat /\ s.old[j].address \in Nat
  BY Zenon DEF Wanted, Listing, Whole
<1>2. ~(s.old[i].address < s.old[j].address) /\ ~(s.old[j].address < s.old[i].address)
  BY <1>1
<1>3. ~(i < j) /\ ~(j < i)
  BY Zenon, <1>2 DEF Wanted, Listing
<1>4. Len(s.old) \in Nat
  BY DEF Wanted, Listing
<1> QED BY <1>3, <1>4

\* The candidates of s up to e that a read has kept: new hits, and all that match.
Survived(s, e, hits) ==
    /\ NewHits(s, hits)
    /\ \A k \in 1 .. Len(hits) : \E j \in 1 .. Len(s.old) :
         j < e + 1 /\ hits[k].address = s.old[j].address
    /\ \A j \in s.index .. e :
         MatchNextValue(s.query, s.old[j].current, Value(s.old[j].address)) =>
           \E k \in 1 .. Len(hits) : hits[k].address = s.old[j].address

\* The survivors of a read are the candidates that match, and hold their values.
LEMMA SurvivorsHit ==
    ASSUME NEW s, s = scan, Wanted(s), ~s.first, Going(s), NEW e \in s.index .. Len(s.old)
    PROVE  Survived(s, e, Survivors(s.index, e))
<1>0. PICK hits : hits = Survivors(s.index, e)
  BY Zenon
<1> DEFINE L == Len(s.old)
           Fits(j) == MatchNextValue(s.query, s.old[j].current, Value(s.old[j].address))
           J == {j \in s.index .. e : Fits(j)}
           kept == Collected(J, e)
           Hit(j) == [address |-> s.old[j].address, current |-> Value(s.old[j].address)]
<1>1. s.index \in 1 .. L /\ L \in Nat
  <2>1. L \in Nat
    BY DEF Wanted, Listing
  <2> QED BY Zenon, <2>1 DEF Going, CandidateAt
<1>2. e \in Nat /\ s.index \in Nat /\ s.index .. e \subseteq 1 .. e /\ 1 .. e \subseteq 1 .. L
  <2> HIDE DEF L
  <2>1. e \in s.index .. L
    BY Zenon DEF L
  <2> QED BY <1>1, <2>1
<1>3. hits = [k \in DOMAIN kept |-> Hit(kept[k])]
  BY Zenon, <1>0 DEF Survivors, Value
<1>4. Lists(kept, J, e)
  BY Zenon, <1>2, CollectedLists
<1> HIDE DEF kept, Fits
<1>5. DOMAIN kept = 1 .. Len(kept) /\ Len(kept) \in Nat
  BY <1>4 DEF Lists
<1>6. Len(hits) = Len(kept)
  <2>1. ASSUME NEW n \in Nat, NEW f, f = [k \in 1 .. n |-> Hit(kept[k])] PROVE Len(f) = n
    <3> HIDE DEF Hit
    <3> QED BY <2>1
  <2> HIDE DEF Hit
  <2> QED BY Zenon, <1>3, <1>5, <2>1
<1>7. ASSUME NEW k \in 1 .. Len(hits)
      PROVE  /\ k \in 1 .. Len(kept) /\ kept[k] \in 1 .. L /\ kept[k] \in s.index .. e
             /\ Fits(kept[k])
             /\ hits[k].address = s.old[kept[k]].address
             /\ hits[k].current = Value(s.old[kept[k]].address)
  <2>1. k \in 1 .. Len(kept) /\ kept[k] \in J /\ kept[k] \in 1 .. L
    BY Zenon, <1>2, <1>4, <1>6 DEF Lists
  <2>2. hits[k] = Hit(kept[k])
    <3> HIDE DEF Hit
    <3> QED BY Zenon, <1>3, <1>5, <2>1
  <2>3. kept[k] \in s.index .. e /\ Fits(kept[k])
    BY Zenon, <2>1
  <2>4. \A j : Hit(j).address = s.old[j].address /\ Hit(j).current = Value(s.old[j].address)
    BY Zenon
  <2> HIDE DEF Hit
  <2> QED BY Zenon, <2>1, <2>2, <2>3, <2>4
<1>8. \A k \in 1 .. Len(hits) : \A a : a = hits[k].address =>
        Whole(a) /\ (Untouched(a) => hits[k].current = Value(a) /\ Matches(s, a))
  <2> SUFFICES ASSUME NEW k \in 1 .. Len(hits), NEW a, a = hits[k].address
               PROVE  Whole(a) /\ hits[k].current = Value(a) /\ Matches(s, a)
    BY Zenon
  <2>1. PICK j : j = kept[k]
    BY Zenon
  <2>2. /\ Fits(j) /\ j \in 1 .. L /\ a = s.old[j].address
        /\ hits[k].current = Value(s.old[j].address)
    BY Zenon, <1>7, <2>1
  <2>3. Fits(j) /\ Value(s.old[j].address) = Value(a)
    BY Zenon, <2>2
  <2>4. Whole(a)
    BY Zenon, <2>2 DEF Wanted, Listing
  <2>5. Matches(s, a)
    BY Zenon, <2>2, <2>3 DEF Matches, Fits
  <2> QED BY Zenon, <2>2, <2>3, <2>4, <2>5
<1>9. \A i \in 1 .. Len(s.output), k \in 1 .. Len(hits) : s.output[i].address < hits[k].address
  <2> SUFFICES ASSUME NEW i \in 1 .. Len(s.output), NEW k \in 1 .. Len(hits)
               PROVE  s.output[i].address < hits[k].address
    BY Zenon
  <2>1. PICK j \in 1 .. L : j < s.index /\ s.old[j].address = s.output[i].address
    BY Zenon DEF Going, Behind
  <2>2. kept[k] \in 1 .. L /\ kept[k] \in s.index .. e /\ hits[k].address = s.old[kept[k]].address
    BY Zenon, <1>7
  <2>3. j < kept[k]
    BY <1>2, <2>1, <2>2
  <2> QED BY Zenon, <2>1, <2>2, <2>3 DEF Wanted, Listing
<1>10. \A j, k \in 1 .. Len(hits) : j < k => hits[j].address < hits[k].address
  <2> SUFFICES ASSUME NEW j \in 1 .. Len(hits), NEW k \in 1 .. Len(hits), j < k
               PROVE  hits[j].address < hits[k].address
    BY Zenon
  <2>1. kept[j] < kept[k] /\ kept[j] \in 1 .. L /\ kept[k] \in 1 .. L
    BY Zenon, <1>4, <1>7 DEF Lists
  <2>2. hits[j].address = s.old[kept[j]].address /\ hits[k].address = s.old[kept[k]].address
    BY Zenon, <1>7
  <2>3. s.old[kept[j]].address < s.old[kept[k]].address
    BY Zenon, <2>1 DEF Wanted, Listing
  <2> QED BY Zenon, <2>2, <2>3
<1>11. hits \in Seq({hits[k] : k \in 1 .. Len(hits)})
  <2>1. ASSUME NEW n \in Nat, NEW T, NEW f \in [1 .. n -> T] PROVE f \in Seq(T)
    BY <2>1
  <2> DEFINE T == {hits[k] : k \in 1 .. Len(hits)}
  <2>2. hits \in [1 .. Len(kept) -> T]
    BY Zenon, <1>3, <1>5, <1>6
  <2> HIDE DEF T
  <2>3. hits \in Seq(T)
    BY Zenon, <1>5, <2>1, <2>2
  <2> QED BY Zenon, <2>3 DEF T
<1>12. ASSUME NEW k \in 1 .. Len(hits)
       PROVE  \E j \in 1 .. L : j < e + 1 /\ hits[k].address = s.old[j].address
  <2>1. kept[k] \in 1 .. L /\ kept[k] \in s.index .. e /\ hits[k].address = s.old[kept[k]].address
    BY Zenon, <1>7
  <2>2. kept[k] < e + 1
    BY <1>2, <2>1
  <2> QED BY Zenon, <2>1, <2>2
<1>13. ASSUME NEW j \in s.index .. e, Fits(j)
       PROVE  \E k \in 1 .. Len(hits) : hits[k].address = s.old[j].address
  <2>1. PICK k \in 1 .. Len(kept) : kept[k] = j
    BY Zenon, <1>2, <1>4, <1>13 DEF Lists
  <2>2. k \in 1 .. Len(hits)
    BY Zenon, <1>6
  <2> QED BY Zenon, <1>7, <2>1, <2>2
<1>14. NewHits(s, hits)
  BY Zenon, <1>8, <1>9, <1>10, <1>11 DEF NewHits
<1>15. Survived(s, e, hits)
  BY Zenon, <1>12, <1>13, <1>14 DEF Fits, Survived
<1> QED BY Zenon, <1>0, <1>15

\* The scan s with a read of the candidates up to e added to it.
ReadUpTo(s, e, t) ==
    /\ Scanning(t)
    /\ t.first = s.first /\ t.query = s.query /\ t.old = s.old
    /\ t.until \in e .. Len(s.old)
    /\ Listing(t.output) /\ Sound(t) /\ t.truncated \in BOOLEAN
    /\ Len(t.output) <= t.query.max_results
    /\ ~t.truncated => Len(t.output) < t.query.max_results
    /\ \A i \in 1 .. Len(t.output) : \E j \in 1 .. Len(s.old) :
         j < e + 1 /\ t.output[i].address = s.old[j].address
    /\ ~t.partial /\ ~t.truncated =>
         \A j \in 1 .. Len(s.old) : \A a :
           j < e + 1 /\ a = s.old[j].address /\ Untouched(a)
           /\ MatchNextValue(s.query, s.old[j].current, Value(a)) => Has(t, a)

\* What comes after a read of the candidates up to e.
LEMMA PastExact ==
    ASSUME ExactInv, NEW s, s = scan, Wanted(s), Going(s), ~s.first,
           NEW e \in s.index .. Len(s.old), NEW t, ReadUpTo(s, e, t),
           Past(t, e), UNCHANGED <<bytes, moved>>
    PROVE  ExactInv'
<1> DEFINE u == [t EXCEPT !.index = e + 1, !.pc = IF e = t.until THEN "batch" ELSE "each"]
           L == Len(s.old)
<1>1. Continue(u, e = Len(t.old))
  BY Zenon DEF Past
<1>2. /\ u = [f \in ScanFields |-> u[f]] /\ u.ok = FALSE
      /\ u.index = e + 1 /\ u.pc = (IF e = t.until THEN "batch" ELSE "each")
      /\ u.first = t.first /\ u.query = t.query /\ u.old = t.old /\ u.output = t.output
      /\ u.partial = t.partial /\ u.truncated = t.truncated /\ u.until = t.until
  BY Zenon DEF ReadUpTo, Scanning, ScanFields
<1> HIDE DEF u
<1>3. Scanning(u) /\ u.pc \in {"batch", "each"}
  BY Zenon, <1>2 DEF Scanning
<1>4. /\ Wanted(u) /\ ~u.first /\ u.query = s.query /\ u.old = s.old /\ Len(u.old) = L
      /\ Len(t.old) = L
  BY Zenon, <1>2 DEF Wanted, ReadUpTo
<1>5. Sound(u) /\ Listing(u.output) /\ \A a : Has(u, a) <=> Has(t, a)
  BY Zenon, <1>2, SameScan DEF ReadUpTo
<1>6. L \in Nat /\ s.index \in 1 .. L
  <2>1. L \in Nat
    BY DEF Wanted, Listing
  <2> QED BY Zenon, <2>1 DEF Going, CandidateAt
<1>7. e \in s.index .. L /\ t.until \in e .. L
  BY Zenon DEF ReadUpTo
<1> HIDE DEF L
<1>8. ASSUME ~u.partial, ~u.truncated, NEW a, NEW j \in 1 .. L, j < e + 1, a = s.old[j].address,
             Untouched(a), Matches(u, a)
      PROVE  Has(u, a)
  <2>1. PICK i \in 1 .. L : s.old[i].address = a /\ MatchNextValue(s.query, s.old[i].current, Value(a))
    BY Zenon, <1>4, <1>8 DEF Matches
  <2>2. i = j
    BY Zenon, <1>8, <2>1, OldUnique DEF L
  <2> QED BY Zenon, <1>2, <1>5, <1>8, <2>1, <2>2 DEF L, ReadUpTo
<1>9. ASSUME e = L PROVE Over(u)
  <2>1. ASSUME ~u.partial, ~u.truncated PROVE CoversAll(u)
    <3> SUFFICES ASSUME NEW a, Matches(u, a), Untouched(a) PROVE Has(u, a)
      BY Zenon DEF CoversAll
    <3>1. PICK j \in 1 .. L : s.old[j].address = a
      BY Zenon, <1>4 DEF Matches
    <3>2. j < e + 1
      BY <1>6, <1>9
    <3> QED BY Zenon, <1>8, <2>1, <3>1, <3>2
  <2> QED BY Zenon, <1>2, <1>5, <2>1 DEF Over, ReadUpTo
<1>10. ASSUME u.truncated PROVE Over(u)
  BY Zenon, <1>2, <1>5, <1>10 DEF Over, ReadUpTo
<1>11. ASSUME ~u.truncated, e # L PROVE Going(u)
  <2>1. e + 1 \in 1 .. L /\ (e # t.until => t.until \in e + 1 .. L)
    BY <1>6, <1>7, <1>11
  <2>2. CandidateAt(u)
    <3>1. u.index \in 1 .. Len(u.old)
      BY Zenon, <1>2, <1>4, <2>1
    <3>2. ASSUME u.pc = "each" PROVE u.until \in u.index .. Len(u.old)
      <4>1. e # t.until
        BY <1>2, <3>2
      <4> QED BY Zenon, <1>2, <1>4, <2>1, <4>1
    <3> QED BY Zenon, <3>1, <3>2 DEF CandidateAt
  <2>3. \A a : Behind(u, a) <=> \E j \in 1 .. L : j < e + 1 /\ s.old[j].address = a
    BY Zenon, <1>2, <1>4 DEF Behind
  <2>4. ~u.partial => Covers(u)
    BY Zenon, <1>8, <1>11, <2>3 DEF Covers
  <2>5. \A i \in 1 .. Len(u.output) : Behind(u, u.output[i].address)
    <3> SUFFICES ASSUME NEW i \in 1 .. Len(u.output) PROVE Behind(u, u.output[i].address)
      BY Zenon
    <3>1. PICK j \in 1 .. L : j < e + 1 /\ u.output[i].address = s.old[j].address
      BY ZenonT(40), <1>2 DEF L, ReadUpTo
    <3> QED BY Zenon, <2>3, <3>1
  <2>6. u.truncated = FALSE /\ Len(u.output) < u.query.max_results
    BY Zenon, <1>2, <1>11 DEF ReadUpTo
  <2> QED BY Zenon, <1>3, <1>4, <1>5, <2>2, <2>4, <2>5, <2>6 DEF Going
<1>12. e = Len(t.old) <=> e = L
  BY Zenon, <1>4
<1>13. u.truncated \/ e = Len(t.old) => Over(u)
  BY Zenon, <1>9, <1>10, <1>12
<1>14. ~(u.truncated \/ e = Len(t.old)) => Going(u)
  BY Zenon, <1>11, <1>12
<1> QED BY Zenon, <1>1, <1>3, <1>4, <1>13, <1>14, ContinueExact

\* A read that found the survivors up to e.
LEMMA SurvivorsExact ==
    ASSUME NEW s, s = scan, Scanning(s), Wanted(s), Going(s), ~s.first,
           NEW e \in s.index .. Len(s.old),
           NEW t, Scanning(t), t.until \in e .. Len(s.old),
           \A f \in ScanFields \ {"until"} : t[f] = Emit(s, Survivors(s.index, e))[f]
    PROVE  ReadUpTo(s, e, t)
<1> DEFINE L == Len(s.old)
<1>1. PICK h : h = Survivors(s.index, e)
  BY Zenon
<1>2. Survived(s, e, h)
  BY Zenon, <1>1, SurvivorsHit
<1>3. Listing(s.output) /\ Sound(s) /\ Len(s.output) < s.query.max_results
  BY Zenon DEF Going
<1>4. PICK r : r = Emit(s, h)
  BY Zenon
<1>5. s = [f \in ScanFields |-> s[f]] /\ r = Emit(s, h)
  BY Zenon, <1>4 DEF Scanning
<1>6. Emitted(s, h, r)
  <2>1. NewHits(s, h)
    BY Zenon, <1>2 DEF Survived
  <2>2. Emitted(s, h, Emit(s, h))
    BY Zenon, <1>3, <1>5, <2>1, EmitEffect
  <2> QED BY Zenon, <1>5, <2>2
<1>7. /\ t.first = r.first /\ t.query = r.query /\ t.old = r.old /\ t.output = r.output
      /\ t.partial = r.partial /\ t.truncated = r.truncated
  <2>1. {"first", "query", "old", "output", "partial", "truncated"} \subseteq ScanFields \ {"until"}
    BY DEF ScanFields
  <2>2. \A f \in ScanFields \ {"until"} : t[f] = r[f]
    BY Zenon, <1>4, <1>1
  <2> QED BY Zenon, <2>1, <2>2
<1>8. /\ r.first = s.first /\ r.query = s.query /\ r.old = s.old /\ r.partial = s.partial
  <2>1. {"first", "query", "old", "partial"} \subseteq ScanFields \ {"output", "truncated"}
    BY DEF ScanFields
  <2>2. \A f \in ScanFields \ {"output", "truncated"} : r[f] = s[f]
    BY Zenon, <1>6 DEF Emitted
  <2> QED BY Zenon, <2>1, <2>2
<1>9. Sound(t) /\ Listing(t.output) /\ \A a : Has(t, a) <=> Has(r, a)
  <2>1. Sound(r) /\ Listing(r.output)
    BY Zenon, <1>6 DEF Emitted
  <2> QED BY Zenon, <1>7, <2>1, SameScan
<1>10. L \in Nat /\ s.index \in 1 .. L /\ e \in s.index .. L
  <2>1. L \in Nat
    BY DEF Wanted, Listing
  <2> QED BY Zenon, <2>1 DEF Going, CandidateAt
<1> HIDE DEF L
<1>11. ASSUME NEW i \in 1 .. Len(t.output)
       PROVE  \E j \in 1 .. Len(s.old) : j < e + 1 /\ t.output[i].address = s.old[j].address
  <2>0. i \in 1 .. Len(r.output) /\ t.output[i] = r.output[i]
    BY Zenon, <1>7
  <2>1. CASE \E k \in 1 .. Len(s.output) : r.output[i] = s.output[k]
    <3>1. PICK k \in 1 .. Len(s.output) : r.output[i] = s.output[k]
      BY Zenon, <2>1
    <3>2. PICK j \in 1 .. L : j < s.index /\ s.old[j].address = s.output[k].address
      BY Zenon DEF Going, Behind, L
    <3>3. j < e + 1
      BY <1>10, <3>2
    <3> QED BY Zenon, <2>0, <3>1, <3>2, <3>3 DEF L
  <2>2. CASE \E k \in 1 .. Len(h) : r.output[i] = h[k]
    <3>1. PICK k \in 1 .. Len(h) : r.output[i] = h[k]
      BY Zenon, <2>2
    <3>2. PICK j \in 1 .. Len(s.old) : j < e + 1 /\ h[k].address = s.old[j].address
      BY Zenon, <1>2 DEF Survived
    <3> QED BY Zenon, <2>0, <3>1, <3>2
  <2> QED BY Zenon, <1>6, <2>0, <2>1, <2>2 DEF Emitted
<1>12. ASSUME ~t.partial, ~t.truncated, NEW j \in 1 .. Len(s.old), NEW a, j < e + 1,
              a = s.old[j].address, Untouched(a),
              MatchNextValue(s.query, s.old[j].current, Value(a))
       PROVE  Has(t, a)
  <2>1. CASE j < s.index
    <3>1. Matches(s, a) /\ Behind(s, a)
      BY Zenon, <1>12, <2>1 DEF Matches, Behind
    <3>2. Has(s, a)
      BY Zenon, <1>7, <1>8, <1>12, <3>1 DEF Going, Covers
    <3> QED BY Zenon, <1>6, <1>7, <1>9, <1>12, <3>2 DEF Emitted
  <2>2. CASE ~(j < s.index)
    <3>1. j \in s.index .. e
      <4>1. j \in 1 .. L
        BY Zenon, <1>12 DEF L
      <4> QED BY <1>10, <1>12, <2>2, <4>1
    <3>2. PICK k \in 1 .. Len(h) : h[k].address = a
      BY Zenon, <1>2, <1>12, <3>1 DEF Survived
    <3>3. Has(r, a)
      BY Zenon, <1>6, <1>7, <1>12, <3>2 DEF Emitted
    <3> QED BY Zenon, <1>9, <3>3
  <2> QED BY Zenon, <2>1, <2>2
<1>13. /\ t.truncated \in BOOLEAN /\ Len(t.output) <= t.query.max_results
       /\ ~t.truncated => Len(t.output) < t.query.max_results
  BY Zenon, <1>6, <1>7, <1>8 DEF Emitted
<1> QED BY Zenon, <1>7, <1>8, <1>9, <1>11, <1>12, <1>13 DEF ReadUpTo

\* A batch is a candidate and some of those behind it.
LEMMA BatchEndsAt ==
    ASSUME NEW s, s = scan, Listing(s.old), s.index \in 1 .. Len(s.old)
    PROVE  BatchEnd \in s.index .. Len(s.old)
<1> DEFINE L == Len(s.old)
           T == {e \in s.index .. L : \A j \in s.index + 1 .. e : Joins(j)}
<1>1. L \in Nat
  BY DEF Listing
<1>2. s.index \in 1 .. L
  BY Zenon
<1>3. BatchEnd = Max(T)
  BY Zenon DEF BatchEnd
<1> HIDE DEF L
<1>4. s.index \in Nat /\ s.index \in s.index .. L /\ s.index + 1 .. s.index = {}
  BY <1>1, <1>2
<1>5. T \subseteq s.index .. L /\ T # {}
  BY Zenon, <1>4
<1> HIDE DEF T
<1>6. Max(T) \in T
  BY Zenon, <1>1, <1>4, <1>5, GreatestNumber
<1> QED BY Zenon, <1>3, <1>5, <1>6 DEF L

\* Results below the limit are within it.
LEMMA BelowLimit ==
    ASSUME NEW c, Listing(c), NEW q \in ScanQuery, Len(c) < q.max_results
    PROVE  Len(c) <= q.max_results
<1>1. Len(c) \in Nat
  BY DEF Listing
<1>2. q.max_results \in Limit
  BY Zenon DEF ScanQuery
<1> DEFINE m == q.max_results
           n == Len(c)
<1>3. m \in Nat /\ n \in Nat /\ n < m
  BY Zenon, <1>1, <1>2, ScannerAssumption
<1> HIDE DEF m, n
<1>4. n <= m
  BY <1>3
<1> QED BY Zenon, <1>4 DEF m, n

\* A next scan between two reads.
LEMMA NextScanGoing ==
    ASSUME ScannerInv, ExactInv, scan.pc \in {"batch", "each"}, NEW s, s = scan
    PROVE  Scanning(s) /\ Wanted(s) /\ Going(s) /\ ~s.first /\ CandidateAt(s)
<1>1. Scanning(s)
  <2>1. scan.pc # "idle" /\ scan.pc # "publish" /\ Idle.pc = "idle"
    BY DEF Idle
  <2>2. scan # Idle /\ ~Scanned(scan)
    BY Zenon, <2>1 DEF Scanned
  <2> QED BY Zenon, <2>2 DEF ScannerInv
<1>2. s.pc # "idle" /\ s.pc # "chunk" /\ s.pc \in {"chunk", "batch", "each"}
  OBVIOUS
<1>3. Wanted(s) /\ Going(s)
  BY Zenon, <1>2 DEF ExactInv, Consistent
<1>4. ~s.first /\ CandidateAt(s)
  BY Zenon, <1>2, <1>3 DEF Going
<1> QED BY Zenon, <1>1, <1>3, <1>4

\* A read of a batch, or the decision to read its candidates one by one.
LEMMA BatchExact ==
    ASSUME ScannerInv, ExactInv, ReadBatch
    PROVE  ExactInv'
<1>1. PICK s : s = scan
  BY Zenon
<1>2. Scanning(s) /\ Wanted(s) /\ Going(s) /\ ~s.first /\ CandidateAt(s) /\ s.pc = "batch"
  <2>1. scan.pc = "batch" /\ scan.pc \in {"batch", "each"}
    BY DEF ReadBatch
  <2> QED BY Zenon, <1>1, <2>1, NextScanGoing
<1>3. PICK e : e = BatchEnd
  BY Zenon
<1>4. e \in s.index .. Len(s.old)
  BY Zenon, <1>1, <1>2, <1>3, BatchEndsAt DEF Wanted, CandidateAt
<1>5. e \in e .. Len(s.old) /\ Len(s.old) \in Nat
  <2> DEFINE L == Len(s.old)
  <2>1. L \in Nat
    BY <1>2 DEF Wanted, Listing
  <2>2. s.index \in 1 .. L /\ e \in s.index .. L
    BY Zenon, <1>2, <1>4 DEF CandidateAt
  <2> HIDE DEF L
  <2>3. e \in e .. L /\ L \in Nat
    BY <2>1, <2>2
  <2> QED BY Zenon, <2>3 DEF L
<1>6. UNCHANGED <<bytes, moved>>
  BY Zenon DEF ReadBatch, workerFrame, memory
<1>7. CASE Past([Emit(s, Survivors(s.index, e)) EXCEPT !.until = e], e)
  <2>1. PICK r : r = Emit(s, Survivors(s.index, e))
    BY Zenon
  <2>2. Scanning(r)
    BY Zenon, <1>2, <2>1, EmitScanning
  <2> DEFINE t == [r EXCEPT !.until = e]
  <2>3. Past(t, e)
    BY Zenon, <1>7, <2>1
  <2>4. Scanning(t) /\ t.until = e /\ \A f \in ScanFields \ {"until"} : t[f] = r[f]
    BY Zenon, <2>2 DEF Scanning, ScanFields
  <2> HIDE DEF t
  <2>5. ReadUpTo(s, e, t)
    BY Zenon, <1>1, <1>2, <1>4, <1>5, <2>1, <2>4, SurvivorsExact
  <2> QED BY Zenon, <1>1, <1>2, <1>4, <1>6, <2>3, <2>5, PastExact
<1>8. CASE scan' = [s EXCEPT !.pc = "each", !.until = e] /\ UNCHANGED scanner
  <2> DEFINE t == [s EXCEPT !.pc = "each", !.until = e]
  <2>1. /\ Scanning(t) /\ t.pc = "each" /\ t.until = e /\ t.index = s.index
        /\ t.first = s.first /\ t.query = s.query /\ t.old = s.old /\ t.output = s.output
        /\ t.partial = s.partial /\ t.truncated = s.truncated
    BY Zenon, <1>2 DEF Scanning, ScanFields
  <2> HIDE DEF t
  <2>2. Sound(t) /\ (\A a : Has(t, a) <=> Has(s, a)) /\ (\A a : Matches(t, a) <=> Matches(s, a))
    BY Zenon, <1>2, <2>1, SameScan DEF Going
  <2>3. \A a : Behind(t, a) <=> Behind(s, a)
    BY Zenon, <1>2, <2>1 DEF Behind
  <2>4. Covers(s) => Covers(t)
    BY Zenon, <2>2, <2>3 DEF Covers
  <2>5. CandidateAt(t) /\ t.pc \in {"batch", "each"}
    BY Zenon, <1>2, <1>4, <2>1 DEF CandidateAt
  <2>6. Going(t) /\ Wanted(t)
    BY Zenon, <1>2, <2>1, <2>2, <2>3, <2>4, <2>5 DEF Going, Wanted
  <2>7. Continue(t, FALSE)
    BY Zenon, <1>2, <1>8, <2>1 DEF Continue, Going, t
  <2> QED BY Zenon, <1>2, <1>6, <2>1, <2>6, <2>7, ContinueExact DEF Going
<1> QED BY Zenon, <1>1, <1>3, <1>7, <1>8 DEF ReadBatch

\* A read of one candidate; one that fails leaves the scan partial.
LEMMA CandidateExact ==
    ASSUME ScannerInv, ExactInv, ReadCandidate
    PROVE  ExactInv'
<1>1. PICK s : s = scan
  BY Zenon
<1>2. Scanning(s) /\ Wanted(s) /\ Going(s) /\ ~s.first /\ CandidateAt(s) /\ s.pc = "each"
  <2>1. scan.pc = "each" /\ scan.pc \in {"batch", "each"}
    BY DEF ReadCandidate
  <2> QED BY Zenon, <1>1, <2>1, NextScanGoing
<1>3. PICK e : e = s.index
  BY Zenon
<1>4. e \in s.index .. Len(s.old) /\ s.until \in e .. Len(s.old)
  <2> DEFINE L == Len(s.old)
  <2>1. L \in Nat
    BY <1>2 DEF Wanted, Listing
  <2>2. s.index \in 1 .. L /\ s.until \in s.index .. L
    BY Zenon, <1>2 DEF CandidateAt
  <2> HIDE DEF L
  <2>3. s.index \in s.index .. L
    BY <2>1, <2>2
  <2> QED BY Zenon, <1>3, <2>2, <2>3 DEF L
<1>5. UNCHANGED <<bytes, moved>>
  BY Zenon DEF ReadCandidate, workerFrame, memory
<1>6. CASE Past(Emit(s, Survivors(s.index, e)), e)
  <2>1. PICK t : t = Emit(s, Survivors(s.index, e))
    BY Zenon
  <2>2. Scanning(t)
    BY Zenon, <1>2, <2>1, EmitScanning
  <2>3. Past(t, e)
    BY Zenon, <1>6, <2>1
  <2>4. t.until = s.until
    BY Zenon, <1>2, <2>1 DEF Emit, Scanning, ScanFields
  <2>5. \A f \in ScanFields \ {"until"} : t[f] = Emit(s, Survivors(s.index, e))[f]
    BY Zenon, <2>1
  <2>6. ReadUpTo(s, e, t)
    BY Zenon, <1>1, <1>2, <1>4, <2>2, <2>4, <2>5, SurvivorsExact
  <2> QED BY Zenon, <1>1, <1>2, <1>4, <1>5, <2>3, <2>6, PastExact
<1>7. CASE Past([s EXCEPT !.partial = TRUE], e)
  <2> DEFINE t == [s EXCEPT !.partial = TRUE]
  <2>1. /\ Scanning(t) /\ t.partial = TRUE /\ t.until = s.until
        /\ t.first = s.first /\ t.query = s.query /\ t.old = s.old /\ t.output = s.output
        /\ t.truncated = s.truncated
    BY Zenon, <1>2 DEF Scanning, ScanFields
  <2> HIDE DEF t
  <2>2. Sound(t)
    BY Zenon, <1>2, <2>1, SameScan DEF Going
  <2>3. ASSUME NEW i \in 1 .. Len(t.output)
        PROVE  \E j \in 1 .. Len(s.old) : j < e + 1 /\ t.output[i].address = s.old[j].address
    <3>1. i \in 1 .. Len(s.output) /\ t.output[i] = s.output[i]
      BY Zenon, <2>1
    <3>2. PICK j \in 1 .. Len(s.old) : j < s.index /\ s.old[j].address = s.output[i].address
      BY Zenon, <1>2, <3>1 DEF Going, Behind
    <3>3. j < e + 1
      <4> DEFINE L == Len(s.old)
      <4>1. L \in Nat
        BY <1>2 DEF Wanted, Listing
      <4>2. s.index \in 1 .. L /\ j \in 1 .. L
        BY Zenon, <1>2 DEF CandidateAt
      <4> HIDE DEF L
      <4> QED BY <1>3, <3>2, <4>1, <4>2
    <3> QED BY Zenon, <3>1, <3>2, <3>3
  <2>4. /\ Listing(t.output) /\ t.truncated = FALSE /\ t.truncated \in BOOLEAN
        /\ Len(t.output) < t.query.max_results
    BY Zenon, <1>2, <2>1 DEF Going
  <2>5. Len(t.output) <= t.query.max_results
    BY Zenon, <1>2, <2>1, <2>4, BelowLimit DEF Wanted
  <2>6. ReadUpTo(s, e, t)
    BY Zenon, <1>4, <2>1, <2>2, <2>3, <2>4, <2>5 DEF ReadUpTo
  <2>7. Past(t, e)
    BY Zenon, <1>7 DEF t
  <2> QED BY Zenon, <1>1, <1>2, <1>4, <1>5, <2>6, <2>7, PastExact
<1> QED BY Zenon, <1>1, <1>3, <1>6, <1>7 DEF ReadCandidate

-----------------------------------------------------------------------------
(* The first scan. *)

\* Where an address lies, seen from a region.
LEMMA AroundRegion ==
    ASSUME NEW i \in 1 .. Len(Allowed), NEW j \in 1 .. Len(Allowed), NEW a, InRegion(j, a)
    PROVE  /\ a \in Nat
           /\ i < j => Allowed[i].base + Allowed[i].size <= a
           /\ j < i => a + Width <= Allowed[i].base
           /\ j = i => Allowed[i].base <= a /\ a + Width <= Allowed[i].base + Allowed[i].size
<1> DEFINE b == Allowed[i].base
           z == Allowed[i].size
           c == Allowed[j].base
           y == Allowed[j].size
<1>1. b \in Nat /\ z \in Nat /\ c \in Nat /\ y \in Nat
  BY Zenon, AllowedRegions
<1>2. (i < j => b + z <= c) /\ (j < i => c + y <= b) /\ (j = i => b = c /\ z = y)
  BY Zenon, AllowedRegions
<1>3. a \in c .. c + y - Width /\ Width \in Nat
  BY Zenon, ScannerAssumption DEF InRegion
<1> HIDE DEF b, z, c, y
<1>4. /\ a \in Nat
      /\ i < j => b + z <= a
      /\ j < i => a + Width <= b
      /\ j = i => b <= a /\ a + Width <= b + z
  BY <1>1, <1>2, <1>3
<1> QED BY Zenon, <1>4 DEF b, z

\* The scan s with a read of the bytes up to p added to it.
ChunkRead(s, p, t) ==
    /\ Scanning(t)
    /\ t.first = s.first /\ t.query = s.query /\ t.old = s.old
    /\ t.pc = s.pc /\ t.region = s.region /\ t.cursor = s.cursor
    /\ CarryAt(t.carry, Allowed[t.region].base, t.partial, p)
    /\ Listing(t.output) /\ Sound(t) /\ t.truncated \in BOOLEAN
    /\ Len(t.output) <= t.query.max_results
    /\ ~t.truncated => Len(t.output) < t.query.max_results
    /\ \A i \in 1 .. Len(t.output) : t.output[i].address + Width <= p
    /\ ~t.partial /\ ~t.truncated =>
         \A a : Matches(s, a) /\ Untouched(a) /\ a + Width <= p => Has(t, a)

\* Moved on by n bytes, or to the next region.
Advanced(s, n, u) ==
    /\ Scanning(u)
    /\ u.first = s.first /\ u.query = s.query /\ u.old = s.old /\ u.output = s.output
    /\ u.partial = s.partial /\ u.truncated = s.truncated /\ u.pc = s.pc
    /\ s.cursor + n < Allowed[s.region].base + Allowed[s.region].size
         => u.region = s.region /\ u.cursor = s.cursor + n /\ u.carry = s.carry
    /\ ~(s.cursor + n < Allowed[s.region].base + Allowed[s.region].size)
         => /\ u.region = s.region + 1 /\ u.carry = <<>>
            /\ s.region # Len(Allowed) => u.cursor = Allowed[s.region + 1].base

\* The chunk after a read, or the first one of the next region.
LEMMA AdvanceTo ==
    ASSUME NEW s, Scanning(s), NEW n
    PROVE  Advanced(s, n, Advance(s, n))
BY Zenon DEF Advanced, Advance, Scanning, ScanFields

\* After a read the scan goes on in its region, in the next one, or is over.
LEMMA AdvanceExact ==
    ASSUME ExactInv, NEW s, Wanted(s), Going(s), s.first, NEW n \in Nat,
           s.cursor + n <= Allowed[s.region].base + Allowed[s.region].size,
           NEW t, ChunkRead(s, s.cursor + n, t),
           Continue(Advance(t, n), Advance(t, n).region > Len(Allowed)),
           UNCHANGED <<bytes, moved>>
    PROVE  ExactInv'
<1>1. PICK u : u = Advance(t, n)
  BY Zenon
<1>2. Advanced(t, n, u)
  BY Zenon, <1>1, AdvanceTo DEF ChunkRead
<1>3. Continue(u, u.region > Len(Allowed))
  BY Zenon, <1>1
<1> DEFINE p == s.cursor + n
           g == s.region
           b == Allowed[g].base
           z == Allowed[g].size
           N == Len(Allowed)
<1>4. /\ Scanning(u) /\ u.first = s.first /\ u.query = s.query /\ u.old = s.old
      /\ u.output = t.output /\ u.partial = t.partial /\ u.truncated = t.truncated
      /\ u.pc = s.pc
  BY Zenon, <1>2 DEF Advanced, ChunkRead
<1>5. Wanted(u) /\ u.pc = "chunk"
  BY Zenon, <1>4 DEF Wanted, Going
<1>6. Sound(u) /\ Listing(u.output) /\ \A a : Has(u, a) <=> Has(t, a)
  <2>1. u.first = t.first /\ u.query = t.query /\ u.old = t.old
    BY Zenon, <1>4 DEF ChunkRead
  <2> QED BY Zenon, <1>4, <2>1, SameScan DEF ChunkRead
<1>7. \A a : Matches(u, a) <=> Matches(s, a)
  BY Zenon, <1>4 DEF Matches
<1>8. /\ g \in 1 .. N /\ N \in Nat /\ s.cursor \in Nat /\ b \in Nat /\ z \in Nat
      /\ b <= s.cursor /\ s.cursor < b + z /\ p <= b + z
  BY Zenon, AllowedRegions DEF Going, ChunkAt
<1>9. /\ t.cursor + n = p /\ t.region = g
  BY Zenon DEF ChunkRead
<1>10. p \in Nat
  <2> HIDE DEF g, b, z, N
  <2> QED BY <1>8
<1>11. /\ Len(u.output) <= u.query.max_results
       /\ u.truncated \in BOOLEAN
       /\ ~u.truncated => Len(u.output) < u.query.max_results
  BY Zenon, <1>4 DEF ChunkRead
<1>12. ASSUME NEW i \in 1 .. Len(u.output)
       PROVE  u.output[i].address + Width <= p /\ u.output[i].address \in Nat
  <2>1. i \in 1 .. Len(t.output) /\ u.output[i] = t.output[i]
    BY Zenon, <1>4
  <2> QED BY Zenon, <2>1 DEF ChunkRead, Listing, Whole
<1>13. ASSUME ~u.partial, ~u.truncated, NEW a, Matches(s, a), Untouched(a), a + Width <= p
       PROVE  Has(u, a)
  BY Zenon, <1>4, <1>6, <1>13 DEF ChunkRead
<1>14. ASSUME NEW a, Matches(s, a)
       PROVE  a \in Nat /\ \E j \in 1 .. N : InRegion(j, a)
  <2>1. PICK j \in 1 .. N : InRegion(j, a)
    BY Zenon, <1>14 DEF Matches, Looked
  <2> QED BY Zenon, <2>1, AroundRegion
<1>15. Width \in Nat
  BY ScannerAssumption
<1> HIDE DEF p, g, b, z, N
<1>16. CASE p < b + z
  <2>1. u.region = g /\ u.cursor = p /\ u.carry = t.carry
    BY Zenon, <1>2, <1>9, <1>16 DEF Advanced, b, z
  <2>2. \A a : Behind(u, a) <=> a + Width <= p
    BY Zenon, <1>4, <2>1 DEF Behind
  <2>3. ~u.partial /\ ~u.truncated => Covers(u)
    BY Zenon, <1>7, <1>13, <2>2 DEF Covers
  <2>4. CarryAt(u.carry, b, u.partial, p)
    <3>1. CarryAt(t.carry, Allowed[t.region].base, t.partial, p)
      BY Zenon DEF ChunkRead, p
    <3>2. CarryAt(t.carry, b, t.partial, p)
      BY Zenon, <1>9, <3>1 DEF b
    <3> QED BY Zenon, <1>4, <2>1, <3>2
  <2>5. b <= p /\ ~(g > N)
    BY <1>8 DEF p
  <2>6. ChunkAt(u)
    BY Zenon, <1>8, <1>10, <1>16, <2>1, <2>4, <2>5 DEF ChunkAt, b, z, N
  <2>7. ~u.truncated => Going(u)
    BY Zenon, <1>4, <1>5, <1>6, <1>11, <1>12, <2>2, <2>3, <2>6 DEF Going
  <2>8. u.truncated => Over(u)
    BY Zenon, <1>6, <1>11 DEF Over
  <2> QED BY Zenon, <1>3, <1>4, <1>5, <2>1, <2>5, <2>7, <2>8, ContinueExact DEF N
<1>17. CASE ~(p < b + z)
  <2>1. u.region = g + 1 /\ u.carry = <<>> /\ (g # N => u.cursor = Allowed[g + 1].base)
    BY Zenon, <1>2, <1>9, <1>17 DEF Advanced, b, z, N
  <2>2. p = b + z
    BY <1>8, <1>10, <1>17
  <2>3. ASSUME NEW a, NEW j \in 1 .. N, InRegion(j, a), j <= g PROVE a + Width <= p
    <3>1. CASE j = g
      BY Zenon, <1>8, <2>2, <2>3, <3>1, AroundRegion DEF b, z, N
    <3>2. CASE j < g
      <4>1. a + Width <= b /\ a \in Nat
        BY Zenon, <1>8, <2>3, <3>2, AroundRegion DEF b, N
      <4> QED BY <1>8, <1>15, <2>2, <4>1
    <3> QED BY <1>8, <2>3, <3>1, <3>2
  <2>4. CASE g = N
    <3>1. u.region > N
      BY <1>8, <2>1, <2>4
    <3>2. ~u.partial /\ ~u.truncated => CoversAll(u)
      <4> SUFFICES ASSUME ~u.partial, ~u.truncated, NEW a, Matches(u, a), Untouched(a)
                   PROVE  Has(u, a)
        BY Zenon DEF CoversAll
      <4>1. PICK j \in 1 .. N : InRegion(j, a)
        BY Zenon, <1>7, <1>14
      <4>2. j <= g
        BY <1>8, <2>4
      <4> QED BY Zenon, <1>7, <1>13, <2>3, <4>1, <4>2
    <3>3. Over(u)
      BY Zenon, <1>6, <1>11, <3>2 DEF Over
    <3> QED BY Zenon, <1>3, <1>4, <1>5, <3>1, <3>3, ContinueExact DEF N
  <2>5. CASE g # N
    <3>1. g + 1 \in 1 .. N /\ g < g + 1 /\ ~(g + 1 > N)
      BY <1>8, <2>5
    <3> DEFINE c == Allowed[g + 1].base
               y == Allowed[g + 1].size
    <3>2. c \in Nat /\ y \in Nat /\ y > 0 /\ b + z <= c
      BY Zenon, <1>8, <3>1, AllowedRegions DEF b, z, N
    <3>3. u.cursor = c
      BY Zenon, <2>1, <2>5
    <3> HIDE DEF c, y
    <3>4. \A a : Behind(u, a) <=> a + Width <= c
      BY Zenon, <1>4, <3>3 DEF Behind
    <3>5. ASSUME NEW i \in 1 .. Len(u.output) PROVE Behind(u, u.output[i].address)
      <4>1. \A a \in Nat : a + Width <= p => a + Width <= c
        BY <1>10, <1>15, <2>2, <3>2
      <4> QED BY Zenon, <1>12, <3>4, <4>1
    <3>6. ~u.partial /\ ~u.truncated => Covers(u)
      <4> SUFFICES ASSUME ~u.partial, ~u.truncated, NEW a, Matches(u, a), Untouched(a), Behind(u, a)
                   PROVE  Has(u, a)
        BY Zenon DEF Covers
      <4>1. PICK j \in 1 .. N : InRegion(j, a)
        BY Zenon, <1>7, <1>14
      <4>2. a \in Nat /\ a + Width <= c
        BY Zenon, <1>7, <1>14, <3>4
      <4>3. j <= g
        <5>1. ~(g + 1 < j) /\ j # g + 1
          <6>1. Width > 0
            BY ScannerAssumption
          <6>2. ~(c <= a)
            BY <1>15, <3>2, <4>2, <6>1
          <6>3. g + 1 < j => c + y <= a
            BY Zenon, <3>1, <4>1, AroundRegion DEF c, y, N
          <6>4. j = g + 1 => c <= a
            BY Zenon, <3>1, <4>1, AroundRegion DEF c, y, N
          <6>5. ~(c + y <= a)
            BY <3>2, <4>2, <6>2
          <6> QED BY Zenon, <6>2, <6>3, <6>4, <6>5
        <5> QED BY <1>8, <5>1
      <4> QED BY Zenon, <1>7, <1>13, <2>3, <4>1, <4>3
    <3>7. ChunkAt(u)
      <4>1. CarryAt(u.carry, c, u.partial, c)
        <5>1. Len(<<>>) = 0 /\ <<>> \in Seq({}) /\ 1 .. 0 = {}
          OBVIOUS
        <5>2. Overlap \in Nat /\ 0 <= Overlap
          BY ScannerAssumption DEF Overlap
        <5>3. c - c = 0 /\ 0 <= c - c
          BY <3>2
        <5>4. u.carry = <<>>
          BY Zenon, <2>1
        <5> QED BY Zenon, <5>1, <5>2, <5>3, <5>4 DEF CarryAt
      <4>2. c <= c /\ c < c + y
        BY <3>2
      <4> QED BY Zenon, <2>1, <3>1, <3>2, <3>3, <4>1, <4>2 DEF ChunkAt, c, y, N
    <3>8. ~u.truncated => Going(u)
      BY Zenon, <1>4, <1>5, <1>6, <1>11, <3>5, <3>6, <3>7 DEF Going
    <3>9. u.truncated => Over(u)
      BY Zenon, <1>6, <1>11 DEF Over
    <3> QED BY Zenon, <1>3, <1>4, <1>5, <2>1, <3>1, <3>8, <3>9, ContinueExact DEF N
  <2> QED BY Zenon, <2>4, <2>5
<1> QED BY Zenon, <1>16, <1>17

\* The bytes w were read at the address a, or are those the target has stored to.
ReadFrom(w, a) ==
    /\ \E T : w \in Seq(T)
    /\ \A k \in 1 .. Len(w) : \A x : x = a + (k - 1) /\ x \notin moved => w[k] = bytes[x]

\* The sequence x with the n elements of y behind it.
Follows(w, x, y, n) ==
    /\ \E R : w \in Seq(R)
    /\ Len(w) = Len(x) + n /\ Len(x) \in Nat
    /\ \A k \in 1 .. Len(x) : w[k] = x[k]
    /\ \A k \in Len(x) + 1 .. Len(x) + n : w[k] = y[k - Len(x)]

\* Two sequences, one behind the other.
LEMMA OneBehindOther ==
    ASSUME NEW S, NEW x \in Seq(S), NEW n \in Nat, NEW T, NEW y \in [1 .. n -> T]
    PROVE  Follows(x \o y, x, y, n)
<1>1. y \in Seq(T) /\ Len(y) = n
  OBVIOUS
<1>2. x \in Seq(S \cup T) /\ y \in Seq(S \cup T)
  BY <1>1
<1>3. x \o y \in Seq(S \cup T)
  BY <1>2
<1>4. /\ Len(x \o y) = Len(x) + n /\ Len(x) \in Nat
      /\ \A k \in 1 .. Len(x) : (x \o y)[k] = x[k]
      /\ \A k \in Len(x) + 1 .. Len(x) + n : (x \o y)[k] = y[k - Len(x)]
  BY <1>1, <1>2
<1> QED BY Zenon, <1>3, <1>4 DEF Follows

\* What is carried and what is read after it are one piece of memory.
LEMMA ReadBehind ==
    ASSUME NEW carry, NEW b \in Nat, NEW partial, NEW c \in Nat, CarryAt(carry, b, partial, c),
           NEW n \in Nat
    PROVE  /\ ReadFrom(carry \o [i \in 1 .. n |-> bytes[c + i - 1]], c - Len(carry))
           /\ Len(carry \o [i \in 1 .. n |-> bytes[c + i - 1]]) = Len(carry) + n
           /\ Len(carry) \in Nat
<1>1. PICK S : carry \in Seq(S)
  BY Zenon DEF CarryAt
<1> DEFINE y == [i \in 1 .. n |-> bytes[c + i - 1]]
           T == {bytes[c + i - 1] : i \in 1 .. n}
           C == Len(carry)
           w == carry \o y
<1>2. y \in [1 .. n -> T]
  BY Zenon
<1>3. \A i \in 1 .. n : y[i] = bytes[c + i - 1]
  BY Zenon
<1> HIDE DEF y, T
<1>4. /\ \E R : w \in Seq(R)
      /\ Len(w) = C + n /\ C \in Nat
      /\ \A k \in 1 .. C : w[k] = carry[k]
      /\ \A k \in C + 1 .. C + n : w[k] = y[k - C]
  <2>1. Follows(w, carry, y, n)
    BY Zenon, <1>1, <1>2, OneBehindOther
  <2> QED BY Zenon, <2>1 DEF Follows
<1>5. \A k \in 1 .. C : \A x : x = (c - C) + (k - 1) /\ x \notin moved => carry[k] = bytes[x]
  BY Zenon DEF CarryAt
<1> HIDE DEF w, C
<1>6. ASSUME NEW k \in 1 .. C + n, NEW x, x = (c - C) + (k - 1), x \notin moved
      PROVE  w[k] = bytes[x]
  <2>1. CASE k \in 1 .. C
    BY Zenon, <1>4, <1>5, <1>6, <2>1
  <2>2. CASE k \in C + 1 .. C + n
    <3>1. k - C \in 1 .. n /\ c + (k - C) - 1 = x
      BY <1>4, <1>6, <2>2
    <3> QED BY Zenon, <1>3, <1>4, <2>2, <3>1
  <2>3. k \in 1 .. C \/ k \in C + 1 .. C + n
    BY <1>4
  <2> QED BY Zenon, <2>1, <2>2, <2>3
<1>7. ReadFrom(w, c - C) /\ Len(w) = C + n /\ C \in Nat
  BY Zenon, <1>4, <1>6 DEF ReadFrom
<1> QED BY Zenon, <1>7 DEF w, C, y

\* A value decoded from them is the one in memory.
LEMMA LoadValue ==
    ASSUME NEW w, NEW a \in Nat, ReadFrom(w, a), NEW o \in Nat, o + Width <= Len(w),
           Untouched(a + o)
    PROVE  Load(w, o + 1) = Value(a + o)
<1> DEFINE l == Len(w)
           d == [k \in 1 .. Width |-> bytes[(a + o) + k - 1]]
<1>1. l \in Nat /\ Width \in Nat /\ o + Width <= l
  BY ScannerAssumption DEF ReadFrom
<1>2. \A k \in 1 .. l : \A x : x = a + (k - 1) /\ x \notin moved => w[k] = bytes[x]
  BY Zenon DEF ReadFrom
<1>3. \A x \in a + o .. a + o + Width - 1 : x \notin moved
  BY Zenon DEF Untouched, Span
<1> HIDE DEF l
<1>4. ASSUME NEW k \in 0 .. Width - 1
      PROVE  w[(o + 1) + k] = d[1 + k]
  <2>1. /\ (o + 1) + k \in 1 .. l /\ 1 + k \in 1 .. Width
        /\ a + (((o + 1) + k) - 1) = (a + o) + (1 + k) - 1
        /\ (a + o) + (1 + k) - 1 \in a + o .. a + o + Width - 1
    BY <1>1
  <2>2. d[1 + k] = bytes[(a + o) + (1 + k) - 1]
    BY Zenon, <2>1
  <2> HIDE DEF d
  <2> QED BY Zenon, <1>2, <1>3, <2>1, <2>2
<1>5. [k \in 0 .. Width - 1 |-> w[(o + 1) + k]] = [k \in 0 .. Width - 1 |-> d[1 + k]]
  <2> HIDE DEF d
  <2> QED BY Zenon, <1>4
<1> QED BY Zenon, <1>5 DEF Load, Value

\* The end of a sequence.
LEMMA EndOf ==
    ASSUME NEW T, NEW w \in Seq(T), NEW v \in 0 .. Len(w)
    PROVE  /\ SubSeq(w, Len(w) - v + 1, Len(w)) \in Seq(T)
           /\ Len(SubSeq(w, Len(w) - v + 1, Len(w))) = v
           /\ \A k \in 1 .. v : SubSeq(w, Len(w) - v + 1, Len(w))[k] = w[(Len(w) - v) + k]
OBVIOUS

\* The end of the bytes read is what the next chunk has to carry.
LEMMA CarryOver ==
    ASSUME NEW carry, NEW b \in Nat, NEW partial, NEW c \in Nat, b <= c,
           CarryAt(carry, b, partial, c), NEW n \in Nat,
           NEW w, ReadFrom(w, c - Len(carry)), Len(w) = Len(carry) + n
    PROVE  CarryAt(SubSeq(w, Len(w) - Min({Overlap, Len(w)}) + 1, Len(w)), b, partial, c + n)
<1>1. PICK T : w \in Seq(T)
  BY Zenon DEF ReadFrom
<1> DEFINE C == Len(carry)
           l == Len(w)
           v == Min({Overlap, l})
           z == SubSeq(w, l - v + 1, l)
<1>2. /\ C <= Overlap /\ C <= c - b /\ l = C + n
      /\ ~partial => C = Overlap \/ C = c - b
  BY Zenon DEF CarryAt
<1>3. C \in Nat /\ l \in Nat
  <2>1. C \in Nat
    BY DEF CarryAt
  <2>2. l \in Nat
    BY <1>1
  <2> QED BY Zenon, <2>1, <2>2
<1>4. Overlap \in Nat
  BY ScannerAssumption DEF Overlap
<1>5. v = IF Overlap <= l THEN Overlap ELSE l
  <2> HIDE DEF l
  <2> QED BY Zenon, <1>3, <1>4, SmallerOf
<1>6. v \in 0 .. l
  <2> HIDE DEF v, l
  <2> QED BY <1>3, <1>4, <1>5
<1>7. z \in Seq(T) /\ Len(z) = v /\ \A k \in 1 .. v : z[k] = w[(l - v) + k]
  <2> HIDE DEF v
  <2> QED BY Zenon, <1>1, <1>6, EndOf
<1>8. \A k \in 1 .. l : \A x : x = (c - C) + (k - 1) /\ x \notin moved => w[k] = bytes[x]
  BY Zenon DEF ReadFrom
<1> HIDE DEF z, v, l, C
<1>9. /\ v <= Overlap /\ v <= (c + n) - b
      /\ ~partial => v = Overlap \/ v = (c + n) - b
  BY <1>2, <1>3, <1>4, <1>5
<1>10. ASSUME NEW k \in 1 .. v, NEW x, x = ((c + n) - v) + (k - 1), x \notin moved
       PROVE  z[k] = bytes[x]
  <2>1. (l - v) + k \in 1 .. l /\ x = (c - C) + (((l - v) + k) - 1)
    BY <1>2, <1>3, <1>6, <1>10
  <2> QED BY Zenon, <1>7, <1>8, <1>10, <2>1
<1>11. CarryAt(z, b, partial, c + n)
  BY Zenon, <1>7, <1>9, <1>10 DEF CarryAt
<1> QED BY Zenon, <1>11 DEF z, v, l

\* A match that a read up to p has to find.
Sought(s, p, a) ==
    /\ InRegion(s.region, a) /\ a % s.query.alignment = 0
    /\ MatchInitialValue(s.query, Value(a)) /\ Untouched(a)
    /\ s.cursor < a + Width /\ a + Width <= p

\* The values found in the bytes up to p: new hits, and all that match.
HitsIn(s, p, hits) ==
    /\ NewHits(s, hits)
    /\ \A k \in 1 .. Len(hits) : hits[k].address + Width <= p
    /\ ~s.partial => \A a : Sought(s, p, a) =>
                              \E k \in 1 .. Len(hits) : hits[k].address = a

\* A read of n bytes at c, in the region at b of size z: l bytes from a on are known,
\* the first d of them were carried, and a value has m bytes.
Laid(a, b, z, c, d, l, m, n) ==
    /\ {a, b, z, c, d, l, m, n} \subseteq Nat
    /\ b <= a /\ a + d = c /\ a + l = c + n /\ c + n <= b + z

\* A value that ends in the bytes just read is in the region ...
LEMMA OffsetInside ==
    ASSUME NEW a, NEW b, NEW z, NEW c, NEW d, NEW l, NEW m, NEW n, Laid(a, b, z, c, d, l, m, n),
           NEW o \in Nat, o + m <= l, o + m > d
    PROVE  /\ a + o \in Nat /\ a + o \in b .. b + z - m
           /\ c < (a + o) + m /\ (a + o) + m <= c + n
BY DEF Laid

\* The loop comes to the value at x.
OffsetFound(a, b, z, d, l, m, x) ==
    \E o \in Nat : a + o = x /\ o + m <= l /\ o + m > d /\ a + o + m <= b + z

\* ... and each one of the region is found at its offset, if enough was carried.
LEMMA OffsetOf ==
    ASSUME NEW a, NEW b, NEW z, NEW c, NEW d, NEW l, NEW m, NEW n, Laid(a, b, z, c, d, l, m, n),
           d = m - 1 \/ a = b,
           NEW x \in b .. b + z - m, c < x + m, x + m <= c + n
    PROVE  OffsetFound(a, b, z, d, l, m, x)
<1>1. /\ x - a \in Nat /\ a + (x - a) = x /\ (x - a) + m <= l /\ (x - a) + m > d
      /\ a + (x - a) + m <= b + z
  BY DEF Laid
<1> QED BY Zenon, <1>1 DEF OffsetFound

\* The loop over a chunk finds each value that ends in the bytes just read.
LEMMA HitsFound ==
    ASSUME NEW s, s = scan, Wanted(s), Going(s), s.first, NEW n \in Nat,
           s.cursor + n <= Allowed[s.region].base + Allowed[s.region].size,
           NEW w, ReadFrom(w, s.cursor - Len(s.carry)), Len(w) = Len(s.carry) + n
    PROVE  HitsIn(s, s.cursor + n, Hits(w, s.cursor - Len(s.carry), Allowed[s.region]))
<1> DEFINE g == s.region
           c == s.cursor
           C == Len(s.carry)
           A == c - C
           b == Allowed[g].base
           z == Allowed[g].size
           al == s.query.alignment
           first == FirstOffset(al, A)
           l == Len(w)
           O == {o \in first .. l - Width :
                   /\ (o - first) % al = 0
                   /\ A + o + Width <= b + z
                   /\ s.carry # <<>> => o + Width > C
                   /\ MatchInitialValue(s.query, Load(w, o + 1))}
           J == {o + 1 : o \in O}
           hit == Collected(J, l)
           Hit(j) == [address |-> A + j - 1, current |-> Load(w, j)]
<1>0. PICK hits : hits = Hits(w, A, Allowed[g])
  BY Zenon
<1>1. hits = [k \in DOMAIN hit |-> Hit(hit[k])]
  BY ZenonT(40), <1>0 DEF Hits, FirstOffset
<1>2. ChunkAt(s) /\ CarryAt(s.carry, b, s.partial, c)
  BY Zenon DEF Going, ChunkAt
<1>3. /\ g \in 1 .. Len(Allowed) /\ c \in Nat /\ b \in Nat /\ z \in Nat
      /\ b <= c /\ c < b + z /\ c + n <= b + z
  BY Zenon, <1>2, AllowedRegions DEF ChunkAt
<1>4. C \in Nat /\ (s.carry = <<>> => C = 0)
  BY <1>2 DEF CarryAt
<1>5. /\ C <= c - b /\ l = C + n
      /\ ~s.partial => C = Overlap \/ C = c - b
  BY Zenon, <1>2 DEF CarryAt
<1>6. Width \in Nat /\ Width > 0 /\ Overlap = Width - 1
  BY ScannerAssumption DEF Overlap
<1>7. al \in Nat \ {0}
  <2>1. al \in Alignment
    BY Zenon DEF Wanted, ScanQuery
  <2> HIDE DEF al
  <2> QED BY Zenon, <2>1, ScannerAssumption
<1>8. ReadFrom(w, A)
  BY Zenon
<1> HIDE DEF g, c, C, b, z, al, l
<1>9. A \in Nat /\ b <= A /\ l \in Nat /\ A + l = c + n /\ A + C = c
  BY <1>3, <1>4, <1>5
<1> HIDE DEF A
<1>10. \A o \in Nat : /\ first \in Nat
                      /\ o >= first /\ (o - first) % al = 0 <=> (A + o) % al = 0
  <2>1. \A o \in Nat : /\ first \in 0 .. al - 1
                       /\ o >= first /\ (o - first) % al = 0 <=> (A + o) % al = 0
    BY Zenon, <1>7, <1>9, AlignedOffsets
  <2>2. \A x \in 0 .. al - 1 : x \in Nat
    BY <1>7
  <2> QED BY Zenon, <2>1, <2>2
<1>11. first \in Nat
  <2>1. 0 \in Nat
    OBVIOUS
  <2> QED BY Zenon, <1>10, <2>1
<1> HIDE DEF first
<1>12. Laid(A, b, z, c, C, l, Width, n)
  <2>1. {A, b, z, c, C, l, Width, n} \subseteq Nat
    BY Zenon, <1>3, <1>4, <1>6, <1>9
  <2> QED BY Zenon, <1>3, <1>9, <2>1 DEF Laid
<1>13. ASSUME NEW o \in O
       PROVE  /\ o \in Nat /\ o + 1 \in 1 .. l /\ o + Width <= l
              /\ A + o \in Nat /\ A + o \in b .. b + z - Width
              /\ (A + o) % al = 0
              /\ c < (A + o) + Width /\ (A + o) + Width <= c + n
              /\ MatchInitialValue(s.query, Load(w, o + 1))
  <2>1. /\ o \in first .. l - Width /\ (o - first) % al = 0 /\ A + o + Width <= b + z
        /\ (s.carry # <<>> => o + Width > C)
        /\ MatchInitialValue(s.query, Load(w, o + 1))
    BY Zenon, <1>13
  <2>2. o \in Nat /\ o >= first /\ o + Width <= l /\ o + 1 \in 1 .. l
    BY <1>6, <1>9, <1>11, <2>1
  <2>3. (A + o) % al = 0
    BY Zenon, <1>10, <2>1, <2>2
  <2>4. o + Width > C
    <3>1. s.carry = <<>> => o + Width > C
      BY <1>4, <1>6, <2>2
    <3> QED BY Zenon, <2>1, <3>1
  <2>5. /\ A + o \in Nat /\ A + o \in b .. b + z - Width
        /\ c < (A + o) + Width /\ (A + o) + Width <= c + n
    BY Zenon, <1>12, <2>2, <2>4, OffsetInside
  <2> QED BY Zenon, <2>1, <2>2, <2>3, <2>5
<1>14. Lists(hit, J, l)
  BY Zenon, <1>9, CollectedLists
<1> HIDE DEF hit
<1>15. DOMAIN hit = 1 .. Len(hit) /\ Len(hit) \in Nat
  BY <1>14 DEF Lists
<1>16. Len(hits) = Len(hit)
  <2>1. ASSUME NEW m \in Nat, NEW f, f = [k \in 1 .. m |-> Hit(hit[k])] PROVE Len(f) = m
    <3> HIDE DEF Hit
    <3> QED BY <2>1
  <2> HIDE DEF Hit
  <2> QED BY Zenon, <1>1, <1>15, <2>1
<1>17. ASSUME NEW k \in 1 .. Len(hits)
       PROVE  \E o \in O : /\ hit[k] = o + 1 /\ hits[k].address = A + o
                           /\ hits[k].current = Load(w, o + 1)
  <2>1. k \in 1 .. Len(hit) /\ hit[k] \in J
    BY Zenon, <1>14, <1>16 DEF Lists
  <2>2. PICK o \in O : hit[k] = o + 1
    BY Zenon, <2>1
  <2>3. hits[k] = Hit(hit[k])
    <3> HIDE DEF Hit
    <3> QED BY Zenon, <1>1, <1>15, <2>1
  <2>4. Hit(o + 1).address = A + (o + 1) - 1 /\ Hit(o + 1).current = Load(w, o + 1)
    BY Zenon
  <2>5. A + (o + 1) - 1 = A + o
    <3>1. o \in Nat
      BY Zenon, <1>13
    <3> QED BY <1>9, <3>1
  <2> HIDE DEF Hit, O
  <2> QED BY Zenon, <2>2, <2>3, <2>4, <2>5
<1> HIDE DEF O
<1>18. ASSUME NEW k \in 1 .. Len(hits), NEW a, a = hits[k].address
       PROVE  Whole(a) /\ (Untouched(a) => hits[k].current = Value(a) /\ Matches(s, a))
  <2>1. PICK o \in O : a = A + o /\ hits[k].current = Load(w, o + 1)
    BY Zenon, <1>17, <1>18
  <2>2. InRegion(g, a) /\ a % al = 0
    BY Zenon, <1>13, <2>1 DEF InRegion, b, z
  <2>3. Whole(a)
    BY Zenon, <1>3, <2>2, LookedWhole
  <2>4. ASSUME Untouched(a) PROVE Load(w, o + 1) = Value(a)
    <3>1. Untouched(A + o) /\ o \in Nat /\ o + Width <= Len(w)
      BY Zenon, <1>13, <2>1, <2>4 DEF l
    <3>2. Load(w, o + 1) = Value(A + o)
      BY Zenon, <1>8, <1>9, <3>1, LoadValue
    <3> QED BY Zenon, <2>1, <3>2
  <2>5. ASSUME Untouched(a) PROVE Matches(s, a)
    <3>1. MatchInitialValue(s.query, Value(a))
      BY Zenon, <1>13, <2>4, <2>5
    <3>2. Looked(s.query, a)
      BY Zenon, <1>3, <2>2 DEF Looked, al
    <3> QED BY Zenon, <3>1, <3>2 DEF Matches
  <2> QED BY Zenon, <2>1, <2>3, <2>4, <2>5
<1>19. ASSUME NEW i \in 1 .. Len(s.output), NEW k \in 1 .. Len(hits)
       PROVE  s.output[i].address < hits[k].address
  <2>1. PICK o \in O : hits[k].address = A + o
    BY Zenon, <1>17
  <2>2. A + o \in Nat /\ c < (A + o) + Width
    BY Zenon, <1>13
  <2>3. PICK x : x = s.output[i].address
    BY Zenon
  <2>4. x \in Nat /\ x + Width <= c
    BY Zenon, <2>3 DEF Going, Listing, Whole, Behind, c
  <2>5. x < A + o
    <3>1. PICK y : y = A + o
      BY Zenon
    <3>2. y \in Nat /\ c < y + Width
      BY Zenon, <2>2, <3>1
    <3>3. x < y
      BY <1>3, <1>6, <2>4, <3>2
    <3> QED BY Zenon, <3>1, <3>3
  <2> QED BY Zenon, <2>1, <2>3, <2>5
<1>20. ASSUME NEW j \in 1 .. Len(hits), NEW k \in 1 .. Len(hits), j < k
       PROVE  hits[j].address < hits[k].address
  <2>1. PICK o \in O : hit[j] = o + 1 /\ hits[j].address = A + o
    BY Zenon, <1>17
  <2>2. PICK p \in O : hit[k] = p + 1 /\ hits[k].address = A + p
    BY Zenon, <1>17
  <2>3. hit[j] < hit[k]
    BY Zenon, <1>14, <1>16, <1>20 DEF Lists
  <2>4. o \in Nat /\ p \in Nat /\ o + 1 < p + 1
    BY Zenon, <1>13, <2>1, <2>2, <2>3
  <2>5. A + o < A + p
    BY <1>9, <2>4
  <2> QED BY Zenon, <2>1, <2>2, <2>5
<1>21. \E S : hits \in Seq(S)
  <2>1. ASSUME NEW m \in Nat, NEW T, NEW f \in [1 .. m -> T] PROVE f \in Seq(T)
    BY <2>1
  <2> DEFINE T == {hits[k] : k \in 1 .. Len(hits)}
  <2>2. hits \in [1 .. Len(hit) -> T]
    BY Zenon, <1>1, <1>15, <1>16
  <2> HIDE DEF T
  <2>3. hits \in Seq(T)
    BY Zenon, <1>15, <2>1, <2>2
  <2> QED BY Zenon, <2>3
<1>22. NewHits(s, hits)
  BY Zenon, <1>18, <1>19, <1>20, <1>21 DEF NewHits
<1>23. ASSUME NEW k \in 1 .. Len(hits) PROVE hits[k].address + Width <= c + n
  BY Zenon, <1>13, <1>17
<1>24. ASSUME ~s.partial, NEW a, InRegion(g, a), a % al = 0,
              MatchInitialValue(s.query, Value(a)), Untouched(a),
              c < a + Width, a + Width <= c + n
       PROVE  \E k \in 1 .. Len(hits) : hits[k].address = a
  <2>1. a \in b .. b + z - Width
    BY Zenon, <1>24 DEF InRegion, b, z
  <2>2. C = Overlap \/ C = c - b
    BY Zenon, <1>5, <1>24
  <2>3. PICK o \in Nat : /\ A + o = a /\ o + Width <= l /\ o + Width > C
                         /\ A + o + Width <= b + z
    <3>1. C = Width - 1 \/ A = b
      BY <1>3, <1>4, <1>6, <2>2 DEF A
    <3>2. c < a + Width /\ a + Width <= c + n
      BY Zenon, <1>24
    <3>3. OffsetFound(A, b, z, C, l, Width, a)
      BY Zenon, <1>12, <2>1, <3>1, <3>2, OffsetOf
    <3> QED BY Zenon, <3>3 DEF OffsetFound
  <2>4. o >= first /\ (o - first) % al = 0
    BY Zenon, <1>10, <1>24, <2>3
  <2>5. o \in first .. l - Width /\ o + 1 \in 1 .. l
    <3>1. o >= first /\ o + Width <= l /\ l \in Nat
      BY Zenon, <1>9, <2>3, <2>4
    <3> QED BY <1>6, <1>11, <3>1
  <2>6. Load(w, o + 1) = Value(a)
    <3>1. Untouched(A + o) /\ o \in Nat /\ o + Width <= Len(w)
      BY Zenon, <1>24, <2>3 DEF l
    <3>2. Load(w, o + 1) = Value(A + o)
      BY Zenon, <1>8, <1>9, <3>1, LoadValue
    <3> QED BY Zenon, <2>3, <3>2
  <2>7. MatchInitialValue(s.query, Load(w, o + 1))
    BY Zenon, <1>24, <2>6
  <2>8. o \in O
    BY Zenon, <2>3, <2>4, <2>5, <2>7 DEF O
  <2>9. PICK k \in 1 .. Len(hit) : hit[k] = o + 1
    BY Zenon, <1>14, <2>5, <2>8 DEF Lists
  <2>10. k \in 1 .. Len(hits)
    BY Zenon, <1>16
  <2>11. ASSUME NEW p \in O, hit[k] = p + 1 PROVE p = o
    BY Zenon, <1>13, <2>3, <2>9, <2>11, NextDiffers
  <2>12. hits[k].address = A + o
    BY Zenon, <1>17, <2>10, <2>11
  <2> QED BY Zenon, <2>3, <2>10, <2>12
<1>25. ASSUME ~s.partial, NEW a, Sought(s, s.cursor + n, a)
       PROVE  \E k \in 1 .. Len(hits) : hits[k].address = a
  <2>1. /\ InRegion(g, a) /\ a % al = 0 /\ c < a + Width /\ a + Width <= c + n
        /\ MatchInitialValue(s.query, Value(a)) /\ Untouched(a)
    BY Zenon, <1>25 DEF Sought, g, c, al
  <2> QED BY Zenon, <1>24, <1>25, <2>1
<1>26. \A k \in 1 .. Len(hits) : hits[k].address + Width <= s.cursor + n
  BY Zenon, <1>23 DEF c
<1>27. HitsIn(s, s.cursor + n, hits)
  <2>1. ~s.partial => \A a : Sought(s, s.cursor + n, a) =>
                               \E k \in 1 .. Len(hits) : hits[k].address = a
    BY Zenon, <1>25
  <2> QED BY Zenon, <1>22, <1>26, <2>1 DEF HitsIn
<1> QED BY Zenon, <1>0, <1>27 DEF g, c, C, A

\* A read that found the values up to p.
LEMMA FoundExact ==
    ASSUME NEW s, s = scan, Scanning(s), Wanted(s), Going(s), s.first, NEW p \in Nat,
           p <= Allowed[s.region].base + Allowed[s.region].size,
           NEW h, HitsIn(s, p, h), s.cursor <= p,
           NEW t, Scanning(t), \A f \in ScanFields \ {"carry"} : t[f] = Emit(s, h)[f],
           CarryAt(t.carry, Allowed[s.region].base, s.partial, p)
    PROVE  ChunkRead(s, p, t)
<1>1. PICK r : r = Emit(s, h)
  BY Zenon
<1>2. Emitted(s, h, r)
  <2>1. Listing(s.output) /\ Sound(s) /\ Len(s.output) < s.query.max_results
    BY Zenon DEF Going
  <2>2. s = [f \in ScanFields |-> s[f]] /\ NewHits(s, h)
    BY Zenon DEF Scanning, HitsIn
  <2>3. Emitted(s, h, Emit(s, h))
    BY Zenon, <2>1, <2>2, EmitEffect
  <2> QED BY Zenon, <1>1, <2>3
<1>3. /\ t.first = r.first /\ t.query = r.query /\ t.old = r.old /\ t.output = r.output
      /\ t.partial = r.partial /\ t.truncated = r.truncated
      /\ t.pc = r.pc /\ t.region = r.region /\ t.cursor = r.cursor
  <2>1. {"first", "query", "old", "output", "partial", "truncated", "pc", "region", "cursor"}
          \subseteq ScanFields \ {"carry"}
    BY DEF ScanFields
  <2>2. \A f \in ScanFields \ {"carry"} : t[f] = r[f]
    BY Zenon, <1>1
  <2> QED BY Zenon, <2>1, <2>2
<1>4. /\ r.first = s.first /\ r.query = s.query /\ r.old = s.old /\ r.partial = s.partial
      /\ r.pc = s.pc /\ r.region = s.region /\ r.cursor = s.cursor
  <2>1. {"first", "query", "old", "partial", "pc", "region", "cursor"}
          \subseteq ScanFields \ {"output", "truncated"}
    BY DEF ScanFields
  <2>2. \A f \in ScanFields \ {"output", "truncated"} : r[f] = s[f]
    BY Zenon, <1>2 DEF Emitted
  <2> QED BY Zenon, <2>1, <2>2
<1>5. Sound(t) /\ Listing(t.output) /\ \A a : Has(t, a) <=> Has(r, a)
  <2>1. Sound(r) /\ Listing(r.output)
    BY Zenon, <1>2 DEF Emitted
  <2> QED BY Zenon, <1>3, <2>1, SameScan
<1>6. /\ t.truncated \in BOOLEAN /\ Len(t.output) <= t.query.max_results
      /\ ~t.truncated => Len(t.output) < t.query.max_results
  BY Zenon, <1>2, <1>3, <1>4 DEF Emitted
<1> DEFINE g == s.region
           c == s.cursor
           b == Allowed[g].base
           z == Allowed[g].size
           N == Len(Allowed)
<1>7. /\ g \in 1 .. N /\ N \in Nat /\ c \in Nat /\ b \in Nat /\ z \in Nat
      /\ b <= c /\ c <= p /\ p <= b + z
  BY Zenon, AllowedRegions DEF Going, ChunkAt
<1>8. Width \in Nat /\ Width > 0
  BY ScannerAssumption
<1> HIDE DEF g, c, b, z, N
<1>9. ASSUME NEW i \in 1 .. Len(t.output) PROVE t.output[i].address + Width <= p
  <2>0. i \in 1 .. Len(r.output) /\ t.output[i] = r.output[i]
    BY Zenon, <1>3
  <2>1. CASE \E k \in 1 .. Len(s.output) : r.output[i] = s.output[k]
    <3>1. PICK k \in 1 .. Len(s.output) : r.output[i] = s.output[k]
      BY Zenon, <2>1
    <3>2. PICK a : a = s.output[k].address
      BY Zenon
    <3>3. a \in Nat /\ a + Width <= c
      BY Zenon, <3>2 DEF Going, Behind, Listing, Whole, c
    <3>4. a + Width <= p
      BY <1>7, <1>8, <3>3
    <3> QED BY Zenon, <2>0, <3>1, <3>2, <3>4
  <2>2. CASE \E k \in 1 .. Len(h) : r.output[i] = h[k]
    <3>1. PICK k \in 1 .. Len(h) : r.output[i] = h[k]
      BY Zenon, <2>2
    <3> QED BY Zenon, <2>0, <3>1 DEF HitsIn
  <2> QED BY Zenon, <1>2, <2>0, <2>1, <2>2 DEF Emitted
<1>10. ASSUME ~t.partial, ~t.truncated, NEW a, Matches(s, a), Untouched(a), a + Width <= p
       PROVE  Has(t, a)
  <2>0. ~s.partial /\ ~r.truncated
    BY Zenon, <1>3, <1>4, <1>10
  <2>1. Looked(s.query, a) /\ MatchInitialValue(s.query, Value(a))
    BY Zenon, <1>10 DEF Matches
  <2>2. PICK j \in 1 .. N : InRegion(j, a)
    BY Zenon, <2>1 DEF Looked, N
  <2>3. /\ a \in Nat
        /\ g < j => b + z <= a
        /\ j < g => a + Width <= b
    BY Zenon, <1>7, <2>2, AroundRegion DEF N, b, z
  <2>4. CASE a + Width <= c
    <3>1. Behind(s, a) /\ Covers(s)
      BY Zenon, <2>0, <2>4 DEF Behind, Going, c
    <3>2. Has(s, a)
      BY Zenon, <1>10, <3>1 DEF Covers
    <3> QED BY Zenon, <1>2, <1>5, <2>0, <3>2 DEF Emitted
  <2>5. CASE c < a + Width
    <3>1. j = g
      BY <1>7, <1>8, <1>10, <2>3, <2>5
    <3>2. InRegion(s.region, a) /\ a % s.query.alignment = 0 /\ s.cursor < a + Width
      BY Zenon, <2>1, <2>2, <2>5, <3>1 DEF Looked, g, c
    <3>3. Sought(s, p, a)
      BY Zenon, <1>10, <2>1, <3>2 DEF Sought
    <3>4. PICK k \in 1 .. Len(h) : h[k].address = a
      BY Zenon, <2>0, <3>3 DEF HitsIn
    <3>5. Has(r, h[k].address)
      BY Zenon, <1>2, <2>0, <3>4 DEF Emitted
    <3> QED BY Zenon, <1>5, <3>4, <3>5
  <2> QED BY <1>7, <1>8, <2>3, <2>4, <2>5
<1>11. CarryAt(t.carry, Allowed[t.region].base, t.partial, p)
  BY Zenon, <1>3, <1>4
<1> QED BY Zenon, <1>3, <1>4, <1>5, <1>6, <1>9, <1>10, <1>11 DEF ChunkRead

\* A first scan between two reads.
LEMMA FirstScanGoing ==
    ASSUME ScannerInv, ExactInv, scan.pc = "chunk", NEW s, s = scan
    PROVE  Scanning(s) /\ Wanted(s) /\ Going(s) /\ s.first /\ ChunkAt(s)
<1>1. Scanning(s)
  <2>1. scan.pc # "idle" /\ scan.pc # "publish" /\ Idle.pc = "idle"
    BY DEF Idle
  <2>2. scan # Idle /\ ~Scanned(scan)
    BY Zenon, <2>1 DEF Scanned
  <2> QED BY Zenon, <2>2 DEF ScannerInv
<1>2. s.pc # "idle" /\ s.pc \notin {"batch", "each"} /\ s.pc \in {"chunk", "batch", "each"}
  OBVIOUS
<1>3. Wanted(s) /\ Going(s)
  BY Zenon, <1>2 DEF ExactInv, Consistent
<1>4. s.first /\ ChunkAt(s)
  BY Zenon, <1>2, <1>3 DEF Going
<1> QED BY Zenon, <1>1, <1>3, <1>4

\* The size of a read: some bytes, within the region.
LEMMA RequestSize ==
    ASSUME NEW b \in Nat, NEW z \in Nat, NEW c \in Nat, c < b + z
    PROVE  /\ Min({ChunkSize, b + z - c}) \in Nat
           /\ c + Min({ChunkSize, b + z - c}) <= b + z
<1> DEFINE d == b + z - c
<1>1. d \in Nat /\ ChunkSize \in Nat
  BY ScannerAssumption
<1>2. c + d = b + z
  OBVIOUS
<1> HIDE DEF d
<1>3. Min({ChunkSize, d}) = IF ChunkSize <= d THEN ChunkSize ELSE d
  BY Zenon, <1>1, SmallerOf
<1>4. PICK m : m = Min({ChunkSize, d})
  BY Zenon
<1>5. m \in Nat /\ c + m <= b + z
  BY <1>1, <1>2, <1>3, <1>4
<1> QED BY Zenon, <1>4, <1>5 DEF d

\* A chunk that was read, that could not be read, or whose read ends the scan.
LEMMA RegionExact ==
    ASSUME ScannerInv, ExactInv, ScanRegion
    PROVE  ExactInv'
<1>0. scan.pc = "chunk" /\ UNCHANGED <<bytes, moved>>
  BY Zenon DEF ScanRegion, workerFrame, memory
<1>1. PICK s : s = scan
  BY Zenon
<1>2. Scanning(s) /\ Wanted(s) /\ Going(s) /\ s.first /\ ChunkAt(s)
  BY Zenon, <1>0, <1>1, FirstScanGoing
<1> DEFINE g == s.region
           c == s.cursor
           b == Allowed[g].base
           z == Allowed[g].size
           n == Min({ChunkSize, b + z - c})
           w == s.carry \o [i \in 1 .. n |-> bytes[c + i - 1]]
           carry == SubSeq(w, Len(w) - Min({Overlap, Len(w)}) + 1, Len(w))
           h == Hits(w, c - Len(s.carry), Allowed[g])
           Go(t) == Continue(Advance(t, n), Advance(t, n).region > Len(Allowed))
           f == [Emit(s, h) EXCEPT !.carry = carry]
           q == [s EXCEPT !.partial = TRUE, !.carry = <<>>]
<1>3. Go(f) \/ Go(q) \/ Fail
  BY ZenonT(40), <1>1 DEF ScanRegion
<1>4. /\ g \in 1 .. Len(Allowed) /\ c \in Nat /\ b \in Nat /\ z \in Nat
      /\ b <= c /\ c < b + z /\ CarryAt(s.carry, b, s.partial, c)
  BY Zenon, <1>2, AllowedRegions DEF ChunkAt
<1>5. n \in Nat /\ c + n <= b + z
  <2> HIDE DEF b, z, c
  <2> QED BY Zenon, <1>4, RequestSize
<1> HIDE DEF n
<1>6. CASE Go(f)
  <2>1. ReadFrom(w, c - Len(s.carry)) /\ Len(w) = Len(s.carry) + n
    <3> HIDE DEF b, c
    <3> QED BY ZenonT(40), <1>4, <1>5, ReadBehind
  <2> HIDE DEF w
  <2>2. HitsIn(s, c + n, h)
    BY Zenon, <1>1, <1>2, <1>5, <2>1, HitsFound
  <2>3. CarryAt(carry, b, s.partial, c + n)
    <3> HIDE DEF b, c
    <3> QED BY Zenon, <1>4, <1>5, <2>1, CarryOver
  <2> HIDE DEF h, carry
  <2>4. Scanning(Emit(s, h))
    BY Zenon, <1>2, EmitScanning
  <2>5. Scanning(f) /\ f.carry = carry /\ \A x \in ScanFields \ {"carry"} : f[x] = Emit(s, h)[x]
    <3>1. PICK r : r = Emit(s, h)
      BY Zenon
    <3>2. f = [r EXCEPT !.carry = carry] /\ Scanning(r)
      BY Zenon, <2>4, <3>1
    <3> HIDE DEF f
    <3>3. Scanning(f) /\ f.carry = carry /\ \A x \in ScanFields \ {"carry"} : f[x] = r[x]
      BY Zenon, <3>2 DEF Scanning, ScanFields
    <3> QED BY Zenon, <3>1, <3>3
  <2> HIDE DEF f
  <2>6. c + n \in Nat /\ c <= c + n
    <3> HIDE DEF b, z, c
    <3> QED BY <1>4, <1>5
  <2>7. ChunkRead(s, c + n, f)
    BY Zenon, <1>1, <1>2, <1>5, <2>2, <2>3, <2>5, <2>6, FoundExact
  <2> QED BY Zenon, <1>0, <1>2, <1>5, <1>6, <2>7, AdvanceExact
<1>7. CASE Go(q)
  <2>1. /\ Scanning(q) /\ q.partial = TRUE /\ q.carry = <<>>
        /\ q.first = s.first /\ q.query = s.query /\ q.old = s.old /\ q.output = s.output
        /\ q.truncated = s.truncated
        /\ q.pc = s.pc /\ q.region = s.region /\ q.cursor = s.cursor
    BY Zenon, <1>2 DEF Scanning, ScanFields
  <2> HIDE DEF q
  <2>2. Sound(q)
    BY Zenon, <1>2, <2>1, SameScan DEF Going
  <2>3. /\ Listing(q.output) /\ q.truncated = FALSE /\ q.truncated \in BOOLEAN
        /\ Len(q.output) < q.query.max_results
    BY Zenon, <1>2, <2>1 DEF Going
  <2>4. Len(q.output) <= q.query.max_results
    BY Zenon, <1>2, <2>1, <2>3, BelowLimit DEF Wanted
  <2>5. ASSUME NEW i \in 1 .. Len(q.output) PROVE q.output[i].address + Width <= c + n
    <3>1. i \in 1 .. Len(s.output) /\ q.output[i] = s.output[i]
      BY Zenon, <2>1
    <3>2. PICK a : a = s.output[i].address
      BY Zenon
    <3>3. a \in Nat /\ a + Width <= c
      BY Zenon, <1>2, <3>1, <3>2 DEF Going, Behind, Listing, Whole
    <3>4. Width \in Nat
      BY ScannerAssumption
    <3> HIDE DEF c, b, z
    <3>5. a + Width <= c + n
      BY <1>4, <1>5, <3>3, <3>4
    <3> QED BY Zenon, <3>1, <3>2, <3>5
  <2>6. CarryAt(q.carry, Allowed[q.region].base, q.partial, c + n)
    <3>1. Len(<<>>) = 0 /\ <<>> \in Seq({}) /\ 1 .. 0 = {}
      OBVIOUS
    <3>2. Overlap \in Nat /\ 0 <= Overlap
      BY ScannerAssumption DEF Overlap
    <3>3. 0 <= (c + n) - b
      <4> HIDE DEF b, z, c
      <4> QED BY <1>4, <1>5
    <3>4. q.carry = <<>> /\ q.partial = TRUE /\ Allowed[q.region].base = b
      BY Zenon, <2>1
    <3>5. CarryAt(<<>>, b, TRUE, c + n)
      <4> HIDE DEF b, c
      <4> QED BY Zenon, <3>1, <3>2, <3>3 DEF CarryAt
    <3> QED BY Zenon, <3>4, <3>5
  <2>7. ChunkRead(s, c + n, q)
    BY Zenon, <2>1, <2>2, <2>3, <2>4, <2>5, <2>6 DEF ChunkRead
  <2> QED BY Zenon, <1>0, <1>2, <1>5, <1>7, <2>7, AdvanceExact
<1>8. CASE Fail
  BY Zenon, <1>0, <1>1, <1>2, <1>8, FailExact
<1> QED BY Zenon, <1>3, <1>6, <1>7, <1>8

\* No results at all.
LEMMA NoResults ==
    /\ Listing(<<>>) /\ Len(<<>>) = 0 /\ 1 .. 0 = {}
    /\ \A q \in ScanQuery : 0 < q.max_results
<1>1. <<>> \in Seq({}) /\ Len(<<>>) = 0 /\ 1 .. 0 = {}
  OBVIOUS
<1>2. ASSUME NEW q \in ScanQuery PROVE 0 < q.max_results
  <2>1. q.max_results \in Limit
    BY Zenon DEF ScanQuery
  <2>2. q.max_results \in Nat \ {0}
    BY Zenon, <2>1, ScannerAssumption
  <2> QED BY <2>2
<1> QED BY Zenon, <1>1, <1>2 DEF Listing

\* The start of a scan: one that has nothing to read is over.
LEMMA BeginExact ==
    ASSUME ScannerInv, ExactInv, Begin
    PROVE  ExactInv'
<1>0. scan.pc = "begin" /\ UNCHANGED <<bytes, moved>>
  BY Zenon DEF Begin, workerFrame, memory
<1>1. PICK s : s = scan
  BY Zenon
<1>2. Scanning(s) /\ Wanted(s) /\ Begun(s)
  <2>1. scan.pc # "idle" /\ scan.pc # "publish" /\ Idle.pc = "idle"
    BY <1>0 DEF Idle
  <2>2. scan # Idle /\ ~Scanned(scan)
    BY Zenon, <2>1 DEF Scanned
  <2>3. Scanning(s) /\ s.pc # "idle"
    BY Zenon, <1>1, <2>1, <2>2 DEF ScannerInv
  <2> QED BY Zenon, <1>0, <1>1, <2>3 DEF ExactInv, Consistent
<1> DEFINE c == [s EXCEPT !.pc = "chunk", !.cursor = IF Allowed = <<>> THEN 0
                                                         ELSE Allowed[1].base]
           b == [s EXCEPT !.pc = "batch"]
<1>3. Fail \/ (s.first /\ Continue(c, Allowed = <<>>)) \/ (~s.first /\ Continue(b, s.old = <<>>))
  BY Zenon, <1>1 DEF Begin
<1>4. /\ s.output = <<>> /\ s.carry = <<>> /\ s.region = 1 /\ s.index = 1
      /\ s.truncated = FALSE /\ s.partial = FALSE
  BY Zenon, <1>2 DEF Begun
<1>5. ASSUME NEW t, t.output = <<>>, t.query \in ScanQuery
      PROVE  Listing(t.output) /\ Sound(t) /\ Len(t.output) < t.query.max_results
  <2>1. Listing(t.output) /\ Len(t.output) < t.query.max_results
    BY Zenon, <1>5, NoResults
  <2>2. 1 .. Len(t.output) = {}
    BY Zenon, <1>5, NoResults
  <2> QED BY Zenon, <2>1, <2>2 DEF Sound
<1>6. CASE Fail
  BY Zenon, <1>0, <1>1, <1>2, <1>6, FailExact
<1>7. CASE s.first /\ Continue(c, Allowed = <<>>)
  <2>1. /\ Scanning(c) /\ c.pc = "chunk" /\ (Allowed # <<>> => c.cursor = Allowed[1].base)
        /\ c.first = s.first /\ c.query = s.query /\ c.old = s.old /\ c.output = s.output
        /\ c.carry = s.carry /\ c.region = s.region /\ c.truncated = s.truncated
        /\ c.partial = s.partial
    BY Zenon, <1>2 DEF Scanning, ScanFields
  <2> HIDE DEF c
  <2>2. Wanted(c) /\ c.first /\ c.query \in ScanQuery
    BY Zenon, <1>2, <1>7, <2>1 DEF Wanted
  <2>3. Listing(c.output) /\ Sound(c) /\ Len(c.output) < c.query.max_results
    BY Zenon, <1>4, <1>5, <2>1, <2>2
  <2>4. CASE Allowed = <<>>
    <3>1. 1 .. Len(Allowed) = {}
      BY Zenon, <2>4, NoResults
    <3>2. CoversAll(c)
      BY Zenon, <2>2, <3>1 DEF CoversAll, Matches, Looked
    <3>3. Over(c)
      BY Zenon, <2>2, <2>3, <3>2, BelowLimit DEF Over
    <3> QED BY Zenon, <1>0, <1>7, <2>1, <2>2, <2>4, <3>3, ContinueExact
  <2>5. CASE Allowed # <<>>
    <3> DEFINE d == Allowed[1].base
               y == Allowed[1].size
    <3>1. 1 \in 1 .. Len(Allowed)
      <4>1. Len(Allowed) \in Nat /\ Len(Allowed) # 0
        BY Zenon, <2>5, AllowedRegions
      <4> QED BY <4>1
    <3>2. d \in Nat /\ y \in Nat /\ y > 0
      BY Zenon, <3>1, AllowedRegions
    <3>3. c.cursor = d /\ c.region = 1 /\ c.carry = <<>> /\ c.partial = FALSE
      BY Zenon, <1>4, <2>1, <2>5
    <3> HIDE DEF d, y
    <3>4. CarryAt(c.carry, d, c.partial, c.cursor)
      <4>1. <<>> \in Seq({})
        OBVIOUS
      <4>2. 0 <= Overlap
        BY ScannerAssumption DEF Overlap
      <4>3. d - d = 0 /\ 0 <= d - d
        BY <3>2
      <4>4. CarryAt(<<>>, d, FALSE, d)
        BY Zenon, <4>1, <4>2, <4>3, NoResults DEF CarryAt
      <4> QED BY Zenon, <3>3, <4>4
    <3>5. ChunkAt(c)
      <4>1. d <= d /\ d < d + y
        BY <3>2
      <4> QED BY Zenon, <3>1, <3>2, <3>3, <3>4, <4>1 DEF ChunkAt, d, y
    <3>6. Covers(c)
      <4> SUFFICES ASSUME NEW a, Matches(c, a), Behind(c, a) PROVE FALSE
        BY Zenon DEF Covers
      <4>1. PICK j \in 1 .. Len(Allowed) : InRegion(j, a)
        BY Zenon, <2>2 DEF Matches, Looked
      <4>2. a \in Nat /\ (1 < j => d + y <= a) /\ (j = 1 => d <= a)
        BY Zenon, <3>1, <4>1, AroundRegion DEF d, y
      <4>3. a + Width <= d
        BY Zenon, <2>2, <3>3 DEF Behind
      <4>4. Width \in Nat /\ Width > 0
        BY ScannerAssumption
      <4>5. Len(Allowed) \in Nat
        BY Zenon, AllowedRegions
      <4> QED BY <3>2, <4>2, <4>3, <4>4, <4>5
    <3>7. ASSUME NEW i \in 1 .. Len(c.output) PROVE Behind(c, c.output[i].address)
      <4>1. 1 .. Len(c.output) = {}
        BY Zenon, <1>4, <2>1, NoResults
      <4> QED BY Zenon, <4>1
    <3>8. Going(c) /\ ~c.truncated
      BY Zenon, <1>4, <2>1, <2>2, <2>3, <3>5, <3>6, <3>7 DEF Going
    <3> QED BY Zenon, <1>0, <1>7, <2>1, <2>2, <2>5, <3>8, ContinueExact
  <2> QED BY Zenon, <2>4, <2>5
<1>8. CASE ~s.first /\ Continue(b, s.old = <<>>)
  <2>1. /\ Scanning(b) /\ b.pc = "batch" /\ b.index = s.index
        /\ b.first = s.first /\ b.query = s.query /\ b.old = s.old /\ b.output = s.output
        /\ b.truncated = s.truncated /\ b.partial = s.partial
    BY Zenon, <1>2 DEF Scanning, ScanFields
  <2> HIDE DEF b
  <2>2. Wanted(b) /\ ~b.first /\ b.query \in ScanQuery
    BY Zenon, <1>2, <1>8, <2>1 DEF Wanted
  <2>3. Listing(b.output) /\ Sound(b) /\ Len(b.output) < b.query.max_results
    BY Zenon, <1>4, <1>5, <2>1, <2>2
  <2>4. CASE s.old = <<>>
    <3>1. 1 .. Len(b.old) = {}
      BY Zenon, <2>1, <2>4, NoResults
    <3>2. CoversAll(b)
      BY Zenon, <2>2, <3>1 DEF CoversAll, Matches
    <3>3. Over(b)
      BY Zenon, <2>2, <2>3, <3>2, BelowLimit DEF Over
    <3> QED BY Zenon, <1>0, <1>8, <2>1, <2>2, <2>4, <3>3, ContinueExact
  <2>5. CASE s.old # <<>>
    <3>1. Len(b.old) \in Nat /\ 1 \in 1 .. Len(b.old)
      <4>1. PICK S : b.old \in Seq(S)
        BY Zenon, <2>2 DEF Wanted, Listing
      <4>2. b.old # <<>>
        BY Zenon, <2>1, <2>5
      <4> QED BY <4>1, <4>2
    <3>2. CandidateAt(b) /\ b.pc \in {"batch", "each"}
      <4>1. b.pc # "each" /\ b.pc \in {"batch", "each"} /\ b.index = 1
        BY <1>4, <2>1
      <4> QED BY Zenon, <3>1, <4>1 DEF CandidateAt
    <3>3. Covers(b)
      <4> SUFFICES ASSUME NEW a, Behind(b, a) PROVE FALSE
        BY Zenon DEF Covers
      <4>1. PICK j \in 1 .. Len(b.old) : j < b.index
        BY Zenon, <2>2 DEF Behind
      <4>2. b.index = 1
        BY Zenon, <1>4, <2>1
      <4> QED BY <3>1, <4>1, <4>2
    <3>4. ASSUME NEW i \in 1 .. Len(b.output) PROVE Behind(b, b.output[i].address)
      <4>1. 1 .. Len(b.output) = {}
        BY Zenon, <1>4, <2>1, NoResults
      <4> QED BY Zenon, <4>1
    <3>5. Going(b) /\ ~b.truncated
      BY Zenon, <1>4, <2>1, <2>2, <2>3, <3>2, <3>3, <3>4 DEF Going
    <3> QED BY Zenon, <1>0, <1>8, <2>1, <2>2, <2>5, <3>5, ContinueExact
  <2> QED BY Zenon, <2>4, <2>5
<1> QED BY Zenon, <1>3, <1>6, <1>7, <1>8

\* With no worker there is nothing to say of the scan.
LEMMA IdleConsistent ==
    ASSUME NEW s, s.pc = "idle"
    PROVE  Consistent(s) /\ Consistent(s)'
<1>1. s.pc # "begin" /\ s.pc \notin {"chunk", "batch", "each"} /\ s.pc # "publish"
  OBVIOUS
<1> QED BY Zenon, <1>1 DEF Consistent

\* A new scan has found nothing yet; a next scan is about the results it was
\* started from.
LEMMA StartExact ==
    ASSUME ExactInv, NEW first \in BOOLEAN, NEW q \in ScanQuery, StartScan(first, q)
    PROVE  ExactInv'
<1>1. bytes' = bytes /\ moved' = moved
  BY Zenon DEF StartScan, memory
<1>2. Listing(candidates')
  BY Zenon, NoResults DEF StartScan, ExactInv
<1>3. PICK s : s = scan'
  BY Zenon
<1>4. /\ s.pc = "begin" /\ s.first = first /\ s.query = q /\ s.old = candidates'
      /\ s.output = <<>> /\ s.carry = <<>> /\ s.region = 1 /\ s.index = 1
      /\ s.truncated = FALSE /\ s.partial = FALSE
  BY Zenon, <1>3 DEF StartScan
<1>5. Wanted(s)'
  BY Zenon, <1>2, <1>4 DEF Wanted, Listing, Whole
<1>6. Begun(s)'
  BY Zenon, <1>4 DEF Begun
<1>7. s.pc \notin {"chunk", "batch", "each"} /\ s.pc # "publish"
  BY <1>4
<1>8. Consistent(s)'
  BY Zenon, <1>5, <1>6, <1>7 DEF Consistent
<1> QED BY Zenon, <1>1, <1>2, <1>3, <1>7, <1>8 DEF ExactInv, Listing, Whole

\* Every step of the window, the worker and the target keeps the invariant.
LEMMA ExactStep == ScannerInv /\ ExactInv /\ [ScanNext]_scanVars => ExactInv'
<1> SUFFICES ASSUME ScannerInv, ExactInv, [ScanNext]_scanVars PROVE ExactInv'
  BY Zenon
<1>1. CASE ResetScan
  <2>1. /\ scan.pc = "idle" /\ scan' = scan /\ candidates' = <<>>
        /\ bytes' = bytes /\ moved' = moved
    BY Zenon, <1>1 DEF ResetScan, memory
  <2>2. scan.pc # "publish"
    BY <2>1
  <2>3. \A s : s = scan' => Consistent(s)'
    BY Zenon, <2>1, IdleConsistent
  <2>4. Listing(candidates')
    BY Zenon, <2>1, NoResults
  <2> QED BY Zenon, <2>1, <2>2, <2>3, <2>4 DEF ExactInv, Listing, Whole
<1>2. CASE PublishScanCompletion
  <2>1. scan' = Idle /\ candidates' = candidates /\ bytes' = bytes
    BY Zenon, <1>2 DEF PublishScanCompletion, memory, scanner
  <2>2. Idle.pc = "idle" /\ Idle.pc # "publish"
    BY DEF Idle
  <2>3. \A s : s = scan' => Consistent(s)'
    BY Zenon, <2>1, <2>2, IdleConsistent
  <2> QED BY Zenon, <2>1, <2>2, <2>3 DEF ExactInv, Listing, Whole
<1>3. CASE Cancelled \/ Thrown
  <2>1. scan.pc \in {"chunk", "batch", "each"} /\ Fail /\ UNCHANGED <<bytes, moved>>
    BY Zenon, <1>3 DEF Cancelled, Thrown, workerFrame, memory
  <2>2. scan.pc # "idle" /\ scan.pc # "publish" /\ Idle.pc = "idle"
    BY <2>1 DEF Idle
  <2>3. Scanning(scan)
    BY Zenon, <2>2 DEF ScannerInv, Scanned
  <2> QED BY Zenon, <2>1, <2>3, FailExact
<1>4. CASE CancelScan \/ UNCHANGED scanVars
  <2>1. UNCHANGED <<bytes, moved, scan, candidates>>
    BY Zenon, <1>4 DEF CancelScan, scanVars, memory, scanner
  <2> QED BY Zenon, <2>1, NothingKeeps
<1>5. CASE \E first \in BOOLEAN, q \in ScanQuery : StartScan(first, q)
  BY Zenon, <1>5, StartExact
<1>6. CASE \E a \in Address, b \in 0 .. Base - 1 : TargetStoresByte(a, b)
  BY Zenon, <1>6, StoreKeeps
<1> QED BY Zenon, <1>1, <1>2, <1>3, <1>4, <1>5, <1>6, BeginExact, RegionExact, BatchExact,
           CandidateExact DEF ScanNext

\* A scan that succeeds has found what the definition of a match says, wherever
\* the target left the bytes alone: every chunk size, alignment, limit and list of
\* regions, each order of reads, failures and stores.
THEOREM ScanStaysExact == ScanSpec => []ScanExact
<1>1. ScanInit => ScannerInv
  BY Zenon DEF ScanInit, NoScan, ScannerInv
<1>2. ScanInit => ExactInv
  <2> SUFFICES ASSUME ScanInit PROVE ExactInv
    BY Zenon
  <2>1. /\ scan = Idle /\ candidates = <<>> /\ bytes \in [Address -> 0 .. Base - 1]
    BY Zenon DEF ScanInit, NoScan
  <2>2. Idle.pc = "idle" /\ Idle.pc # "publish"
    BY DEF Idle
  <2>3. bytes = [x \in Address |-> bytes[x]]
    BY Zenon, <2>1
  <2>4. \A s : s = scan => Consistent(s)
    BY Zenon, <2>1, <2>2, IdleConsistent
  <2> QED BY Zenon, <2>1, <2>2, <2>3, <2>4, NoResults DEF ExactInv
<1> QED BY <1>1, <1>2, ScannerStep, ExactStep, InvExact, PTL DEF ScanSpec
=============================================================================
