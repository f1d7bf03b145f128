--------------------------- MODULE MemorySnapshot ---------------------------
(***************************************************************************)
(* MemorySnapshot: the bytes of a range of a process, their comparison and *)
(* their file format.  A checksum is the byte sequence it is computed      *)
(* from; the label, the version and the other fixed header fields are left *)
(* out.                                                                    *)
(***************************************************************************)
EXTENDS Integers, Sequences, FiniteSets

CONSTANT NoSnapshot     \* std::nullopt, or a failed Result

SnapshotOf(pid, address, bytes) ==
    [pid |-> pid, address |-> address, bytes |-> bytes]

\* The index after the run of differing bytes that contains index i.
RunEnd(a, b, i) ==
    CHOOSE j \in i..(Len(a) + 1) :
        /\ \A k \in i..(j - 1) : a[k] # b[k]
        /\ j = Len(a) + 1 \/ a[j] = b[j]

DiffRun == [offset : Nat, length : Nat]

\* The locals of the loop (index is 1-based, offsets are 0-based).
LoopState(a) == [index : 1..(Len(a) + 1), changed : Nat, runs : Seq(DiffRun)]

\* The loop of MemorySnapshot::Diff; a limit ends it without a result.
DiffLoop(a, b, max_runs, max_changed) ==
    LET step[s \in LoopState(a)] ==
          IF s.index > Len(a) THEN s.runs
          ELSE IF a[s.index] = b[s.index] THEN step[[s EXCEPT !.index = @ + 1]]
          ELSE IF Len(s.runs) >= max_runs THEN NoSnapshot
          ELSE LET n == RunEnd(a, b, s.index) - s.index
               IN  IF n > max_changed - s.changed THEN NoSnapshot
                   ELSE step[[index |-> s.index + n, changed |-> s.changed + n,
                              runs |-> Append(s.runs, [offset |-> s.index - 1,
                                                       length |-> n])]]
    IN  step[[index |-> 1, changed |-> 0, runs |-> <<>>]]

\* MemorySnapshot::Diff: only snapshots of the same range of the same process.
SameSpace(older, newer) ==
    /\ older.pid = newer.pid
    /\ older.address = newer.address
    /\ Len(older.bytes) = Len(newer.bytes)

Diff(older, newer, max_runs, max_changed) ==
    IF SameSpace(older, newer)
    THEN DiffLoop(older.bytes, newer.bytes, max_runs, max_changed)
    ELSE NoSnapshot

\* MemorySnapshot::Save, the content of the file.
Encode(s) ==
    [pid |-> s.pid, address |-> s.address, byte_count |-> Len(s.bytes),
     checksum |-> s.bytes, payload |-> s.bytes]

\* MemorySnapshot::Load.
ValidFile(f) ==
    /\ f.byte_count > 0
    /\ f.byte_count = Len(f.payload)
    /\ f.checksum = f.payload
Decode(f) ==
    IF ValidFile(f) THEN SnapshotOf(f.pid, f.address, f.payload) ELSE NoSnapshot
-----------------------------------------------------------------------------
\* The definition Diff is measured against: the maximal intervals of offsets
\* where the two snapshots differ.
MaximalRuns(a, b) ==
    LET differs(k) == k \in 0..(Len(a) - 1) /\ a[k + 1] # b[k + 1]
    IN  {r \in [offset : 0..Len(a), length : 1..Len(a)] :
            /\ \A k \in r.offset..(r.offset + r.length - 1) : differs(k)
            /\ ~differs(r.offset - 1) /\ ~differs(r.offset + r.length)}

\* runs lists exactly those, in increasing order.
ExactDiff(older, newer, runs) ==
    /\ older.pid = newer.pid /\ older.address = newer.address
    /\ Len(older.bytes) = Len(newer.bytes)
    /\ {runs[i] : i \in 1..Len(runs)} = MaximalRuns(older.bytes, newer.bytes)
    /\ \A i, j \in 1..Len(runs) : i < j => runs[i].offset < runs[j].offset
=============================================================================
