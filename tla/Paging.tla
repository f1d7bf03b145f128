------------------------------- MODULE Paging -------------------------------
(***************************************************************************)
(* The two walks of the x64 page tables: the driver translates a virtual   *)
(* address (TranslateVirtual of Driver.cpp), the program looks for the     *)
(* virtual addresses that map a frame (PageTableReverseMapper::Query).     *)
(* They were written twice, over the same tables; the run compares them.   *)
(*                                                                         *)
(* Levels 4 .. 1 are PML4, PDPT, PD and PT.  A table has Fan entries, so a *)
(* leaf of level l spans Fan^(l-1) frames and a virtual address is a       *)
(* number of Levels digits in Fan, without the offset in a page.  The      *)
(* lowest frame bit of a large leaf is PAT, the rest below its span is     *)
(* reserved.  Access rights, the sign extension of addresses and the       *)
(* listing of table pages are left out.                                    *)
(***************************************************************************)
EXTENDS Integers, FiniteSets

CONSTANTS
    Fan, Levels,
    Frame,           \* frame numbers
    Tables,          \* the contents of physical memory looked at
    Unreadable,      \* the sets of frames that cannot be read
    MaxTablePages, MaxUsages,
    Absent           \* an entry that is not present; also: no query yet

Entry == [pfn : Frame, page_size : BOOLEAN]

ASSUME PagingAssumption ==
    /\ Fan \in Nat \ {0, 1} /\ Levels \in Nat /\ Levels >= 3
    /\ Frame \subseteq Nat /\ 0 \in Frame /\ Absent \notin Frame \cup Entry
    /\ Tables \subseteq [Frame -> [0 .. Fan - 1 -> Entry \cup {Absent}]]
    /\ MaxTablePages \in Nat /\ MaxUsages \in Nat

VARIABLES
    tables,  \* physical memory, read as tables
    usage    \* the result of the last Query

pagingVars == <<tables, usage>>

Root == 0

\* The frames that a table of a level spans, and those that one of its entries does.
Spans[level \in 0 .. Levels] == IF level = 0 THEN 1 ELSE Fan * Spans[level - 1]
SpanOf(level) == Spans[level - 1]

Virtual == 0 .. Spans[Levels] - 1
Index(va, level) == (va \div SpanOf(level)) % Fan

Aligned(frame, level) == frame - (frame % SpanOf(level))

Large(entry, level) == level \in {2, 3} /\ entry.page_size

Reserved(entry, level) == (entry.pfn % SpanOf(level)) \div 2 # 0

-----------------------------------------------------------------------------
(* The driver. *)

\* The frame that va maps in the memory mem, the entry it was found in and the
\* tables on the way there.
Fault == [frame |-> Absent, leaf |-> Absent, path |-> {}]
Leaf(here, frame) == [frame |-> frame, leaf |-> here, path |-> {here}]

\* One step of the walk of va, at a table; below is the walk from the tables of
\* the next level.
Step(mem, va, level, table, below) ==
    LET entry == mem[table][Index(va, level)]
        here == [table |-> table, level |-> level]
    IN  IF entry = Absent THEN Fault
        ELSE IF Large(entry, level)
             THEN IF Reserved(entry, level) THEN Fault
                  ELSE Leaf(here, Aligned(entry.pfn, level) + (va % SpanOf(level)))
        ELSE IF level = 1 THEN Leaf(here, entry.pfn)
        ELSE [below[entry.pfn] EXCEPT !.path = @ \cup {here}]

Walk(mem, va) ==
    LET walk[level \in 0 .. Levels] ==
          [table \in Frame |-> IF level = 0 THEN Fault
                               ELSE Step(mem, va, level, table, walk[level - 1])]
    IN  walk

TranslateVirtual(mem, va) == Walk(mem, va)[Levels][Root]

-----------------------------------------------------------------------------
(* The reverse mapper. *)

Usages == [va : Nat, size : Nat, pte : Frame \X (0 .. Fan - 1)]
Progress ==
    [read : Nat, mappings : SUBSET Usages, error : {"none", "LimitReached", "ReadFailed"}]

\* Where a walk of the mapper is: at a table, which maps the addresses from prefix
\* on, reached through the tables of path.
Place == [table : Frame, prefix : Nat, path : SUBSET Frame]

Failed(s) == s.error # "none"

\* append_mapping: a mapping is listed once, and the list has a limit.
AppendMapping(s, m) ==
    IF m \in s.mappings THEN s
    ELSE IF Cardinality(s.mappings) >= MaxUsages THEN [s EXCEPT !.error = "LimitReached"]
    ELSE [s EXCEPT !.mappings = @ \cup {m}]

\* Bit 7 is reserved in a PML entry: the mapper does not follow such an entry.
Malformed(entry, level) == level >= 4 /\ entry.page_size

\* faulty variant: reserved bits are masked away
Masked(entry, level) == {Aligned(entry.pfn, level)}

\* The first frame of a large leaf, if the leaf is well formed.
LeafPhysicalAddress(entry, level) ==
    IF Reserved(entry, level) THEN {} ELSE {Aligned(entry.pfn, level)}

\* One entry, with the progress s before it.  q is the query: its memory, its
\* target, the frames lost that cannot be read and go, continue_on_read_error.
OfEntry(q, level, at, below, s, i) ==
    LET entry == q.mem[at.table][i]
        va == at.prefix + i * SpanOf(level)
        mapped == {b \in LeafPhysicalAddress(entry, level) :
                      q.target >= b /\ q.target - b < SpanOf(level)}
        Listed(a) == [va |-> a, size |-> SpanOf(level), pte |-> <<at.table, i>>]
        next == [table |-> entry.pfn, prefix |-> va, path |-> at.path \cup {at.table}]
    IN  IF Failed(s) \/ entry = Absent \/ Malformed(entry, level) THEN s
        ELSE IF Large(entry, level)
             THEN IF mapped = {} THEN s
                  ELSE AppendMapping(s, Listed(va + q.target - (CHOOSE b \in mapped : TRUE)))
        ELSE IF level = 1
             THEN IF entry.pfn = q.target THEN AppendMapping(s, Listed(va)) ELSE s
        ELSE below[next][s]

\* The entries of a table, in order.
Entries(q, level, at, below, s) ==
    LET done[i \in 0 .. Fan] ==
          IF i = 0 THEN s ELSE OfEntry(q, level, at, below, done[i - 1], i - 1)
    IN  done[Fan]

\* A table that is on the path already is not entered again.
OfTable(q, level, at, below, s) ==
    LET reading == [s EXCEPT !.read = @ + 1]
    IN  IF at.table \in at.path THEN s
        ELSE IF s.read >= MaxTablePages THEN [s EXCEPT !.error = "LimitReached"]
        ELSE IF at.table \in q.lost
             THEN IF q.go THEN reading ELSE [reading EXCEPT !.error = "ReadFailed"]
        ELSE Entries(q, level, at, below, reading)

Visit(q) ==
    LET visit[level \in 0 .. Levels] ==
          [at \in Place |-> [s \in Progress |->
             IF level = 0 THEN s ELSE OfTable(q, level, at, visit[level - 1], s)]]
    IN  visit

Query(target, lost, go) ==
    /\ usage = Absent
    /\ LET q == [mem |-> tables, target |-> target, lost |-> lost, go |-> go]
           root == [table |-> Root, prefix |-> 0, path |-> {}]
           start == [read |-> 0, mappings |-> {}, error |-> "none"]
           done == Visit(q)[Levels][root][start]
       IN  usage' = [target |-> target, lost |-> lost, ok |-> ~Failed(done),
                     mappings |-> IF Failed(done) THEN {} ELSE done.mappings]
    /\ UNCHANGED tables

Forget ==
    /\ usage # Absent /\ usage' = Absent
    /\ UNCHANGED tables

PagingInit == tables \in Tables /\ usage = Absent

PagingNext ==
    \/ \E target \in Frame, lost \in Unreadable, go \in BOOLEAN : Query(target, lost, go)
    \/ Forget

PagingSpec == PagingInit /\ [][PagingNext]_pagingVars

-----------------------------------------------------------------------------
(* Properties. *)

\* Each listed address translates to the frame asked for, through the entry that
\* is listed.
MappingsTranslate ==
    usage # Absent => \A m \in usage.mappings :
        LET t == TranslateVirtual(tables, m.va)
        IN  /\ t.frame = usage.target
            /\ m.pte = <<t.leaf.table, Index(m.va, t.leaf.level)>>
            /\ m.size = SpanOf(t.leaf.level)

\* The addresses the mapper cannot be expected to list: one of the tables on the
\* way cannot be read, is met a second time or is reached through a PML entry
\* with its reserved bit set.
Excused(va) ==
    LET path == TranslateVirtual(tables, va).path
    IN  \/ \E p \in path : p.table \in usage.lost
        \/ \E p, r \in path : p # r /\ p.table = r.table
        \/ \E p \in path : p.level >= 4 /\ tables[p.table][Index(va, p.level)].page_size

\* What the reverse mapper lists, the driver confirms (MappingsTranslate); and a
\* query that succeeds lists every other address that maps the frame, also where
\* two entries share a table.
MappingsExact ==
    /\ MappingsTranslate
    /\ usage # Absent /\ usage.ok => \A va \in Virtual :
           TranslateVirtual(tables, va).frame = usage.target /\ ~Excused(va)
               => \E m \in usage.mappings : m.va = va
=============================================================================
