----------------------------- MODULE PanelProofs -----------------------------
(***************************************************************************)
(* Proofs about the panels that show what is in the memory of a process:   *)
(* what MemorySnapshot::Diff lists, for snapshots of any size, what the    *)
(* panel that captures, loads and compares them (SnapshotPanel) shows, and *)
(* which paths the pointer scanner (PointerScan) returns.                  *)
(*                                                                         *)
(* The inductive invariant PanelInv says what the snapshot panel, the      *)
(* request and the result of its worker hold at each step; ChaseInv says   *)
(* what a pointer scan has found by the chunk it is at.                    *)
(***************************************************************************)
EXTENDS SnapshotPanel, PointerScan, TLAPS, WellFoundedInduction

-----------------------------------------------------------------------------
(* The comparison of two snapshots, for any two sequences of bytes.  What    *)
(* the loop of MemorySnapshot::Diff computes is shown by induction over the  *)
(* bytes that are left: it has a result from every state (LoopEnds), and     *)
(* from a state that has listed the runs before its index it lists the rest  *)
(* (LoopLists).                                                              *)

\* Induction for the proofs about the loops: a set of numbers has a least one.
LEMMA LeastNumber ==
    ASSUME NEW T, T \subseteq Nat, T # {}
    PROVE  \E x \in T : \A y \in T : x <= y
<1>1. \E x \in T : \A y \in T : ~ (<<y, x>> \in OpToRel(<,Nat))
  BY Zenon, NatLessThanWellFounded, WFMin
<1>2. PICK x \in T : \A y \in T : ~ (<<y, x>> \in OpToRel(<,Nat))
  BY Zenon, <1>1
<1>3. \A y \in T : ~(y < x)
  BY Zenon, <1>2 DEF OpToRel
<1> QED BY <1>3

\* The inner loop stops behind the last byte of the run, which exists.
LEMMA RunEndFound ==
    ASSUME NEW S, NEW a \in Seq(S), NEW b \in Seq(S), NEW i \in 1 .. Len(a), a[i] # b[i]
    PROVE  /\ RunEnd(a, b, i) \in i + 1 .. Len(a) + 1
           /\ \A k \in i .. RunEnd(a, b, i) - 1 : a[k] # b[k]
           /\ RunEnd(a, b, i) = Len(a) + 1 \/ a[RunEnd(a, b, i)] = b[RunEnd(a, b, i)]
<1> DEFINE L == Len(a)
           T == {j \in i .. L + 1 : j = L + 1 \/ a[j] = b[j]}
           Ends(j) == /\ \A k \in i .. (j - 1) : a[k] # b[k]
                      /\ j = L + 1 \/ a[j] = b[j]
<1>0. L \in Nat /\ i \in Nat /\ i <= L
  OBVIOUS
<1>1. T \subseteq Nat /\ L + 1 \in T
  BY <1>0
<1>2. PICK j \in T : \A y \in T : j <= y
  BY Zenon, <1>1, LeastNumber
<1>3. j \in i .. L + 1 /\ Ends(j)
  <2>1. ASSUME NEW k \in i .. (j - 1) PROVE a[k] # b[k]
    <3>1. k \in i .. L + 1 /\ k < j
      BY <1>0, <1>1, <1>2
    <3>2. k \notin T
      BY <1>0, <1>2, <3>1
    <3> QED BY Zenon, <3>1, <3>2
  <2> QED BY Zenon, <1>2, <2>1
<1> DEFINE e == CHOOSE x \in i .. (L + 1) : Ends(x)
<1>4. e \in i .. L + 1 /\ Ends(e)
  BY Zenon, <1>3
<1>5. RunEnd(a, b, i) = e
  BY Zenon DEF RunEnd
<1>6. e = L + 1 \/ a[e] = b[e]
  BY Zenon, <1>4
<1> HIDE DEF e, Ends
<1>7. e # i
  BY <1>0, <1>6
<1> QED BY <1>0, <1>4, <1>5, <1>7 DEF Ends

-----------------------------------------------------------------------------
\* One round of the loop, with f for the rounds after it.
Round(a, b, max_runs, max_changed, f, s) ==
    IF s.index > Len(a) THEN s.runs
    ELSE IF a[s.index] = b[s.index] THEN f[[s EXCEPT !.index = @ + 1]]
    ELSE IF Len(s.runs) >= max_runs THEN NoSnapshot
    ELSE LET n == RunEnd(a, b, s.index) - s.index
         IN  IF n > max_changed - s.changed THEN NoSnapshot
             ELSE f[[index |-> s.index + n, changed |-> s.changed + n,
                     runs |-> Append(s.runs, [offset |-> s.index - 1, length |-> n])]]

\* The states a round leads to.
Skipped(s) == [s EXCEPT !.index = @ + 1]
Found(a, b, s) ==
    LET n == RunEnd(a, b, s.index) - s.index
    IN  [index |-> s.index + n, changed |-> s.changed + n,
         runs |-> Append(s.runs, [offset |-> s.index - 1, length |-> n])]

\* Past an equal byte the index moves on by one and no run is added.
LEMMA SkippedState ==
    ASSUME NEW S, NEW a \in Seq(S), NEW s \in LoopState(a), s.index <= Len(a)
    PROVE  /\ Skipped(s) \in LoopState(a)
           /\ Skipped(s).index = s.index + 1 /\ Skipped(s).runs = s.runs
<1>0. Len(a) \in Nat /\ s.index \in 1 .. Len(a) /\ s.changed \in Nat /\ s.runs \in Seq(DiffRun)
  BY DEF LoopState
<1> QED BY <1>0 DEF Skipped, LoopState

\* At a differing byte the run is added and the index moves past its end.
LEMMA FoundState ==
    ASSUME NEW S, NEW a \in Seq(S), NEW b \in Seq(S), NEW s \in LoopState(a),
           s.index <= Len(a), a[s.index] # b[s.index]
    PROVE  /\ Found(a, b, s) \in LoopState(a)
           /\ Found(a, b, s).index = RunEnd(a, b, s.index)
           /\ Found(a, b, s).index > s.index
           /\ Found(a, b, s).runs =
                Append(s.runs, [offset |-> s.index - 1,
                                length |-> RunEnd(a, b, s.index) - s.index])
<1> DEFINE i == s.index
           c == s.changed
           L == Len(a)
           e == RunEnd(a, b, i)
           r == [offset |-> i - 1, length |-> e - i]
           new == [index |-> e, changed |-> c + (e - i), runs |-> Append(s.runs, r)]
<1>0. L \in Nat /\ i \in 1 .. L /\ c \in Nat /\ s.runs \in Seq(DiffRun)
  BY DEF LoopState
<1>1. e \in i + 1 .. L + 1
  BY Zenon, <1>0, RunEndFound
<1>2. Found(a, b, s) = [index |-> i + (e - i), changed |-> c + (e - i),
                        runs |-> Append(s.runs, r)]
  BY Zenon DEF Found
<1> HIDE DEF i, c, L, e
<1>3. i + (e - i) = e /\ c + (e - i) \in Nat /\ e > i /\ e \in 1 .. L + 1
  BY <1>0, <1>1
<1>4. r \in DiffRun
  BY <1>0, <1>1 DEF DiffRun
<1>5. Found(a, b, s) = new
  BY Zenon, <1>2, <1>3
<1> HIDE DEF r
<1>6. Append(s.runs, r) \in Seq(DiffRun)
  BY <1>0, <1>4
<1>7. new \in LoopState(a) /\ new.index = e /\ new.runs = Append(s.runs, r)
  BY Zenon, <1>3, <1>6 DEF LoopState, L
<1> HIDE DEF new
<1>8. Found(a, b, s) \in LoopState(a) /\ Found(a, b, s).index = e /\ e > i
      /\ Found(a, b, s).runs = Append(s.runs, r)
  BY Zenon, <1>3, <1>5, <1>7
<1> QED BY Zenon, <1>8 DEF e, r, i

\* A round depends only on the rounds after it.
LEMMA RoundIsLocal ==
    ASSUME NEW S, NEW a \in Seq(S), NEW b \in Seq(S), NEW mr, NEW mc,
           NEW s \in LoopState(a), NEW f, NEW g,
           \A t \in LoopState(a) : t.index > s.index => f[t] = g[t]
    PROVE  Round(a, b, mr, mc, f, s) = Round(a, b, mr, mc, g, s)
<1>1. CASE s.index > Len(a)
  BY Zenon, <1>1 DEF Round
<1>2. CASE ~(s.index > Len(a))
  <2>0. s.index <= Len(a) /\ s.index \in Nat
    BY <1>2 DEF LoopState
  <2>1. CASE a[s.index] = b[s.index]
    <3>0. Skipped(s) \in LoopState(a) /\ Skipped(s).index = s.index + 1
      BY Zenon, <2>0, SkippedState
    <3>1. f[Skipped(s)] = g[Skipped(s)]
      BY <2>0, <3>0
    <3> QED BY Zenon, <1>2, <2>1, <3>1 DEF Round, Skipped
  <2>2. CASE a[s.index] # b[s.index]
    <3>0. Found(a, b, s) \in LoopState(a) /\ Found(a, b, s).index > s.index
      BY Zenon, <2>0, <2>2, FoundState
    <3>1. f[Found(a, b, s)] = g[Found(a, b, s)]
      BY Zenon, <3>0
    <3> QED BY Zenon, <1>2, <2>2, <3>1 DEF Round, Found
  <2> QED BY Zenon, <2>1, <2>2
<1> QED BY Zenon, <1>1, <1>2

\* The loop ends, so it computes a result from every state: the rounds from
\* index L + 1 - n on have one, by induction over n.
LEMMA LoopEnds ==
    ASSUME NEW S, NEW a \in Seq(S), NEW b \in Seq(S), NEW mr, NEW mc
    PROVE  \E f : f = [s \in LoopState(a) |-> Round(a, b, mr, mc, f, s)]
<1> DEFINE D == LoopState(a)
           L == Len(a)
           R(f, s) == Round(a, b, mr, mc, f, s)
           Solves(f, n) == /\ f = [s \in D |-> f[s]]
                           /\ \A s \in D : s.index > L + 1 - n => f[s] = R(f, s)
           T == {n \in Nat : ~\E f : Solves(f, n)}
<1>0. L \in Nat /\ \A s \in D : s.index \in 1 .. L + 1
  BY DEF LoopState
<1>l. ASSUME NEW s \in D, NEW f, NEW g, \A t \in D : t.index > s.index => f[t] = g[t]
      PROVE  R(f, s) = R(g, s)
  BY Zenon, <1>l, RoundIsLocal
<1> HIDE DEF D, L, R
<1>1. T = {}
  <2> SUFFICES ASSUME T # {} PROVE FALSE
    BY Zenon
  <2>1. PICK n \in T : \A y \in T : n <= y
    BY Zenon, LeastNumber
  <2>2. n # 0
    <3> DEFINE z == [s \in D |-> 0]
    <3>1. Solves(z, 0)
      BY <1>0
    <3> QED BY Zenon, <2>1, <3>1
  <2>3. n - 1 \in Nat /\ n - 1 \notin T
    <3>1. n \in Nat
      BY Zenon, <2>1
    <3> HIDE DEF T
    <3> QED BY <2>1, <2>2, <3>1
  <2>4. PICK f : Solves(f, n - 1)
    BY Zenon, <2>3
  <2> DEFINE g == [s \in D |-> IF s.index > L + 1 - (n - 1) THEN f[s] ELSE R(f, s)]
  <2>5. ASSUME NEW s \in D, s.index > L + 1 - n
        PROVE  g[s] = R(g, s)
    <3>1. n \in Nat /\ L \in Nat /\ s.index \in Nat
      BY <1>0, <2>1
    <3>2. \A t \in D : t.index > s.index => g[t] = f[t]
      <4> SUFFICES ASSUME NEW t \in D, t.index > s.index PROVE g[t] = f[t]
        BY Zenon
      <4>1. t.index > L + 1 - (n - 1)
        BY <1>0, <2>5, <3>1
      <4> QED BY Zenon, <4>1
    <3>3. R(g, s) = R(f, s)
      <4> HIDE DEF g
      <4> QED BY Zenon, <1>l, <3>2
    <3>4. CASE s.index > L + 1 - (n - 1)
      BY Zenon, <2>4, <3>3, <3>4
    <3>5. CASE ~(s.index > L + 1 - (n - 1))
      BY Zenon, <3>3, <3>5
    <3> QED BY Zenon, <3>4, <3>5
  <2>6. Solves(g, n)
    <3>1. g = [s \in D |-> g[s]]
      BY Zenon
    <3> HIDE DEF g
    <3> QED BY Zenon, <2>5, <3>1
  <2> HIDE DEF g, Solves
  <2> QED BY Zenon, <2>1, <2>6
<1>2. PICK f : Solves(f, L + 1)
  <2>1. L + 1 \in Nat
    BY <1>0
  <2> HIDE DEF Solves
  <2> QED BY Zenon, <1>1, <2>1
<1>3. \A s \in D : f[s] = R(f, s)
  BY <1>0, <1>2
<1>4. f = [s \in D |-> R(f, s)]
  BY Zenon, <1>2, <1>3
<1> QED BY Zenon, <1>4 DEF D, R

\* DiffLoop is the result from the first state of a function whose values are
\* those of the rounds.
LEMMA LoopResult ==
    ASSUME NEW S, NEW a \in Seq(S), NEW b \in Seq(S), NEW mr, NEW mc
    PROVE  \E f : /\ \A s \in LoopState(a) : f[s] = Round(a, b, mr, mc, f, s)
                  /\ DiffLoop(a, b, mr, mc) = f[[index |-> 1, changed |-> 0, runs |-> <<>>]]
<1> DEFINE Rec(f) == f = [s \in LoopState(a) |-> Round(a, b, mr, mc, f, s)]
           c == CHOOSE f : Rec(f)
<1>1. Rec(c)
  BY LoopEnds
<1>2. DiffLoop(a, b, mr, mc) = c[[index |-> 1, changed |-> 0, runs |-> <<>>]]
  BY Zenon DEF DiffLoop, Round
<1> HIDE DEF c
<1>3. \A s \in LoopState(a) : c[s] = Round(a, b, mr, mc, c, s)
  BY Zenon, <1>1
<1> QED BY Zenon, <1>2, <1>3

-----------------------------------------------------------------------------
\* What the loop has found when it is at index: the maximal runs that begin
\* before it, in order, and none of them reaches beyond it.
Listed(a, b, index, runs) ==
    /\ runs \in Seq(DiffRun)
    /\ \A k \in 1 .. Len(runs) :
         runs[k] \in MaximalRuns(a, b) /\ runs[k].offset + runs[k].length < index
    /\ \A r \in MaximalRuns(a, b) :
         r.offset + 1 < index => \E k \in 1 .. Len(runs) : runs[k] = r
    /\ \A i, j \in 1 .. Len(runs) : i < j => runs[i].offset < runs[j].offset
    /\ index \in 2 .. Len(a) => a[index] = b[index] \/ a[index - 1] = b[index - 1]

\* The definition of a maximal run, for sequences of the same length.
LEMMA RunFacts ==
    ASSUME NEW S, NEW a \in Seq(S), NEW b \in Seq(S), NEW r \in MaximalRuns(a, b)
    PROVE  /\ r.offset \in 0 .. Len(a) - 1 /\ r.length \in 1 .. Len(a)
           /\ r.offset + r.length <= Len(a)
           /\ r = [offset |-> r.offset, length |-> r.length]
           /\ \A k \in r.offset .. (r.offset + r.length - 1) : a[k + 1] # b[k + 1]
           /\ r.offset > 0 => a[r.offset] = b[r.offset]
           /\ r.offset + r.length < Len(a) =>
                a[r.offset + r.length + 1] = b[r.offset + r.length + 1]
<1>0. Len(a) \in Nat
  OBVIOUS
<1>1. /\ r \in [offset : 0 .. Len(a), length : 1 .. Len(a)]
      /\ \A k \in r.offset .. (r.offset + r.length - 1) :
            k \in 0 .. (Len(a) - 1) /\ a[k + 1] # b[k + 1]
      /\ ~(r.offset - 1 \in 0 .. (Len(a) - 1) /\ a[r.offset - 1 + 1] # b[r.offset - 1 + 1])
      /\ ~(r.offset + r.length \in 0 .. (Len(a) - 1)
             /\ a[r.offset + r.length + 1] # b[r.offset + r.length + 1])
  BY Zenon DEF MaximalRuns
<1>2. r.offset \in 0 .. Len(a) /\ r.length \in 1 .. Len(a)
      /\ r = [offset |-> r.offset, length |-> r.length]
  BY Zenon, <1>1
<1>3. r.offset \in r.offset .. (r.offset + r.length - 1)
      /\ r.offset + r.length - 1 \in r.offset .. (r.offset + r.length - 1)
  BY <1>0, <1>2
<1>4. r.offset \in 0 .. Len(a) - 1 /\ r.offset + r.length - 1 \in 0 .. Len(a) - 1
  BY Zenon, <1>1, <1>3
<1>5. r.offset - 1 + 1 = r.offset
  BY <1>2
<1>6. r.offset > 0 => a[r.offset] = b[r.offset]
  <2> SUFFICES ASSUME r.offset > 0 PROVE a[r.offset] = b[r.offset]
    BY Zenon
  <2>1. r.offset - 1 \in 0 .. (Len(a) - 1)
    BY <1>0, <1>4
  <2> QED BY Zenon, <1>1, <1>5, <2>1
<1>7. r.offset + r.length < Len(a) =>
                a[r.offset + r.length + 1] = b[r.offset + r.length + 1]
  <2> SUFFICES ASSUME r.offset + r.length < Len(a)
               PROVE  a[r.offset + r.length + 1] = b[r.offset + r.length + 1]
    BY Zenon
  <2>1. r.offset + r.length \in 0 .. (Len(a) - 1)
    BY <1>0, <1>2
  <2> QED BY Zenon, <1>1, <2>1
<1>8. r.offset + r.length <= Len(a)
  BY <1>0, <1>2, <1>4
<1> QED BY <1>1, <1>2, <1>4, <1>6, <1>7, <1>8

\* A byte that is the same in both belongs to no run.
LEMMA SkipListed ==
    ASSUME NEW S, NEW a \in Seq(S), NEW b \in Seq(S), NEW i \in 1 .. Len(a), NEW runs,
           Listed(a, b, i, runs), a[i] = b[i]
    PROVE  Listed(a, b, i + 1, runs)
<1>0. Len(a) \in Nat
  OBVIOUS
<1>1. ASSUME NEW r \in MaximalRuns(a, b), r.offset + 1 < i + 1
      PROVE  r.offset + 1 < i
  <2>1. r.offset \in Nat /\ r.length \in Nat \ {0}
        /\ \A k \in r.offset .. (r.offset + r.length - 1) : a[k + 1] # b[k + 1]
    BY <1>0, RunFacts
  <2>2. r.offset \in r.offset .. (r.offset + r.length - 1)
    BY <2>1
  <2>3. a[r.offset + 1] # b[r.offset + 1]
    BY Zenon, <2>1, <2>2
  <2> QED BY <1>0, <1>1, <2>1, <2>3
<1>2. \A k \in 1 .. Len(runs) : runs[k].offset + runs[k].length < i + 1
  <2> SUFFICES ASSUME NEW k \in 1 .. Len(runs)
               PROVE  runs[k].offset + runs[k].length < i + 1
    BY Zenon
  <2>1. runs[k] \in DiffRun /\ runs[k].offset + runs[k].length < i
    BY DEF Listed
  <2> QED BY <2>1 DEF DiffRun
<1>3. i + 1 - 1 = i
  BY <1>0
<1> QED BY <1>0, <1>1, <1>2, <1>3 DEF Listed

\* The run that begins at index is maximal, and the next one to list.
LEMMA FoundListed ==
    ASSUME NEW S, NEW a \in Seq(S), NEW b \in Seq(S), NEW i \in 1 .. Len(a), NEW runs,
           Listed(a, b, i, runs), a[i] # b[i]
    PROVE  Listed(a, b, RunEnd(a, b, i),
                  Append(runs, [offset |-> i - 1, length |-> RunEnd(a, b, i) - i]))
<1> DEFINE L == Len(a)
           e == RunEnd(a, b, i)
           r0 == [offset |-> i - 1, length |-> e - i]
           more == Append(runs, r0)
           M == MaximalRuns(a, b)
<1>0. L \in Nat /\ i \in Nat \ {0} /\ i <= L
  OBVIOUS
<1>1. /\ e \in i + 1 .. L + 1
      /\ \A k \in i .. e - 1 : a[k] # b[k]
      /\ e = L + 1 \/ a[e] = b[e]
  BY RunEndFound
<1>11. e \in Nat /\ i + 1 <= e /\ e <= L + 1
  BY <1>0, <1>1
<1> HIDE DEF e
<1>2. r0.offset = i - 1 /\ r0.length = e - i /\ r0 \in [offset : 0 .. L, length : 1 .. L]
      /\ r0 \in DiffRun
  BY <1>0, <1>1 DEF DiffRun
<1>3. r0 \in M
  <2>1. ASSUME NEW k \in r0.offset .. (r0.offset + r0.length - 1)
        PROVE  k \in 0 .. (L - 1) /\ a[k + 1] # b[k + 1]
    <3>1. k + 1 \in i .. e - 1 /\ k \in 0 .. (L - 1)
      BY <1>0, <1>1, <1>2
    <3> QED BY Zenon, <1>1, <3>1
  <2>2. ~(r0.offset - 1 \in 0 .. (L - 1) /\ a[r0.offset - 1 + 1] # b[r0.offset - 1 + 1])
    <3> SUFFICES ASSUME r0.offset - 1 \in 0 .. (L - 1)
                 PROVE  a[r0.offset - 1 + 1] = b[r0.offset - 1 + 1]
      BY Zenon
    <3>1. i \in 2 .. L /\ r0.offset - 1 + 1 = i - 1
      BY <1>0, <1>2
    <3>2. a[i - 1] = b[i - 1]
      BY Zenon, <3>1 DEF Listed
    <3> QED BY Zenon, <3>1, <3>2
  <2>3. ~(r0.offset + r0.length \in 0 .. (L - 1)
            /\ a[r0.offset + r0.length + 1] # b[r0.offset + r0.length + 1])
    <3>1. r0.offset + r0.length = e - 1 /\ r0.offset + r0.length + 1 = e
      BY <1>0, <1>1, <1>2
    <3>2. e - 1 \in 0 .. (L - 1) => e # L + 1
      BY <1>0, <1>1
    <3> HIDE DEF r0
    <3> QED BY Zenon, <1>1, <3>1, <3>2
  <2> HIDE DEF r0
  <2> QED BY Zenon, <1>2, <2>1, <2>2, <2>3 DEF MaximalRuns
<1> HIDE DEF r0, M
<1>4. /\ runs \in Seq(DiffRun) /\ Len(runs) \in Nat
      /\ \A k \in 1 .. Len(runs) : runs[k] \in DiffRun
      /\ \A k \in 1 .. Len(runs) : runs[k] \in M /\ runs[k].offset + runs[k].length < i
      /\ \A r \in M : r.offset + 1 < i => \E k \in 1 .. Len(runs) : runs[k] = r
      /\ \A x, y \in 1 .. Len(runs) : x < y => runs[x].offset < runs[y].offset
  BY DEF Listed, M
<1>5. /\ more \in Seq(DiffRun) /\ Len(more) = Len(runs) + 1 /\ more[Len(more)] = r0
      /\ \A k \in 1 .. Len(runs) : more[k] = runs[k]
  BY <1>2, <1>4
<1> HIDE DEF more
<1>6. ASSUME NEW k \in 1 .. Len(more)
      PROVE  more[k] \in M /\ more[k].offset + more[k].length < e
  <2>1. CASE k = Len(more)
    <3>1. r0.offset + r0.length < e
      BY <1>0, <1>1, <1>2
    <3> QED BY Zenon, <1>3, <1>5, <2>1, <3>1
  <2>2. CASE k # Len(more)
    <3>1. k \in 1 .. Len(runs)
      BY <1>4, <1>5, <2>2
    <3>2. runs[k] \in M /\ runs[k].offset + runs[k].length < i /\ runs[k] \in DiffRun
      BY Zenon, <1>4, <3>1
    <3>3. runs[k].offset + runs[k].length < e
      BY <1>0, <1>1, <3>2 DEF DiffRun
    <3> QED BY Zenon, <1>5, <3>1, <3>2, <3>3
  <2> QED BY Zenon, <2>1, <2>2
<1>7. ASSUME NEW r \in M, r.offset + 1 < e
      PROVE  \E k \in 1 .. Len(more) : more[k] = r
  <2>0. /\ r.offset \in 0 .. L - 1 /\ r.length \in 1 .. L
        /\ r.offset + r.length <= L
        /\ r = [offset |-> r.offset, length |-> r.length]
        /\ \A k \in r.offset .. (r.offset + r.length - 1) : a[k + 1] # b[k + 1]
        /\ r.offset > 0 => a[r.offset] = b[r.offset]
        /\ r.offset + r.length < L =>
                a[r.offset + r.length + 1] = b[r.offset + r.length + 1]
    BY RunFacts DEF M
  <2> DEFINE o == r.offset
             l == r.length
  <2>4. o \in Nat /\ l \in Nat \ {0} /\ o + l <= L
    BY <1>0, <2>0
  <2>1. CASE r.offset + 1 < i
    <3>1. PICK k \in 1 .. Len(runs) : runs[k] = r
      BY Zenon, <1>4, <2>1
    <3>2. k \in 1 .. Len(more)
      BY <1>4, <1>5
    <3> QED BY Zenon, <1>5, <3>1, <3>2
  <2>2. CASE r.offset + 1 > i
    <3>1. r.offset \in i .. e - 1 /\ r.offset > 0
      <4>1. o + 1 < e /\ o + 1 > i
        BY Zenon, <1>7, <2>2
      <4> HIDE DEF o
      <4>2. o \in i .. e - 1 /\ o > 0
        BY <1>0, <1>11, <2>4, <4>1
      <4> QED BY Zenon, <4>2 DEF o
    <3> QED BY Zenon, <1>1, <2>0, <3>1
  <2>3. CASE r.offset + 1 = i
    <3>1. ~(r.length < e - i)
      <4> SUFFICES ASSUME r.length < e - i PROVE FALSE
        BY Zenon
      <4>1. /\ r.offset + r.length + 1 \in i .. e - 1
            /\ r.offset + r.length < L
        <5>1. o + 1 = i /\ l < e - i
          BY Zenon, <2>3
        <5> HIDE DEF o, l
        <5>2. o + l + 1 \in i .. e - 1 /\ o + l < L
          BY <1>0, <1>11, <2>4, <5>1
        <5> QED BY Zenon, <5>2 DEF o, l
      <4> QED BY Zenon, <1>1, <2>0, <4>1
    <3>2. ~(r.length > e - i)
      <4> SUFFICES ASSUME r.length > e - i PROVE FALSE
        BY Zenon
      <4>1. /\ e - 1 \in r.offset .. (r.offset + r.length - 1) /\ e - 1 + 1 = e
            /\ e # L + 1
        <5>1. o + 1 = i /\ l > e - i
          BY Zenon, <2>3
        <5> HIDE DEF o, l
        <5>2. e - 1 \in o .. (o + l - 1) /\ e - 1 + 1 = e /\ e # L + 1
          BY <1>0, <1>11, <2>4, <5>1
        <5> QED BY Zenon, <5>2 DEF o, l
      <4> QED BY Zenon, <1>1, <2>0, <4>1
    <3>3. r.offset = i - 1 /\ r.length = e - i
      <4>1. o + 1 = i /\ ~(l < e - i) /\ ~(l > e - i)
        BY Zenon, <2>3, <3>1, <3>2
      <4> HIDE DEF o, l
      <4>2. o = i - 1 /\ l = e - i
        BY <1>0, <1>11, <2>4, <4>1
      <4> QED BY Zenon, <4>2 DEF o, l
    <3>4. r = r0
      BY Zenon, <2>0, <3>3 DEF r0
    <3>5. Len(more) \in 1 .. Len(more)
      BY <1>4, <1>5
    <3> QED BY Zenon, <1>5, <3>4, <3>5
  <2> QED BY <1>0, <2>0, <2>1, <2>2, <2>3
<1>8. ASSUME NEW x \in 1 .. Len(more), NEW y \in 1 .. Len(more), x < y
      PROVE  more[x].offset < more[y].offset
  <2>1. x \in 1 .. Len(runs)
    BY <1>4, <1>5, <1>8
  <2>2. CASE y = Len(more)
    <3>1. runs[x] \in DiffRun /\ runs[x] \in M /\ runs[x].offset + runs[x].length < i
      BY Zenon, <1>4, <2>1
    <3>2. runs[x].offset \in Nat /\ runs[x].length \in Nat \ {0}
      BY <1>0, <3>1, RunFacts DEF M
    <3>3. runs[x].offset < i - 1
      BY <1>0, <3>1, <3>2
    <3> QED BY Zenon, <1>2, <1>5, <2>1, <2>2, <3>3
  <2>3. CASE y # Len(more)
    <3>1. y \in 1 .. Len(runs)
      BY <1>4, <1>5, <2>3
    <3> QED BY Zenon, <1>4, <1>5, <1>8, <2>1, <3>1
  <2> QED BY Zenon, <2>2, <2>3
<1>9. e \in 2 .. L => a[e] = b[e] \/ a[e - 1] = b[e - 1]
  BY <1>0, <1>1
<1>10. Listed(a, b, e, more)
  BY Zenon, <1>5, <1>6, <1>7, <1>8, <1>9 DEF Listed, M
<1> QED BY Zenon, <1>10 DEF more, r0, e

\* What the loop returns lists the maximal runs, from every state in which it
\* has listed those that begin before its index: by induction over the bytes
\* that are left.
LEMMA LoopLists ==
    ASSUME NEW S, NEW a \in Seq(S), NEW b \in Seq(S), NEW mr, NEW mc, NEW f,
           \A s \in LoopState(a) : f[s] = Round(a, b, mr, mc, f, s),
           NEW s \in LoopState(a), Listed(a, b, s.index, s.runs)
    PROVE  f[s] = NoSnapshot \/ Listed(a, b, Len(a) + 1, f[s])
<1> DEFINE L == Len(a)
           D == LoopState(a)
           Right(t) == f[t] = NoSnapshot \/ Listed(a, b, L + 1, f[t])
           Bad == {t \in D : Listed(a, b, t.index, t.runs) /\ ~Right(t)}
           T == {L + 1 - t.index : t \in Bad}
<1>0. L \in Nat /\ \A t \in D : t.index \in 1 .. L + 1
  BY DEF LoopState
<1>1. T = {}
  <2> SUFFICES ASSUME T # {} PROVE FALSE
    BY Zenon
  <2>1. T \subseteq Nat
    <3> HIDE DEF D
    <3> QED BY <1>0
  <2>2. PICK n \in T : \A y \in T : n <= y
    BY Zenon, <2>1, LeastNumber
  <2>3. PICK t \in Bad : n = L + 1 - t.index
    BY Zenon, <2>2
  <2>4. t \in D /\ Listed(a, b, t.index, t.runs) /\ ~Right(t) /\ t.index \in 1 .. L + 1
    BY Zenon, <1>0, <2>3
  <2>5. ASSUME NEW u \in D, u.index > t.index, Listed(a, b, u.index, u.runs)
        PROVE  Right(u)
    <3> SUFFICES ASSUME u \in Bad PROVE FALSE
      BY Zenon, <2>5
    <3>1. L + 1 - u.index \in T
      BY Zenon
    <3>2. n <= L + 1 - u.index
      BY Zenon, <2>2, <3>1
    <3>3. u.index \in 1 .. L + 1
      BY Zenon, <1>0, <2>5
    <3> HIDE DEF T, Bad, D
    <3> QED BY <1>0, <2>3, <2>4, <2>5, <3>2, <3>3
  <2>6. f[t] = Round(a, b, mr, mc, f, t)
    BY Zenon, <2>4
  <2> HIDE DEF Right, Bad, T
  <2>7. CASE t.index > L
    <3>1. f[t] = t.runs /\ t.index = L + 1
      BY <1>0, <2>4, <2>6, <2>7 DEF Round
    <3> QED BY Zenon, <2>4, <3>1 DEF Right
  <2>8. CASE ~(t.index > L) /\ a[t.index] = b[t.index]
    <3>1. t.index \in 1 .. L /\ t.index <= L
      BY <1>0, <2>4, <2>8
    <3>2. f[t] = f[Skipped(t)]
      BY Zenon, <2>6, <2>8 DEF Round, Skipped
    <3>3. Skipped(t) \in D /\ Skipped(t).index = t.index + 1 /\ Skipped(t).runs = t.runs
      BY Zenon, <2>4, <3>1, SkippedState
    <3>4. Listed(a, b, t.index + 1, t.runs)
      BY Zenon, <2>4, <2>8, <3>1, SkipListed
    <3>5. Right(Skipped(t))
      BY <2>5, <3>1, <3>3, <3>4
    <3> QED BY Zenon, <2>4, <3>2, <3>5 DEF Right
  <2>9. CASE ~(t.index > L) /\ a[t.index] # b[t.index]
    <3>1. t.index \in 1 .. L /\ t.index <= L
      BY <1>0, <2>4, <2>9
    <3>2. f[t] = NoSnapshot \/ f[t] = f[Found(a, b, t)]
      BY Zenon, <2>6, <2>9 DEF Round, Found
    <3>3. /\ Found(a, b, t) \in D /\ Found(a, b, t).index > t.index
          /\ Found(a, b, t).index = RunEnd(a, b, t.index)
          /\ Found(a, b, t).runs =
                  Append(t.runs, [offset |-> t.index - 1,
                                  length |-> RunEnd(a, b, t.index) - t.index])
      <4>1. a \in Seq(S) /\ b \in Seq(S) /\ t \in LoopState(a) /\ t.index <= Len(a)
        BY Zenon, <2>4, <3>1
      <4>2. a[t.index] # b[t.index]
        BY Zenon, <2>9
      <4> HIDE DEF L
      <4> QED BY Zenon, <4>1, <4>2, FoundState
    <3>4. Listed(a, b, Found(a, b, t).index, Found(a, b, t).runs)
      BY <2>4, <2>9, <3>1, <3>3, FoundListed
    <3>5. Right(Found(a, b, t))
      BY Zenon, <2>5, <3>3, <3>4
    <3> QED BY Zenon, <2>4, <3>2, <3>5 DEF Right
  <2> QED BY Zenon, <2>7, <2>8, <2>9
<1>2. s \notin Bad
  BY Zenon, <1>1
<1> QED BY Zenon, <1>2

\* MemorySnapshot::Diff returns exactly the maximal runs of differing bytes, in
\* order, of two snapshots of the same range, or reports that a limit was met.
THEOREM DiffIsExact ==
    ASSUME NEW S, NEW older, NEW newer, older.bytes \in Seq(S), newer.bytes \in Seq(S),
           NEW mr, NEW mc, Diff(older, newer, mr, mc) # NoSnapshot
    PROVE  ExactDiff(older, newer, Diff(older, newer, mr, mc))
<1> DEFINE a == older.bytes
           b == newer.bytes
           runs == DiffLoop(a, b, mr, mc)
           z == [index |-> 1, changed |-> 0, runs |-> <<>>]
<1>1. SameSpace(older, newer) /\ Diff(older, newer, mr, mc) = runs
  BY Zenon DEF Diff
<1>2. PICK f : /\ \A s \in LoopState(a) : f[s] = Round(a, b, mr, mc, f, s)
               /\ runs = f[z]
  BY LoopResult
<1>3. z \in LoopState(a) /\ Listed(a, b, z.index, z.runs)
  <2>1. Len(a) \in Nat
    OBVIOUS
  <2>2. z.index = 1 /\ z.runs = <<>> /\ z \in LoopState(a)
    BY <2>1 DEF LoopState
  <2>3. \A r \in MaximalRuns(a, b) : ~(r.offset + 1 < 1)
    BY <2>1, RunFacts
  <2>4. Listed(a, b, 1, <<>>)
    BY <2>3 DEF Listed
  <2> QED BY Zenon, <2>2, <2>4
<1> HIDE DEF z
<1>4. runs = NoSnapshot \/ Listed(a, b, Len(a) + 1, runs)
  BY Zenon, <1>2, <1>3, LoopLists
<1> HIDE DEF runs
<1>5. Listed(a, b, Len(a) + 1, runs)
  BY Zenon, <1>1, <1>4
<1>6. \A r \in MaximalRuns(a, b) : r.offset + 1 < Len(a) + 1
  BY RunFacts
<1>7. {runs[i] : i \in 1 .. Len(runs)} = MaximalRuns(a, b)
  BY Zenon, <1>5, <1>6 DEF Listed
<1>8. \A i, j \in 1 .. Len(runs) : i < j => runs[i].offset < runs[j].offset
  BY Zenon, <1>5 DEF Listed
<1> QED BY Zenon, <1>1, <1>7, <1>8 DEF ExactDiff, SameSpace

-----------------------------------------------------------------------------
(* The snapshot panel.  PanelInv says what the table, a result not yet       *)
(* consumed and a comparison that still runs have to do with the snapshots   *)
(* that the panel holds.                                                     *)

\* The bytes of a snapshot, one of another process included.
AnyByte == SnapByte \cup {"other"}

\* An optional snapshot.
Snapshot(s) ==
    s # NoSnapshot => /\ s = SnapshotOf(s.pid, s.address, s.bytes)
                      /\ s.bytes \in Seq(AnyByte)

Both == baseline # NoSnapshot /\ current # NoSnapshot

Published(op) == pending # NoSnapshot /\ pending.ok /\ pending.op \in op

\* The table, and the result and the worker that will fill it, belong to the
\* snapshots held.
TableExact ==
    /\ diffs # <<>> => Both /\ ExactDiff(baseline, current, diffs)
    /\ Published({"Diff"}) => Both /\ ExactDiff(baseline, current, pending.value)
    /\ Running /\ task.op = "Diff" => Both

\* A worker that runs has no result yet, and without a worker there is none to
\* consume: so a result is consumed for the snapshots it was computed from.
PanelInv ==
    /\ Snapshot(baseline) /\ Snapshot(current) /\ Snapshot(saved)
    /\ task = NoSnapshot \/ task \in PanelTask
    /\ Running \/ task = NoSnapshot => pending = NoSnapshot
    /\ Published({"CaptureBaseline", "CaptureCurrent", "LoadBaseline", "LoadCurrent"})
           => Snapshot(pending.value)
    /\ LoadedIsSaved
    /\ raced \in BOOLEAN /\ (~raced => TableExact)

\* What StartWorker starts is one of the panel's workers.
LEMMA NewTaskType ==
    ASSUME NEW op \in WorkerOperation, NEW range \in SnapRange \cup {NoRange},
           NEW max_runs \in MaxDiffRuns \cup {0}
    PROVE  /\ NewTask(op, range, max_runs) \in PanelTask
           /\ NewTask(op, range, max_runs).op = op
BY DEF NewTask, PanelTask

\* The worker ends with result r and the panel's own fields do not change: a
\* snapshot must be one, a loaded one the saved one, a comparison exact.
LEMMA PublishKeeps ==
    ASSUME PanelInv, Running, NEW r, PublishSnapshot(r), KeepPanel, Snapshot(saved'),
           r # NoSnapshot /\ r.ok =>
             /\ r.op \in {"CaptureBaseline", "CaptureCurrent", "LoadBaseline", "LoadCurrent"}
                   => Snapshot(r.value)
             /\ r.op \in {"LoadBaseline", "LoadCurrent"} => r.value = saved'
             /\ r.op = "Diff" /\ ~raced => Both /\ ExactDiff(baseline, current, r.value)
    PROVE  PanelInv'
<1> DEFINE new == NewTask("None", NoRange, 0)
           ended == [new EXCEPT !.running = FALSE]
<1>1. ended \in PanelTask /\ ended.running = FALSE /\ ended # NoSnapshot
  <2>1. new \in PanelTask
    BY Zenon, NewTaskType DEF WorkerOperation
  <2> HIDE DEF new
  <2> QED BY Zenon, <2>1, PanelAssumption DEF PanelTask
<1>2. /\ task' = ended /\ (pending' = r \/ pending' = NoSnapshot)
      /\ UNCHANGED <<baseline, current, diffs, raced>>
  BY Zenon DEF PublishSnapshot, PanelInv, KeepPanel
<1> HIDE DEF ended
<1>3. ~Running' /\ task' # NoSnapshot /\ task' \in PanelTask
  BY Zenon, <1>1, <1>2 DEF Running
<1>4. /\ Snapshot(baseline)' /\ Snapshot(current)' /\ Snapshot(saved)'
      /\ raced' \in BOOLEAN
  BY Zenon, <1>2 DEF PanelInv, Snapshot
<1>5. LoadedIsSaved'
  BY Zenon, <1>2 DEF LoadedIsSaved
<1>6. ASSUME Published({"CaptureBaseline", "CaptureCurrent", "LoadBaseline", "LoadCurrent"})'
      PROVE  Snapshot(pending.value)'
  BY Zenon, <1>2, <1>6 DEF Published, Snapshot
<1>7. ASSUME ~raced' PROVE TableExact'
  <2>1. diffs # <<>> => Both /\ ExactDiff(baseline, current, diffs)
    BY Zenon, <1>2, <1>7 DEF PanelInv, TableExact
  <2>2. (diffs # <<>> => Both /\ ExactDiff(baseline, current, diffs))'
    BY Zenon, <1>2, <2>1 DEF Both, ExactDiff
  <2>3. ASSUME Published({"Diff"})'
        PROVE  (Both /\ ExactDiff(baseline, current, pending.value))'
    <3>1. pending' = r /\ Both /\ ExactDiff(baseline, current, r.value)
      BY Zenon, <1>2, <1>7, <2>3 DEF Published
    <3> QED BY Zenon, <1>2, <3>1 DEF Both, ExactDiff
  <2> QED BY Zenon, <1>3, <2>2, <2>3 DEF TableExact
<1> QED BY <1>3, <1>4, <1>5, <1>6, <1>7 DEF PanelInv

\* MemorySnapshot::Diff on the two snapshots of the panel.
LEMMA DiffHeld ==
    ASSUME NEW s, NEW t, s # NoSnapshot, t # NoSnapshot, Snapshot(s), Snapshot(t),
           NEW mr, NEW mc, Diff(s, t, mr, mc) # NoSnapshot
    PROVE  ExactDiff(s, t, Diff(s, t, mr, mc))
<1>1. s.bytes \in Seq(AnyByte) /\ t.bytes \in Seq(AnyByte)
  BY Zenon DEF Snapshot
<1> QED BY Zenon, <1>1, DiffIsExact

\* MemorySnapshot::Load rejects every damaged file: the size or the checksum is
\* wrong, unless a byte was overwritten by the value it had.  (Damage to the process
\* and the address in the header is not among those, see Damaged.)
LEMMA LoadAccepts ==
    ASSUME NEW s, s # NoSnapshot, Snapshot(s), NEW f \in {Encode(s)} \cup Damaged(Encode(s)),
           Decode(f) # NoSnapshot
    PROVE  Decode(f) = s
<1>1. /\ f.pid = s.pid /\ f.address = s.address
      /\ f.checksum = s.bytes \/ f.payload = s.bytes
  BY DEF Encode, Damaged
<1>2. f.checksum = f.payload /\ Decode(f) = SnapshotOf(f.pid, f.address, f.payload)
  BY Zenon DEF Decode, ValidFile
<1>3. Decode(f) = SnapshotOf(s.pid, s.address, s.bytes)
  BY Zenon, <1>1, <1>2
<1> QED BY Zenon, <1>3 DEF Snapshot

\* A step of the worker: each way to end publishes a result that fits.
LEMMA WorkerKeeps == ASSUME PanelInv, SnapshotWorker PROVE PanelInv'
<1>1. ASSUME Running, NEW op, PublishSnapshot(Failed(op)), KeepPanel, UNCHANGED saved
      PROVE  PanelInv'
  <2>1. Failed(op).ok = FALSE /\ Snapshot(saved')
    BY Zenon, <1>1 DEF Failed, PanelInv
  <2> QED BY Zenon, <1>1, <2>1, PublishKeeps
<1>2. CASE WorkerFails
  BY Zenon, <1>1, <1>2 DEF WorkerFails
<1>3. CASE ReadChunk
  <2>0. /\ Running /\ task.op # "Diff" /\ task \in PanelTask
        /\ UNCHANGED <<baseline, current, diffs, raced, pending, saved>>
    BY Zenon, <1>3 DEF ReadChunk, KeepPanel, PanelInv, Running
  <2> DEFINE left == task.range[2] - Len(task.got)
             n == IF left < Chunk THEN left ELSE Chunk
  <2>1. PICK bytes \in [1 .. n -> SnapByte] : task' = [task EXCEPT !.got = @ \o bytes]
    BY Zenon, <1>3 DEF ReadChunk
  <2>2. n \in Nat
    <3>1. task.range \in Nat \X Nat /\ task.got \in Seq(SnapByte)
      BY <2>0, PanelAssumption DEF PanelTask, NoRange
    <3>2. task.range[2] \in Nat /\ Len(task.got) \in Nat /\ Len(task.got) < task.range[2]
      BY <1>3, <3>1 DEF ReadChunk
    <3> QED BY <3>2, PanelAssumption
  <2> HIDE DEF n
  <2>3. bytes \in Seq(SnapByte)
    BY <2>2
  <2> DEFINE got == task.got \o bytes
  <2>4. task' \in PanelTask /\ task'.op = task.op /\ task'.running = task.running
    <3>1. got \in Seq(SnapByte) /\ task' = [task EXCEPT !.got = got]
      BY <2>0, <2>1, <2>3 DEF PanelTask
    <3> HIDE DEF got
    <3> QED BY Zenon, <2>0, <3>1 DEF PanelTask
  <2>5. pending = NoSnapshot /\ pending' = NoSnapshot
    BY Zenon, <2>0 DEF PanelInv
  <2>6. /\ Snapshot(baseline)' /\ Snapshot(current)' /\ Snapshot(saved)'
        /\ raced' \in BOOLEAN
    BY Zenon, <2>0 DEF PanelInv, Snapshot
  <2>7. ASSUME ~raced' PROVE TableExact'
    <3>1. diffs # <<>> => Both /\ ExactDiff(baseline, current, diffs)
      BY Zenon, <2>0, <2>7 DEF PanelInv, TableExact
    <3>2. (diffs # <<>> => Both /\ ExactDiff(baseline, current, diffs))'
      BY Zenon, <2>0, <3>1 DEF Both, ExactDiff
    <3> QED BY Zenon, <2>0, <2>4, <2>5, <3>2 DEF TableExact, Published
  <2> QED BY Zenon, <2>4, <2>5, <2>6, <2>7 DEF PanelInv, Published, LoadedIsSaved
<1>4. CASE CaptureDone
  <2> DEFINE s == SnapshotOf(Attached, task.range[1], task.got)
             r == Completed(task.op, s)
  <2>1. /\ Running /\ task.op \in {"CaptureBaseline", "CaptureCurrent"}
        /\ PublishSnapshot(r) /\ KeepPanel /\ UNCHANGED saved
    BY Zenon, <1>4 DEF CaptureDone
  <2>2. task.got \in Seq(AnyByte)
    <3>1. task.got \in Seq(SnapByte)
      BY Zenon, <2>1 DEF PanelInv, Running, PanelTask
    <3> QED BY <3>1 DEF AnyByte
  <2>3. Snapshot(s)
    BY Zenon, <2>2 DEF Snapshot, SnapshotOf
  <2>4. r.op = task.op /\ r.value = s /\ Snapshot(saved')
    BY Zenon, <2>1 DEF Completed, PanelInv
  <2> HIDE DEF r, s
  <2> QED BY Zenon, <2>1, <2>3, <2>4, PublishKeeps
<1>5. CASE LoadDone
  <2>1. PICK f \in {Encode(saved)} \cup Damaged(Encode(saved)) :
            PublishSnapshot(IF Decode(f) = NoSnapshot THEN Failed(task.op)
                            ELSE Completed(task.op, Decode(f)))
    BY Zenon, <1>5 DEF LoadDone
  <2>2. /\ Running /\ task.op \in {"LoadBaseline", "LoadCurrent"} /\ saved # NoSnapshot
        /\ KeepPanel /\ UNCHANGED saved /\ Snapshot(saved)
    BY Zenon, <1>5 DEF LoadDone, PanelInv
  <2>3. CASE Decode(f) = NoSnapshot
    <3>1. PublishSnapshot(Failed(task.op))
      BY Zenon, <2>1, <2>3
    <3> QED BY Zenon, <1>1, <2>2, <3>1
  <2>4. CASE Decode(f) # NoSnapshot
    <3>1. Decode(f) = saved
      BY Zenon, <2>2, <2>4, LoadAccepts
    <3> DEFINE r == Completed(task.op, saved)
    <3>2. PublishSnapshot(r)
      BY Zenon, <2>1, <2>4, <3>1
    <3>3. r.op = task.op /\ r.value = saved
      BY Zenon DEF Completed
    <3> HIDE DEF r
    <3> QED BY Zenon, <2>2, <3>2, <3>3, PublishKeeps
  <2> QED BY Zenon, <2>3, <2>4
<1>6. CASE SaveDone
  <2> DEFINE r == Completed(task.op, NoSnapshot)
  <2>1. /\ Running /\ task.op \in {"SaveBaseline", "SaveCurrent"}
        /\ PublishSnapshot(r) /\ KeepPanel /\ saved' \in {baseline, current}
    BY Zenon, <1>6 DEF SaveDone, ReplaceAtomically
  <2>2. Snapshot(saved')
    BY Zenon, <2>1 DEF PanelInv
  <2>3. r.op = task.op
    BY Zenon DEF Completed
  <2> HIDE DEF r
  <2> QED BY Zenon, <2>1, <2>2, <2>3, PublishKeeps
<1>7. CASE DiffDone
  <2>0. Running /\ task.op = "Diff" /\ KeepPanel /\ UNCHANGED saved /\ Snapshot(saved')
    BY Zenon, <1>7 DEF DiffDone, PanelInv
  <2>1. CASE Both
    <3> DEFINE runs == Diff(baseline, current, task.max_runs, Len(baseline.bytes))
               r == Completed("Diff", runs)
    <3>1. PublishSnapshot(IF runs = NoSnapshot THEN Failed("Diff") ELSE r)
      BY Zenon, <1>7, <2>1 DEF DiffDone, Both
    <3>2. CASE runs = NoSnapshot
      <4>1. PublishSnapshot(Failed("Diff"))
        BY Zenon, <3>1, <3>2
      <4> QED BY Zenon, <1>1, <2>0, <4>1
    <3>3. CASE runs # NoSnapshot
      <4>1. ExactDiff(baseline, current, runs)
        BY Zenon, <2>1, <3>3, DiffHeld DEF Both, PanelInv
      <4> HIDE DEF runs
      <4>2. PublishSnapshot(r) /\ r.op = "Diff" /\ r.value = runs
        BY Zenon, <3>1, <3>3 DEF Completed
      <4> HIDE DEF r
      <4> QED BY <2>0, <2>1, <4>1, <4>2, PublishKeeps
    <3> QED BY Zenon, <3>2, <3>3
  <2>2. CASE ~Both
    <3>1. PICK runs : PublishSnapshot(Completed("Diff", runs))
      BY Zenon, <1>7, <2>2 DEF DiffDone, Both
    <3>2. Completed("Diff", runs).op = "Diff"
      BY Zenon DEF Completed
    <3>3. raced
      BY Zenon, <2>0, <2>2 DEF PanelInv, TableExact
    <3> QED BY <2>0, <3>1, <3>2, <3>3, PublishKeeps
  <2> QED BY Zenon, <2>1, <2>2
<1> QED BY <1>2, <1>3, <1>4, <1>5, <1>6, <1>7 DEF SnapshotWorker

\* The panel after it has consumed the result of a worker that has ended.
LEMMA ConsumeKeeps ==
    ASSUME PanelInv, ~Running, ConsumeWorkerResult
    PROVE  /\ Snapshot(baseline') /\ Snapshot(current') /\ pending' = NoSnapshot
           /\ ~raced /\ diffs' # <<>> => Both' /\ ExactDiff(baseline', current', diffs')
<1> DEFINE done == task # NoSnapshot /\ ~task.running /\ pending # NoSnapshot /\ pending.ok
           p == IF done THEN Consumed(Panel, pending) ELSE Panel
<1>0. /\ baseline' = p.baseline /\ current' = p.current /\ diffs' = p.diffs
      /\ pending' = NoSnapshot
  BY Zenon DEF ConsumeWorkerResult
<1>1. /\ Snapshot(baseline) /\ Snapshot(current) /\ Snapshot(NoSnapshot)
      /\ ~raced => (diffs # <<>> => Both /\ ExactDiff(baseline, current, diffs))
  BY Zenon DEF PanelInv, TableExact, Snapshot
<1>2. ASSUME UNCHANGED <<baseline, current, diffs>>
      PROVE  /\ Snapshot(baseline') /\ Snapshot(current')
             /\ ~raced /\ diffs' # <<>> => Both' /\ ExactDiff(baseline', current', diffs')
  BY Zenon, <1>1, <1>2 DEF Both
<1>3. CASE ~done
  BY Zenon, <1>0, <1>2, <1>3 DEF Panel
<1>4. CASE done
  <2>0. p = Consumed(Panel, pending)
    BY Zenon, <1>4
  <2>1. CASE pending.op = "CaptureBaseline"
    <3>1. baseline' = pending.value /\ current' = NoSnapshot /\ diffs' = <<>>
      BY <1>0, <2>0, <2>1 DEF Consumed
    <3>2. Snapshot(pending.value)
      BY Zenon, <1>4, <2>1 DEF PanelInv, Published
    <3> QED BY Zenon, <1>0, <1>1, <3>1, <3>2
  <2>2. CASE pending.op = "LoadBaseline"
    <3>1. baseline' = pending.value /\ current' = current /\ diffs' = <<>>
      BY Zenon, <1>0, <2>0, <2>2 DEF Consumed, Panel
    <3>2. Snapshot(pending.value)
      BY Zenon, <1>4, <2>2 DEF PanelInv, Published
    <3> QED BY Zenon, <1>0, <1>1, <3>1, <3>2
  <2>3. CASE pending.op \in {"CaptureCurrent", "LoadCurrent"}
    <3>1. baseline' = baseline /\ current' = pending.value /\ diffs' = <<>>
      BY Zenon, <1>0, <2>0, <2>3 DEF Consumed, Panel
    <3>2. Snapshot(pending.value)
      BY Zenon, <1>4, <2>3 DEF PanelInv, Published
    <3> QED BY Zenon, <1>0, <1>1, <3>1, <3>2
  <2>4. CASE pending.op = "Diff"
    <3>1. baseline' = baseline /\ current' = current /\ diffs' = pending.value
      BY Zenon, <1>0, <2>0, <2>4 DEF Consumed, Panel
    <3>2. ~raced => Both /\ ExactDiff(baseline, current, pending.value)
      BY Zenon, <1>4, <2>4 DEF PanelInv, TableExact, Published
    <3> QED BY Zenon, <1>0, <1>1, <3>1, <3>2 DEF Both
  <2>5. CASE pending.op \notin {"CaptureBaseline", "LoadBaseline", "CaptureCurrent",
                                "LoadCurrent", "Diff"}
    <3>1. UNCHANGED <<baseline, current, diffs>>
      BY Zenon, <1>0, <2>0, <2>5 DEF Consumed, Panel
    <3> QED BY Zenon, <1>0, <1>2, <3>1
  <2> QED BY Zenon, <2>1, <2>2, <2>3, <2>4, <2>5
<1> QED BY Zenon, <1>3, <1>4

\* With no result to consume, consuming changes nothing.
LEMMA NothingConsumed ==
    ASSUME task = NoSnapshot \/ Running, ConsumeWorkerResult
    PROVE  UNCHANGED <<baseline, current, diffs>>
BY Zenon DEF ConsumeWorkerResult, Panel, Running

\* StartWorker, when the snapshots are there for a comparison.
LEMMA StartKeeps ==
    ASSUME PanelInv, NEW op \in WorkerOperation, NEW range \in SnapRange \cup {NoRange},
           NEW max_runs \in MaxDiffRuns \cup {0}, StartWorker(op, range, max_runs),
           op = "Diff" => Both
    PROVE  PanelInv'
<1>1. /\ ~Running /\ ConsumeWorkerResult /\ task' = NewTask(op, range, max_runs)
      /\ raced' = (raced \/ task # NoSnapshot) /\ saved' = saved
  BY Zenon DEF StartWorker
<1>2. /\ Snapshot(baseline') /\ Snapshot(current') /\ pending' = NoSnapshot
  BY Zenon, <1>1, ConsumeKeeps
<1>3. task' \in PanelTask /\ task'.op = op
  BY Zenon, <1>1, NewTaskType
<1>4. ASSUME ~raced' PROVE TableExact'
  <2>1. task = NoSnapshot /\ ~raced
    BY Zenon, <1>1, <1>4
  <2>2. UNCHANGED <<baseline, current, diffs>>
    BY Zenon, <1>1, <2>1, NothingConsumed
  <2>3. diffs # <<>> => Both /\ ExactDiff(baseline, current, diffs)
    BY Zenon, <2>1 DEF PanelInv, TableExact
  <2>4. (diffs # <<>> => Both /\ ExactDiff(baseline, current, diffs))'
    BY Zenon, <2>2, <2>3 DEF Both
  <2>5. op = "Diff" => Both'
    BY Zenon, <2>2 DEF Both
  <2> QED BY Zenon, <1>2, <1>3, <2>4, <2>5 DEF TableExact, Published
<1>5. Snapshot(saved') /\ raced' \in BOOLEAN
  BY Zenon, <1>1 DEF PanelInv
<1> QED BY Zenon, <1>2, <1>3, <1>4, <1>5 DEF PanelInv, Published, LoadedIsSaved

\* Nothing that the guarantee speaks of changes, but for the worker's flags.
LEMMA FlagsKeep ==
    ASSUME PanelInv, UNCHANGED <<baseline, current, diffs, pending, saved, raced>>,
           \/ task' = task
           \/ task # NoSnapshot /\ task' \in PanelTask /\ task'.op = task.op
                /\ task'.running = task.running
    PROVE  PanelInv'
<1>1. Running' => Running /\ task'.op = task.op
  BY Zenon DEF Running
<1>2. task' = NoSnapshot \/ task' \in PanelTask
  BY Zenon DEF PanelInv
<1>3. Running' \/ task' = NoSnapshot => pending' = NoSnapshot
  <2>1. CASE task' = task
    BY Zenon, <2>1 DEF PanelInv, Running
  <2>2. CASE task # NoSnapshot /\ task' \in PanelTask /\ task'.running = task.running
    <3>1. task' # NoSnapshot
      BY Zenon, <2>2, PanelAssumption
    <3> QED BY Zenon, <1>1, <3>1 DEF PanelInv
  <2> QED BY Zenon, <2>1, <2>2
<1>4. /\ Snapshot(baseline)' /\ Snapshot(current)' /\ Snapshot(saved)'
      /\ raced' \in BOOLEAN
  BY Zenon DEF PanelInv, Snapshot
<1>5. LoadedIsSaved'
  BY Zenon DEF PanelInv, LoadedIsSaved
<1>6. ASSUME ~raced' PROVE TableExact'
  <2>1. TableExact
    BY Zenon, <1>6 DEF PanelInv
  <2> QED BY Zenon, <1>1, <2>1 DEF TableExact, Both, Published, ExactDiff
<1>7. (Published({"CaptureBaseline", "CaptureCurrent", "LoadBaseline", "LoadCurrent"})
           => Snapshot(pending.value))'
  BY Zenon DEF PanelInv, Published, Snapshot
<1> QED BY <1>2, <1>3, <1>4, <1>5, <1>6, <1>7 DEF PanelInv

\* Every step of the worker and of a frame keeps the invariant.
LEMMA PanelStep == PanelInv /\ [SPNext]_pvars => PanelInv'
<1> SUFFICES ASSUME PanelInv, [SPNext]_pvars PROVE PanelInv'
  BY Zenon
<1>1. CASE DrawConsume
  <2>0. /\ ConsumeWorkerResult /\ task' = (IF Running THEN task ELSE NoSnapshot)
        /\ raced' = (raced /\ (Running \/ diffs' # <<>>)) /\ saved' = saved
    BY Zenon, <1>1 DEF DrawConsume
  <2>1. CASE Running
    <3>1. UNCHANGED <<baseline, current, diffs>>
      BY Zenon, <2>0, <2>1, NothingConsumed
    <3>2. task' = task /\ pending' = pending
      BY Zenon, <2>0, <2>1 DEF ConsumeWorkerResult
    <3>3. raced' = raced
      BY Zenon, <2>0, <2>1 DEF PanelInv
    <3> QED BY <2>0, <3>1, <3>2, <3>3, FlagsKeep
  <2>2. CASE ~Running
    <3>1. /\ Snapshot(baseline') /\ Snapshot(current') /\ pending' = NoSnapshot
          /\ ~raced /\ diffs' # <<>> => Both' /\ ExactDiff(baseline', current', diffs')
      BY Zenon, <2>0, <2>2, ConsumeKeeps
    <3>2. task' = NoSnapshot /\ ~Running'
      BY Zenon, <2>0, <2>2 DEF Running
    <3>3. ASSUME ~raced' PROVE TableExact'
      <4>1. diffs' = <<>> \/ ~raced
        BY Zenon, <2>0, <2>2, <3>3
      <4> QED BY Zenon, <3>1, <3>2, <4>1 DEF TableExact, Published
    <3>4. Snapshot(saved') /\ raced' \in BOOLEAN
      BY Zenon, <2>0 DEF PanelInv
    <3> QED BY Zenon, <3>1, <3>2, <3>3, <3>4 DEF PanelInv, Published, LoadedIsSaved
  <2> QED BY Zenon, <2>1, <2>2
<1>2. CASE DrawSample \/ DrawTable \/ UNCHANGED pvars
  <2>1. UNCHANGED <<baseline, current, diffs, pending, saved, raced, task>>
    BY Zenon, <1>2 DEF DrawSample, DrawTable, pvars
  <2> QED BY Zenon, <2>1, FlagsKeep
<1>3. CASE StartCapture
  <2>1. PICK range \in SnapRange, op \in {"CaptureBaseline", "CaptureCurrent"} :
            StartWorker(op, range, 0)
    BY Zenon, <1>3 DEF StartCapture
  <2>2. op \in WorkerOperation /\ op # "Diff"
    BY Zenon DEF WorkerOperation
  <2> QED BY Zenon, <2>1, <2>2, StartKeeps
<1>4. CASE SaveSnapshot \/ LoadSnapshot
  <2>1. PICK op \in {"SaveBaseline", "SaveCurrent", "LoadBaseline", "LoadCurrent"} :
            StartWorker(op, NoRange, 0)
    BY Zenon, <1>4 DEF SaveSnapshot, LoadSnapshot
  <2>2. op \in WorkerOperation /\ op # "Diff"
    BY Zenon DEF WorkerOperation
  <2> QED BY Zenon, <2>1, <2>2, StartKeeps
<1>5. CASE ComputeDiff
  <2>1. PICK max_runs \in MaxDiffRuns : StartWorker("Diff", NoRange, max_runs)
    BY Zenon, <1>5 DEF ComputeDiff
  <2>2. "Diff" \in WorkerOperation /\ Both
    BY Zenon, <1>5 DEF WorkerOperation, ComputeDiff, Both
  <2> QED BY Zenon, <2>1, <2>2, StartKeeps
<1>6. CASE ClearSnapshots
  <2>0. /\ baseline' = NoSnapshot /\ current' = NoSnapshot /\ diffs' = <<>>
        /\ raced' = (raced \/ task # NoSnapshot)
        /\ UNCHANGED <<task, pending, saved>>
    BY Zenon, <1>6 DEF ClearSnapshots
  <2>1. Snapshot(baseline') /\ Snapshot(current') /\ Snapshot(saved')
    BY Zenon, <2>0 DEF PanelInv, Snapshot
  <2>2. Running' = Running
    BY Zenon, <2>0 DEF Running
  <2>3. LoadedIsSaved'
    BY Zenon, <2>0 DEF PanelInv, LoadedIsSaved
  <2>4. ASSUME ~raced' PROVE TableExact'
    <3>1. task = NoSnapshot /\ pending' = NoSnapshot /\ ~Running'
      BY Zenon, <2>0, <2>4 DEF PanelInv, Running
    <3> QED BY Zenon, <2>0, <3>1 DEF TableExact, Published
  <2>5. (Published({"CaptureBaseline", "CaptureCurrent", "LoadBaseline", "LoadCurrent"})
             => Snapshot(pending.value))'
    BY Zenon, <2>0 DEF PanelInv, Published, Snapshot
  <2>6. (task' = NoSnapshot \/ task' \in PanelTask)
        /\ (Running' \/ task' = NoSnapshot => pending' = NoSnapshot)
        /\ raced' \in BOOLEAN
    BY Zenon, <2>0, <2>2 DEF PanelInv
  <2> QED BY <2>1, <2>3, <2>4, <2>5, <2>6 DEF PanelInv
<1>7. CASE CancelOperation \/ StopWorker
  <2>1. /\ UNCHANGED <<baseline, current, diffs, pending, saved, raced>>
        /\ task' \in {task, [task EXCEPT !.stop = TRUE],
                      [task EXCEPT !.stop = TRUE, !.fresh = FALSE]}
        /\ task = NoSnapshot => task' = task
    BY Zenon, <1>7 DEF CancelOperation, StopWorker
  <2>2. CASE task = NoSnapshot
    BY Zenon, <2>1, <2>2, FlagsKeep
  <2>3. CASE task # NoSnapshot
    <3>1. task' \in PanelTask /\ task'.op = task.op /\ task'.running = task.running
      BY Zenon, <2>1, <2>3 DEF PanelInv, PanelTask
    <3> QED BY Zenon, <2>1, <2>3, <3>1, FlagsKeep
  <2> QED BY Zenon, <2>2, <2>3
<1>8. CASE ResetPanel
  BY Zenon, <1>8 DEF ResetPanel, PanelInv, Snapshot, LoadedIsSaved, TableExact, Published, Running
<1> QED BY <1>1, <1>2, <1>3, <1>4, <1>5, <1>6, <1>7, <1>8, WorkerKeeps DEF SPNext

\* A loaded snapshot is the one that was saved, and as long as every button was
\* used after the last result was consumed, the table lists exactly the changed
\* runs of the snapshots held: for any ranges, byte values, chunk size and limits.
THEOREM DiffStaysExact == SPSpec => []DiffExact
<1>1. SPInit => PanelInv
  <2>1. [i \in 1 .. 3 |-> "other"] \in Seq(AnyByte)
    BY DEF AnyByte
  <2>2. Snapshot(Foreign)
    BY Zenon, <2>1 DEF Snapshot, Foreign, SnapshotOf
  <2> QED BY Zenon, <2>2 DEF SPInit, PanelInv, Snapshot, LoadedIsSaved, TableExact, Published, Running
<1>2. PanelInv => DiffExact
  BY Zenon DEF PanelInv, DiffExact, TableExact, DiffShown, Shown, Both
<1> QED BY <1>1, <1>2, PanelStep, PTL DEF SPSpec

-----------------------------------------------------------------------------
(* The pointer scan, for regions, options and memory of any size.  A path of *)
(* k pointers is a pointer to the beginning of a path of k - 1 (PathsExtend, *)
(* PathsUnfold), so a level that found every pointer to its frontier found   *)
(* every path of its length; that it did, although it reads in chunks, is    *)
(* what Complete says of the part it has gone past.                          *)

\* One round of the loop that filters the regions, with f for the rounds before.
Kept(regions, options, f, i) ==
    IF i = 0 THEN <<>>
    ELSE IF regions[i].readable /\ (options.writable_only => regions[i].writable)
    THEN Append(f[i - 1], regions[i])
    ELSE f[i - 1]

\* The regions of a level are regions of the process.
LEMMA ScannableKeeps ==
    ASSUME NEW S, NEW regions \in Seq(S), NEW options
    PROVE  Scannable(regions, options) \in Seq({regions[i] : i \in 1 .. Len(regions)})
<1> DEFINE L == Len(regions)
           R == {regions[i] : i \in 1 .. L}
           Rounds(f, m) == f = [i \in 0 .. m |-> Kept(regions, options, f, i)]
           T == {m \in 0 .. L : \A f : ~Rounds(f, m)}
<1>0. L \in Nat
  OBVIOUS
<1>1. \E f : Rounds(f, 0)
  <2> DEFINE f == [i \in 0 .. 0 |-> <<>>]
  <2>1. \A i \in 0 .. 0 : Kept(regions, options, f, i) = <<>>
    BY DEF Kept
  <2>2. Rounds(f, 0)
    BY Zenon, <2>1
  <2> QED BY Zenon, <2>2
<1>2. ASSUME NEW m \in 1 .. L, NEW f, Rounds(f, m - 1) PROVE \E h : Rounds(h, m)
  <2> DEFINE h == [i \in 0 .. m |-> Kept(regions, options, f, i)]
  <2>1. ASSUME NEW i \in 0 .. m PROVE Kept(regions, options, h, i) = Kept(regions, options, f, i)
    <3>1. CASE i = 0
      BY Zenon, <3>1 DEF Kept
    <3>2. CASE i # 0
      <4>1. i - 1 \in 0 .. m - 1 /\ i - 1 \in 0 .. m
        BY <1>0, <3>2
      <4>2. f[i - 1] = Kept(regions, options, f, i - 1)
        BY Zenon, <1>2, <4>1
      <4>3. h[i - 1] = f[i - 1]
        BY Zenon, <4>1, <4>2
      <4> HIDE DEF h
      <4> QED BY Zenon, <4>3 DEF Kept
    <3> QED BY Zenon, <3>1, <3>2
  <2>2. Rounds(h, m)
    BY Zenon, <2>1
  <2> QED BY Zenon, <2>2
<1> HIDE DEF Rounds
<1>3. T = {}
  <2> SUFFICES ASSUME T # {} PROVE FALSE
    BY Zenon
  <2>1. T \subseteq Nat
    BY <1>0
  <2>2. PICK m \in T : \A y \in T : m <= y
    BY Zenon, <2>1, LeastNumber
  <2>3. m \in 0 .. L /\ \A f : ~Rounds(f, m)
    BY Zenon, <2>2
  <2>4. m # 0
    BY Zenon, <1>1, <2>3
  <2>5. m \in 1 .. L /\ m - 1 \in 0 .. L /\ ~(m <= m - 1)
    BY <1>0, <2>3, <2>4
  <2>6. m - 1 \notin T
    BY Zenon, <2>2, <2>5
  <2>7. PICK f : Rounds(f, m - 1)
    BY Zenon, <2>5, <2>6
  <2> QED BY Zenon, <1>2, <2>3, <2>5, <2>7
<1> DEFINE kept == CHOOSE f : Rounds(f, L)
<1>4. L \in 0 .. L
  BY <1>0
<1>5. Rounds(kept, L)
  BY Zenon, <1>3, <1>4
<1>6. Scannable(regions, options) = kept[L]
  BY Zenon DEF Scannable, Kept, Rounds
<1> HIDE DEF kept
<1> DEFINE W == {i \in 0 .. L : kept[i] \notin Seq(R)}
<1>7. W = {}
  <2> SUFFICES ASSUME W # {} PROVE FALSE
    BY Zenon
  <2>1. W \subseteq Nat
    BY <1>0
  <2>2. PICK m \in W : \A y \in W : m <= y
    BY Zenon, <2>1, LeastNumber
  <2>3. m \in 0 .. L /\ kept[m] \notin Seq(R) /\ kept[m] = Kept(regions, options, kept, m)
    BY Zenon, <1>5, <2>2 DEF Rounds
  <2>4. m # 0
    <3>1. <<>> \in Seq(R)
      OBVIOUS
    <3> QED BY Zenon, <2>3, <3>1 DEF Kept
  <2>5. m \in 1 .. L /\ m - 1 \in 0 .. L /\ ~(m <= m - 1)
    BY <1>0, <2>3, <2>4
  <2>6. kept[m - 1] \in Seq(R)
    BY Zenon, <2>2, <2>5
  <2>7. regions[m] \in R
    BY Zenon, <2>5
  <2> HIDE DEF R
  <2>8. Append(kept[m - 1], regions[m]) \in Seq(R)
    BY <2>6, <2>7
  <2> QED BY Zenon, <2>3, <2>4, <2>6, <2>8 DEF Kept
<1> QED BY Zenon, <1>4, <1>6, <1>7

-----------------------------------------------------------------------------
\* What RegionLists holds regions of.
Region == [base : Nat, size : Nat \ {0}, readable : BOOLEAN, writable : BOOLEAN]

\* What a scan keeps from its first step to its last: what it looks for and
\* where, and cells for every region.
SearchOK ==
    /\ chase.target \in Nat
    /\ chase.options \in Options
    /\ chase.regions \in Seq(Region)
    /\ cells \in [DOMAIN cells -> Digit]
    /\ \A i \in 1 .. Len(chase.regions) :
         \A a \in chase.regions[i].base .. (chase.regions[i].base + chase.regions[i].size - 1) :
           a \in DOMAIN cells

\* A region of the scan has cells for all its bytes.
LEMMA RegionOf ==
    ASSUME SearchOK, NEW i \in 1 .. Len(chase.regions)
    PROVE  /\ chase.regions[i] \in Region
           /\ chase.regions[i].base \in Nat /\ chase.regions[i].size \in Nat \ {0}
           /\ \A a \in chase.regions[i].base ..
                        (chase.regions[i].base + chase.regions[i].size - 1) :
                a \in DOMAIN cells /\ cells[a] \in Digit
<1>1. ASSUME NEW s \in Seq(Region), NEW k \in 1 .. Len(s) PROVE s[k] \in Region
  OBVIOUS
<1>2. chase.regions[i] \in Region
  BY Zenon, <1>1 DEF SearchOK
<1>3. \A a \in DOMAIN cells : cells[a] \in Digit
  BY Zenon DEF SearchOK
<1>4. \A a \in chase.regions[i].base .. (chase.regions[i].base + chase.regions[i].size - 1) :
        a \in DOMAIN cells
  BY Zenon DEF SearchOK
<1> QED BY Zenon, <1>2, <1>3, <1>4 DEF Region

\* A stored pointer is a number, at an address of the process.
LEMMA StoredPointer ==
    ASSUME SearchOK, NEW a, Stored(a)
    PROVE  a \in DOMAIN cells /\ a \in Nat /\ Pointer(a) \in Nat
<1>1. PICK i \in 1 .. Len(chase.regions) :
        a \in chase.regions[i].base .. (chase.regions[i].base + chase.regions[i].size - 2)
  BY DEF Stored, SearchOK, PointerSize
<1> DEFINE r == chase.regions[i]
<1>2. r.base \in Nat /\ r.size \in Nat
  BY Zenon, <1>1, RegionOf
<1>2a. a \in r.base .. (r.base + r.size - 2)
  BY Zenon, <1>1
<1>3. a \in Nat /\ a \in r.base .. (r.base + r.size - 1) /\ a + 1 \in r.base .. (r.base + r.size - 1)
  <2> HIDE DEF r
  <2> QED BY <1>2, <1>2a
<1>4. a \in DOMAIN cells /\ a + 1 \in DOMAIN cells
  BY Zenon, <1>1, <1>3 DEF SearchOK
<1>5. cells[a] \in Nat /\ cells[a + 1] \in Nat
  BY Zenon, <1>4, PointerAssumption DEF SearchOK
<1>6. Cardinality(Digit) \in Nat
  BY Zenon, PointerAssumption
<1>7. Pointer(a) = cells[a] + Cardinality(Digit) * cells[a + 1]
  BY DEF Pointer, ReadPointer
<1> QED BY <1>3, <1>4, <1>5, <1>6, <1>7

\* The node one pointer, stored at a, before the node n.
Parent(a, n) == [address |-> a, offsets |-> <<n.address - Pointer(a)>> \o n.offsets]
Reaches(a, n) ==
    Stored(a) /\ n.address \in Pointer(a) .. (Pointer(a) + chase.options.max_offset)

\* Sequences: a function on 1 .. k, two neighbours, the last element, and an
\* element put in front, for the offsets and the bytes of a chunk.
LEMMA SequenceOf ==
    ASSUME NEW S, NEW k \in Nat, NEW s \in [1 .. k -> S]
    PROVE  s \in Seq(S) /\ Len(s) = k
OBVIOUS

\* SubSeq of two positions has the two elements there, as ReadPointer takes them.
LEMMA PairOf ==
    ASSUME NEW S, NEW s \in Seq(S), NEW k \in 1 .. Len(s), k + 1 \in 1 .. Len(s)
    PROVE  SubSeq(s, k, k + 1)[1] = s[k] /\ SubSeq(s, k, k + 1)[2] = s[k + 1]
OBVIOUS

\* What Carry cuts from a window: its last byte.
LEMMA LastOf ==
    ASSUME NEW S, NEW s \in Seq(S), NEW k \in 1 .. Len(s)
    PROVE  SubSeq(s, k, k) = <<s[k]>>
<1>1. /\ SubSeq(s, k, k) \in Seq(S) /\ Len(SubSeq(s, k, k)) = 1
      /\ SubSeq(s, k, k)[1] = s[k]
  OBVIOUS
<1>2. ASSUME NEW t \in Seq(S), Len(t) = 1 PROVE t = <<t[1]>>
  BY <1>2
<1> QED BY Zenon, <1>1, <1>2

\* A new root puts its offset in front of the offsets of a path.
LEMMA Prepended ==
    ASSUME NEW k \in Nat, NEW s \in [1 .. k -> Int], NEW x \in Int
    PROVE  <<x>> \o s = [i \in 1 .. k + 1 |-> IF i = 1 THEN x ELSE s[i - 1]]
<1>1. s \in Seq(Int) /\ Len(s) = k
  BY Zenon, SequenceOf
<1> QED BY <1>1

\* What the definitions say of a chain: the addresses it goes through are
\* numbers, and so are its offsets.
LEMMA ChainFacts ==
    ASSUME SearchOK, NEW k \in Nat, NEW way \in Chains(k)
    PROVE  /\ way \in [1 .. k -> DOMAIN cells] /\ Len(way) = k
           /\ \A i \in 1 .. k : /\ way[i] \in Nat /\ Stored(way[i]) /\ Pointer(way[i]) \in Nat
                                /\ After(way, i) \in Pointer(way[i]) ..
                                     (Pointer(way[i]) + chase.options.max_offset)
           /\ \A i \in 0 .. k : After(way, i) \in Nat
           /\ PathOf(way).address = After(way, 0)
           /\ PathOf(way).offsets = [i \in 1 .. k |-> After(way, i) - Pointer(way[i])]
           /\ PathOf(way).offsets \in [1 .. k -> Int]
<1>1. way \in [1 .. k -> DOMAIN cells]
  BY Zenon DEF Chains
<1>2. Len(way) = k
  BY Zenon, <1>1, SequenceOf
<1>3. ASSUME NEW i \in 1 .. k
      PROVE  /\ way[i] \in Nat /\ Stored(way[i]) /\ Pointer(way[i]) \in Nat
             /\ After(way, i) \in Pointer(way[i]) ..
                                     (Pointer(way[i]) + chase.options.max_offset)
  <2>1. Stored(way[i])
    BY Zenon DEF Chains
  <2>2. After(way, i) \in Pointer(way[i]) .. (Pointer(way[i]) + chase.options.max_offset)
    BY Zenon DEF Chains
  <2> QED BY Zenon, <2>1, <2>2, StoredPointer
<1>4. ASSUME NEW i \in 0 .. k PROVE After(way, i) \in Nat
  <2>1. CASE i = k
    BY Zenon, <1>2, <2>1 DEF After, SearchOK
  <2>2. CASE i # k
    <3>1. i + 1 \in 1 .. k
      BY <2>2
    <3>2. After(way, i) = way[i + 1]
      BY Zenon, <1>2, <2>2 DEF After
    <3> QED BY Zenon, <1>3, <3>1, <3>2
  <2> QED BY Zenon, <2>1, <2>2
<1>5. PathOf(way).address = After(way, 0)
  BY Zenon DEF PathOf
<1>6. PathOf(way).offsets = [i \in 1 .. k |-> After(way, i) - Pointer(way[i])]
  BY Zenon, <1>2 DEF PathOf
<1>7. \A i \in 1 .. k : After(way, i) - Pointer(way[i]) \in Int
  <2> SUFFICES ASSUME NEW i \in 1 .. k PROVE After(way, i) - Pointer(way[i]) \in Int
    OBVIOUS
  <2>1. i \in 0 .. k
    OBVIOUS
  <2>2. After(way, i) \in Nat /\ Pointer(way[i]) \in Nat
    BY Zenon, <1>3, <1>4, <2>1
  <2> QED BY <2>2
<1>8. PathOf(way).offsets \in [1 .. k -> Int]
  BY Zenon, <1>6, <1>7
<1> QED BY Zenon, <1>1, <1>2, <1>3, <1>4, <1>5, <1>6, <1>8

\* A pointer to the beginning of a chain makes a longer chain of it.
LEMMA ChainExtends ==
    ASSUME SearchOK, NEW k \in Nat, NEW way \in Chains(k), NEW a, Reaches(a, PathOf(way))
    PROVE  LET longer == [i \in 1 .. k + 1 |-> IF i = 1 THEN a ELSE way[i - 1]]
           IN  longer \in Chains(k + 1) /\ PathOf(longer) = Parent(a, PathOf(way))
<1> DEFINE longer == [i \in 1 .. k + 1 |-> IF i = 1 THEN a ELSE way[i - 1]]
           n == PathOf(way)
           D == DOMAIN cells
<1>0. k + 1 \in Nat /\ 1 \in 1 .. k + 1 /\ k + 1 # 0 /\ 0 \in 0 .. k
  OBVIOUS
<1>1. /\ way \in [1 .. k -> D] /\ Len(way) = k
      /\ \A i \in 1 .. k : /\ way[i] \in Nat /\ Stored(way[i]) /\ Pointer(way[i]) \in Nat
                           /\ After(way, i) \in Pointer(way[i]) ..
                                  (Pointer(way[i]) + chase.options.max_offset)
      /\ \A i \in 0 .. k : After(way, i) \in Nat
      /\ n.address = After(way, 0)
      /\ n.offsets = [i \in 1 .. k |-> After(way, i) - Pointer(way[i])]
      /\ n.offsets \in [1 .. k -> Int]
  BY Zenon, ChainFacts
<1>2. a \in D /\ a \in Nat /\ Pointer(a) \in Nat /\ Stored(a)
      /\ n.address \in Pointer(a) .. (Pointer(a) + chase.options.max_offset)
  BY Zenon, StoredPointer DEF Reaches
<1> HIDE DEF n, D
<1>3. \A i \in 1 .. k + 1 : i # 1 => i - 1 \in 1 .. k
  OBVIOUS
<1>4. longer \in [1 .. k + 1 -> D]
  BY Zenon, <1>1, <1>2, <1>3
<1>5. Len(longer) = k + 1
  BY Zenon, <1>0, <1>4, SequenceOf
<1>6. longer[1] = a /\ \A i \in 1 .. k : longer[i + 1] = way[i]
  OBVIOUS
<1> HIDE DEF longer
<1>7. After(longer, 0) = a
  <2>1. 0 + 1 = 1
    OBVIOUS
  <2> QED BY Zenon, <1>0, <1>5, <1>6, <2>1 DEF After
<1>8. ASSUME NEW i \in 0 .. k PROVE After(longer, i + 1) = After(way, i)
  <2>1. CASE i = k
    BY Zenon, <1>1, <1>5, <2>1 DEF After
  <2>2. CASE i # k
    <3>1. i + 1 # k + 1 /\ i + 1 \in 1 .. k
      BY <2>2
    <3>2. longer[(i + 1) + 1] = way[i + 1]
      BY Zenon, <1>6, <3>1
    <3> QED BY Zenon, <1>1, <1>5, <2>2, <3>1, <3>2 DEF After
  <2> QED BY Zenon, <2>1, <2>2
<1>9. ASSUME NEW j \in 1 .. k + 1
      PROVE  /\ Stored(longer[j])
             /\ After(longer, j) \in Pointer(longer[j]) ..
                  (Pointer(longer[j]) + chase.options.max_offset)
  <2>1. CASE j = 1
    <3>1. After(longer, 1) = n.address
      <4>1. After(longer, 0 + 1) = After(way, 0) /\ 0 + 1 = 1
        BY <1>0, <1>8
      <4> QED BY Zenon, <1>1, <4>1
    <3> QED BY Zenon, <1>2, <1>6, <2>1, <3>1
  <2>2. CASE j # 1
    <3>1. PICK i \in 1 .. k : j = i + 1 /\ i \in 0 .. k
      <4>1. j - 1 \in 1 .. k /\ j = (j - 1) + 1 /\ j - 1 \in 0 .. k
        BY <2>2
      <4> QED BY Zenon, <4>1
    <3> QED BY Zenon, <1>1, <1>6, <1>8, <3>1
  <2> QED BY Zenon, <2>1, <2>2
<1>10. longer \in Chains(k + 1)
  BY Zenon, <1>4, <1>9 DEF Chains, D
<1>11. n.address - Pointer(a) \in Int
  <2>1. n.address \in Nat
    BY Zenon, <1>0, <1>1
  <2> QED BY <1>2, <2>1
<1>12. <<n.address - Pointer(a)>> \o n.offsets =
         [i \in 1 .. k + 1 |-> IF i = 1 THEN n.address - Pointer(a) ELSE n.offsets[i - 1]]
  <2>1. n.offsets \in [1 .. k -> Int]
    BY Zenon, <1>1
  <2> QED BY Zenon, <1>11, <2>1, Prepended
<1>13. ASSUME NEW j \in 1 .. k + 1
       PROVE  After(longer, j) - Pointer(longer[j]) =
                IF j = 1 THEN n.address - Pointer(a) ELSE n.offsets[j - 1]
  <2>1. CASE j = 1
    <3>1. After(longer, 1) = n.address
      <4>1. After(longer, 0 + 1) = After(way, 0) /\ 0 + 1 = 1
        BY <1>0, <1>8
      <4> QED BY Zenon, <1>1, <4>1
    <3> QED BY Zenon, <1>6, <2>1, <3>1
  <2>2. CASE j # 1
    <3>1. PICK i \in 1 .. k : j = i + 1 /\ i = j - 1 /\ i \in 0 .. k
      <4>1. j - 1 \in 1 .. k /\ j = (j - 1) + 1 /\ j - 1 \in 0 .. k
        BY <2>2
      <4> QED BY Zenon, <4>1
    <3>2. n.offsets[i] = After(way, i) - Pointer(way[i])
      BY Zenon, <1>1, <3>1
    <3> QED BY Zenon, <1>6, <1>8, <2>2, <3>1, <3>2
  <2> QED BY Zenon, <2>1, <2>2
<1>14. [j \in 1 .. k + 1 |-> After(longer, j) - Pointer(longer[j])]
          = <<n.address - Pointer(a)>> \o n.offsets
  BY Zenon, <1>12, <1>13
<1>15. PathOf(longer) = Parent(a, n)
  BY Zenon, <1>5, <1>7, <1>14 DEF PathOf, Parent
<1> QED BY Zenon, <1>10, <1>15 DEF longer, n

\* A pointer to the beginning of a path makes a longer path of it.
LEMMA PathsExtend ==
    ASSUME SearchOK, NEW k \in Nat, NEW n \in Paths(k), NEW a, Reaches(a, n)
    PROVE  Parent(a, n) \in Paths(k + 1)
<1>1. PICK way \in Chains(k) : n = PathOf(way)
  BY Zenon DEF Paths
<1> DEFINE longer == [i \in 1 .. k + 1 |-> IF i = 1 THEN a ELSE way[i - 1]]
<1>2. longer \in Chains(k + 1) /\ PathOf(longer) = Parent(a, PathOf(way))
  BY Zenon, <1>1, ChainExtends
<1> QED BY Zenon, <1>1, <1>2 DEF Paths

\* The last pointers of a chain are a chain.
LEMMA ChainTail ==
    ASSUME SearchOK, NEW k \in Nat, NEW m \in Nat, NEW way \in Chains(k + m)
    PROVE  [i \in 1 .. k |-> way[i + m]] \in Chains(k)
<1> DEFINE tail == [i \in 1 .. k |-> way[i + m]]
<1>0. k + m \in Nat /\ \A i \in 1 .. k : i + m \in 1 .. k + m
  OBVIOUS
<1>1. /\ way \in [1 .. k + m -> DOMAIN cells] /\ Len(way) = k + m
      /\ \A i \in 1 .. k + m : /\ Stored(way[i])
                               /\ After(way, i) \in Pointer(way[i]) ..
                                     (Pointer(way[i]) + chase.options.max_offset)
  BY Zenon, <1>0, ChainFacts
<1>2. tail \in [1 .. k -> DOMAIN cells]
  BY Zenon, <1>0, <1>1
<1>3. Len(tail) = k
  BY Zenon, <1>2, SequenceOf
<1>4. \A i \in 1 .. k : tail[i] = way[i + m]
  BY Zenon
<1> HIDE DEF tail
<1>5. ASSUME NEW i \in 1 .. k PROVE After(tail, i) = After(way, i + m)
  <2>1. CASE i = k
    BY Zenon, <1>1, <1>3, <2>1 DEF After
  <2>2. CASE i # k
    <3>1. i + m # k + m /\ i + 1 \in 1 .. k /\ (i + 1) + m = (i + m) + 1
      BY <2>2
    <3>2. tail[i + 1] = way[(i + 1) + m]
      BY Zenon, <1>4, <3>1
    <3>3. tail[i + 1] = way[(i + m) + 1]
      BY Zenon, <3>1, <3>2
    <3> QED BY Zenon, <1>1, <1>3, <2>2, <3>1, <3>3 DEF After
  <2> QED BY Zenon, <2>1, <2>2
<1>6. tail \in Chains(k)
  BY Zenon, <1>0, <1>1, <1>2, <1>4, <1>5 DEF Chains
<1> QED BY Zenon, <1>6 DEF tail

\* Without paths of one length there are no longer ones.
LEMMA PathsEnd ==
    ASSUME SearchOK, NEW k \in Nat, NEW j \in Nat, k <= j, Paths(k) = {}
    PROVE  Paths(j) = {}
<1> SUFFICES ASSUME NEW p \in Paths(j) PROVE FALSE
  BY Zenon
<1>1. PICK way \in Chains(j) : p = PathOf(way)
  BY Zenon DEF Paths
<1>2. j - k \in Nat /\ k + (j - k) = j
  OBVIOUS
<1>3. [i \in 1 .. k |-> way[i + (j - k)]] \in Chains(k)
  BY Zenon, <1>1, <1>2, ChainTail
<1> QED BY Zenon, <1>3 DEF Paths

\* Every path begins with a pointer to a shorter one.
LEMMA PathsUnfold ==
    ASSUME SearchOK, NEW k \in Nat, NEW p \in Paths(k + 1)
    PROVE  \E n \in Paths(k) : \E a : Reaches(a, n) /\ p = Parent(a, n)
<1>1. PICK way \in Chains(k + 1) : p = PathOf(way)
  BY Zenon DEF Paths
<1> DEFINE tail == [i \in 1 .. k |-> way[i + 1]]
           a == way[1]
           longer == [i \in 1 .. k + 1 |-> IF i = 1 THEN a ELSE tail[i - 1]]
<1>0. k + 1 \in Nat /\ 1 \in Nat /\ 1 \in 1 .. k + 1
  OBVIOUS
<1>2. tail \in Chains(k)
  BY Zenon, <1>1, ChainTail
<1>3. /\ way \in [1 .. k + 1 -> DOMAIN cells] /\ Len(way) = k + 1
      /\ \A i \in 1 .. k + 1 : /\ Stored(way[i])
                               /\ After(way, i) \in Pointer(way[i]) ..
                                     (Pointer(way[i]) + chase.options.max_offset)
  BY Zenon, <1>0, <1>1, ChainFacts
<1>4. Len(tail) = k /\ PathOf(tail).address = After(tail, 0)
  BY Zenon, <1>2, ChainFacts
<1>5. After(way, 1) = After(tail, 0)
  <2>1. CASE k = 0
    <3>1. k + 1 = 1
      BY <2>1
    <3> QED BY Zenon, <1>3, <1>4, <2>1, <3>1 DEF After
  <2>2. CASE k # 0
    <3>1. k + 1 # 1 /\ 0 + 1 \in 1 .. k /\ tail[0 + 1] = way[1 + 1]
      BY <2>2
    <3> HIDE DEF tail
    <3> QED BY Zenon, <1>3, <1>4, <2>2, <3>1 DEF After
  <2> QED BY Zenon, <2>1, <2>2
<1>6. Reaches(a, PathOf(tail))
  <2> HIDE DEF tail
  <2> QED BY Zenon, <1>0, <1>3, <1>4, <1>5 DEF Reaches
<1>7. longer \in Chains(k + 1) /\ PathOf(longer) = Parent(a, PathOf(tail))
  <2> HIDE DEF tail, a
  <2> QED BY Zenon, <1>2, <1>6, ChainExtends
<1>8. longer = way
  <2>1. \A i \in 1 .. k + 1 : (IF i = 1 THEN a ELSE tail[i - 1]) = way[i]
    OBVIOUS
  <2> QED BY Zenon, <1>3, <2>1
<1> QED BY Zenon, <1>1, <1>2, <1>6, <1>7, <1>8 DEF Paths

-----------------------------------------------------------------------------
(* One chunk.  The carried byte and the bytes read are the cells from        *)
(* Base to the end of what was read, in one region.                          *)

\* The window of a read: where it starts, what was read, and both together.
Base == chase.cursor - Len(chase.carry)
Bytes(count) == [i \in 1 .. count |-> cells[chase.cursor + i - 1]]
Window(count) == chase.carry \o Bytes(count)

\* Where a scan of a level is: in a region, with the byte before its cursor
\* carried, unless there is none or it could not be read.
At(r) ==
    /\ chase.cursor \in r.base .. (r.base + r.size - 1)
    /\ \/ chase.carry = <<>>
       \/ /\ chase.cursor > r.base
          /\ chase.carry = <<cells[chase.cursor - 1]>>

\* The request of a chunk is not empty and ends within the region.
LEMMA RequestFits ==
    ASSUME SearchOK, NEW r \in Region, chase.regions[chase.region] = r, At(r)
    PROVE  /\ Request \in 1 .. (r.base + r.size - chase.cursor)
           /\ End = r.base + r.size
<1>1. r.base \in Nat /\ r.size \in Nat /\ chase.options.chunk_size \in Nat
  BY DEF Region, SearchOK, Options
<1>2. End = r.base + r.size
  BY Zenon DEF End
<1>3. chase.cursor \in r.base .. (r.base + r.size - 1)
  BY Zenon DEF At
<1> QED BY <1>1, <1>2, <1>3 DEF Request, PointerSize

\* The window holds the cells from Base on.
LEMMA WindowHolds ==
    ASSUME SearchOK, NEW j \in 1 .. Len(chase.regions), At(chase.regions[j]),
           NEW count \in Nat,
           chase.cursor + count <= chase.regions[j].base + chase.regions[j].size
    PROVE  /\ Window(count) \in Seq(Digit) /\ Len(chase.carry) \in 0 .. 1
           /\ Base \in Nat /\ Base >= chase.regions[j].base
           /\ Len(Window(count)) = chase.cursor + count - Base
           /\ \A i \in 1 .. Len(Window(count)) : Window(count)[i] = cells[Base + i - 1]
           /\ chase.carry = <<>> => Base = chase.cursor
           /\ chase.carry # <<>> => Base = chase.cursor - 1
<1> DEFINE r == chase.regions[j]
           b == r.base
           e == r.base + r.size
           c == chase.cursor
           bytes == Bytes(count)
<1>1. b \in Nat /\ r.size \in Nat
  BY Zenon, RegionOf
<1>2. b \in Nat /\ e \in Nat /\ e - 1 = r.base + r.size - 1
  <2> HIDE DEF r
  <2> QED BY <1>1
<1>3a. At(r)
  BY Zenon
<1>3. /\ c \in b .. (e - 1)
      /\ \/ chase.carry = <<>>
         \/ c > b /\ chase.carry = <<cells[c - 1]>>
  <2> HIDE DEF r
  <2> QED BY Zenon, <1>2, <1>3a DEF At
<1>4. \A a \in b .. (e - 1) : cells[a] \in Digit
  BY Zenon, <1>2, RegionOf
<1>5. c + count <= e
  OBVIOUS
<1> HIDE DEF r, b, e, c
<1>6. \A i \in 1 .. count : c + i - 1 \in b .. (e - 1)
  BY <1>2, <1>3, <1>5
<1>7. bytes \in [1 .. count -> Digit] /\ \A i \in 1 .. count : bytes[i] = cells[c + i - 1]
  BY Zenon, <1>4, <1>6 DEF Bytes, c
<1>8. bytes \in Seq(Digit) /\ Len(bytes) = count
  BY Zenon, <1>7, SequenceOf
<1>9. Window(count) = chase.carry \o bytes /\ Base = c - Len(chase.carry)
  BY Zenon DEF Window, Base, c
<1> HIDE DEF bytes
<1>10. CASE chase.carry = <<>>
  <2>1. Len(chase.carry) = 0 /\ Base = c /\ c \in Nat /\ c >= b
    BY <1>2, <1>3, <1>9, <1>10
  <2>2. Window(count) = bytes
    BY <1>8, <1>9, <1>10
  <2>3. Len(Window(count)) = c + count - Base
    BY <1>8, <2>1, <2>2
  <2>4. \A i \in 1 .. Len(Window(count)) : Window(count)[i] = cells[Base + i - 1]
    BY Zenon, <1>7, <1>8, <2>1, <2>2
  <2>5. Len(chase.carry) \in 0 .. 1
    BY <2>1
  <2> QED BY Zenon, <1>8, <1>10, <2>1, <2>2, <2>3, <2>4, <2>5 DEF r, b, e, c
<1>11. CASE chase.carry # <<>>
  <2> DEFINE x == cells[c - 1]
  <2>1. chase.carry = <<x>> /\ c > b
    BY Zenon, <1>3, <1>11
  <2>2. c - 1 \in b .. (e - 1) /\ c \in Nat
    BY <1>2, <1>3, <2>1
  <2>3. x \in Digit
    BY Zenon, <1>4, <2>2
  <2> HIDE DEF x
  <2>4. Len(chase.carry) = 1 /\ Base = c - 1 /\ Base \in Nat /\ Base >= b
    BY <1>2, <1>9, <2>1, <2>2
  <2>5. /\ Window(count) \in Seq(Digit) /\ Len(Window(count)) = count + 1
        /\ Window(count)[1] = x
        /\ \A i \in 1 .. count : Window(count)[i + 1] = bytes[i]
    BY <1>8, <1>9, <2>1, <2>3
  <2>6. Len(Window(count)) = c + count - Base
    BY <2>2, <2>4, <2>5
  <2>7. ASSUME NEW i \in 1 .. Len(Window(count)) PROVE Window(count)[i] = cells[Base + i - 1]
    <3>1. CASE i = 1
      <4>1. Base + i - 1 = c - 1
        BY <2>2, <2>4, <3>1
      <4> QED BY Zenon, <2>5, <3>1, <4>1 DEF x
    <3>2. CASE i # 1
      <4>1. /\ i - 1 \in 1 .. count /\ (i - 1) + 1 = i
            /\ Base + i - 1 = c + (i - 1) - 1
        BY <2>2, <2>4, <2>5, <3>2
      <4> QED BY Zenon, <1>7, <2>5, <4>1
    <3> QED BY Zenon, <3>1, <3>2
  <2>8. Len(chase.carry) \in 0 .. 1
    BY <2>4
  <2> QED BY Zenon, <1>11, <2>4, <2>5, <2>6, <2>7, <2>8 DEF r, b, e, c
<1> QED BY Zenon, <1>10, <1>11

\* The address of position i of a window that starts at B and ends with n bytes
\* read at c.
LEMMA AddressOf ==
    ASSUME NEW b \in Nat, NEW z \in Nat, NEW c \in Nat, NEW n \in Nat, NEW B \in Nat, B >= b,
           c + n <= b + z, NEW l, l = c + n - B, NEW i \in Nat, i \in 1 .. l, i + 1 \in 1 .. l
    PROVE  B + i - 1 \in b .. (b + z - 2)
OBVIOUS

\* The position of an address in the window.
LEMMA PositionOf ==
    ASSUME NEW c \in Nat, NEW n \in Nat, NEW B \in Nat, NEW a \in B .. (c + n - 2)
    PROVE  \E i \in 1 .. ((c + n - B) - 1) : B + i - 1 = a
<1>1. a - B + 1 \in 1 .. ((c + n - B) - 1) /\ B + (a - B + 1) - 1 = a
  OBVIOUS
<1> QED BY Zenon, <1>1

\* What a chunk adds to the parents: the pointers to the frontier stored in its
\* window, all of them and no others.
LEMMA ParentsFound ==
    ASSUME SearchOK, NEW j \in 1 .. Len(chase.regions), At(chase.regions[j]),
           NEW count \in Nat,
           chase.cursor + count <= chase.regions[j].base + chase.regions[j].size
    PROVE  /\ \A p \in ParentsIn(Base, Window(count)) :
                \E n \in chase.frontier : \E a : Reaches(a, n) /\ p = Parent(a, n)
           /\ \A n \in chase.frontier : \A a \in Base .. (chase.cursor + count - 2) :
                Reaches(a, n) => Parent(a, n) \in ParentsIn(Base, Window(count))
<1> DEFINE r == chase.regions[j]
           w == Window(count)
           B == Base
           P(i) == ReadPointer(SubSeq(w, i, i + PointerSize - 1))
           I == {i \in 1 .. (Len(w) - PointerSize + 1) : (B + i - 1) % Alignment = 0}
           M(i) == {n \in chase.frontier :
                      /\ IsCanonicalUserPointer(P(i))
                      /\ n.address \in P(i) .. (P(i) + chase.options.max_offset)}
           Of(i) == {[address |-> B + i - 1, offsets |-> <<n.address - P(i)>> \o n.offsets] :
                       n \in M(i)}
<1>1. ParentsIn(B, w) = UNION {Of(i) : i \in I}
  BY Zenon DEF ParentsIn
<1>2. /\ w \in Seq(Digit) /\ B \in Nat /\ B >= r.base
      /\ Len(w) = chase.cursor + count - B
      /\ \A i \in 1 .. Len(w) : w[i] = cells[B + i - 1]
  BY Zenon, WindowHolds
<1>3. r.base \in Nat /\ r.size \in Nat /\ chase.cursor \in Nat
  <2>1. r.base \in Nat /\ r.size \in Nat
    BY Zenon, RegionOf
  <2>2. chase.cursor \in r.base .. (r.base + r.size - 1)
    BY Zenon DEF At
  <2> HIDE DEF r
  <2> QED BY <2>1, <2>2
<1>4. chase.cursor + count <= r.base + r.size
  OBVIOUS
<1> HIDE DEF w, B, r
<1>5. ASSUME NEW i \in 1 .. (Len(w) - 1)
      PROVE  /\ P(i) = Pointer(B + i - 1)
             /\ B + i - 1 \in r.base .. (r.base + r.size - PointerSize)
  <2>1. i \in 1 .. Len(w) /\ i + 1 \in 1 .. Len(w) /\ B + (i + 1) - 1 = (B + i - 1) + 1 /\ i \in Nat
    <3>1. Len(w) \in Nat /\ B \in Nat
      BY <1>2
    <3> QED BY <3>1
  <2>2. w[i] = cells[B + i - 1] /\ w[i + 1] = cells[B + (i + 1) - 1]
    BY Zenon, <1>2, <2>1
  <2>2a. w[i + 1] = cells[(B + i - 1) + 1]
    BY Zenon, <2>1, <2>2
  <2>3. SubSeq(w, i, i + 1)[1] = w[i] /\ SubSeq(w, i, i + 1)[2] = w[i + 1]
    BY Zenon, <1>2, <2>1, PairOf
  <2>4. i + PointerSize - 1 = i + 1
    BY DEF PointerSize
  <2>5. P(i) = w[i] + Cardinality(Digit) * w[i + 1]
    BY Zenon, <2>3, <2>4 DEF ReadPointer
  <2>6. Pointer(B + i - 1) = cells[B + i - 1] + Cardinality(Digit) * cells[(B + i - 1) + 1]
    BY DEF Pointer, ReadPointer
  <2>7. B + i - 1 \in r.base .. (r.base + r.size - PointerSize)
    <3>1. Len(w) = chase.cursor + count - B /\ B \in Nat /\ B >= r.base
      BY Zenon, <1>2
    <3> DEFINE b == r.base
               z == r.size
               c == chase.cursor
               l == Len(w)
    <3>2. /\ b \in Nat /\ z \in Nat /\ c \in Nat /\ c + count <= b + z /\ B >= b
          /\ l = c + count - B /\ i + 1 \in 1 .. l
      BY Zenon, <1>3, <1>4, <2>1, <3>1
    <3> HIDE DEF b, z, c, l
    <3>3. B + i - 1 \in b .. (b + z - 2)
      BY Zenon, <2>1, <3>1, <3>2, AddressOf DEF l
    <3> QED BY Zenon, <3>3 DEF b, z, PointerSize
  <2> QED BY Zenon, <2>2, <2>2a, <2>5, <2>6, <2>7
<1>6. DOMAIN chase.regions = 1 .. Len(chase.regions)
  BY DEF SearchOK
<1>7. \A i : i \in 1 .. (Len(w) - PointerSize + 1) <=> i \in 1 .. (Len(w) - 1)
  BY <1>2 DEF PointerSize
<1> HIDE DEF P
<1>8. ASSUME NEW p \in ParentsIn(B, w)
      PROVE  \E n \in chase.frontier : \E a : Reaches(a, n) /\ p = Parent(a, n)
  <2>1. PICK i \in I : p \in Of(i)
    BY Zenon, <1>1
  <2>2. PICK n \in M(i) : p = [address |-> B + i - 1, offsets |-> <<n.address - P(i)>> \o n.offsets]
    BY Zenon, <2>1
  <2>3. i \in 1 .. (Len(w) - 1)
    BY Zenon, <1>7
  <2>4. P(i) = Pointer(B + i - 1) /\ B + i - 1 \in r.base .. (r.base + r.size - PointerSize)
    BY Zenon, <1>5, <2>3
  <2>5. Stored(B + i - 1)
    BY Zenon, <1>6, <2>2, <2>4 DEF Stored, IsCanonicalUserPointer, r
  <2>6. Reaches(B + i - 1, n) /\ p = Parent(B + i - 1, n) /\ n \in chase.frontier
    BY Zenon, <2>2, <2>4, <2>5 DEF Reaches, Parent
  <2> QED BY Zenon, <2>6
<1>9. ASSUME NEW n \in chase.frontier, NEW a \in B .. (chase.cursor + count - 2), Reaches(a, n)
      PROVE  Parent(a, n) \in ParentsIn(B, w)
  <2>1. \E i \in 1 .. (Len(w) - 1) : B + i - 1 = a
    <3> DEFINE l == Len(w)
               c == chase.cursor
    <3>1. B \in Nat /\ c \in Nat
      BY Zenon, <1>2, <1>3
    <3>2. a \in B .. (c + count - 2)
      BY Zenon, <1>9
    <3>3. l = c + count - B
      BY Zenon, <1>2
    <3> HIDE DEF l, c
    <3>4. \E i \in 1 .. ((c + count - B) - 1) : B + i - 1 = a
      BY ZenonT(40), <3>1, <3>2, PositionOf
    <3> QED BY Zenon, <3>3, <3>4 DEF l
  <2>2. PICK i \in 1 .. (Len(w) - 1) : B + i - 1 = a
    BY Zenon, <2>1
  <2>3. P(i) = Pointer(a)
    BY Zenon, <1>5, <2>2
  <2>4. a % Alignment = 0 /\ Pointer(a) > 0
        /\ n.address \in Pointer(a) .. (Pointer(a) + chase.options.max_offset)
    BY Zenon, <1>9 DEF Reaches, Stored
  <2>5. i \in I /\ n \in M(i)
    BY Zenon, <1>7, <2>2, <2>3, <2>4 DEF IsCanonicalUserPointer
  <2>6. Parent(a, n) \in Of(i)
    BY Zenon, <2>2, <2>3, <2>5 DEF Parent
  <2> HIDE DEF I, Of
  <2> QED BY Zenon, <1>1, <2>5, <2>6
<1> QED BY Zenon, <1>8, <1>9 DEF w, B

\* What is carried behind a chunk: its last byte, if the chunk was whole.
LEMMA CarriedOver ==
    ASSUME SearchOK, NEW j \in 1 .. Len(chase.regions), At(chase.regions[j]),
           NEW count \in Nat \ {0},
           chase.cursor + count <= chase.regions[j].base + chase.regions[j].size
    PROVE  Carry(Window(count), TRUE) = <<cells[chase.cursor + count - 1]>>
<1> DEFINE w == Window(count)
           l == Len(w)
           c == chase.cursor
<1>1. /\ w \in Seq(Digit) /\ Base \in Nat /\ l = c + count - Base
      /\ \A i \in 1 .. l : w[i] = cells[Base + i - 1]
      /\ Base = c \/ Base = c - 1
  BY Zenon, WindowHolds
<1>2. c \in Nat
  <2>1. /\ chase.regions[j].base \in Nat /\ chase.regions[j].size \in Nat
        /\ c \in chase.regions[j].base .. (chase.regions[j].base + chase.regions[j].size - 1)
    BY Zenon, RegionOf DEF At
  <2> DEFINE b == chase.regions[j].base
             z == chase.regions[j].size
  <2>2. b \in Nat /\ z \in Nat /\ c \in b .. (b + z - 1)
    BY Zenon, <2>1
  <2> HIDE DEF b, z, c
  <2> QED BY <2>2
<1> HIDE DEF w, c
<1>3. l \in Nat /\ l \in 1 .. l /\ ~(l < PointerSize - 1) /\ Base + l - 1 = c + count - 1
      /\ l - (PointerSize - 1) + 1 = l
  BY <1>1, <1>2 DEF PointerSize
<1>4. Carry(w, TRUE) = SubSeq(w, l, l)
  BY Zenon, <1>3 DEF Carry
<1>5. SubSeq(w, l, l) = <<w[l]>>
  <2>1. w \in Seq(Digit)
    BY Zenon, <1>1
  <2> QED BY <1>3, <2>1, LastOf
<1>6. w[l] = cells[c + count - 1]
  BY Zenon, <1>1, <1>3
<1> QED BY Zenon, <1>4, <1>5, <1>6 DEF w, c

-----------------------------------------------------------------------------
(* The invariant. *)

\* The fields of the scan.
Fields == {"pc", "target", "options", "regions", "region", "cursor", "carry", "depth",
           "frontier", "parents", "results", "partial", "bad"}

\* The paths of at most k pointers.
UpTo(k) == UNION {Paths(i) : i \in 1 .. k}

\* The pointers of this level that a read has gone past.
Scanned(a) ==
    \E i \in 1 .. Len(chase.regions) :
      /\ a \in chase.regions[i].base ..
                 (chase.regions[i].base + chase.regions[i].size - PointerSize)
      /\ i < chase.region \/ (i = chase.region /\ a + 1 < chase.cursor)

\* A scan without a gap has not missed a path so far.
Complete ==
    /\ chase.pc # "failed" => Roots(UpTo(chase.depth - 1)) \subseteq chase.results
    /\ chase.pc \in {"level", "collect"} => Paths(chase.depth - 1) \subseteq chase.frontier
    /\ chase.pc = "level" =>
         /\ chase.regions # <<>> /\ chase.cursor # chase.regions[chase.region].base
              => chase.carry # <<>>
         /\ \A n \in chase.frontier : \A a : Reaches(a, n) /\ Scanned(a)
              => Parent(a, n) \in chase.parents
    /\ chase.pc = "collect" => Paths(chase.depth) \subseteq chase.parents
    /\ chase.pc = "done" =>
         chase.depth > chase.options.max_depth \/ Paths(chase.depth - 1) = {}

\* What was found leads to the target: the nodes of a level are paths of its
\* length.
Correct ==
    /\ chase.results \subseteq Roots(UpTo(chase.depth - 1))
    /\ chase.pc \in {"level", "collect"} =>
         /\ chase.depth <= chase.options.max_depth
         /\ chase.frontier \subseteq Paths(chase.depth - 1)
         /\ chase.parents \subseteq Paths(chase.depth)

\* A level is in one of its regions, if there are any.
Place ==
    chase.pc = "level" /\ chase.regions # <<>> =>
        /\ chase.region \in 1 .. Len(chase.regions)
        /\ At(chase.regions[chase.region])

\* The inductive invariant: where the scan is, that what it found is a path, and
\* that it missed none unless it calls itself partial.
ChaseInv ==
    /\ chase = [f \in Fields |-> chase[f]]
    /\ SearchOK
    /\ chase.pc \in {"level", "collect", "done", "cancelled", "failed"}
    /\ chase.depth \in 1 .. (chase.options.max_depth + 1)
    /\ chase.partial \in BOOLEAN
    /\ Correct
    /\ Place
    /\ ~chase.partial => Complete

\* No step changes what is searched.
SameSearch ==
    /\ cells' = cells
    /\ chase'.target = chase.target
    /\ chase'.options = chase.options
    /\ chase'.regions = chase.regions

\* A step that searches the same keeps what is known about the search ...
LEMMA SearchKept ==
    ASSUME SearchOK, SameSearch
    PROVE  SearchOK'
BY Zenon DEF SearchOK, SameSearch

\* ... the pointers that are stored ...
LEMMA StoredKept ==
    ASSUME SameSearch, NEW a
    PROVE  /\ Pointer(a)' = Pointer(a)
           /\ Stored(a)' <=> Stored(a)
<1>1. Pointer(a)' = Pointer(a)
  BY Zenon DEF Pointer, ReadPointer, SameSearch
<1>2. Alignment' = Alignment
  BY Zenon DEF Alignment, SameSearch
<1>3. chase'.regions = chase.regions
  BY Zenon DEF SameSearch
<1> QED BY Zenon, <1>1, <1>2, <1>3 DEF Stored

\* ... the paths of every length ...
LEMMA PathsKept ==
    ASSUME SameSearch, NEW k
    PROVE  Paths(k)' = Paths(k)
<1>1. ASSUME NEW way, NEW i PROVE After(way, i)' = After(way, i)
  BY Zenon DEF After, SameSearch
<1>2. \A a : Pointer(a)' = Pointer(a) /\ (Stored(a)' <=> Stored(a))
  BY Zenon, StoredKept
<1>3. chase'.options = chase.options /\ cells' = cells
  BY Zenon DEF SameSearch
<1>4. ASSUME NEW way PROVE way \in Chains(k)' <=> way \in Chains(k)
  <2>1. \A i : /\ After(way, i)' = After(way, i)
               /\ Pointer(way[i])' = Pointer(way[i])
               /\ Stored(way[i])' <=> Stored(way[i])
    BY Zenon, <1>1, <1>2
  <2> QED BY Zenon, <1>3, <2>1 DEF Chains
<1>5. Chains(k)' = Chains(k)
  BY Zenon, <1>4
<1>6. ASSUME NEW way PROVE PathOf(way)' = PathOf(way)
  <2>1. \A i : After(way, i)' = After(way, i) /\ Pointer(way[i])' = Pointer(way[i])
    BY Zenon, <1>1, <1>2
  <2> QED BY Zenon, <2>1 DEF PathOf
<1> QED BY Zenon, <1>5, <1>6 DEF Paths

\* ... and which of them count as results.
LEMMA RootsKept ==
    ASSUME SameSearch, NEW k
    PROVE  Roots(UpTo(k))' = Roots(UpTo(k))
<1>1. \A i : Paths(i)' = Paths(i)
  BY Zenon, PathsKept
<1>2. UpTo(k)' = UpTo(k)
  BY Zenon, <1>1 DEF UpTo
<1>3. chase'.options = chase.options
  BY Zenon DEF SameSearch
<1> QED BY Zenon, <1>2, <1>3 DEF Roots

-----------------------------------------------------------------------------
(* The steps of a level. *)

\* Where a scan goes on after the chunk at its cursor, with x carried.
MovedOn(x) ==
    \/ /\ chase.cursor + Request < End
       /\ chase'.pc = chase.pc /\ chase'.region = chase.region
       /\ chase'.cursor = chase.cursor + Request /\ chase'.carry = x
    \/ /\ ~(chase.cursor + Request < End) /\ chase.region < Len(chase.regions)
       /\ chase'.pc = chase.pc /\ chase'.region = chase.region + 1
       /\ chase'.cursor = chase.regions[chase.region + 1].base /\ chase'.carry = <<>>
    \/ /\ ~(chase.cursor + Request < End) /\ ~(chase.region < Len(chase.regions))
       /\ chase'.pc = "collect"

\* What the fields of the scan are when a read is over.
Unmoved ==
    /\ chase' = [f \in Fields |-> chase'[f]]
    /\ SameSearch
    /\ chase'.depth = chase.depth /\ chase'.frontier = chase.frontier
    /\ chase'.results = chase.results

\* The end of a read takes the scan to the next chunk, the next region or the end
\* of its level.
LEMMA AdvanceEffect ==
    ASSUME NEW s, s = [f \in Fields |-> s[f]], cells' = cells,
           s.target = chase.target, s.options = chase.options, s.regions = chase.regions,
           s.region = chase.region, s.cursor = chase.cursor, s.depth = chase.depth,
           s.frontier = chase.frontier, s.results = chase.results, s.pc = chase.pc,
           chase' = Advance(s)
    PROVE  /\ Unmoved
           /\ chase'.parents = s.parents /\ chase'.partial = s.partial
           /\ MovedOn(s.carry)
<1> DEFINE next == s.cursor + Request
<1>1. CASE next < End
  <2>1. chase' = [s EXCEPT !.cursor = next]
    BY Zenon, <1>1 DEF Advance
  <2> HIDE DEF next
  <2>2. /\ chase' = [f \in Fields |-> chase'[f]]
        /\ chase'.target = s.target /\ chase'.options = s.options
        /\ chase'.regions = s.regions /\ chase'.depth = s.depth
        /\ chase'.frontier = s.frontier /\ chase'.results = s.results
        /\ chase'.parents = s.parents /\ chase'.partial = s.partial
        /\ chase'.pc = s.pc /\ chase'.region = s.region
        /\ chase'.carry = s.carry /\ chase'.cursor = next
    BY Zenon, <2>1 DEF Fields
  <2> QED BY Zenon, <1>1, <2>2 DEF Unmoved, MovedOn, SameSearch, next
<1>2. CASE ~(next < End) /\ s.region < Len(s.regions)
  <2>1. chase' = [s EXCEPT !.region = @ + 1, !.cursor = s.regions[s.region + 1].base,
                           !.carry = <<>>]
    BY Zenon, <1>2 DEF Advance
  <2>2. /\ chase' = [f \in Fields |-> chase'[f]]
        /\ chase'.target = s.target /\ chase'.options = s.options
        /\ chase'.regions = s.regions /\ chase'.depth = s.depth
        /\ chase'.frontier = s.frontier /\ chase'.results = s.results
        /\ chase'.parents = s.parents /\ chase'.partial = s.partial
        /\ chase'.pc = s.pc /\ chase'.region = s.region + 1
        /\ chase'.carry = <<>> /\ chase'.cursor = s.regions[s.region + 1].base
    BY Zenon, <2>1 DEF Fields
  <2> QED BY Zenon, <1>2, <2>2 DEF Unmoved, MovedOn, SameSearch
<1>3. CASE ~(next < End) /\ ~(s.region < Len(s.regions))
  <2>1. chase' = [s EXCEPT !.pc = "collect"]
    BY Zenon, <1>3 DEF Advance
  <2>2. /\ chase' = [f \in Fields |-> chase'[f]]
        /\ chase'.target = s.target /\ chase'.options = s.options
        /\ chase'.regions = s.regions /\ chase'.depth = s.depth
        /\ chase'.frontier = s.frontier /\ chase'.results = s.results
        /\ chase'.parents = s.parents /\ chase'.partial = s.partial
        /\ chase'.pc = "collect"
    BY Zenon, <2>1 DEF Fields
  <2> QED BY Zenon, <1>3, <2>2 DEF Unmoved, MovedOn, SameSearch
<1> QED BY Zenon, <1>1, <1>2, <1>3

\* The end of a read of count bytes: what it found, what it carries, and where
\* the scan goes on.  A level that is cut goes to its end and is partial.
ReadOver(count, x) ==
    /\ Unmoved
    /\ chase'.parents \subseteq chase.parents \cup ParentsIn(Base, Window(count))
    /\ chase'.partial \in BOOLEAN
    /\ ~chase'.partial =>
         /\ ~chase.partial /\ count = Request
         /\ chase'.parents = chase.parents \cup ParentsIn(Base, Window(count))
    /\ MovedOn(x) \/ (chase'.pc = "collect" /\ chase'.partial)

\* A chunk that was read, in whole or in part, adds the parents in its window.
LEMMA ChunkEffect ==
    ASSUME ChaseInv, NEW count, ChunkRead(count), cells' = cells
    PROVE  ReadOver(count, Carry(Window(count), count = Request))
<1> DEFINE whole == count = Request
           found == chase.parents \cup ParentsIn(Base, Window(count))
           x == Carry(Window(count), whole)
           s == [chase EXCEPT !.carry = x, !.partial = @ \/ ~whole,
                              !.bad = IF whole THEN @ ELSE @ + 1]
<1>1. PICK parents \in Capped(found) :
        chase' = IF Cardinality(parents) >= MaxFrontierNodes
                 THEN [s EXCEPT !.parents = parents, !.partial = TRUE, !.pc = "collect"]
                 ELSE Advance([s EXCEPT !.parents = parents])
  BY Zenon DEF ChunkRead, Base, Window, Bytes
<1>2. chase = [f \in Fields |-> chase[f]] /\ chase.partial \in BOOLEAN
  BY Zenon DEF ChaseInv
<1>3. parents \subseteq found
  BY Zenon DEF Capped
<1> HIDE DEF x
<1>4. CASE Cardinality(parents) >= MaxFrontierNodes
  <2>1. chase' = [s EXCEPT !.parents = parents, !.partial = TRUE, !.pc = "collect"]
    BY Zenon, <1>1, <1>4
  <2> HIDE DEF whole
  <2>2. /\ chase' = [f \in Fields |-> chase'[f]]
        /\ chase'.target = chase.target /\ chase'.options = chase.options
        /\ chase'.regions = chase.regions /\ chase'.depth = chase.depth
        /\ chase'.frontier = chase.frontier /\ chase'.results = chase.results
        /\ chase'.parents = parents /\ chase'.partial = TRUE /\ chase'.pc = "collect"
    BY Zenon, <1>2, <2>1 DEF Fields
  <2> QED BY Zenon, <1>3, <2>2 DEF ReadOver, Unmoved, SameSearch
<1>5. CASE ~(Cardinality(parents) >= MaxFrontierNodes)
  <2> DEFINE t == [s EXCEPT !.parents = parents]
  <2>1. chase' = Advance(t)
    BY Zenon, <1>1, <1>5
  <2>2. /\ t = [f \in Fields |-> t[f]]
        /\ t.target = chase.target /\ t.options = chase.options
        /\ t.regions = chase.regions /\ t.region = chase.region
        /\ t.cursor = chase.cursor /\ t.depth = chase.depth
        /\ t.frontier = chase.frontier /\ t.results = chase.results
        /\ t.pc = chase.pc /\ t.parents = parents /\ t.carry = x
        /\ t.partial = (chase.partial \/ ~whole)
    <3> HIDE DEF whole
    <3> QED BY Zenon, <1>2 DEF Fields
  <2> HIDE DEF t
  <2>3. /\ Unmoved
        /\ chase'.parents = t.parents /\ chase'.partial = t.partial
        /\ MovedOn(t.carry)
    BY Zenon, <2>1, <2>2, AdvanceEffect
  <2>4. parents = found
    <3>1. CASE Cardinality(found) < MaxFrontierNodes
      BY Zenon, <1>1, <3>1 DEF Capped
    <3>2. CASE ~(Cardinality(found) < MaxFrontierNodes)
      <4>1. Cardinality(parents) = MaxFrontierNodes
        BY Zenon, <1>1, <3>2 DEF Capped
      <4>2. MaxFrontierNodes >= MaxFrontierNodes
        BY PointerAssumption
      <4> QED BY Zenon, <1>5, <4>1, <4>2
    <3> QED BY Zenon, <3>1, <3>2
  <2>5. chase'.partial = (chase.partial \/ ~whole) /\ chase'.partial \in BOOLEAN
    BY Zenon, <2>2, <2>3
  <2> HIDE DEF found
  <2> QED BY Zenon, <1>2, <2>2, <2>3, <2>4, <2>5 DEF ReadOver, found, x
<1> QED BY Zenon, <1>4, <1>5

\* A failed read adds nothing and carries nothing.
LEMMA FailEffect ==
    ASSUME ChaseInv, ScanFailed
    PROVE  ReadOver(0, <<>>)
<1> DEFINE t == [chase EXCEPT !.carry = Carry(@, FALSE), !.partial = TRUE, !.bad = @ + 1]
<1>1. chase' = Advance(t) /\ cells' = cells
  BY Zenon DEF ScanFailed
<1>2. chase = [f \in Fields |-> chase[f]]
  BY Zenon DEF ChaseInv
<1>3. /\ t = [f \in Fields |-> t[f]]
      /\ t.target = chase.target /\ t.options = chase.options
      /\ t.regions = chase.regions /\ t.region = chase.region
      /\ t.cursor = chase.cursor /\ t.depth = chase.depth
      /\ t.frontier = chase.frontier /\ t.results = chase.results
      /\ t.pc = chase.pc /\ t.parents = chase.parents /\ t.carry = Carry(chase.carry, FALSE)
      /\ t.partial = TRUE
  BY Zenon, <1>2 DEF Fields
<1>4. t.carry = <<>>
  BY Zenon, <1>3 DEF Carry
<1> HIDE DEF t
<1>5. /\ Unmoved
      /\ chase'.parents = t.parents /\ chase'.partial = t.partial
      /\ MovedOn(t.carry)
  BY Zenon, <1>1, <1>3, AdvanceEffect
<1> QED BY Zenon, <1>3, <1>4, <1>5 DEF ReadOver

\* In a scan without a gap, the parents and what the chunk at the cursor adds are
\* all the pointers to the frontier up to the end of the chunk.
LEMMA ReadCovers ==
    ASSUME ChaseInv, chase.pc = "level", chase.regions # <<>>, ~chase.partial,
           NEW n \in chase.frontier, NEW a, Reaches(a, n),
           \/ Scanned(a)
           \/ /\ a \in chase.regions[chase.region].base ..
                 (chase.regions[chase.region].base + chase.regions[chase.region].size
                    - PointerSize)
              /\ a + 1 < chase.cursor + Request
    PROVE  Parent(a, n) \in chase.parents \cup ParentsIn(Base, Window(Request))
<1> DEFINE r == chase.regions[chase.region]
           b == r.base
           z == r.size
           c == chase.cursor
           q == Request
<1>1. /\ SearchOK /\ Place /\ Complete
  BY Zenon DEF ChaseInv
<1>2. chase.region \in 1 .. Len(chase.regions) /\ At(r)
  BY Zenon, <1>1 DEF Place
<1>3. r \in Region /\ b \in Nat /\ z \in Nat
  BY Zenon, <1>1, <1>2, RegionOf
<1>4. q \in 1 .. (b + z - c)
  BY Zenon, <1>1, <1>2, <1>3, RequestFits
<1>5. c \in b .. (b + z - 1)
  BY Zenon, <1>2 DEF At
<1>6. CASE Scanned(a)
  BY Zenon, <1>1, <1>6 DEF Complete
<1>7. CASE ~Scanned(a)
  <2>1. a \in b .. (b + z - PointerSize) /\ a + 1 < c + q
    BY Zenon, <1>7
  <2>2. ~(a + 1 < c)
    BY Zenon, <1>2, <1>7, <2>1 DEF Scanned
  <2>3. c # b => chase.carry # <<>>
    BY Zenon, <1>1 DEF Complete
  <2> HIDE DEF b, z, c, q
  <2>4. q \in Nat /\ c \in Nat /\ c + q <= b + z /\ a \in Nat
    BY <1>3, <1>4, <1>5, <2>1
  <2>5. /\ Base \in Nat
        /\ chase.carry = <<>> => Base = c
        /\ chase.carry # <<>> => Base = c - 1
    <3>1. c + q <= chase.regions[chase.region].base + chase.regions[chase.region].size
      BY Zenon, <2>4 DEF b, z
    <3> QED BY Zenon, <1>1, <1>2, <2>4, <3>1, WindowHolds DEF c
  <2>6. a \in Base .. (c + q - 2)
    BY <1>3, <1>5, <2>1, <2>2, <2>3, <2>4, <2>5
  <2>7. Parent(a, n) \in ParentsIn(Base, Window(q))
    <3>1. c + q <= chase.regions[chase.region].base + chase.regions[chase.region].size
      BY Zenon, <2>4 DEF b, z
    <3> QED BY Zenon, <1>1, <1>2, <2>4, <2>6, <3>1, ParentsFound DEF c
  <2> QED BY Zenon, <2>7 DEF q
<1> QED BY Zenon, <1>6, <1>7

\* A read keeps the invariant, whatever it returned.
LEMMA ReadKeeps ==
    ASSUME ChaseInv, chase.pc = "level", chase.regions # <<>>,
           NEW count \in 0 .. Request, NEW x, ReadOver(count, x),
           x = <<>> \/ x = <<cells[chase.cursor + Request - 1]>>,
           count = Request => x # <<>>
    PROVE  ChaseInv'
<1> DEFINE r == chase.regions[chase.region]
           b == r.base
           z == r.size
           c == chase.cursor
           q == Request
           d == chase.depth
           L == Len(chase.regions)
<1>1. /\ SearchOK /\ Place /\ Correct /\ (~chase.partial => Complete)
      /\ d \in 1 .. (chase.options.max_depth + 1)
  BY Zenon DEF ChaseInv
<1>2. chase.region \in 1 .. L /\ At(r)
  BY Zenon, <1>1 DEF Place
<1>3. r \in Region /\ b \in Nat /\ z \in Nat
  BY Zenon, <1>1, <1>2, RegionOf
<1>4. q \in 1 .. (b + z - c) /\ End = b + z
  BY Zenon, <1>1, <1>2, <1>3, RequestFits
<1>5. c \in b .. (b + z - 1)
  BY Zenon, <1>2 DEF At
<1>6. /\ chase' = [f \in Fields |-> chase'[f]] /\ SameSearch
      /\ chase'.depth = d /\ chase'.frontier = chase.frontier
      /\ chase'.results = chase.results
      /\ chase'.partial \in BOOLEAN
      /\ MovedOn(x) \/ (chase'.pc = "collect" /\ chase'.partial)
      /\ chase'.regions = chase.regions /\ cells' = cells /\ chase'.options = chase.options
  BY Zenon DEF ReadOver, Unmoved, SameSearch
<1>7. d \in Nat /\ d - 1 \in Nat /\ (d - 1) + 1 = d
  <2> HIDE DEF d
  <2>1. chase.options.max_depth \in Nat
    BY <1>1 DEF SearchOK, Options
  <2> QED BY <1>1, <2>1
<1>8. chase'.pc = "level" \/ chase'.pc = "collect"
  BY Zenon, <1>6 DEF MovedOn
<1>9. SearchOK'
  BY Zenon, <1>1, <1>6, SearchKept
<1>10. /\ \A k : Paths(k)' = Paths(k) /\ Roots(UpTo(k))' = Roots(UpTo(k))
       /\ \A a : Pointer(a)' = Pointer(a) /\ (Stored(a)' <=> Stored(a))
  BY Zenon, <1>6, PathsKept, RootsKept, StoredKept
<1>11. Correct'
  <2>1. ParentsIn(Base, Window(count)) \subseteq Paths(d)
    <3> SUFFICES ASSUME NEW p \in ParentsIn(Base, Window(count)) PROVE p \in Paths(d)
      BY Zenon
    <3>1. c + count <= b + z /\ count \in Nat
      <4> HIDE DEF b, z, c, q
      <4>1. count \in 0 .. q
        BY Zenon DEF q
      <4> QED BY <1>3, <1>4, <1>5, <4>1
    <3>2. PICK n \in chase.frontier : \E a : Reaches(a, n) /\ p = Parent(a, n)
      BY Zenon, <1>1, <1>2, <3>1, ParentsFound
    <3>3. n \in Paths(d - 1)
      BY Zenon, <1>1 DEF Correct
    <3>4. p \in Paths((d - 1) + 1)
      BY Zenon, <1>1, <1>7, <3>2, <3>3, PathsExtend
    <3> QED BY Zenon, <1>7, <3>4
  <2>2. chase'.parents \subseteq Paths(d)
    BY Zenon, <1>1, <2>1 DEF Correct, ReadOver
  <2>3. /\ chase.results \subseteq Roots(UpTo(d - 1)) /\ d <= chase.options.max_depth
        /\ chase.frontier \subseteq Paths(d - 1)
    BY Zenon, <1>1 DEF Correct
  <2>4. /\ chase'.results \subseteq Roots(UpTo(d - 1))'
        /\ chase'.frontier \subseteq Paths(d - 1)' /\ chase'.parents \subseteq Paths(d)'
    BY Zenon, <1>6, <1>10, <2>2, <2>3
  <2> QED BY Zenon, <1>6, <2>3, <2>4 DEF Correct
<1>12. Place'
  <2> SUFFICES ASSUME chase'.pc = "level"
               PROVE  /\ chase'.region \in 1 .. L
                      /\ At(chase.regions[chase.region])'
    BY Zenon, <1>6 DEF Place
  <2>1. CASE /\ c + q < End
             /\ chase'.region = chase.region /\ chase'.cursor = c + q /\ chase'.carry = x
    <3>1. c + q \in b .. (b + z - 1) /\ c + q > b /\ (c + q) - 1 = c + q - 1
      <4> HIDE DEF b, z, c, q
      <4> QED BY <1>3, <1>4, <1>5, <2>1
    <3> QED BY Zenon, <1>2, <1>6, <2>1, <3>1 DEF At
  <2>2. CASE /\ chase.region < L /\ chase'.region = chase.region + 1
             /\ chase'.cursor = chase.regions[chase.region + 1].base /\ chase'.carry = <<>>
    <3>1. chase.region + 1 \in 1 .. L
      <4>1. L \in Nat
        BY <1>1 DEF SearchOK
      <4> QED BY <1>2, <2>2, <4>1
    <3> DEFINE s == chase.regions[chase.region + 1]
    <3>2. s.base \in Nat /\ s.size \in Nat \ {0}
      BY Zenon, <1>1, <3>1, RegionOf
    <3> HIDE DEF s
    <3>3. s.base \in s.base .. (s.base + s.size - 1)
      BY <3>2
    <3> QED BY Zenon, <1>6, <2>2, <3>1, <3>3 DEF At, s
  <2>3. "level" # "collect"
    OBVIOUS
  <2> QED BY Zenon, <1>6, <2>1, <2>2, <2>3 DEF MovedOn
<1>13. ASSUME ~chase'.partial PROVE Complete'
  <2>1. /\ ~chase.partial /\ count = q /\ Complete
        /\ chase'.parents = chase.parents \cup ParentsIn(Base, Window(q))
        /\ MovedOn(x) /\ x # <<>>
    BY Zenon, <1>1, <1>6, <1>13 DEF ReadOver
  <2>2. /\ Roots(UpTo(d - 1))' \subseteq chase'.results
        /\ Paths(d - 1)' \subseteq chase'.frontier
    BY Zenon, <1>6, <1>10, <2>1 DEF Complete
  <2>3. ASSUME NEW n \in chase.frontier, NEW a, Reaches(a, n),
               \/ Scanned(a)
               \/ a \in b .. (b + z - PointerSize) /\ a + 1 < c + q
        PROVE  Parent(a, n) \in chase'.parents
    BY Zenon, <2>1, <2>3, ReadCovers
  <2>4. ~(c + q < End) => c + q = b + z
    <3> HIDE DEF b, z, c, q
    <3> QED BY <1>3, <1>4, <1>5
  <2>5. ASSUME ~(c + q < End), NEW a, a \in b .. (b + z - PointerSize) PROVE a + 1 < c + q
    <3>1. a \in b .. (b + z - 2)
      BY Zenon, <2>5 DEF PointerSize
    <3> HIDE DEF b, z, c, q
    <3> QED BY <1>3, <1>4, <1>5, <2>4, <2>5, <3>1
  <2>6. ASSUME chase'.pc = "level"
        PROVE  /\ chase'.regions # <<>> /\ chase'.cursor # chase'.regions[chase'.region].base
                    => chase'.carry # <<>>
               /\ \A n \in chase'.frontier : \A a : Reaches(a, n)' /\ Scanned(a)'
                    => Parent(a, n)' \in chase'.parents
    <3>1. \/ /\ c + q < End
             /\ chase'.region = chase.region /\ chase'.cursor = c + q /\ chase'.carry = x
          \/ /\ ~(c + q < End) /\ chase.region < L /\ chase'.region = chase.region + 1
             /\ chase'.cursor = chase.regions[chase.region + 1].base /\ chase'.carry = <<>>
      BY Zenon, <2>1, <2>6 DEF MovedOn
    <3>2. chase'.cursor # chase'.regions[chase'.region].base => chase'.carry # <<>>
      BY Zenon, <1>6, <2>1, <3>1
    <3>3. ASSUME NEW n \in chase'.frontier, NEW a, Reaches(a, n)', Scanned(a)'
          PROVE  Parent(a, n)' \in chase'.parents
      <4>1. n \in chase.frontier /\ Reaches(a, n)
        BY Zenon, <1>6, <1>10, <3>3 DEF Reaches
      <4>2. PICK i \in 1 .. L :
              /\ a \in chase.regions[i].base ..
                         (chase.regions[i].base + chase.regions[i].size - PointerSize)
              /\ i < chase'.region \/ (i = chase'.region /\ a + 1 < chase'.cursor)
        BY Zenon, <1>6, <3>3 DEF Scanned
      <4>3. \/ Scanned(a)
            \/ a \in b .. (b + z - PointerSize) /\ a + 1 < c + q
        <5>1. CASE i < chase.region
          BY Zenon, <4>2, <5>1 DEF Scanned
        <5>2. CASE i = chase.region /\ ~(i < chase.region)
          <6>1. CASE c + q < End
            BY Zenon, <3>1, <4>2, <5>2, <6>1
          <6>2. CASE ~(c + q < End)
            BY Zenon, <2>5, <4>2, <5>2, <6>2
          <6> QED BY Zenon, <6>1, <6>2
        <5>3. CASE ~(i < chase.region) /\ i # chase.region
          <6>1. ~(i < chase.region + 1) /\ ~(i < chase.region)
            BY <1>2, <5>3
          <6>2. i = chase.region + 1 /\ a + 1 < chase.regions[i].base
            BY Zenon, <3>1, <4>2, <5>3, <6>1
          <6> DEFINE s == chase.regions[i]
          <6>3. s.base \in Nat /\ s.size \in Nat /\ a \in s.base .. (s.base + s.size - 2)
                /\ a + 1 < s.base
            BY Zenon, <1>1, <4>2, <6>2, RegionOf DEF PointerSize
          <6> HIDE DEF s
          <6> QED BY <6>3
        <5> QED BY Zenon, <5>1, <5>2, <5>3
      <4>4. Parent(a, n) \in chase'.parents
        BY Zenon, <2>3, <4>1, <4>3
      <4>5. Parent(a, n)' = Parent(a, n)
        BY Zenon, <1>10 DEF Parent
      <4> QED BY Zenon, <4>4, <4>5
    <3> QED BY Zenon, <3>2, <3>3
  <2>7. ASSUME chase'.pc = "collect" PROVE Paths(d)' \subseteq chase'.parents
    <3> SUFFICES ASSUME NEW p \in Paths(d) PROVE p \in chase'.parents
      BY Zenon, <1>6, <1>10
    <3>1. ~(c + q < End) /\ ~(chase.region < L)
      <4>1. "level" # "collect"
        OBVIOUS
      <4> QED BY Zenon, <2>1, <2>7, <4>1 DEF MovedOn
    <3>2. p \in Paths((d - 1) + 1)
      BY Zenon, <1>7
    <3>3. PICK n \in Paths(d - 1) : \E a : Reaches(a, n) /\ p = Parent(a, n)
      BY Zenon, <1>1, <1>7, <3>2, PathsUnfold
    <3>4. PICK a : Reaches(a, n) /\ p = Parent(a, n)
      BY Zenon, <3>3
    <3>5. n \in chase.frontier
      BY Zenon, <2>1 DEF Complete
    <3>6. PICK i \in 1 .. L :
            a \in chase.regions[i].base ..
                    (chase.regions[i].base + chase.regions[i].size - PointerSize)
      <4>1. DOMAIN chase.regions = 1 .. L
        BY <1>1 DEF SearchOK
      <4> QED BY Zenon, <3>4, <4>1 DEF Reaches, Stored
    <3>7. i < chase.region \/ i = chase.region
      <4>1. L \in Nat
        BY <1>1 DEF SearchOK
      <4> QED BY <1>2, <3>1, <4>1
    <3>8. Scanned(a) \/ (a \in b .. (b + z - PointerSize) /\ a + 1 < c + q)
      <4>1. CASE i < chase.region
        BY Zenon, <3>6, <4>1 DEF Scanned
      <4>2. CASE i = chase.region
        BY Zenon, <2>5, <3>1, <3>6, <4>2
      <4> QED BY Zenon, <3>7, <4>1, <4>2
    <3> QED BY Zenon, <2>3, <3>4, <3>5, <3>8
  <2>8. chase'.pc # "done"
    <3>1. "done" # "level" /\ "done" # "collect"
      OBVIOUS
    <3> QED BY Zenon, <1>8, <3>1
  <2> QED BY Zenon, <1>6, <2>2, <2>6, <2>7, <2>8 DEF Complete
<1>14. chase'.depth \in 1 .. (chase'.options.max_depth + 1)
  BY Zenon, <1>1, <1>6
<1> QED BY Zenon, <1>6, <1>8, <1>9, <1>11, <1>12, <1>13, <1>14 DEF ChaseInv

\* A scan without regions goes to the end of the level at once: there is no path.
LEMMA NoRegionsKeeps == ASSUME ChaseInv, NoRegions PROVE ChaseInv'
<1> DEFINE d == chase.depth
<1>1. /\ SearchOK /\ Correct /\ (~chase.partial => Complete)
      /\ d \in 1 .. (chase.options.max_depth + 1) /\ chase.partial \in BOOLEAN
      /\ chase = [f \in Fields |-> chase[f]]
  BY Zenon DEF ChaseInv
<1>2. /\ chase.pc = "level" /\ chase.regions = <<>> /\ cells' = cells
      /\ chase' = [chase EXCEPT !.pc = "collect"]
  BY Zenon DEF NoRegions
<1>3. /\ chase' = [f \in Fields |-> chase'[f]]
      /\ chase'.target = chase.target /\ chase'.options = chase.options
      /\ chase'.regions = chase.regions /\ chase'.depth = d
      /\ chase'.frontier = chase.frontier /\ chase'.results = chase.results
      /\ chase'.parents = chase.parents /\ chase'.partial = chase.partial
      /\ chase'.pc = "collect"
  BY Zenon, <1>1, <1>2 DEF Fields
<1>4. SameSearch
  BY Zenon, <1>2, <1>3 DEF SameSearch
<1>5. /\ \A k : Paths(k)' = Paths(k) /\ Roots(UpTo(k))' = Roots(UpTo(k))
  BY Zenon, <1>4, PathsKept, RootsKept
<1>6. d - 1 \in Nat /\ (d - 1) + 1 = d
  <2>1. chase.options.max_depth \in Nat
    BY <1>1 DEF SearchOK, Options
  <2> HIDE DEF d
  <2> QED BY <1>1, <2>1
<1>7. Paths(d) = {}
  <2> SUFFICES ASSUME NEW p \in Paths((d - 1) + 1) PROVE FALSE
    BY Zenon, <1>6
  <2>1. PICK n \in Paths(d - 1) : \E a : Reaches(a, n)
    BY Zenon, <1>1, <1>6, PathsUnfold
  <2>2. DOMAIN chase.regions = {}
    BY <1>2
  <2> QED BY Zenon, <2>1, <2>2 DEF Reaches, Stored
<1>8. Correct'
  <2>1. /\ chase.results \subseteq Roots(UpTo(d - 1)) /\ d <= chase.options.max_depth
        /\ chase.frontier \subseteq Paths(d - 1) /\ chase.parents \subseteq Paths(d)
    BY Zenon, <1>1, <1>2 DEF Correct
  <2>2. /\ chase'.results \subseteq Roots(UpTo(d - 1))'
        /\ chase'.frontier \subseteq Paths(d - 1)' /\ chase'.parents \subseteq Paths(d)'
    BY Zenon, <1>3, <1>5, <2>1
  <2> QED BY Zenon, <1>3, <2>1, <2>2 DEF Correct
<1>9. ASSUME ~chase'.partial PROVE Complete'
  <2>1. Roots(UpTo(d - 1)) \subseteq chase.results /\ Paths(d - 1) \subseteq chase.frontier
    BY Zenon, <1>1, <1>2, <1>3, <1>9 DEF Complete
  <2>2. /\ Roots(UpTo(d - 1))' \subseteq chase'.results
        /\ Paths(d - 1)' \subseteq chase'.frontier
        /\ Paths(d)' \subseteq chase'.parents
    BY Zenon, <1>3, <1>5, <1>7, <2>1
  <2>3. "collect" # "level" /\ "collect" # "done"
    OBVIOUS
  <2> QED BY Zenon, <1>3, <2>2, <2>3 DEF Complete
<1>10. Place'
  <2>1. "collect" # "level"
    OBVIOUS
  <2> QED BY Zenon, <1>3, <2>1 DEF Place
<1>11. SearchOK'
  BY Zenon, <1>1, <1>4, SearchKept
<1> QED BY Zenon, <1>1, <1>3, <1>8, <1>9, <1>10, <1>11 DEF ChaseInv

\* The end of a level: its nodes are results and the next frontier.
LEMMA CollectKeeps == ASSUME ChaseInv, CollectLevel PROVE ChaseInv'
<1> DEFINE d == chase.depth
           all == chase.results \cup Roots(chase.parents)
           full == Cardinality(all) >= chase.options.max_results
           over == chase.parents = {} \/ full \/ d = chase.options.max_depth
<1>1. /\ SearchOK /\ Correct /\ (~chase.partial => Complete)
      /\ d \in 1 .. (chase.options.max_depth + 1) /\ chase.partial \in BOOLEAN
      /\ chase = [f \in Fields |-> chase[f]] /\ chase.pc = "collect" /\ cells' = cells
  BY Zenon DEF ChaseInv, CollectLevel
<1>2. PICK results \in IF ~full THEN {all}
                       ELSE {s \in SUBSET all : /\ Cardinality(s) = chase.options.max_results
                                                /\ chase.results \subseteq s} :
        chase' = [chase EXCEPT
                    !.results = results, !.partial = @ \/ full,
                    !.frontier = chase.parents, !.parents = {}, !.carry = <<>>,
                    !.depth = @ + 1, !.region = 1,
                    !.cursor = IF chase.regions = <<>> THEN 0 ELSE chase.regions[1].base,
                    !.pc = IF over THEN "done" ELSE "level"]
  BY Zenon DEF CollectLevel
<1>3. results \subseteq all /\ (~full => results = all)
  BY Zenon, <1>2
<1>4. /\ chase' = [f \in Fields |-> chase'[f]]
      /\ chase'.target = chase.target /\ chase'.options = chase.options
      /\ chase'.regions = chase.regions /\ chase'.depth = d + 1
      /\ chase'.frontier = chase.parents /\ chase'.results = results
      /\ chase'.parents = {} /\ chase'.partial = (chase.partial \/ full)
      /\ chase'.carry = <<>> /\ chase'.region = 1
      /\ chase.regions # <<>> => chase'.cursor = chase.regions[1].base
      /\ chase'.pc = IF over THEN "done" ELSE "level"
  <2> HIDE DEF over, full
  <2> QED BY Zenon, <1>1, <1>2 DEF Fields
<1> HIDE DEF full, all
<1>5. SameSearch
  BY Zenon, <1>1, <1>4 DEF SameSearch
<1>6. /\ \A k : Paths(k)' = Paths(k) /\ Roots(UpTo(k))' = Roots(UpTo(k))
      /\ \A a : Stored(a)' <=> Stored(a)
  BY Zenon, <1>5, PathsKept, RootsKept, StoredKept
<1>7. /\ chase.results \subseteq Roots(UpTo(d - 1)) /\ d <= chase.options.max_depth
      /\ chase.parents \subseteq Paths(d)
  BY Zenon, <1>1 DEF Correct
<1>8. chase.options.max_depth \in Nat /\ d \in Nat
  <2>1. chase.options.max_depth \in Nat
    BY <1>1 DEF SearchOK, Options
  <2> HIDE DEF d
  <2> QED BY <1>1, <2>1
<1>9. /\ (d + 1) - 1 = d /\ d \in 1 .. d
      /\ \A k : k \in 1 .. d <=> k \in 1 .. (d - 1) \/ k = d
      /\ d + 1 \in 1 .. (chase.options.max_depth + 1)
      /\ d # chase.options.max_depth => d + 1 <= chase.options.max_depth
  <2> DEFINE m == chase.options.max_depth
  <2>1. m \in Nat /\ d \in 1 .. m
    <3> HIDE DEF m, d
    <3>1. d \in 1 .. (m + 1) /\ d <= m /\ m \in Nat
      BY Zenon, <1>1, <1>7, <1>8 DEF m
    <3> QED BY <3>1
  <2> HIDE DEF m, d
  <2>2. /\ (d + 1) - 1 = d /\ d \in 1 .. d
        /\ \A k : k \in 1 .. d <=> k \in 1 .. (d - 1) \/ k = d
        /\ d + 1 \in 1 .. (m + 1)
        /\ d # m => d + 1 <= m
    BY <2>1
  <2> QED BY Zenon, <2>2 DEF m
<1>9a. chase'.depth - 1 = d
  BY Zenon, <1>4, <1>9
<1>9b. /\ Roots(UpTo(chase.depth - 1))' = Roots(UpTo(d))
       /\ Paths(chase.depth - 1)' = Paths(d)
  BY Zenon, <1>6, <1>9a
<1>10. UpTo(d) = UpTo(d - 1) \cup Paths(d)
  BY Zenon, <1>9 DEF UpTo
<1>11. Roots(UpTo(d)) = Roots(UpTo(d - 1)) \cup Roots(Paths(d))
  BY Zenon, <1>10 DEF Roots
<1>12. Correct'
  <2>1. Roots(chase.parents) \subseteq Roots(Paths(d))
    BY Zenon, <1>7 DEF Roots
  <2>2. results \subseteq Roots(UpTo(d))
    BY Zenon, <1>3, <1>7, <1>11, <2>1 DEF all
  <2>3. chase'.results \subseteq Roots(UpTo(chase.depth - 1))'
    BY Zenon, <1>4, <1>9b, <2>2
  <2>4. /\ chase'.frontier \subseteq Paths(chase.depth - 1)'
        /\ chase'.parents \subseteq Paths(chase.depth)'
    BY Zenon, <1>4, <1>7, <1>9b
  <2>5. chase'.pc \in {"level", "collect"} => chase'.depth <= chase'.options.max_depth
    <3>1. "done" # "level" /\ "done" # "collect"
      OBVIOUS
    <3> QED BY Zenon, <1>4, <1>9, <3>1
  <2> QED BY Zenon, <2>3, <2>4, <2>5 DEF Correct
<1>13. ASSUME chase.regions # <<>>
       PROVE  1 \in 1 .. Len(chase.regions) /\ At(chase.regions[chase.region])'
  <2>1. 1 \in 1 .. Len(chase.regions)
    BY <1>1, <1>13 DEF SearchOK
  <2> DEFINE s == chase.regions[1]
  <2>2. s.base \in Nat /\ s.size \in Nat \ {0}
    BY Zenon, <1>1, <2>1, RegionOf
  <2> HIDE DEF s
  <2>3. s.base \in s.base .. (s.base + s.size - 1)
    BY <2>2
  <2> QED BY Zenon, <1>4, <1>13, <2>1, <2>3 DEF At, s
<1>14. Place'
  BY Zenon, <1>4, <1>13 DEF Place
<1>15. ASSUME ~chase'.partial PROVE Complete'
  <2>1. /\ ~full /\ Complete /\ results = all
    BY Zenon, <1>1, <1>3, <1>4, <1>15
  <2>2. Roots(UpTo(d - 1)) \subseteq chase.results /\ Paths(d) \subseteq chase.parents
    BY Zenon, <1>1, <2>1 DEF Complete
  <2>3. Roots(Paths(d)) \subseteq Roots(chase.parents)
    BY Zenon, <2>2 DEF Roots
  <2>4. Roots(UpTo(d)) \subseteq results
    BY Zenon, <1>11, <2>1, <2>2, <2>3 DEF all
  <2>5. /\ Roots(UpTo(chase.depth - 1))' \subseteq chase'.results
        /\ Paths(chase.depth - 1)' \subseteq chase'.frontier
    BY Zenon, <1>4, <1>9b, <2>2, <2>4
  <2>6. ASSUME NEW a PROVE ~Scanned(a)'
    <3> SUFFICES ASSUME NEW i \in 1 .. Len(chase.regions),
                        a \in chase.regions[i].base ..
                             (chase.regions[i].base + chase.regions[i].size - PointerSize),
                        i < 1 \/ (i = 1 /\ a + 1 < chase'.cursor)
                 PROVE  FALSE
      BY Zenon, <1>4 DEF Scanned
    <3>1. ~(i < 1)
      OBVIOUS
    <3>2. chase.regions # <<>>
      BY <1>1 DEF SearchOK
    <3> DEFINE s == chase.regions[i]
    <3>3. s.base \in Nat /\ s.size \in Nat /\ a \in s.base .. (s.base + s.size - 2)
          /\ a + 1 < s.base
      BY Zenon, <1>1, <1>4, <3>1, <3>2, RegionOf DEF PointerSize
    <3> HIDE DEF s
    <3> QED BY <3>3
  <2>7. chase'.regions # <<>> => chase'.cursor = chase'.regions[chase'.region].base
    BY Zenon, <1>4
  <2>8. chase'.pc # "collect"
    <3>1. "done" # "collect" /\ "level" # "collect"
      OBVIOUS
    <3> QED BY Zenon, <1>4, <3>1
  <2>9. chase'.pc = "done" =>
          chase'.depth > chase'.options.max_depth \/ Paths(chase.depth - 1)' = {}
    <3> SUFFICES ASSUME over PROVE d + 1 > chase.options.max_depth \/ Paths(d) = {}
      <4>1. "done" # "level"
        OBVIOUS
      <4> QED BY Zenon, <1>4, <1>9b, <4>1
    <3>1. CASE chase.parents = {}
      BY Zenon, <2>2, <3>1
    <3>2. CASE d = chase.options.max_depth
      <4>1. d + 1 > d
        BY <1>8
      <4> QED BY Zenon, <3>2, <4>1
    <3> QED BY Zenon, <2>1, <3>1, <3>2
  <2> QED BY Zenon, <2>5, <2>6, <2>7, <2>8, <2>9 DEF Complete
<1>16. chase'.depth \in 1 .. (chase'.options.max_depth + 1) /\ chase'.partial \in BOOLEAN
  BY Zenon, <1>1, <1>4, <1>9 DEF full
<1>17. chase'.pc \in {"level", "collect", "done", "cancelled", "failed"}
  BY Zenon, <1>4
<1>18. SearchOK'
  BY Zenon, <1>1, <1>5, SearchKept
<1> QED BY Zenon, <1>4, <1>12, <1>14, <1>15, <1>16, <1>17, <1>18 DEF ChaseInv

\* A scan that was cancelled or has failed has nothing left.
LEMMA AbandonKeeps ==
    ASSUME ChaseInv, NEW reason \in {"cancelled", "failed"}, Abandon(reason)
    PROVE  ChaseInv'
<1>1. /\ SearchOK /\ chase.depth \in 1 .. (chase.options.max_depth + 1)
      /\ chase = [f \in Fields |-> chase[f]] /\ chase.partial \in BOOLEAN
  BY Zenon DEF ChaseInv
<1>2. /\ cells' = cells
      /\ chase' = [chase EXCEPT !.pc = reason, !.results = {}, !.parents = {},
                                !.frontier = {},
                                !.partial = chase.partial \/ reason = "cancelled"]
  BY Zenon DEF Abandon
<1>3. /\ chase' = [f \in Fields |-> chase'[f]]
      /\ chase'.target = chase.target /\ chase'.options = chase.options
      /\ chase'.regions = chase.regions /\ chase'.depth = chase.depth
      /\ chase'.results = {} /\ chase'.pc = reason
      /\ chase'.partial = (chase.partial \/ reason = "cancelled")
  BY Zenon, <1>1, <1>2 DEF Fields
<1>4. SearchOK'
  BY Zenon, <1>1, <1>2, <1>3, SearchKept DEF SameSearch
<1>5. reason # "level" /\ reason # "collect"
  OBVIOUS
<1>6. Correct' /\ Place'
  BY Zenon, <1>3, <1>5 DEF Correct, Place
<1>7. chase'.partial \in BOOLEAN
  BY Zenon, <1>3
<1>8. ~chase'.partial => reason = "failed"
  BY Zenon, <1>3
<1>9. reason = "failed" => Complete'
  <2>1. "failed" # "level" /\ "failed" # "collect" /\ "failed" # "done"
    OBVIOUS
  <2> QED BY Zenon, <1>3, <2>1 DEF Complete
<1> QED BY Zenon, <1>1, <1>3, <1>4, <1>6, <1>7, <1>8, <1>9 DEF ChaseInv

\* A chunk that was read keeps the invariant.
LEMMA ChunkKeeps ==
    ASSUME ChaseInv, chase.pc = "level", chase.regions # <<>>, cells' = cells,
           NEW count \in 0 .. Request, ChunkRead(count)
    PROVE  ChaseInv'
<1> DEFINE x == Carry(Window(count), count = Request)
           r == chase.regions[chase.region]
<1>1. SearchOK /\ Place
  BY Zenon DEF ChaseInv
<1>2. chase.region \in 1 .. Len(chase.regions) /\ At(r)
  BY Zenon, <1>1 DEF Place
<1>3. r \in Region /\ r.base \in Nat /\ r.size \in Nat
  BY Zenon, <1>1, <1>2, RegionOf
<1>4. Request \in 1 .. (r.base + r.size - chase.cursor)
  BY Zenon, <1>1, <1>2, <1>3, RequestFits
<1>5. chase.cursor \in r.base .. (r.base + r.size - 1)
  BY Zenon, <1>2 DEF At
<1>6. Request \in Nat \ {0} /\ chase.cursor + Request <= r.base + r.size
  <2> DEFINE b == r.base
             z == r.size
             c == chase.cursor
             q == Request
  <2>1. b \in Nat /\ z \in Nat /\ c \in b .. (b + z - 1) /\ q \in 1 .. (b + z - c)
    BY Zenon, <1>3, <1>4, <1>5
  <2> HIDE DEF b, z, c, q
  <2>2. q \in Nat \ {0} /\ c + q <= b + z
    BY <2>1
  <2> QED BY Zenon, <2>2 DEF b, z, c, q
<1>7. ASSUME count = Request PROVE x = <<cells[chase.cursor + Request - 1]>>
  <2>1. Carry(Window(Request), TRUE) = <<cells[chase.cursor + Request - 1]>>
    BY Zenon, <1>1, <1>2, <1>6, CarriedOver
  <2>2. (count = Request) = TRUE
    BY Zenon, <1>7
  <2> QED BY Zenon, <1>7, <2>1, <2>2
<1>8. ASSUME count # Request PROVE x = <<>>
  BY Zenon, <1>8 DEF Carry
<1>9. ReadOver(count, x)
  BY Zenon, ChunkEffect
<1>10. <<cells[chase.cursor + Request - 1]>> # <<>>
  OBVIOUS
<1> HIDE DEF x
<1> QED BY Zenon, <1>7, <1>8, <1>9, <1>10, ReadKeeps

\* Every step of the scan keeps the invariant.
LEMMA ChaseStep == ChaseInv /\ [PSNext]_<<cells, chase>> => ChaseInv'
<1> SUFFICES ASSUME ChaseInv, [PSNext]_<<cells, chase>> PROVE ChaseInv'
  OBVIOUS
<1>1. ASSUME chase.pc = "level", chase.regions # <<>>
      PROVE  Request \in Nat \ {0}
  <2> DEFINE r == chase.regions[chase.region]
  <2>1. SearchOK /\ Place
    BY Zenon DEF ChaseInv
  <2>2. chase.region \in 1 .. Len(chase.regions) /\ At(r)
    BY Zenon, <1>1, <2>1 DEF Place
  <2>3. r \in Region
    BY Zenon, <2>1, <2>2, RegionOf
  <2>4. Request \in 1 .. (r.base + r.size - chase.cursor)
    BY Zenon, <2>1, <2>2, <2>3, RequestFits
  <2> DEFINE e == r.base + r.size - chase.cursor
             q == Request
  <2>5. q \in 1 .. e
    BY Zenon, <2>4
  <2> HIDE DEF e, q
  <2>6. q \in Nat \ {0}
    BY <2>5
  <2> QED BY Zenon, <2>6 DEF q
<1>2. CASE ScanWhole
  <2>1. Request \in 0 .. Request
    BY <1>1, <1>2 DEF ScanWhole
  <2> QED BY Zenon, <1>2, <2>1, ChunkKeeps DEF ScanWhole
<1>3. CASE ScanShort
  <2>1. PICK count \in 0 .. (Request - 1) : ChunkRead(count)
    BY Zenon, <1>3 DEF ScanShort
  <2>2. chase.pc = "level" /\ chase.regions # <<>> /\ cells' = cells
    BY Zenon, <1>3 DEF ScanShort
  <2>3. count \in 0 .. Request
    <3>1. Request \in Nat
      BY Zenon, <1>1, <2>2
    <3> QED BY <3>1
  <2> QED BY Zenon, <2>1, <2>2, <2>3, ChunkKeeps
<1>4. CASE ScanFailed
  <2>1. chase.pc = "level" /\ chase.regions # <<>>
    BY Zenon, <1>4 DEF ScanFailed
  <2>2. 0 \in 0 .. Request /\ 0 # Request
    BY <1>1, <2>1
  <2> QED BY Zenon, <1>4, <2>1, <2>2, FailEffect, ReadKeeps
<1>5. CASE ScanOver \/ UNCHANGED <<cells, chase>>
  <2>1. cells' = cells /\ chase' = chase
    BY Zenon, <1>5 DEF ScanOver
  <2>2. SameSearch
    BY Zenon, <2>1 DEF SameSearch
  <2>3. /\ \A k : Paths(k)' = Paths(k) /\ Roots(UpTo(k))' = Roots(UpTo(k))
        /\ \A a : Pointer(a)' = Pointer(a) /\ (Stored(a)' <=> Stored(a))
    BY Zenon, <2>2, PathsKept, RootsKept, StoredKept
  <2>4. SearchOK'
    BY Zenon, <2>2, SearchKept DEF ChaseInv
  <2>5. Correct'
    BY Zenon, <2>1, <2>3 DEF ChaseInv, Correct
  <2>6. Place'
    BY Zenon, <2>1 DEF ChaseInv, Place, At
  <2>7. ASSUME NEW n, NEW a
        PROVE  /\ Reaches(a, n)' <=> Reaches(a, n)
               /\ Scanned(a)' <=> Scanned(a)
               /\ Parent(a, n)' = Parent(a, n)
    BY Zenon, <2>1, <2>3 DEF Reaches, Scanned, Parent
  <2>8. ~chase'.partial => Complete'
    BY Zenon, <2>1, <2>3, <2>7 DEF ChaseInv, Complete
  <2> QED BY Zenon, <2>1, <2>4, <2>5, <2>6, <2>8 DEF ChaseInv
<1>6. CASE CancelScan \/ ListingFails
  BY Zenon, <1>6, AbandonKeeps DEF CancelScan, ListingFails
<1> QED BY Zenon, <1>2, <1>3, <1>4, <1>5, <1>6, NoRegionsKeeps, CollectKeeps DEF PSNext

\* At the start the frontier is the target alone, the path without pointers.
LEMMA TargetPath ==
    ASSUME SearchOK
    PROVE  Paths(0) = {[address |-> chase.target, offsets |-> <<>>]} /\ UpTo(0) = {}
<1>1. 1 .. 0 = {} /\ 0 \in Nat
  OBVIOUS
<1>2. ASSUME NEW way \in [1 .. 0 -> DOMAIN cells]
      PROVE  PathOf(way) = [address |-> chase.target, offsets |-> <<>>]
  <2>1. Len(way) = 0
    BY Zenon, <1>1, SequenceOf
  <2>2. After(way, 0) = chase.target
    BY Zenon, <2>1 DEF After
  <2>3. ASSUME NEW f, f \in [1 .. 0 -> Int] PROVE f = <<>>
    BY <2>3
  <2>4. [i \in 1 .. Len(way) |-> After(way, i) - Pointer(way[i])] \in [1 .. 0 -> Int]
    BY Zenon, <1>1, <2>1
  <2>5. [i \in 1 .. Len(way) |-> After(way, i) - Pointer(way[i])] = <<>>
    BY Zenon, <2>3, <2>4
  <2> QED BY Zenon, <2>2, <2>5 DEF PathOf
<1>3. [i \in 1 .. 0 |-> 0] \in Chains(0)
  BY Zenon, <1>1 DEF Chains
<1>4. Chains(0) \subseteq [1 .. 0 -> DOMAIN cells]
  BY Zenon DEF Chains
<1>5. Paths(0) = {[address |-> chase.target, offsets |-> <<>>]}
  BY Zenon, <1>2, <1>3, <1>4 DEF Paths
<1>6. UpTo(0) = {}
  BY Zenon, <1>1 DEF UpTo
<1> QED BY Zenon, <1>5, <1>6

\* A scan starts with the target alone, in front of the first region.
LEMMA ChaseStart == PSInit => ChaseInv
<1> SUFFICES ASSUME PSInit PROVE ChaseInv
  OBVIOUS
<1>1. PICK regions \in RegionLists, options \in PointerOptions, target \in Targets :
        /\ cells \in [Cell(regions) -> Digit]
        /\ chase = [pc |-> "level", target |-> target, options |-> options,
                    regions |-> Scannable(regions, options), region |-> 1,
                    cursor |-> IF Scannable(regions, options) = <<>> THEN 0
                               ELSE Scannable(regions, options)[1].base,
                    carry |-> <<>>, depth |-> 1,
                    frontier |-> {[address |-> target, offsets |-> <<>>]},
                    parents |-> {}, results |-> {}, partial |-> FALSE, bad |-> 0]
  BY Zenon DEF PSInit
<1> DEFINE scanned == Scannable(regions, options)
           Own == {regions[i] : i \in 1 .. Len(regions)}
<1> HIDE DEF scanned
<1>2. /\ chase = [f \in Fields |-> chase[f]]
      /\ chase.pc = "level" /\ chase.target = target /\ chase.options = options
      /\ chase.regions = scanned /\ chase.region = 1
      /\ scanned # <<>> => chase.cursor = scanned[1].base
      /\ chase.carry = <<>> /\ chase.depth = 1
      /\ chase.frontier = {[address |-> target, offsets |-> <<>>]}
      /\ chase.parents = {} /\ chase.results = {} /\ chase.partial = FALSE
  BY Zenon, <1>1 DEF Fields, scanned
<1>3. regions \in Seq(Region) /\ options \in Options /\ target \in Nat
  BY Zenon, PointerAssumption DEF Regions, Region
<1>4. scanned \in Seq(Own)
  BY Zenon, <1>3, ScannableKeeps DEF scanned
<1>5. \A i \in 1 .. Len(regions) : regions[i] \in Region
  BY <1>3
<1>6. ASSUME NEW j \in 1 .. Len(scanned) PROVE \E i \in 1 .. Len(regions) : scanned[j] = regions[i]
  <2> HIDE DEF Own
  <2>1. scanned[j] \in Own
    BY <1>4
  <2> QED BY Zenon, <2>1 DEF Own
<1>7. scanned \in Seq(Region)
  <2>1. Own \subseteq Region
    BY Zenon, <1>5
  <2> HIDE DEF Own
  <2> QED BY <1>4, <2>1
<1>8. SearchOK
  <2>1. DOMAIN cells = Cell(regions) /\ cells \in [DOMAIN cells -> Digit]
    BY Zenon, <1>1
  <2>2. DOMAIN regions = 1 .. Len(regions)
    BY <1>3
  <2>3. ASSUME NEW j \in 1 .. Len(scanned),
               NEW a \in scanned[j].base .. (scanned[j].base + scanned[j].size - 1)
        PROVE  a \in DOMAIN cells
    <3>1. PICK i \in 1 .. Len(regions) : scanned[j] = regions[i]
      BY Zenon, <1>6
    <3> QED BY Zenon, <2>1, <2>2, <3>1 DEF Cell
  <2> QED BY Zenon, <1>2, <1>3, <1>7, <2>1, <2>3 DEF SearchOK
<1>9. 1 - 1 = 0
  OBVIOUS
<1>10. Paths(chase.depth - 1) = chase.frontier /\ UpTo(chase.depth - 1) = {}
  BY Zenon, <1>2, <1>8, <1>9, TargetPath
<1>11. options.max_depth \in Nat /\ 1 <= options.max_depth /\ 1 \in 1 .. (options.max_depth + 1)
  <2>1. options.max_depth \in Nat \ {0}
    BY Zenon, <1>3 DEF Options
  <2> DEFINE m == options.max_depth
  <2>2. m \in Nat \ {0}
    BY Zenon, <2>1
  <2> HIDE DEF m
  <2>3. m \in Nat /\ 1 <= m /\ 1 \in 1 .. (m + 1)
    BY <2>2
  <2> QED BY Zenon, <2>3 DEF m
<1>12. Correct
  BY Zenon, <1>2, <1>10, <1>11 DEF Correct
<1>13. ASSUME scanned # <<>> PROVE 1 \in 1 .. Len(scanned) /\ At(scanned[1])
  <2>1. 1 \in 1 .. Len(scanned)
    BY <1>7, <1>13
  <2> DEFINE s == scanned[1]
  <2>2. s.base \in Nat /\ s.size \in Nat \ {0}
    BY Zenon, <1>2, <1>8, <2>1, RegionOf
  <2> HIDE DEF s
  <2>3. s.base \in s.base .. (s.base + s.size - 1)
    BY <2>2
  <2> QED BY Zenon, <1>2, <1>13, <2>1, <2>3 DEF At, s
<1>14. Place
  BY Zenon, <1>2, <1>13 DEF Place
<1>15. ASSUME NEW a PROVE ~Scanned(a)
  <2> SUFFICES ASSUME NEW i \in 1 .. Len(scanned),
                      a \in scanned[i].base .. (scanned[i].base + scanned[i].size - PointerSize),
                      i < 1 \/ (i = 1 /\ a + 1 < chase.cursor)
               PROVE  FALSE
    BY Zenon, <1>2 DEF Scanned
  <2>1. ~(i < 1)
    OBVIOUS
  <2>2. scanned # <<>>
    BY <1>7
  <2> DEFINE s == scanned[i]
  <2>3. s.base \in Nat /\ s.size \in Nat /\ a \in s.base .. (s.base + s.size - 2)
        /\ a + 1 < s.base
    BY Zenon, <1>2, <1>8, <2>1, <2>2, RegionOf DEF PointerSize
  <2> HIDE DEF s
  <2> QED BY <2>3
<1>16. Roots(UpTo(chase.depth - 1)) = {}
  BY Zenon, <1>10 DEF Roots
<1>17. Complete
  <2>1. "level" # "collect" /\ "level" # "done"
    OBVIOUS
  <2> QED BY Zenon, <1>2, <1>10, <1>15, <1>16, <2>1 DEF Complete
<1> QED BY Zenon, <1>2, <1>8, <1>11, <1>12, <1>14, <1>17 DEF ChaseInv

\* When the last level is over, the invariant is the property: a level without
\* nodes has no longer paths behind it.
LEMMA ChaseExact == ChaseInv => PathsExact
<1> SUFFICES ASSUME ChaseInv, chase.pc = "done"
             PROVE  LET paths == Roots(UpTo(chase.options.max_depth))
                    IN  chase.results \subseteq paths
                        /\ (~chase.partial => chase.results = paths)
  BY Zenon DEF PathsExact, UpTo
<1> DEFINE m == chase.options.max_depth
           d == chase.depth
<1>1. SearchOK /\ Correct /\ d \in 1 .. (m + 1) /\ (~chase.partial => Complete)
  BY Zenon DEF ChaseInv
<1>2. m \in Nat
  BY <1>1 DEF SearchOK, Options
<1> HIDE DEF m, d
<1>3. d - 1 \in Nat /\ d \in Nat /\ \A k : k \in 1 .. (d - 1) => k \in 1 .. m
  BY <1>1, <1>2
<1>4. UpTo(d - 1) \subseteq UpTo(m)
  BY Zenon, <1>3 DEF UpTo
<1>5. Roots(UpTo(d - 1)) \subseteq Roots(UpTo(m))
  BY Zenon, <1>4 DEF Roots
<1>6. chase.results \subseteq Roots(UpTo(m))
  BY Zenon, <1>1, <1>5 DEF Correct, d
<1>7. ASSUME ~chase.partial PROVE Roots(UpTo(m)) \subseteq chase.results
  <2>1. Roots(UpTo(d - 1)) \subseteq chase.results /\ (d > m \/ Paths(d - 1) = {})
    BY Zenon, <1>1, <1>7 DEF Complete, d, m
  <2>2. UpTo(m) \subseteq UpTo(d - 1)
    <3> SUFFICES ASSUME NEW k \in 1 .. m, NEW p \in Paths(k) PROVE k \in 1 .. (d - 1)
      BY Zenon DEF UpTo
    <3>1. CASE d > m
      BY <1>2, <1>3, <3>1
    <3>2. CASE Paths(d - 1) = {}
      <4>1. ~(d - 1 <= k) \/ Paths(k) = {}
        <5>1. k \in Nat
          OBVIOUS
        <5> QED BY Zenon, <1>1, <1>3, <3>2, <5>1, PathsEnd
      <4>2. ~(d - 1 <= k)
        BY Zenon, <4>1
      <4> QED BY <1>3, <4>2
    <3> QED BY Zenon, <2>1, <3>1, <3>2
  <2>3. Roots(UpTo(m)) \subseteq Roots(UpTo(d - 1))
    BY Zenon, <2>2 DEF Roots
  <2> QED BY Zenon, <2>1, <2>3
<1> QED BY Zenon, <1>6, <1>7 DEF m

\* The paths PointerScanner::Scan returns are paths to the target, whatever reads
\* failed or came back short, and all of them unless the scan is partial.
THEOREM PathsStayExact == PSSpec => []PathsExact
<1>1. PSInit => ChaseInv
  BY Zenon, ChaseStart
<1>2. ChaseInv /\ [PSNext]_<<cells, chase>> => ChaseInv'
  BY Zenon, ChaseStep
<1>3. ChaseInv => PathsExact
  BY Zenon, ChaseExact
<1> QED BY <1>1, <1>2, <1>3, PTL DEF PSSpec
=============================================================================
