------------------------ MODULE ProcessMemoryProofs ------------------------
(***************************************************************************)
(* What the methods of the write access to a process (ProcessMemory) leave *)
(* behind, whatever the driver answers.  The proofs about the editor of    *)
(* process memory and about the scanner use these facts.                   *)
(***************************************************************************)
EXTENDS ProcessMemory, TLAPS

\* Without a backend there is no driver gate to open.
AccessOK(a) == a \in Access /\ (~Backend => ~a.gate)

\* SetWriteEnabled of the backend: a success is what was asked for.
LEMMA SetGateEffect ==
    ASSUME NEW b \in BOOLEAN, NEW g \in BOOLEAN, NEW c \in SetGate(b, g)
    PROVE  c.ok \in BOOLEAN /\ c.gate \in BOOLEAN /\ (c.ok = TRUE => c.gate = b)
<1>1. CASE c = [ok |-> TRUE, gate |-> b]
  BY Zenon, <1>1
<1>2. CASE \E h \in {g, FALSE, b} : c = [ok |-> FALSE, gate |-> h]
  <2>1. PICK h \in {g, FALSE, b} : c = [ok |-> FALSE, gate |-> h]
    BY Zenon, <1>2
  <2> QED BY Zenon, <2>1
<1> QED BY Zenon, <1>1, <1>2 DEF SetGate

\* close_backend_gate, with its one retry, ends in success or failure and an
\* open or closed gate.
LEMMA CloseEffect ==
    ASSUME NEW g \in BOOLEAN, NEW c \in CloseBackendGate(g)
    PROVE  c.ok \in BOOLEAN /\ c.gate \in BOOLEAN
<1>1. PICK d \in SetGate(FALSE, g) :
          c \in IF d.ok THEN {d}
                ELSE {[ok |-> FALSE, gate |-> r.gate] : r \in SetGate(FALSE, d.gate)}
  BY Zenon DEF CloseBackendGate
<1>2. d.ok \in BOOLEAN /\ d.gate \in BOOLEAN
  BY Zenon, SetGateEffect
<1>3. CASE d.ok
  BY Zenon, <1>1, <1>2, <1>3
<1>4. CASE ~d.ok
  <2>1. PICK r \in SetGate(FALSE, d.gate) : c = [ok |-> FALSE, gate |-> r.gate]
    BY Zenon, <1>1, <1>4
  <2>2. r.gate \in BOOLEAN
    BY Zenon, <1>2, SetGateEffect
  <2> QED BY Zenon, <2>1, <2>2
<1> QED BY Zenon, <1>3, <1>4

\* SetWritesArmed(false), whatever the driver answers: success means that the
\* arm is gone and the gate closed.
LEMMA DisarmEffect ==
    ASSUME NEW a, AccessOK(a), NEW d \in Disarm(a)
    PROVE  /\ AccessOK(d.a) /\ d.ok \in BOOLEAN
           /\ d.ok => ~d.a.armed /\ ~d.a.gate
           /\ d.a.armed => a.armed
<1>1. CASE ~Backend
  <2> DEFINE b == [a EXCEPT !.armed = FALSE]
  <2>1. d = [ok |-> TRUE, a |-> b]
    BY Zenon, <1>1 DEF Disarm
  <2>2. b \in Access /\ ~b.armed /\ ~b.gate
    BY Zenon, <1>1 DEF AccessOK, Access
  <2> HIDE DEF b
  <2> QED BY Zenon, <2>1, <2>2 DEF AccessOK
<1>2. CASE Backend
  <2>1. PICK c \in SetGate(FALSE, a.gate) :
            d = [ok |-> c.ok,
                 a |-> [a EXCEPT !.gate = c.gate, !.armed = IF c.ok THEN FALSE ELSE @]]
    BY Zenon, <1>2 DEF Disarm
  <2>2. c.ok \in BOOLEAN /\ c.gate \in BOOLEAN /\ (c.ok = TRUE => c.gate = FALSE)
    <3>1. a.gate \in BOOLEAN
      BY Zenon DEF AccessOK, Access
    <3> QED BY Zenon, <3>1, SetGateEffect
  <2>3. CASE c.ok = TRUE
    <3> DEFINE b == [a EXCEPT !.gate = FALSE, !.armed = FALSE]
    <3>1. d = [ok |-> TRUE, a |-> b]
      BY Zenon, <2>1, <2>2, <2>3
    <3>2. b \in Access /\ ~b.armed /\ ~b.gate
      BY Zenon DEF AccessOK, Access
    <3> HIDE DEF b
    <3> QED BY Zenon, <3>1, <3>2 DEF AccessOK
  <2>4. CASE c.ok = FALSE
    <3> DEFINE b == [a EXCEPT !.gate = c.gate, !.armed = a.armed]
    <3>1. d = [ok |-> FALSE, a |-> b]
      BY Zenon, <2>1, <2>2, <2>4
    <3>2. b \in Access /\ b.armed = a.armed
      BY Zenon, <2>2 DEF AccessOK, Access
    <3> HIDE DEF b
    <3> QED BY Zenon, <1>2, <3>1, <3>2 DEF AccessOK
  <2> QED BY Zenon, <2>2, <2>3, <2>4
<1> QED BY Zenon, <1>1, <1>2

\* SetWritesArmed(true) ends in an access that is well formed, armed or not.
LEMMA ArmEffect ==
    ASSUME NEW a, AccessOK(a), NEW r \in Arm(a)
    PROVE  AccessOK(r.a) /\ r.ok \in BOOLEAN
<1>0. Reopened(a) \subseteq BOOLEAN /\ a.gate \in BOOLEAN /\ a.armed \in BOOLEAN
  BY Zenon DEF Reopened, AccessOK, Access
<1>1. CASE ~Backend
  <2>1. PICK d \in Reopened(a) :
            r = [ok |-> d, a |-> [armed |-> d \/ a.armed, gate |-> a.gate, direct |-> d]]
    BY Zenon, <1>1 DEF Arm
  <2>2. [armed |-> d \/ a.armed, gate |-> a.gate, direct |-> d] \in Access
    BY Zenon, <1>0 DEF Access
  <2>3. ~a.gate
    BY Zenon, <1>1 DEF AccessOK
  <2> QED BY Zenon, <1>0, <2>1, <2>2, <2>3 DEF AccessOK
<1>2. CASE Backend
  <2> DEFINE armed(d, c) ==
               [ok |-> c.ok \/ d,
                a |-> [armed |-> (c.ok \/ d) \/ a.armed, gate |-> c.gate, direct |-> d]]
  <2>1. r \in UNION {{armed(d, c) : c \in SetGate(TRUE, a.gate)} : d \in Reopened(a)}
    BY Zenon, <1>2, Zenon DEF Arm
  <2>2. \E d \in Reopened(a) : \E c \in SetGate(TRUE, a.gate) : r = armed(d, c)
    <3> HIDE DEF armed
    <3> QED BY Zenon, <2>1
  <2>3. PICK d \in Reopened(a) : \E c \in SetGate(TRUE, a.gate) : r = armed(d, c)
    BY Zenon, <2>2
  <2>4. PICK c \in SetGate(TRUE, a.gate) : r = armed(d, c)
    BY Zenon, <2>3
  <2>5. c.ok \in BOOLEAN /\ c.gate \in BOOLEAN /\ d \in BOOLEAN
    BY Zenon, <1>0, SetGateEffect
  <2>6. [armed |-> (c.ok \/ d) \/ a.armed, gate |-> c.gate, direct |-> d] \in Access
    BY Zenon, <1>0, <2>5 DEF Access
  <2> QED BY Zenon, <1>2, <2>4, <2>5, <2>6 DEF AccessOK
<1> QED BY Zenon, <1>1, <1>2

\* Write: nothing outside the run is reached.
LEMMA WriteEffect ==
    ASSUME NEW a, AccessOK(a), NEW run, NEW w \in Write(a, run)
    PROVE  AccessOK(w.a) /\ w.ok \in BOOLEAN /\ w.done \subseteq run
<1>1. CASE ~a.armed
  <2>1. w = [ok |-> FALSE, done |-> {}, a |-> a]
    BY <1>1 DEF Write
  <2> QED BY Zenon, <2>1
<1>2. CASE a.armed
  <2> DEFINE closes == IF Backend THEN CloseBackendGate(a.gate)
                       ELSE {[ok |-> TRUE, gate |-> a.gate]}
  <2>1. \E x \in {y \in [ok : BOOLEAN, done : SUBSET run] : y.ok => y.done = run},
           c \in closes :
            w = [ok |-> c.ok /\ x.ok, done |-> x.done,
                 a |-> [Consume(a) EXCEPT !.gate = c.gate]]
    BY <1>2, SMT DEF Write
  <2>2. PICK x \in [ok : BOOLEAN, done : SUBSET run], c \in closes :
            w = [ok |-> c.ok /\ x.ok, done |-> x.done,
                 a |-> [Consume(a) EXCEPT !.gate = c.gate]]
    BY Zenon, <2>1
  <2>3. c.gate \in BOOLEAN /\ (~Backend => ~c.gate)
    <3>1. a.gate \in BOOLEAN /\ (~Backend => ~a.gate)
      BY Zenon DEF AccessOK, Access
    <3>2. CASE Backend
      BY Zenon, <3>1, <3>2, CloseEffect
    <3>3. CASE ~Backend
      BY <3>1, <3>3
    <3> QED BY Zenon, <3>2, <3>3
  <2> DEFINE b == [Consume(a) EXCEPT !.gate = c.gate]
  <2>4. b \in Access /\ b.gate = c.gate
    BY Zenon, <2>3 DEF AccessOK, Access, Consume
  <2> HIDE DEF closes, b
  <2>5. w.a = b /\ w.done = x.done /\ w.ok \in BOOLEAN
    BY Zenon, <2>2 DEF b
  <2> QED BY Zenon, <2>3, <2>4, <2>5 DEF AccessOK
<1> QED BY Zenon, <1>1, <1>2

\* Arm, write, disarm: a write that succeeds leaves neither the arm nor the
\* driver's gate behind, and no write reaches more than its run.
THEOREM WriteOnceEffect ==
    ASSUME NEW a, AccessOK(a), NEW run, NEW w \in WriteOnce(a, run)
    PROVE  /\ AccessOK(w.a) /\ w.ok \in BOOLEAN /\ w.done \subseteq run
           /\ w.ok => ~w.a.armed /\ ~w.a.gate
<1>1. PICK r \in Arm(a) :
          w \in IF ~r.ok THEN {[ok |-> FALSE, done |-> {}, a |-> r.a]}
                ELSE UNION {{[ok |-> x.ok /\ d.ok, done |-> x.done, a |-> d.a] :
                                d \in Disarm(x.a)} : x \in Write(r.a, run)}
  BY Zenon DEF WriteOnce
<1>2. AccessOK(r.a) /\ r.ok \in BOOLEAN
  BY Zenon, ArmEffect
<1>3. CASE ~r.ok
  <2>1. w = [ok |-> FALSE, done |-> {}, a |-> r.a]
    BY Zenon, <1>1, <1>3
  <2> QED BY Zenon, <1>2, <2>1
<1>4. CASE r.ok
  <2>1. PICK x \in Write(r.a, run) :
            \E d \in Disarm(x.a) : w = [ok |-> x.ok /\ d.ok, done |-> x.done, a |-> d.a]
    BY Zenon, <1>1, <1>4
  <2>2. PICK d \in Disarm(x.a) : w = [ok |-> x.ok /\ d.ok, done |-> x.done, a |-> d.a]
    BY Zenon, <2>1
  <2>3. AccessOK(x.a) /\ x.done \subseteq run
    BY Zenon, <1>2, WriteEffect
  <2>4. AccessOK(d.a) /\ d.ok \in BOOLEAN /\ (d.ok => ~d.a.armed /\ ~d.a.gate)
    BY Zenon, <2>3, DisarmEffect
  <2> QED BY Zenon, <2>2, <2>3, <2>4
<1> QED BY Zenon, <1>2, <1>3, <1>4
=============================================================================
