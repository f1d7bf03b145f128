---------------------------- MODULE ProcessMemory ----------------------------
(***************************************************************************)
(* The write access to one attached process (Win32ProcessMemory.cpp): the  *)
(* user-mode arm, the driver's write gate behind it and the handle for     *)
(* direct writes.  A mutex makes every method atomic, so a method is the   *)
(* set of outcomes it can have from an access a: whether it returned       *)
(* success, and the access it leaves behind.  The driver's gate is what    *)
(* KDbgBackend proves of SetWriteEnabled: success of a close means closed, *)
(* failure leaves the gate uncertain.                                      *)
(***************************************************************************)
EXTENDS Integers, FiniteSets

CONSTANTS
    Backend,  \* TRUE: attached with a connected driver backend
    Opened    \* TRUE: the process has a handle, not the driver alone

ASSUME ProcessMemoryAssumption == Backend \in BOOLEAN /\ Opened \in BOOLEAN

\* writes_armed, the gate of the backend's handle, direct_write_access
Access == [armed : BOOLEAN, gate : BOOLEAN, direct : BOOLEAN]

Locked == [armed |-> FALSE, gate |-> FALSE, direct |-> FALSE]

\* faulty variant: a request that was answered is taken for done
Trusting(b, g) == {[ok |-> TRUE, gate |-> h] : h \in {g, b}}

\* SetWriteEnabled(b) of the backend, on a handle whose gate is g.
SetGate(b, g) ==
    {[ok |-> TRUE, gate |-> b]} \cup {[ok |-> FALSE, gate |-> h] : h \in {g, FALSE, b}}

\* SetWritesArmed(false): a backend that cannot close its gate leaves the arm.
Disarm(a) ==
    IF ~Backend THEN {[ok |-> TRUE, a |-> [a EXCEPT !.armed = FALSE]]}
    ELSE {[ok |-> c.ok,
           a  |-> [a EXCEPT !.gate = c.gate, !.armed = IF c.ok THEN FALSE ELSE @]] :
              c \in SetGate(FALSE, a.gate)}

\* ReopenForWriteLocked: tried until it succeeds once, if there is a handle.
Reopened(a) == IF a.direct THEN {TRUE} ELSE {d \in BOOLEAN : d => Opened}

\* SetWritesArmed(true): without direct access the backend must open its gate.
Arm(a) ==
    LET Armed(d, g, ok) ==
            [ok |-> ok,
             a  |-> [armed |-> ok \/ a.armed, gate |-> g, direct |-> d]]
    IN  IF Backend
        THEN UNION {{Armed(d, c.gate, c.ok \/ d) : c \in SetGate(TRUE, a.gate)} :
                        d \in Reopened(a)}
        ELSE {Armed(d, a.gate, d) : d \in Reopened(a)}

\* close_backend_gate: one retry, which locks the gate but does not save the
\* transaction.
CloseBackendGate(g) ==
    UNION {IF c.ok THEN {c}
           ELSE {[ok |-> FALSE, gate |-> r.gate] : r \in SetGate(FALSE, c.gate)} :
               c \in SetGate(FALSE, g)}

\* The arm is consumed first, whatever happens to the write.
Consume(a) == [a EXCEPT !.armed = FALSE]

\* Write of the offsets in run: done is what reached the target, through the
\* direct handle or the driver; success means all of it did and the backend's
\* gate closed at the first attempt.
Write(a, run) ==
    IF ~a.armed THEN {[ok |-> FALSE, done |-> {}, a |-> a]}
    ELSE {[ok   |-> c.ok /\ w.ok,
           done |-> w.done,
           a    |-> [Consume(a) EXCEPT !.gate = c.gate]] :
              w \in {x \in [ok : BOOLEAN, done : SUBSET run] : x.ok => x.done = run},
              c \in IF Backend THEN CloseBackendGate(a.gate)
                    ELSE {[ok |-> TRUE, gate |-> a.gate]}}

\* Arm, write, disarm: what every writer of the process does for one write.
\* The disarm's failure is reported before the write's.
WriteOnce(a, run) ==
    UNION {IF ~r.ok THEN {[ok |-> FALSE, done |-> {}, a |-> r.a]}
           ELSE UNION {{[ok |-> w.ok /\ d.ok, done |-> w.done, a |-> d.a] :
                            d \in Disarm(w.a)} :
                        w \in Write(r.a, run)} :
               r \in Arm(a)}
=============================================================================
