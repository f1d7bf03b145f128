------------------------------ MODULE PageStore ------------------------------
(***************************************************************************)
(* What KDbgDriver promises to user mode about a physical page when nobody *)
(* else writes it: every request takes effect at one instant, at which it  *)
(* also gets its verdict.  KDbgDriver implements it with a compare, a copy *)
(* byte by byte and a read-back under PhysicalTransactionLock.             *)
(***************************************************************************)
CONSTANTS Thread, Offset, Byte, Code, WriteCode, None

VARIABLES
    page,    \* the physical page
    req,     \* the request of a thread, None when it has none
    reply,   \* the verdict of the last request of a thread
    data     \* the page it was answered with, None when there is none

vars == <<page, req, reply, data>>

Request == [code : Code, expected : [Offset -> Byte] \cup {None},
            desired : [Offset -> Byte] \cup {None}, span : SUBSET Offset]

Init ==
    /\ page \in [Offset -> Byte]
    /\ req = [t \in Thread |-> None]
    /\ reply = [t \in Thread |-> "none"]
    /\ data = [t \in Thread |-> None]

Invoke(t) ==
    /\ req[t] = None
    /\ reply' = [reply EXCEPT ![t] = "none"]
    /\ data' = [data EXCEPT ![t] = None]
    /\ req'[t] \in Request
    /\ req' = [req EXCEPT ![t] = req'[t]]
    /\ UNCHANGED page

Reply(t, v, d) ==
    /\ req[t] # None
    /\ reply' = [reply EXCEPT ![t] = v]
    /\ req' = [req EXCEPT ![t] = None]
    /\ data' = [data EXCEPT ![t] = d]

\* The page with the offsets S of the request of t written.
Overlay(t, S) == [o \in Offset |-> IF o \in S THEN req[t].desired[o] ELSE page[o]]

\* Everything that leaves the page alone: gate requests, process writes, and
\* the rejection of any request.
Pass(t) ==
    /\ \/ Reply(t, "rejected", None) \/ Reply(t, "error", None)
       \/ Reply(t, "ok", None) /\ req[t].code \in {"SET_WRITE_MODE",
                                                   "WRITE_PROCESS_MEMORY"}
       \/ Reply(t, "FAILED", None) /\ req[t].code = "WRITE_PROCESS_MEMORY"
    /\ UNCHANGED page

\* A read returns the page, never a page that is being written.
ReadPhysical(t) ==
    /\ req[t] # None /\ req[t].code = "READ_PHYSICAL"
    /\ Reply(t, "ok", page)
    /\ UNCHANGED page

WritePhysical(t) ==
    /\ req[t] # None /\ req[t].code = "WRITE_PHYSICAL"
    /\ \/ Reply(t, "ok", None) /\ page' = Overlay(t, req[t].span)
       \/ /\ Reply(t, "FAILED", None)
          /\ \E S \in SUBSET req[t].span : S # req[t].span /\ page' = Overlay(t, S)

\* Compare and swap.  A conflict changes nothing and returns the page; a
\* failure after the compare may leave part of the desired page behind, but
\* only over the expected one, and FAILED returns what it left.
CompareWrite(t) ==
    /\ req[t] # None /\ req[t].code = "COMPARE_WRITE_PHYSICAL_PAGE"
    /\ \/ Reply(t, "CONFLICT", page) /\ page # req[t].expected /\ UNCHANGED page
       \/ /\ Reply(t, "APPLIED", req[t].desired)
          /\ page = req[t].expected /\ page' = req[t].desired
       \/ \E S \in SUBSET Offset :
              /\ \/ Reply(t, "FAILED", Overlay(t, S)) /\ S # Offset
                 \/ Reply(t, "error", None)
              /\ page = req[t].expected /\ page' = Overlay(t, S)

Next ==
    \E t \in Thread :
        \/ Invoke(t)
        \/ Pass(t)
        \/ ReadPhysical(t)
        \/ WritePhysical(t)
        \/ CompareWrite(t)

Spec == Init /\ [][Next]_vars
=============================================================================
