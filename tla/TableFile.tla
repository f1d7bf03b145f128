------------------------------ MODULE TableFile ------------------------------
(***************************************************************************)
(* How a file gets to disk: WatchList::Save, AddressList::Save and         *)
(* MemorySnapshot::Save write a temporary sibling, flush it and move it    *)
(* over the destination.  Several instances of the program save to one     *)
(* destination; any step can fail, a program can be killed between two     *)
(* steps, and the power can fail, which leaves of a file that was not      *)
(* flushed anything between nothing and all of it.                         *)
(*                                                                         *)
(* A file is what programs see of it and what is on the disk.  The move is *)
(* durable when it returns (MOVEFILE_WRITE_THROUGH); the rename of the     *)
(* POSIX build, which does not sync the directory, is not modelled.        *)
(***************************************************************************)
EXTENDS Integers, FiniteSets

CONSTANTS
    Pid,         \* running instances of the program
    Content,     \* what can be saved
    MaxOrdinal,  \* bound on the names a search for a temporary sibling tries
    MaxSaves     \* bound on the saves of all instances

VARIABLES
    files,   \* temporary siblings, by name
    table,   \* the destination
    saver,   \* the Save each instance is in
    saves,   \* saves started so far
    whole    \* history: the content last moved into place, or "none"

fileVars == <<files, table, saver, saves, whole>>

Name == Pid \X (0 .. MaxOrdinal)
Data == Content \cup {"none", "torn"}
NoFile == [seen |-> "none", disk |-> "none"]
NotSaving == [pc |-> "idle"]

NoSave ==
    /\ files = [n \in Name |-> NoFile]
    /\ saver = [p \in Pid |-> NotSaving]
    /\ saves = 0
    /\ whole = table.seen

FileInit == table \in {NoFile} \cup {[seen |-> c, disk |-> c] : c \in Content} /\ NoSave

Exists(n) == files[n].seen # "none"

\* The first name of this process that no file has.
TemporarySibling(p) ==
    {<<p, o>> : o \in {i \in 0 .. MaxOrdinal :
                          ~Exists(<<p, i>>) /\ \A j \in 0 .. i - 1 : Exists(<<p, j>>)}}

StartSave(p, c) ==
    /\ saver[p].pc = "idle" /\ saves < MaxSaves /\ saves' = saves + 1
    /\ \E n \in TemporarySibling(p) :
           saver' = [saver EXCEPT ![p] = [pc |-> "create", name |-> n, content |-> c]]
    /\ UNCHANGED <<files, table, whole>>

Goto(p, pc) == saver' = [saver EXCEPT ![p].pc = pc]

\* The stream creates or truncates the file.
Create(p) ==
    /\ saver[p].pc = "create" /\ Goto(p, "write")
    /\ files' = [files EXCEPT ![saver[p].name].seen = "torn"]
    /\ UNCHANGED <<table, saves, whole>>

\* The last row, and the close of the stream.
WriteRows(p) ==
    /\ saver[p].pc = "write" /\ Goto(p, "flush")
    /\ files' = [files EXCEPT ![saver[p].name].seen = saver[p].content]
    /\ UNCHANGED <<table, saves, whole>>

\* faulty variant: closing the stream is enough
Unflushed(f) == f

Flushed(f) == [f EXCEPT !.disk = f.seen]

FlushFileToDisk(p) ==
    /\ saver[p].pc = "flush" /\ Goto(p, "replace")
    /\ files' = [files EXCEPT ![saver[p].name] = Flushed(@)]
    /\ UNCHANGED <<table, saves, whole>>

ReplaceAtomically(p) ==
    /\ saver[p].pc = "replace"
    /\ Exists(saver[p].name)
    /\ saver' = [saver EXCEPT ![p] = NotSaving]
    /\ table' = files[saver[p].name]
    /\ files' = [files EXCEPT ![saver[p].name] = NoFile]
    /\ whole' = saver[p].content
    /\ UNCHANGED saves

\* A step that failed did not touch the destination.
AfterFailure(p) == table

\* A failed or cancelled step ends the save; TemporaryCleanup removes the file,
\* when it can.
FailSave(p) ==
    /\ saver[p].pc # "idle"
    /\ saver' = [saver EXCEPT ![p] = NotSaving]
    /\ \/ files' = [files EXCEPT ![saver[p].name] = NoFile]
       \/ UNCHANGED files
    /\ table' = AfterFailure(p)
    /\ UNCHANGED <<saves, whole>>

Kill(p) ==
    /\ saver[p].pc # "idle"
    /\ saver' = [saver EXCEPT ![p] = NotSaving]
    /\ UNCHANGED <<files, table, saves, whole>>

\* What a power failure can leave of the file f.
Remains(f) ==
    {[seen |-> d, disk |-> d] :
        d \in IF f.seen = f.disk THEN {f.disk} ELSE {f.disk, "torn", f.seen}}

PowerFailure ==
    /\ saver' = [p \in Pid |-> NotSaving]
    /\ files' \in {f \in [Name -> UNION {Remains(files[n]) : n \in Name}] :
                      \A n \in Name : f[n] \in Remains(files[n])}
    /\ table' \in Remains(table)
    /\ UNCHANGED <<saves, whole>>

FileNext ==
    \/ \E p \in Pid :
          \/ \E c \in Content : StartSave(p, c)
          \/ Create(p) \/ WriteRows(p) \/ FlushFileToDisk(p) \/ ReplaceAtomically(p)
          \/ FailSave(p) \/ Kill(p)
    \/ PowerFailure

FileSpec == FileInit /\ [][FileNext]_fileVars

-----------------------------------------------------------------------------
(* Properties. *)

\* The destination is at every moment, and after any crash, one whole saved
\* content: the one whose save was the last to succeed.  A save that fails, is
\* killed or loses power leaves the earlier one in place, and no instance moves a
\* file into place that another one is still writing.
TableSurvives == table = [seen |-> whole, disk |-> whole]
=============================================================================
