---------------------------- MODULE Attachments ----------------------------
(***************************************************************************)
(* The attachments of one message: a file on the server's disk and a row   *)
(* in the database each, written and removed apart.  AttachmentsService    *)
(* stores a file before its row (downloadAndCreate, create, createMany)    *)
(* and removes it before its row (delete, deleteByMessageId); a client     *)
(* that downloads finds the row and then opens the file                    *)
(* (StorageController.download).                                           *)
(*                                                                         *)
(* Requests run concurrently, one awaited step at a time.  Any step may    *)
(* fail, and the server may die, alone or because a write stream fails     *)
(* that nobody listens to.  An attachment stands for its path and its id,  *)
(* which are random UUIDs both, so attachments of other messages are never *)
(* touched.  Nothing is retried and nothing is cleaned up.                 *)
(***************************************************************************)
EXTENDS Naturals, FiniteSets

CONSTANTS
    Attachments,
    Requests,
    MaxCrashes      \* bound: deaths of the server

ASSUME CrashAssumption == MaxCrashes \in Nat

VARIABLES
    disk,           \* what there is at each attachment's path
    rows,           \* the rows of attachments
    op,             \* the operation of each request
    pc,             \* the step it executes next, or how it ended
    target,         \* the attachments it is about
    todo,           \* those whose file it has not written or unlinked
    kept,           \* those whose file it could not unlink
    crashes

requests == <<op, pc, target, todo, kept>>
vars == <<disk, rows, requests, crashes>>

-----------------------------------------------------------------------------

Creations == {"downloadAndCreate", "createMany"}

Deletions == {"delete", "deleteByMessageId"}

Operations == Creations \cup Deletions \cup {"download"}

Busy == {"fetch", "write", "insert", "unlink", "deleteRows", "open"}

Ended == {"done", "notFound", "broken", "failed", "lost"}

Init ==
    /\ disk = [a \in Attachments |-> "none"]
    /\ rows = {}
    /\ op = [r \in Requests |-> "none"]
    /\ pc = [r \in Requests |-> "idle"]
    /\ target = [r \in Requests |-> {}]
    /\ todo = [r \in Requests |-> {}]
    /\ kept = [r \in Requests |-> {}]
    /\ crashes = 0

Goto(r, step) == pc' = [pc EXCEPT ![r] = step]

\* Request r is for operation o on the attachments S, and goes on with step.
Begin(r, o, S, step) ==
    /\ pc[r] = "idle"
    /\ op' = [op EXCEPT ![r] = o]
    /\ target' = [target EXCEPT ![r] = S]
    /\ todo' = [todo EXCEPT ![r] = S]
    /\ Goto(r, step)
    /\ UNCHANGED <<disk, rows, kept, crashes>>

\* The file of a is dealt with; when all are, the request goes on with step.
Handled(r, a, step) ==
    /\ a \in todo[r]
    /\ todo' = [todo EXCEPT ![r] = @ \ {a}]
    /\ pc' = IF todo[r] = {a} THEN [pc EXCEPT ![r] = step] ELSE pc
    /\ UNCHANGED <<rows, op, target, crashes>>

-----------------------------------------------------------------------------
(* Creation. *)

\* Every upload is to a path of its own.
Unused == {a \in Attachments :
              \A r \in Requests : op[r] \in Creations => a \notin target[r]}

DownloadAndCreate(r, a) ==
    a \in Unused /\ Begin(r, "downloadAndCreate", {a}, "fetch")

\* Files the caller uploads, from buffers or from streams, and hands to create
\* or createMany.
CreateMany(r, S) ==
    S \subseteq Unused /\ S # {} /\ Begin(r, "createMany", S, "write")

Fetch(r) ==
    /\ pc[r] = "fetch"
    /\ Goto(r, "write")
    /\ UNCHANGED <<disk, rows, op, target, todo, kept, crashes>>

\* Mutant: the row is inserted when the first file is there.
WriteFirst(r, a) ==
    /\ pc[r] = "write"
    /\ a \in todo[r]
    /\ disk' = [disk EXCEPT ![a] = "whole"]
    /\ todo' = [todo EXCEPT ![r] = @ \ {a}]
    /\ Goto(r, "insert")
    /\ UNCHANGED <<rows, op, target, kept, crashes>>

\* ensureDirectory and the write stream.
Write(r, a) ==
    /\ pc[r] = "write"
    /\ Handled(r, a, "insert")
    /\ disk' = [disk EXCEPT ![a] = "whole"]
    /\ UNCHANGED kept

\* A file that could not be written, or not in full, may stay on the disk.
LeavePart(a) == \E left \in {"none", "part"} : disk' = [disk EXCEPT ![a] = left]

\* The server dies: every request in flight is lost.
Die ==
    /\ crashes < MaxCrashes
    /\ crashes' = crashes + 1
    /\ pc' = [r \in Requests |-> IF pc[r] \in Busy THEN "lost" ELSE pc[r]]
    /\ UNCHANGED <<rows, op, target, todo, kept>>

\* uploadFromBuffer rejects when its write fails, but the write stream also
\* emits 'error', which nobody listens to: the process dies of it.  So a file is
\* left when the server dies of something else in the middle of a write.
BufferWriteFails(r, a) ==
    /\ pc[r] = "write" /\ a \in todo[r]
    /\ LeavePart(a)
    /\ Die

\* Mutant: the error is logged and forgotten, as that of an unlink is.
StreamWriteFailsQuietly(r, a) ==
    /\ pc[r] = "write" /\ op[r] = "createMany"
    /\ Handled(r, a, "insert")
    /\ LeavePart(a)
    /\ UNCHANGED kept

\* uploadFromStream, of which no operation of the service makes use, leaves the
\* stream to pipeline: only the request fails.
StreamWriteFails(r, a) ==
    /\ pc[r] = "write" /\ op[r] = "createMany" /\ a \in todo[r]
    /\ LeavePart(a)
    /\ Goto(r, "failed")
    /\ UNCHANGED <<rows, op, target, todo, kept, crashes>>

\* One INSERT for all.
Insert(r) ==
    /\ pc[r] = "insert"
    /\ rows' = rows \cup target[r]
    /\ Goto(r, "done")
    /\ UNCHANGED <<disk, op, target, todo, kept, crashes>>

-----------------------------------------------------------------------------
(* Deletion. *)

\* findById, or 404.
Delete(r, a) ==
    \/ a \in rows /\ Begin(r, "delete", {a}, "unlink")
    \/ a \notin rows /\ Begin(r, "delete", {}, "notFound")

\* findByMessageId: the files to unlink are those listed now.
DeleteByMessageId(r) ==
    Begin(r, "deleteByMessageId", rows, IF rows = {} THEN "deleteRows" ELSE "unlink")

Unlink(r, a) ==
    /\ pc[r] = "unlink"
    /\ Handled(r, a, "deleteRows")
    /\ disk' = [disk EXCEPT ![a] = "none"]
    /\ UNCHANGED kept

\* An unlink that fails, be it for want of a file, is logged and forgotten.
UnlinkFails(r, a) ==
    /\ pc[r] = "unlink"
    /\ Handled(r, a, "deleteRows")
    /\ kept' = [kept EXCEPT ![r] = @ \cup {a}]
    /\ UNCHANGED disk

\* Mutant: delete is by message, as deleteByMessageId is.
DeleteRowsOfMessage(r) ==
    /\ pc[r] = "deleteRows"
    /\ rows' = {}
    /\ Goto(r, "done")
    /\ UNCHANGED <<disk, op, target, todo, kept, crashes>>

\* WHERE id = ..., or WHERE message_id = ...: rows not listed go as well.
DeleteRows(r) ==
    /\ pc[r] = "deleteRows"
    /\ rows' = IF op[r] = "delete" THEN rows \ target[r] ELSE {}
    /\ Goto(r, "done")
    /\ UNCHANGED <<disk, op, target, todo, kept, crashes>>

-----------------------------------------------------------------------------
(* Download. *)

\* findById, or 404; the read stream opens the file later.
Download(r, a) ==
    \/ a \in rows /\ Begin(r, "download", {a}, "open")
    \/ a \notin rows /\ Begin(r, "download", {}, "notFound")

\* A file once open is read to its end, even if it is unlinked meanwhile.
Open(r) ==
    /\ pc[r] = "open"
    /\ Goto(r, IF \A a \in target[r] : disk[a] = "whole" THEN "done" ELSE "broken")
    /\ UNCHANGED <<disk, rows, op, target, todo, kept, crashes>>

-----------------------------------------------------------------------------

\* The source of a download fails, a directory cannot be made, a file not be
\* looked at, a statement fails.  Unlinking never does.
Fail(r) ==
    /\ pc[r] \in Busy \ {"unlink", "open"}
    /\ Goto(r, "failed")
    /\ UNCHANGED <<disk, rows, op, target, todo, kept, crashes>>

Crash == Die /\ UNCHANGED disk

Start(r) ==
    \/ \E S \in SUBSET Attachments : CreateMany(r, S)
    \/ \E a \in Attachments : DownloadAndCreate(r, a) \/ Delete(r, a) \/ Download(r, a)
    \/ DeleteByMessageId(r)

Step(r) ==
    \/ Fetch(r) \/ Insert(r) \/ DeleteRows(r) \/ Open(r) \/ Fail(r)
    \/ \E a \in Attachments :
          \/ Write(r, a) \/ BufferWriteFails(r, a) \/ StreamWriteFails(r, a)
          \/ Unlink(r, a) \/ UnlinkFails(r, a)

Next == Crash \/ \E r \in Requests : Start(r) \/ Step(r)

Spec == Init /\ [][Next]_vars

-----------------------------------------------------------------------------
(* Properties. *)

TypeOK ==
    /\ disk \in [Attachments -> {"none", "part", "whole"}]
    /\ rows \subseteq Attachments
    /\ op \in [Requests -> Operations \cup {"none"}]
    /\ pc \in [Requests -> Busy \cup Ended \cup {"idle"}]
    /\ target \in [Requests -> SUBSET Attachments]
    /\ todo \in [Requests -> SUBSET Attachments]
    /\ kept \in [Requests -> SUBSET Attachments]
    /\ crashes \in 0 .. MaxCrashes
    /\ \A r \in Requests :
          /\ todo[r] \cup kept[r] \subseteq target[r]
          /\ pc[r] \in {"insert", "deleteRows"} => todo[r] = {}

\* The attachments whose file r has unlinked.
Unlinked(r) == IF op[r] \in Deletions THEN target[r] \ (todo[r] \cup kept[r]) ELSE {}

\* A row names a whole file, unless a deletion that is under way or broke off has
\* unlinked it: a creation that fails, or dies with the server, leaves no row.
RowHasFile ==
    \A a \in rows :
        \/ disk[a] = "whole"
        \/ \E r \in Requests : /\ a \in Unlinked(r)
                               /\ pc[r] \in {"unlink", "deleteRows", "failed", "lost"}

\* A file without a row is that of a creation under way or broken off, one whose
\* unlink failed, or one whose row came too late for the list of a
\* deleteByMessageId, but not for its DELETE.
OrphanHasCause ==
    \A a \in Attachments \ rows :
        disk[a] # "none" =>
            \E r \in Requests :
                \/ op[r] \in Creations /\ a \in target[r] /\ pc[r] # "done"
                \/ a \in kept[r]
                \/ op[r] = "deleteByMessageId" /\ pc[r] = "done" /\ a \notin target[r]

\* A download that found its attachment gets no file only because a deletion
\* has unlinked it.
BrokenDownloadHasCause ==
    \A r \in Requests :
        pc[r] = "broken" => \A a \in target[r] : \E d \in Requests : a \in Unlinked(d)
=============================================================================
