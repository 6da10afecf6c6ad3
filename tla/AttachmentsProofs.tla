------------------------- MODULE AttachmentsProofs -------------------------
(***************************************************************************)
(* Theorems about Attachments, for any attachments, requests and number of *)
(* deaths of the server: types, and the three promises of the module.      *)
(***************************************************************************)
EXTENDS Attachments, TLAPS

\* A creation of a has inserted its row: every file is there, every row is.
Created(a) == \E r \in Requests : op[r] \in Creations /\ a \in target[r] /\ pc[r] = "done"

\* The steps of an operation are its own; one that ended well has no file left
\* to deal with, one that found nothing is about nothing.
StepsOfOperations ==
    \A r \in Requests :
        /\ pc[r] = "idle" <=> op[r] = "none"
        /\ op[r] = "none" => target[r] = {}
        /\ pc[r] \in {"fetch", "write", "insert"} => op[r] \in Creations
        /\ pc[r] \in {"unlink", "deleteRows"} => op[r] \in Deletions
        /\ pc[r] \in {"open", "broken"} => op[r] = "download"
        /\ pc[r] \in {"fetch", "open"} => todo[r] = target[r]
        /\ pc[r] = "notFound" => target[r] = {}
        /\ pc[r] = "done" /\ op[r] # "download" => todo[r] = {}
        /\ kept[r] # {} => op[r] \in Deletions
        /\ kept[r] \cap todo[r] = {}
        /\ op[r] = "download" => \A a, b \in target[r] : a = b

\* No two creations are about one path.
PathsOfTheirOwn ==
    \A r, s \in Requests :
        op[r] \in Creations /\ op[s] \in Creations /\ target[r] \cap target[s] # {} => r = s

\* Only what a creation has inserted has a row, or can be deleted or downloaded.
ListedAreCreated ==
    /\ \A a \in rows : Created(a)
    /\ \A r \in Requests : op[r] \notin Creations => \A a \in target[r] : Created(a)

FilesOfCreations ==
    \A a \in Attachments :
        disk[a] # "none" => \E r \in Requests : op[r] \in Creations /\ a \in target[r]

\* What a creation has written stays whole until its INSERT.
WrittenAreWhole ==
    \A r \in Requests :
        pc[r] \in {"fetch", "write", "insert"} => \A a \in target[r] \ todo[r] : disk[a] = "whole"

CreatedAreWhole ==
    \A a \in Attachments :
        Created(a) => disk[a] = "whole" \/ \E d \in Requests : a \in Unlinked(d)

UnlinkedAreGone ==
    \A d \in Requests : \A a \in Unlinked(d) : disk[a] = "none"

\* A deletion that is done leaves no row of what it listed, and no other step
\* removes a row.
RowsOfDeletions ==
    /\ \A d \in Requests :
          op[d] \in Deletions /\ pc[d] = "done" => target[d] \cap rows = {}
    /\ \A a \in Attachments \ rows :
          Created(a) =>
              \E d \in Requests : /\ op[d] \in Deletions /\ pc[d] = "done"
                                  /\ a \in target[d] \/ op[d] = "deleteByMessageId"

FilesInv ==
    /\ TypeOK
    /\ StepsOfOperations
    /\ PathsOfTheirOwn
    /\ ListedAreCreated
    /\ FilesOfCreations
    /\ WrittenAreWhole
    /\ CreatedAreWhole
    /\ UnlinkedAreGone
    /\ RowsOfDeletions
    /\ BrokenDownloadHasCause

-----------------------------------------------------------------------------
(* The invariant holds at first, and one lemma per conjunct says that every *)
(* step keeps it.                                                           *)

LEMMA FilesInit ==
    Init => FilesInv
BY CrashAssumption
   DEF Init, FilesInv, TypeOK, StepsOfOperations, PathsOfTheirOwn, ListedAreCreated,
       FilesOfCreations, WrittenAreWhole, CreatedAreWhole, UnlinkedAreGone, Unlinked,
       RowsOfDeletions, BrokenDownloadHasCause, Created, Creations, Deletions,
       Operations, Busy, Ended

\* Types.
LEMMA TypeStep ==
    ASSUME CrashAssumption, TypeOK, StepsOfOperations,
           NEW r \in Requests, Start(r) \/ Step(r) \/ Crash
    PROVE  TypeOK'
<1> USE DEF TypeOK, StepsOfOperations, Creations, Deletions, Operations, Busy, Ended
<1>1. ASSUME NEW S \in SUBSET Attachments, CreateMany(r, S)
      PROVE  TypeOK'
  BY <1>1 DEF CreateMany, Begin, Goto, Unused
<1>2. ASSUME NEW a \in Attachments, DownloadAndCreate(r, a)
      PROVE  TypeOK'
  BY <1>2 DEF DownloadAndCreate, Begin, Goto, Unused
<1>3. ASSUME NEW a \in Attachments, Delete(r, a)
      PROVE  TypeOK'
  BY <1>3 DEF Delete, Begin, Goto
<1>4. CASE DeleteByMessageId(r)
  BY <1>4 DEF DeleteByMessageId, Begin, Goto
<1>5. ASSUME NEW a \in Attachments, Download(r, a)
      PROVE  TypeOK'
  BY <1>5 DEF Download, Begin, Goto
<1>6. CASE Fetch(r)
  BY <1>6 DEF Fetch, Goto
<1>7. ASSUME NEW a \in Attachments, Write(r, a)
      PROVE  TypeOK'
  BY <1>7 DEF Write, Handled
<1>8. ASSUME NEW a \in Attachments, BufferWriteFails(r, a)
      PROVE  TypeOK'
  BY <1>8 DEF BufferWriteFails, LeavePart, Die
<1>9. ASSUME NEW a \in Attachments, StreamWriteFails(r, a)
      PROVE  TypeOK'
  BY <1>9 DEF StreamWriteFails, LeavePart, Goto
<1>10. CASE Insert(r)
  BY <1>10 DEF Insert, Goto
<1>11. ASSUME NEW a \in Attachments, Unlink(r, a)
      PROVE  TypeOK'
  BY <1>11 DEF Unlink, Handled
<1>12. ASSUME NEW a \in Attachments, UnlinkFails(r, a)
      PROVE  TypeOK'
  BY <1>12 DEF UnlinkFails, Handled
<1>13. CASE DeleteRows(r)
  BY <1>13 DEF DeleteRows, Goto
<1>14. CASE Open(r)
  BY <1>14 DEF Open, Goto
<1>15. CASE Fail(r)
  BY <1>15 DEF Fail, Goto
<1>16. CASE Crash
  BY <1>16 DEF Crash, Die
<1> QED
  BY <1>1, <1>2, <1>3, <1>4, <1>5, <1>6, <1>7, <1>8,
     <1>9, <1>10, <1>11, <1>12, <1>13, <1>14, <1>15, <1>16 DEF Start, Step

\* The order of an operation's steps.
LEMMA StepsStep ==
    ASSUME TypeOK, StepsOfOperations,
           NEW r \in Requests, Start(r) \/ Step(r) \/ Crash
    PROVE  StepsOfOperations'
<1> USE DEF TypeOK, StepsOfOperations, Creations, Deletions, Operations, Busy, Ended
<1>1. ASSUME NEW S \in SUBSET Attachments, CreateMany(r, S)
      PROVE  StepsOfOperations'
  BY <1>1 DEF CreateMany, Begin, Goto, Unused
<1>2. ASSUME NEW a \in Attachments, DownloadAndCreate(r, a)
      PROVE  StepsOfOperations'
  BY <1>2 DEF DownloadAndCreate, Begin, Goto, Unused
<1>3. ASSUME NEW a \in Attachments, Delete(r, a)
      PROVE  StepsOfOperations'
  BY <1>3 DEF Delete, Begin, Goto
<1>4. CASE DeleteByMessageId(r)
  BY <1>4 DEF DeleteByMessageId, Begin, Goto
<1>5. ASSUME NEW a \in Attachments, Download(r, a)
      PROVE  StepsOfOperations'
  <2>1. CASE a \in rows /\ Begin(r, "download", {a}, "open")
    BY <2>1 DEF Begin, Goto
  <2>2. CASE a \notin rows /\ Begin(r, "download", {}, "notFound")
    BY <2>2 DEF Begin, Goto
  <2> QED
    BY <1>5, <2>1, <2>2 DEF Download
<1>6. CASE Fetch(r)
  BY <1>6 DEF Fetch, Goto
<1>7. ASSUME NEW a \in Attachments, Write(r, a)
      PROVE  StepsOfOperations'
  BY <1>7 DEF Write, Handled
<1>8. ASSUME NEW a \in Attachments, BufferWriteFails(r, a)
      PROVE  StepsOfOperations'
  BY <1>8 DEF BufferWriteFails, LeavePart, Die
<1>9. ASSUME NEW a \in Attachments, StreamWriteFails(r, a)
      PROVE  StepsOfOperations'
  BY <1>9 DEF StreamWriteFails, LeavePart, Goto
<1>10. CASE Insert(r)
  BY <1>10 DEF Insert, Goto
<1>11. ASSUME NEW a \in Attachments, Unlink(r, a)
      PROVE  StepsOfOperations'
  BY <1>11 DEF Unlink, Handled
<1>12. ASSUME NEW a \in Attachments, UnlinkFails(r, a)
      PROVE  StepsOfOperations'
  BY <1>12 DEF UnlinkFails, Handled
<1>13. CASE DeleteRows(r)
  BY <1>13 DEF DeleteRows, Goto
<1>14. CASE Open(r)
  BY <1>14 DEF Open, Goto
<1>15. CASE Fail(r)
  BY <1>15 DEF Fail, Goto
<1>16. CASE Crash
  BY <1>16 DEF Crash, Die
<1> QED
  BY <1>1, <1>2, <1>3, <1>4, <1>5, <1>6, <1>7, <1>8,
     <1>9, <1>10, <1>11, <1>12, <1>13, <1>14, <1>15, <1>16 DEF Start, Step

\* A creation begins with unused paths, and keeps them.
LEMMA PathsStep ==
    ASSUME TypeOK, StepsOfOperations, PathsOfTheirOwn,
           NEW r \in Requests, Start(r) \/ Step(r) \/ Crash
    PROVE  PathsOfTheirOwn'
<1> USE DEF TypeOK, StepsOfOperations, PathsOfTheirOwn, Creations, Deletions, Operations, Busy, Ended
<1>1. ASSUME NEW S \in SUBSET Attachments, CreateMany(r, S)
      PROVE  PathsOfTheirOwn'
  BY <1>1 DEF CreateMany, Begin, Goto, Unused
<1>2. ASSUME NEW a \in Attachments, DownloadAndCreate(r, a)
      PROVE  PathsOfTheirOwn'
  BY <1>2 DEF DownloadAndCreate, Begin, Goto, Unused
<1>3. ASSUME NEW a \in Attachments, Delete(r, a)
      PROVE  PathsOfTheirOwn'
  BY <1>3 DEF Delete, Begin, Goto
<1>4. CASE DeleteByMessageId(r)
  BY <1>4 DEF DeleteByMessageId, Begin, Goto
<1>5. ASSUME NEW a \in Attachments, Download(r, a)
      PROVE  PathsOfTheirOwn'
  BY <1>5 DEF Download, Begin, Goto
<1>6. CASE Fetch(r)
  BY <1>6 DEF Fetch, Goto
<1>7. ASSUME NEW a \in Attachments, Write(r, a)
      PROVE  PathsOfTheirOwn'
  BY <1>7 DEF Write, Handled
<1>8. ASSUME NEW a \in Attachments, BufferWriteFails(r, a)
      PROVE  PathsOfTheirOwn'
  BY <1>8 DEF BufferWriteFails, LeavePart, Die
<1>9. ASSUME NEW a \in Attachments, StreamWriteFails(r, a)
      PROVE  PathsOfTheirOwn'
  BY <1>9 DEF StreamWriteFails, LeavePart, Goto
<1>10. CASE Insert(r)
  BY <1>10 DEF Insert, Goto
<1>11. ASSUME NEW a \in Attachments, Unlink(r, a)
      PROVE  PathsOfTheirOwn'
  BY <1>11 DEF Unlink, Handled
<1>12. ASSUME NEW a \in Attachments, UnlinkFails(r, a)
      PROVE  PathsOfTheirOwn'
  BY <1>12 DEF UnlinkFails, Handled
<1>13. CASE DeleteRows(r)
  BY <1>13 DEF DeleteRows, Goto
<1>14. CASE Open(r)
  BY <1>14 DEF Open, Goto
<1>15. CASE Fail(r)
  BY <1>15 DEF Fail, Goto
<1>16. CASE Crash
  BY <1>16 DEF Crash, Die
<1> QED
  BY <1>1, <1>2, <1>3, <1>4, <1>5, <1>6, <1>7, <1>8,
     <1>9, <1>10, <1>11, <1>12, <1>13, <1>14, <1>15, <1>16 DEF Start, Step

\* Rows come of an INSERT, which ends the creation, and lists come of rows.
LEMMA ListedStep ==
    ASSUME TypeOK, StepsOfOperations, ListedAreCreated,
           NEW r \in Requests, Start(r) \/ Step(r) \/ Crash
    PROVE  ListedAreCreated'
<1> USE DEF TypeOK, StepsOfOperations, ListedAreCreated, Created, Creations, Deletions, Operations, Busy, Ended
<1>1. ASSUME NEW S \in SUBSET Attachments, CreateMany(r, S)
      PROVE  ListedAreCreated'
  BY <1>1 DEF CreateMany, Begin, Goto, Unused
<1>2. ASSUME NEW a \in Attachments, DownloadAndCreate(r, a)
      PROVE  ListedAreCreated'
  BY <1>2 DEF DownloadAndCreate, Begin, Goto, Unused
<1>3. ASSUME NEW a \in Attachments, Delete(r, a)
      PROVE  ListedAreCreated'
  BY <1>3 DEF Delete, Begin, Goto
<1>4. CASE DeleteByMessageId(r)
  BY <1>4 DEF DeleteByMessageId, Begin, Goto
<1>5. ASSUME NEW a \in Attachments, Download(r, a)
      PROVE  ListedAreCreated'
  BY <1>5 DEF Download, Begin, Goto
<1>6. CASE Fetch(r)
  BY <1>6 DEF Fetch, Goto
<1>7. ASSUME NEW a \in Attachments, Write(r, a)
      PROVE  ListedAreCreated'
  BY <1>7 DEF Write, Handled
<1>8. ASSUME NEW a \in Attachments, BufferWriteFails(r, a)
      PROVE  ListedAreCreated'
  BY <1>8 DEF BufferWriteFails, LeavePart, Die
<1>9. ASSUME NEW a \in Attachments, StreamWriteFails(r, a)
      PROVE  ListedAreCreated'
  BY <1>9 DEF StreamWriteFails, LeavePart, Goto
<1>10. CASE Insert(r)
  BY <1>10 DEF Insert, Goto
<1>11. ASSUME NEW a \in Attachments, Unlink(r, a)
      PROVE  ListedAreCreated'
  BY <1>11 DEF Unlink, Handled
<1>12. ASSUME NEW a \in Attachments, UnlinkFails(r, a)
      PROVE  ListedAreCreated'
  BY <1>12 DEF UnlinkFails, Handled
<1>13. CASE DeleteRows(r)
  BY <1>13 DEF DeleteRows, Goto
<1>14. CASE Open(r)
  BY <1>14 DEF Open, Goto
<1>15. CASE Fail(r)
  BY <1>15 DEF Fail, Goto
<1>16. CASE Crash
  BY <1>16 DEF Crash, Die
<1> QED
  BY <1>1, <1>2, <1>3, <1>4, <1>5, <1>6, <1>7, <1>8,
     <1>9, <1>10, <1>11, <1>12, <1>13, <1>14, <1>15, <1>16 DEF Start, Step

\* Files are written by creations alone.
LEMMA FilesStep ==
    ASSUME TypeOK, StepsOfOperations, ListedAreCreated, FilesOfCreations,
           NEW r \in Requests, Start(r) \/ Step(r) \/ Crash
    PROVE  FilesOfCreations'
<1> USE DEF TypeOK, StepsOfOperations, ListedAreCreated, FilesOfCreations, Creations, Deletions, Operations, Busy, Ended
<1>1. ASSUME NEW S \in SUBSET Attachments, CreateMany(r, S)
      PROVE  FilesOfCreations'
  BY <1>1 DEF CreateMany, Begin, Goto, Unused
<1>2. ASSUME NEW a \in Attachments, DownloadAndCreate(r, a)
      PROVE  FilesOfCreations'
  BY <1>2 DEF DownloadAndCreate, Begin, Goto, Unused
<1>3. ASSUME NEW a \in Attachments, Delete(r, a)
      PROVE  FilesOfCreations'
  BY <1>3 DEF Delete, Begin, Goto
<1>4. CASE DeleteByMessageId(r)
  BY <1>4 DEF DeleteByMessageId, Begin, Goto
<1>5. ASSUME NEW a \in Attachments, Download(r, a)
      PROVE  FilesOfCreations'
  BY <1>5 DEF Download, Begin, Goto
<1>6. CASE Fetch(r)
  BY <1>6 DEF Fetch, Goto
<1>7. ASSUME NEW a \in Attachments, Write(r, a)
      PROVE  FilesOfCreations'
  BY <1>7 DEF Write, Handled
<1>8. ASSUME NEW a \in Attachments, BufferWriteFails(r, a)
      PROVE  FilesOfCreations'
  BY <1>8 DEF BufferWriteFails, LeavePart, Die
<1>9. ASSUME NEW a \in Attachments, StreamWriteFails(r, a)
      PROVE  FilesOfCreations'
  BY <1>9 DEF StreamWriteFails, LeavePart, Goto
<1>10. CASE Insert(r)
  BY <1>10 DEF Insert, Goto
<1>11. ASSUME NEW a \in Attachments, Unlink(r, a)
      PROVE  FilesOfCreations'
  BY <1>11 DEF Unlink, Handled
<1>12. ASSUME NEW a \in Attachments, UnlinkFails(r, a)
      PROVE  FilesOfCreations'
  BY <1>12 DEF UnlinkFails, Handled
<1>13. CASE DeleteRows(r)
  BY <1>13 DEF DeleteRows, Goto
<1>14. CASE Open(r)
  BY <1>14 DEF Open, Goto
<1>15. CASE Fail(r)
  BY <1>15 DEF Fail, Goto
<1>16. CASE Crash
  BY <1>16 DEF Crash, Die
<1> QED
  BY <1>1, <1>2, <1>3, <1>4, <1>5, <1>6, <1>7, <1>8,
     <1>9, <1>10, <1>11, <1>12, <1>13, <1>14, <1>15, <1>16 DEF Start, Step

\* A creation under way is the only one to touch its files: those of deletions
\* were created before.
LEMMA WrittenStep ==
    ASSUME TypeOK, StepsOfOperations, PathsOfTheirOwn,
           ListedAreCreated, WrittenAreWhole,
           NEW r \in Requests, Start(r) \/ Step(r) \/ Crash
    PROVE  WrittenAreWhole'
<1> USE DEF TypeOK, StepsOfOperations, PathsOfTheirOwn, ListedAreCreated,
            WrittenAreWhole, Created, Creations, Deletions, Operations, Busy, Ended
<1>1. ASSUME NEW S \in SUBSET Attachments, CreateMany(r, S)
      PROVE  WrittenAreWhole'
  BY <1>1 DEF CreateMany, Begin, Goto, Unused
<1>2. ASSUME NEW a \in Attachments, DownloadAndCreate(r, a)
      PROVE  WrittenAreWhole'
  BY <1>2 DEF DownloadAndCreate, Begin, Goto, Unused
<1>3. ASSUME NEW a \in Attachments, Delete(r, a)
      PROVE  WrittenAreWhole'
  BY <1>3 DEF Delete, Begin, Goto
<1>4. CASE DeleteByMessageId(r)
  BY <1>4 DEF DeleteByMessageId, Begin, Goto
<1>5. ASSUME NEW a \in Attachments, Download(r, a)
      PROVE  WrittenAreWhole'
  BY <1>5 DEF Download, Begin, Goto
<1>6. CASE Fetch(r)
  BY <1>6 DEF Fetch, Goto
<1>7. ASSUME NEW a \in Attachments, Write(r, a)
      PROVE  WrittenAreWhole'
  BY <1>7 DEF Write, Handled
<1>8. ASSUME NEW a \in Attachments, BufferWriteFails(r, a)
      PROVE  WrittenAreWhole'
  BY <1>8 DEF BufferWriteFails, LeavePart, Die
<1>9. ASSUME NEW a \in Attachments, StreamWriteFails(r, a)
      PROVE  WrittenAreWhole'
  BY <1>9 DEF StreamWriteFails, LeavePart, Goto
<1>10. CASE Insert(r)
  BY <1>10 DEF Insert, Goto
<1>11. ASSUME NEW a \in Attachments, Unlink(r, a)
      PROVE  WrittenAreWhole'
  BY <1>11 DEF Unlink, Handled
<1>12. ASSUME NEW a \in Attachments, UnlinkFails(r, a)
      PROVE  WrittenAreWhole'
  BY <1>12 DEF UnlinkFails, Handled
<1>13. CASE DeleteRows(r)
  BY <1>13 DEF DeleteRows, Goto
<1>14. CASE Open(r)
  BY <1>14 DEF Open, Goto
<1>15. CASE Fail(r)
  BY <1>15 DEF Fail, Goto
<1>16. CASE Crash
  BY <1>16 DEF Crash, Die
<1> QED
  BY <1>1, <1>2, <1>3, <1>4, <1>5, <1>6, <1>7, <1>8,
     <1>9, <1>10, <1>11, <1>12, <1>13, <1>14, <1>15, <1>16 DEF Start, Step

\* A creation ends with whole files, and only unlinking takes them away.
LEMMA CreatedStep ==
    ASSUME TypeOK, StepsOfOperations, PathsOfTheirOwn,
           ListedAreCreated, WrittenAreWhole, CreatedAreWhole,
           NEW r \in Requests, Start(r) \/ Step(r) \/ Crash
    PROVE  CreatedAreWhole'
<1> USE DEF TypeOK, StepsOfOperations, PathsOfTheirOwn, ListedAreCreated,
            WrittenAreWhole, CreatedAreWhole, Created, Unlinked, Creations, Deletions, Operations, Busy, Ended
<1>1. ASSUME NEW S \in SUBSET Attachments, CreateMany(r, S)
      PROVE  CreatedAreWhole'
  BY <1>1 DEF CreateMany, Begin, Goto, Unused
<1>2. ASSUME NEW a \in Attachments, DownloadAndCreate(r, a)
      PROVE  CreatedAreWhole'
  BY <1>2 DEF DownloadAndCreate, Begin, Goto, Unused
<1>3. ASSUME NEW a \in Attachments, Delete(r, a)
      PROVE  CreatedAreWhole'
  BY <1>3 DEF Delete, Begin, Goto
<1>4. CASE DeleteByMessageId(r)
  BY <1>4 DEF DeleteByMessageId, Begin, Goto
<1>5. ASSUME NEW a \in Attachments, Download(r, a)
      PROVE  CreatedAreWhole'
  BY <1>5 DEF Download, Begin, Goto
<1>6. CASE Fetch(r)
  BY <1>6 DEF Fetch, Goto
<1>7. ASSUME NEW a \in Attachments, Write(r, a)
      PROVE  CreatedAreWhole'
  BY <1>7 DEF Write, Handled
<1>8. ASSUME NEW a \in Attachments, BufferWriteFails(r, a)
      PROVE  CreatedAreWhole'
  BY <1>8 DEF BufferWriteFails, LeavePart, Die
<1>9. ASSUME NEW a \in Attachments, StreamWriteFails(r, a)
      PROVE  CreatedAreWhole'
  BY <1>9 DEF StreamWriteFails, LeavePart, Goto
<1>10. CASE Insert(r)
  BY <1>10 DEF Insert, Goto
<1>11. ASSUME NEW a \in Attachments, Unlink(r, a)
      PROVE  CreatedAreWhole'
  <2>1. ASSUME NEW b, NEW d \in Requests, b \in Unlinked(d)
        PROVE  b \in Unlinked(d)'
    BY <1>11, <2>1 DEF Unlink, Handled
  <2>2. a \in Unlinked(r)'
    BY <1>11 DEF Unlink, Handled
  <2>3. ASSUME NEW b \in Attachments, Created(b)'
        PROVE  Created(b) /\ (b # a => disk'[b] = disk[b])
    BY <1>11, <2>3 DEF Unlink, Handled
  <2> QED
    BY <2>1, <2>2, <2>3 DEF CreatedAreWhole
<1>12. ASSUME NEW a \in Attachments, UnlinkFails(r, a)
      PROVE  CreatedAreWhole'
  BY <1>12 DEF UnlinkFails, Handled
<1>13. CASE DeleteRows(r)
  BY <1>13 DEF DeleteRows, Goto
<1>14. CASE Open(r)
  BY <1>14 DEF Open, Goto
<1>15. CASE Fail(r)
  BY <1>15 DEF Fail, Goto
<1>16. CASE Crash
  BY <1>16 DEF Crash, Die
<1> QED
  BY <1>1, <1>2, <1>3, <1>4, <1>5, <1>6, <1>7, <1>8,
     <1>9, <1>10, <1>11, <1>12, <1>13, <1>14, <1>15, <1>16 DEF Start, Step

\* No creation writes again what a deletion has listed.
LEMMA GoneStep ==
    ASSUME TypeOK, StepsOfOperations, PathsOfTheirOwn,
           ListedAreCreated, UnlinkedAreGone,
           NEW r \in Requests, Start(r) \/ Step(r) \/ Crash
    PROVE  UnlinkedAreGone'
<1> USE DEF TypeOK, StepsOfOperations, PathsOfTheirOwn, ListedAreCreated,
            UnlinkedAreGone, Created, Unlinked, Creations, Deletions, Operations, Busy, Ended
<1>1. ASSUME NEW S \in SUBSET Attachments, CreateMany(r, S)
      PROVE  UnlinkedAreGone'
  BY <1>1 DEF CreateMany, Begin, Goto, Unused
<1>2. ASSUME NEW a \in Attachments, DownloadAndCreate(r, a)
      PROVE  UnlinkedAreGone'
  BY <1>2 DEF DownloadAndCreate, Begin, Goto, Unused
<1>3. ASSUME NEW a \in Attachments, Delete(r, a)
      PROVE  UnlinkedAreGone'
  BY <1>3 DEF Delete, Begin, Goto
<1>4. CASE DeleteByMessageId(r)
  BY <1>4 DEF DeleteByMessageId, Begin, Goto
<1>5. ASSUME NEW a \in Attachments, Download(r, a)
      PROVE  UnlinkedAreGone'
  BY <1>5 DEF Download, Begin, Goto
<1>6. CASE Fetch(r)
  BY <1>6 DEF Fetch, Goto
<1>7. ASSUME NEW a \in Attachments, Write(r, a)
      PROVE  UnlinkedAreGone'
  BY <1>7 DEF Write, Handled
<1>8. ASSUME NEW a \in Attachments, BufferWriteFails(r, a)
      PROVE  UnlinkedAreGone'
  BY <1>8 DEF BufferWriteFails, LeavePart, Die
<1>9. ASSUME NEW a \in Attachments, StreamWriteFails(r, a)
      PROVE  UnlinkedAreGone'
  BY <1>9 DEF StreamWriteFails, LeavePart, Goto
<1>10. CASE Insert(r)
  BY <1>10 DEF Insert, Goto
<1>11. ASSUME NEW a \in Attachments, Unlink(r, a)
      PROVE  UnlinkedAreGone'
  BY <1>11 DEF Unlink, Handled
<1>12. ASSUME NEW a \in Attachments, UnlinkFails(r, a)
      PROVE  UnlinkedAreGone'
  BY <1>12 DEF UnlinkFails, Handled
<1>13. CASE DeleteRows(r)
  BY <1>13 DEF DeleteRows, Goto
<1>14. CASE Open(r)
  BY <1>14 DEF Open, Goto
<1>15. CASE Fail(r)
  BY <1>15 DEF Fail, Goto
<1>16. CASE Crash
  BY <1>16 DEF Crash, Die
<1> QED
  BY <1>1, <1>2, <1>3, <1>4, <1>5, <1>6, <1>7, <1>8,
     <1>9, <1>10, <1>11, <1>12, <1>13, <1>14, <1>15, <1>16 DEF Start, Step

\* A DELETE removes the rows listed, and those of the message with them if it is
\* by message; no INSERT brings one of them back.
LEMMA RowsStep ==
    ASSUME TypeOK, StepsOfOperations, PathsOfTheirOwn,
           ListedAreCreated, RowsOfDeletions,
           NEW r \in Requests, Start(r) \/ Step(r) \/ Crash
    PROVE  RowsOfDeletions'
<1> USE DEF TypeOK, StepsOfOperations, PathsOfTheirOwn, ListedAreCreated,
            RowsOfDeletions, Created, Creations, Deletions, Operations, Busy, Ended
<1>1. ASSUME NEW S \in SUBSET Attachments, CreateMany(r, S)
      PROVE  RowsOfDeletions'
  BY <1>1 DEF CreateMany, Begin, Goto, Unused
<1>2. ASSUME NEW a \in Attachments, DownloadAndCreate(r, a)
      PROVE  RowsOfDeletions'
  BY <1>2 DEF DownloadAndCreate, Begin, Goto, Unused
<1>3. ASSUME NEW a \in Attachments, Delete(r, a)
      PROVE  RowsOfDeletions'
  BY <1>3 DEF Delete, Begin, Goto
<1>4. CASE DeleteByMessageId(r)
  BY <1>4 DEF DeleteByMessageId, Begin, Goto
<1>5. ASSUME NEW a \in Attachments, Download(r, a)
      PROVE  RowsOfDeletions'
  BY <1>5 DEF Download, Begin, Goto
<1>6. CASE Fetch(r)
  BY <1>6 DEF Fetch, Goto
<1>7. ASSUME NEW a \in Attachments, Write(r, a)
      PROVE  RowsOfDeletions'
  BY <1>7 DEF Write, Handled
<1>8. ASSUME NEW a \in Attachments, BufferWriteFails(r, a)
      PROVE  RowsOfDeletions'
  BY <1>8 DEF BufferWriteFails, LeavePart, Die
<1>9. ASSUME NEW a \in Attachments, StreamWriteFails(r, a)
      PROVE  RowsOfDeletions'
  BY <1>9 DEF StreamWriteFails, LeavePart, Goto
<1>10. CASE Insert(r)
  BY <1>10 DEF Insert, Goto
<1>11. ASSUME NEW a \in Attachments, Unlink(r, a)
      PROVE  RowsOfDeletions'
  BY <1>11 DEF Unlink, Handled
<1>12. ASSUME NEW a \in Attachments, UnlinkFails(r, a)
      PROVE  RowsOfDeletions'
  BY <1>12 DEF UnlinkFails, Handled
<1>13. CASE DeleteRows(r)
  <2>1. /\ rows' = (IF op[r] = "delete" THEN rows \ target[r] ELSE {})
        /\ pc' = [pc EXCEPT ![r] = "done"]
        /\ op[r] \in Deletions
        /\ UNCHANGED <<op, target>>
    BY <1>13 DEF DeleteRows, Goto
  <2>2. ASSUME NEW d \in Requests, op'[d] \in Deletions, pc'[d] = "done"
        PROVE  target'[d] \cap rows' = {}
    BY <2>1, <2>2
  <2>3. ASSUME NEW a \in Attachments \ rows', Created(a)'
        PROVE  \E d \in Requests : /\ op'[d] \in Deletions /\ pc'[d] = "done"
                                   /\ a \in target'[d] \/ op'[d] = "deleteByMessageId"
    <3>1. Created(a)
      BY <2>1, <2>3
    <3>2. CASE a \in rows
      <4>1. a \in target'[r] \/ op'[r] = "deleteByMessageId"
        BY <2>1, <2>3, <3>2
      <4> QED
        BY <2>1, <4>1
    <3>3. CASE a \notin rows
      <4>1. PICK d \in Requests : /\ op[d] \in Deletions /\ pc[d] = "done"
                                  /\ a \in target[d] \/ op[d] = "deleteByMessageId"
        BY <3>1, <3>3
      <4> QED
        BY <2>1, <4>1
    <3> QED
      BY <3>2, <3>3
  <2> QED
    BY <2>2, <2>3
<1>14. CASE Open(r)
  BY <1>14 DEF Open, Goto
<1>15. CASE Fail(r)
  BY <1>15 DEF Fail, Goto
<1>16. CASE Crash
  BY <1>16 DEF Crash, Die
<1> QED
  BY <1>1, <1>2, <1>3, <1>4, <1>5, <1>6, <1>7, <1>8,
     <1>9, <1>10, <1>11, <1>12, <1>13, <1>14, <1>15, <1>16 DEF Start, Step

\* A download is broken when its one file is not whole: it has been unlinked by
\* then, and what is unlinked remains so.
LEMMA BrokenStep ==
    ASSUME TypeOK, StepsOfOperations, ListedAreCreated,
           CreatedAreWhole, BrokenDownloadHasCause,
           NEW r \in Requests, Start(r) \/ Step(r) \/ Crash
    PROVE  BrokenDownloadHasCause'
<1> USE DEF TypeOK, StepsOfOperations, ListedAreCreated, CreatedAreWhole,
            BrokenDownloadHasCause, Created, Unlinked, Creations, Deletions, Operations, Busy, Ended
<1>1. ASSUME NEW S \in SUBSET Attachments, CreateMany(r, S)
      PROVE  BrokenDownloadHasCause'
  BY <1>1 DEF CreateMany, Begin, Goto, Unused
<1>2. ASSUME NEW a \in Attachments, DownloadAndCreate(r, a)
      PROVE  BrokenDownloadHasCause'
  BY <1>2 DEF DownloadAndCreate, Begin, Goto, Unused
<1>3. ASSUME NEW a \in Attachments, Delete(r, a)
      PROVE  BrokenDownloadHasCause'
  BY <1>3 DEF Delete, Begin, Goto
<1>4. CASE DeleteByMessageId(r)
  BY <1>4 DEF DeleteByMessageId, Begin, Goto
<1>5. ASSUME NEW a \in Attachments, Download(r, a)
      PROVE  BrokenDownloadHasCause'
  BY <1>5 DEF Download, Begin, Goto
<1>6. CASE Fetch(r)
  BY <1>6 DEF Fetch, Goto
<1>7. ASSUME NEW a \in Attachments, Write(r, a)
      PROVE  BrokenDownloadHasCause'
  BY <1>7 DEF Write, Handled
<1>8. ASSUME NEW a \in Attachments, BufferWriteFails(r, a)
      PROVE  BrokenDownloadHasCause'
  BY <1>8 DEF BufferWriteFails, LeavePart, Die
<1>9. ASSUME NEW a \in Attachments, StreamWriteFails(r, a)
      PROVE  BrokenDownloadHasCause'
  BY <1>9 DEF StreamWriteFails, LeavePart, Goto
<1>10. CASE Insert(r)
  BY <1>10 DEF Insert, Goto
<1>11. ASSUME NEW a \in Attachments, Unlink(r, a)
      PROVE  BrokenDownloadHasCause'
  BY <1>11 DEF Unlink, Handled
<1>12. ASSUME NEW a \in Attachments, UnlinkFails(r, a)
      PROVE  BrokenDownloadHasCause'
  BY <1>12 DEF UnlinkFails, Handled
<1>13. CASE DeleteRows(r)
  BY <1>13 DEF DeleteRows, Goto
<1>14. CASE Open(r)
  BY <1>14 DEF Open, Goto
<1>15. CASE Fail(r)
  BY <1>15 DEF Fail, Goto
<1>16. CASE Crash
  BY <1>16 DEF Crash, Die
<1> QED
  BY <1>1, <1>2, <1>3, <1>4, <1>5, <1>6, <1>7, <1>8,
     <1>9, <1>10, <1>11, <1>12, <1>13, <1>14, <1>15, <1>16 DEF Start, Step

LEMMA FilesStutter ==
    ASSUME FilesInv, UNCHANGED vars
    PROVE  FilesInv'
BY DEF vars, requests, FilesInv, TypeOK, StepsOfOperations, PathsOfTheirOwn,
       ListedAreCreated, FilesOfCreations, WrittenAreWhole, CreatedAreWhole,
       UnlinkedAreGone, Unlinked, RowsOfDeletions, BrokenDownloadHasCause, Created

LEMMA FilesInvStep ==
    FilesInv /\ [Next]_vars => FilesInv'
<1> SUFFICES ASSUME FilesInv, [Next]_vars
             PROVE  FilesInv'
  OBVIOUS
<1>1. ASSUME NEW r \in Requests, Start(r) \/ Step(r) \/ Crash
      PROVE  FilesInv'
  BY <1>1, CrashAssumption, TypeStep, StepsStep, PathsStep, ListedStep, FilesStep,
     WrittenStep, CreatedStep, GoneStep, RowsStep, BrokenStep DEF FilesInv
<1>2. CASE Crash /\ Requests = {}
  BY <1>2, CrashAssumption
     DEF Crash, Die, FilesInv, TypeOK, StepsOfOperations, PathsOfTheirOwn,
         ListedAreCreated, FilesOfCreations, WrittenAreWhole, CreatedAreWhole,
         UnlinkedAreGone, RowsOfDeletions, BrokenDownloadHasCause, Created
<1> QED
  BY <1>1, <1>2, FilesStutter DEF Next

LEMMA FilesInvariant ==
    Spec => []FilesInv
BY FilesInit, FilesInvStep, PTL DEF Spec

\* Every variable keeps its type, what a request has still to do is among what it
\* is about, and no row is inserted or deleted while a file is left to deal with.
THEOREM AttachmentsTypeCorrect ==
    Spec => []TypeOK
<1>1. FilesInv => TypeOK
  BY DEF FilesInv
<1> QED
  BY FilesInvariant, <1>1, PTL

\* A row names a whole file, unless a deletion that is under way or broke off has
\* unlinked it, however requests of the service are interleaved, fail or die.
THEOREM RowHasFileCorrect ==
    Spec => []RowHasFile
<1>1. FilesInv => RowHasFile
  <2> SUFFICES ASSUME FilesInv, NEW a \in rows, disk[a] # "whole"
               PROVE  \E r \in Requests :
                         /\ a \in Unlinked(r)
                         /\ pc[r] \in {"unlink", "deleteRows", "failed", "lost"}
    BY DEF RowHasFile
  <2>1. PICK d \in Requests : a \in Unlinked(d)
    BY DEF FilesInv, TypeOK, ListedAreCreated, CreatedAreWhole
  <2>2. op[d] \in Deletions /\ a \in target[d]
    BY <2>1 DEF Unlinked
  <2>3. pc[d] # "done"
    BY <2>2 DEF FilesInv, RowsOfDeletions
  <2>4. pc[d] \in {"unlink", "deleteRows", "failed", "lost"}
    BY <2>2, <2>3
       DEF FilesInv, TypeOK, StepsOfOperations, Creations, Deletions, Busy, Ended
  <2> QED
    BY <2>1, <2>4
<1> QED
  BY FilesInvariant, <1>1, PTL

\* A file without a row is that of a creation under way or broken off, one whose
\* unlink failed, or one whose row came between the list and the DELETE of a
\* deleteByMessageId: nothing else leaks a file.
THEOREM OrphanHasCauseCorrect ==
    Spec => []OrphanHasCause
<1>1. FilesInv => OrphanHasCause
  <2> SUFFICES ASSUME FilesInv, NEW a \in Attachments \ rows, disk[a] # "none"
               PROVE  \E r \in Requests :
                         \/ op[r] \in Creations /\ a \in target[r] /\ pc[r] # "done"
                         \/ a \in kept[r]
                         \/ /\ op[r] = "deleteByMessageId" /\ pc[r] = "done"
                            /\ a \notin target[r]
    BY DEF OrphanHasCause
  <2>1. PICK c \in Requests : op[c] \in Creations /\ a \in target[c]
    BY DEF FilesInv, FilesOfCreations
  <2>2. CASE pc[c] # "done"
    BY <2>1, <2>2
  <2>3. CASE pc[c] = "done"
    <3>1. PICK d \in Requests : /\ op[d] \in Deletions /\ pc[d] = "done"
                                /\ a \in target[d] \/ op[d] = "deleteByMessageId"
      BY <2>1, <2>3 DEF FilesInv, RowsOfDeletions, Created
    <3>2. a \in target[d] => a \in kept[d]
      BY <3>1 DEF FilesInv, StepsOfOperations, UnlinkedAreGone, Unlinked, Deletions
    <3> QED
      BY <3>1, <3>2
  <2> QED
    BY <2>2, <2>3
<1> QED
  BY FilesInvariant, <1>1, PTL

\* A download that found its attachment gets no file only because a deletion has
\* unlinked it: never because the row was there before the file.
THEOREM BrokenDownloadHasCauseCorrect ==
    Spec => []BrokenDownloadHasCause
<1>1. FilesInv => BrokenDownloadHasCause
  BY DEF FilesInv
<1> QED
  BY FilesInvariant, <1>1, PTL
=============================================================================
