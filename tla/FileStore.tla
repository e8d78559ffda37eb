----------------------------- MODULE FileStore -----------------------------
(***************************************************************************)
(* The file service: a directory and the table file_metadata, kept         *)
(* together without a transaction.  An upload streams its parts into a     *)
(* temporary file, renames it and then inserts the row; a deletion removes *)
(* the file and then the row; a download finds the row, then opens the     *)
(* file; and a sweeper removes temporary files that nobody has written to  *)
(* for an hour.  Every one of these steps may fail, and the process may    *)
(* end between any two of them.                                            *)
(***************************************************************************)
EXTENDS Integers

CONSTANTS
    Files,      \* ids: every upload draws one of its own
    Deleters,   \* requests to delete that can be in flight together
    Readers,    \* downloads that can be in flight together
    MaxParts,   \* the upload limit, in parts
    Nobody,     \* no file
    Nothing     \* no such name in the directory

ASSUME SomeParts == MaxParts \in Nat \ {0}
ASSUME NamesDiffer == Nobody \notin Files /\ Nothing \notin Nat

VARIABLES
    temp,       \* parts in the file id.ext.tmp
    final,      \* parts in the file id.ext
    old,        \* the temporary file has not been written to for an hour
    row,        \* the file has a row in file_metadata
    upload,     \* the handler of each upload
    request,    \* deletions in flight
    deleted,    \* files whose owner was told that they are deleted
    reader,     \* downloads in flight
    sweep       \* the file the sweeper has judged and not yet removed

disk == <<temp, final, old>>
clients == <<request, deleted, reader>>
vars == <<disk, row, upload, clients, sweep>>
-----------------------------------------------------------------------------
Parts == 0 .. MaxParts
OnDisk == Parts \cup {Nothing}

Running == {"receive", "save", "undo", "answer"}

\* "failed": the client saw an error, or nothing.  A file whose type does
\* not fit its column cannot get a row.
Uploads == [at : Running \cup {"none", "stored", "failed"},
            size : 1 .. MaxParts + 1, written : Parts, fits : BOOLEAN]

Asleep == [at |-> "idle"]

Deletion(at, f) == [at |-> at, file |-> f]
Deletions == {Asleep} \cup {Deletion(at, f) : at \in {"file", "row", "reply"},
                                              f \in Files}

\* "parts" is what an open file holds, or what a finished download got.
Download(at, f, n) == [at |-> at, file |-> f, parts |-> n]
Downloads ==
    {Asleep} \cup {Download(at, f, n) :
                     at \in {"found", "open", "reading", "finished"},
                     f \in Files, n \in Parts}

TypeOK ==
    /\ temp \in [Files -> OnDisk]
    /\ final \in [Files -> OnDisk]
    /\ old \in [Files -> BOOLEAN]
    /\ row \in [Files -> BOOLEAN]
    /\ upload \in [Files -> Uploads]
    /\ request \in [Deleters -> Deletions]
    /\ deleted \in SUBSET Files
    /\ reader \in [Readers -> Downloads]
    /\ sweep \in Files \cup {Nobody}

Init ==
    /\ temp = [f \in Files |-> Nothing]
    /\ final = [f \in Files |-> Nothing]
    /\ old = [f \in Files |-> FALSE]
    /\ row = [f \in Files |-> FALSE]
    /\ upload \in [Files -> {[at |-> "none", size |-> n, written |-> 0,
                              fits |-> fits] :
                               n \in 1 .. MaxParts + 1, fits \in BOOLEAN}]
    /\ request = [d \in Deleters |-> Asleep]
    /\ deleted = {}
    /\ reader = [r \in Readers |-> Asleep]
    /\ sweep = Nobody
-----------------------------------------------------------------------------
GoTo(f, at) == upload' = [upload EXCEPT ![f].at = at]

\* os.Remove, where the code goes on whether or not it fails.
TryRemoveTemp(f) == \E left \in {temp[f], Nothing} :
                      temp' = [temp EXCEPT ![f] = left]

TryRemoveFinal(f) == \E left \in {final[f], Nothing} :
                       final' = [final EXCEPT ![f] = left]

Listed(f) == row[f] /\ final[f] # Nothing
-----------------------------------------------------------------------------
\* Uploads.

StartUpload(f) ==
    /\ upload[f].at = "none"
    /\ temp' = [temp EXCEPT ![f] = 0]
    /\ old' = [old EXCEPT ![f] = FALSE]
    /\ GoTo(f, "receive")
    /\ UNCHANGED <<final, row, clients, sweep>>

\* A plausible bug: a part is written and then counted.
ReceiveUncounted(f) ==
    LET u == upload[f] IN
    /\ u.at = "receive" /\ u.written < u.size
    /\ u.written <= MaxParts
    /\ temp' = [temp EXCEPT ![f] = IF @ = Nothing THEN Nothing ELSE @ + 1]
    /\ old' = [old EXCEPT ![f] = FALSE]
    /\ upload' = [upload EXCEPT ![f].written = @ + 1]
    /\ UNCHANGED <<final, row, clients, sweep>>

\* The file stays open: if it was removed meanwhile, its parts go nowhere.
ReceivePart(f) ==
    LET u == upload[f] IN
    /\ u.at = "receive" /\ u.written < u.size
    /\ u.written < MaxParts
    /\ temp' = [temp EXCEPT ![f] = IF @ = Nothing THEN Nothing ELSE @ + 1]
    /\ old' = [old EXCEPT ![f] = FALSE]
    /\ upload' = [upload EXCEPT ![f].written = @ + 1]
    /\ UNCHANGED <<final, row, clients, sweep>>

\* Too large, the stream is broken off, a write or the rename fails.
StopUpload(f) ==
    /\ upload[f].at = "receive"
    /\ TryRemoveTemp(f)
    /\ GoTo(f, "failed")
    /\ UNCHANGED <<final, old, row, clients, sweep>>

\* A plausible bug: a broken stream is taken for its end.
RenameBroken(f) ==
    /\ upload[f].at = "receive" /\ temp[f] # Nothing
    /\ final' = [final EXCEPT ![f] = temp[f]]
    /\ temp' = [temp EXCEPT ![f] = Nothing]
    /\ GoTo(f, "save")
    /\ UNCHANGED <<old, row, clients, sweep>>

\* CommitUpload, at the end of the stream: the rename ...
Rename(f) ==
    /\ upload[f].at = "receive" /\ temp[f] # Nothing
    /\ upload[f].written = upload[f].size
    /\ final' = [final EXCEPT ![f] = temp[f]]
    /\ temp' = [temp EXCEPT ![f] = Nothing]
    /\ GoTo(f, "save")
    /\ UNCHANGED <<old, row, clients, sweep>>

\* ... the row ...
SaveMetadata(f) ==
    /\ upload[f].at = "save" /\ upload[f].fits
    /\ row' = [row EXCEPT ![f] = TRUE]
    /\ GoTo(f, "answer")
    /\ UNCHANGED <<disk, clients, sweep>>

\* ... or an error: refused, or written and the answer lost ...
SaveFails(f) ==
    /\ upload[f].at = "save"
    /\ \E written \in {FALSE, upload[f].fits} :
         row' = [row EXCEPT ![f] = written]
    /\ GoTo(f, "undo")
    /\ UNCHANGED <<disk, clients, sweep>>

\* ... after which the file is removed.
UndoRename(f) ==
    /\ upload[f].at = "undo"
    /\ TryRemoveFinal(f)
    /\ GoTo(f, "failed")
    /\ UNCHANGED <<temp, old, row, clients, sweep>>

\* The client gets the id, or the answer is lost.
AnswerUpload(f) ==
    /\ upload[f].at = "answer"
    /\ \E at \in {"stored", "failed"} : GoTo(f, at)
    /\ UNCHANGED <<disk, row, clients, sweep>>
-----------------------------------------------------------------------------
\* Deletions, by the owner, who knows the id.

Ask(d, r) == request' = [request EXCEPT ![d] = r]

DeleteFile(d, f) ==
    /\ request[d] = Asleep
    /\ upload[f].at = "stored" /\ row[f]
    /\ Ask(d, Deletion("file", f))
    /\ UNCHANGED <<disk, row, upload, deleted, reader, sweep>>

\* A file that cannot be removed is only logged.
RemoveFile(d) ==
    LET f == request[d].file IN
    /\ request[d].at = "file"
    /\ TryRemoveFinal(f)
    /\ TryRemoveTemp(f)
    /\ Ask(d, Deletion("row", f))
    /\ UNCHANGED <<old, row, upload, deleted, reader, sweep>>

DeleteMetadata(d) ==
    LET f == request[d].file IN
    /\ request[d].at = "row"
    /\ row' = [row EXCEPT ![f] = FALSE]
    /\ Ask(d, Deletion("reply", f))
    /\ UNCHANGED <<disk, upload, deleted, reader, sweep>>

AnswerDeletion(d) ==
    /\ request[d].at = "reply"
    /\ deleted' = deleted \cup {request[d].file}
    /\ Ask(d, Asleep)
    /\ UNCHANGED <<disk, row, upload, reader, sweep>>

\* A failed statement or a lost answer.
AbandonDeletion(d) ==
    /\ request[d] # Asleep
    /\ Ask(d, Asleep)
    /\ UNCHANGED <<disk, row, upload, deleted, reader, sweep>>
-----------------------------------------------------------------------------
\* Downloads.

Read(r, d) == reader' = [reader EXCEPT ![r] = d]

\* The gateway asks GetFileInfo first, to fail fast ...
GetFileInfo(r, f) ==
    /\ reader[r] = Asleep
    /\ Listed(f)
    /\ Read(r, Download("found", f, 0))
    /\ UNCHANGED <<disk, row, upload, request, deleted, sweep>>

\* ... then writes the header and calls DownloadFile, which asks again ...
ResolveFilePath(r) ==
    LET f == reader[r].file IN
    /\ reader[r].at = "found"
    /\ Read(r, Download(IF Listed(f) THEN "open" ELSE "finished", f, 0))
    /\ UNCHANGED <<disk, row, upload, request, deleted, sweep>>

\* ... opens the file, which stays readable when it is removed ...
OpenFile(r) ==
    LET f == reader[r].file IN
    /\ reader[r].at = "open"
    /\ IF final[f] = Nothing THEN Read(r, Download("finished", f, 0))
                             ELSE Read(r, Download("reading", f, final[f]))
    /\ UNCHANGED <<disk, row, upload, request, deleted, sweep>>

\* ... and streams it.  To the gateway an error is the end of the stream.
FinishDownload(r) ==
    /\ reader[r].at = "reading"
    /\ \E got \in 0 .. reader[r].parts :
         Read(r, Download("finished", reader[r].file, got))
    /\ UNCHANGED <<disk, row, upload, request, deleted, sweep>>

Leave(r) ==
    /\ reader[r] # Asleep
    /\ Read(r, Asleep)
    /\ UNCHANGED <<disk, row, upload, request, deleted, sweep>>
-----------------------------------------------------------------------------
\* Time and the sweeper (CleanupOrphanedTempFiles, every half hour).

GetOld(f) ==
    /\ temp[f] # Nothing
    /\ ~old[f]
    /\ old' = [old EXCEPT ![f] = TRUE]
    /\ UNCHANGED <<temp, final, row, upload, clients, sweep>>

\* A plausible bug: the ages are compared the wrong way round.
JudgeYoung(f) ==
    /\ sweep = Nobody
    /\ temp[f] # Nothing /\ ~old[f]
    /\ sweep' = f
    /\ UNCHANGED <<disk, row, upload, clients>>

JudgeTemp(f) ==
    /\ sweep = Nobody
    /\ temp[f] # Nothing /\ old[f]
    /\ sweep' = f
    /\ UNCHANGED <<disk, row, upload, clients>>

\* The upload may have gone on, or been committed, since the file was judged.
RemoveTemp ==
    /\ sweep # Nobody
    /\ temp' = [temp EXCEPT ![sweep] = Nothing]
    /\ sweep' = Nobody
    /\ UNCHANGED <<final, old, row, upload, clients>>

KeepTemp ==
    /\ sweep # Nobody
    /\ sweep' = Nobody
    /\ UNCHANGED <<disk, row, upload, clients>>

\* The process ends: no deferred function runs.
Crash ==
    /\ upload' = [f \in Files |-> IF upload[f].at \in Running
                                    THEN [upload[f] EXCEPT !.at = "failed"]
                                    ELSE upload[f]]
    /\ request' = [d \in Deleters |-> Asleep]
    /\ reader' = [r \in Readers |-> Asleep]
    /\ sweep' = Nobody
    /\ UNCHANGED <<disk, row, deleted>>
-----------------------------------------------------------------------------
UploadNext(f) ==
    \/ StartUpload(f) \/ ReceivePart(f) \/ StopUpload(f)
    \/ Rename(f) \/ SaveMetadata(f) \/ SaveFails(f) \/ UndoRename(f)
    \/ AnswerUpload(f)

DeleteNext(d) ==
    \/ \E f \in Files : DeleteFile(d, f)
    \/ RemoveFile(d) \/ DeleteMetadata(d) \/ AnswerDeletion(d)
    \/ AbandonDeletion(d)

ReadNext(r) ==
    \/ \E f \in Files : GetFileInfo(r, f)
    \/ ResolveFilePath(r) \/ OpenFile(r) \/ FinishDownload(r) \/ Leave(r)

SweepNext ==
    \/ \E f \in Files : GetOld(f) \/ JudgeTemp(f)
    \/ RemoveTemp \/ KeepTemp

Next ==
    \/ \E f \in Files : UploadNext(f)
    \/ \E d \in Deleters : DeleteNext(d)
    \/ \E r \in Readers : ReadNext(r)
    \/ SweepNext
    \/ Crash

Spec == Init /\ [][Next]_vars

\* Time passes, the ticker ticks, and not every removal fails or meets the
\* end of the process.  Nothing is assumed of clients, who may stall.
FairSpec ==
    /\ Spec
    /\ \A f \in Files : WF_vars(GetOld(f)) /\ SF_vars(JudgeTemp(f))
    /\ \A f \in Files : SF_vars(sweep = f /\ RemoveTemp)
-----------------------------------------------------------------------------
\* Properties.

(***************************************************************************)
(* Seen from outside, the directory and the table are one catalog: a file  *)
(* is listed whole or not at all, never comes back, and is confirmed only  *)
(* as what it is; a download reads a whole file even while it is deleted.  *)
(* This holds through broken streams, lost answers, failed statements and  *)
(* removals, the sweeper, and the end of the process.                      *)
(***************************************************************************)
Seen(f) ==
    IF Listed(f)
      THEN IF final[f] = upload[f].size THEN "listed" ELSE "broken"
      ELSE IF upload[f].at \in {"stored", "failed"} THEN "gone" ELSE "absent"

Told(f) ==
    IF f \in deleted THEN "deleted"
    ELSE IF upload[f].at = "stored" THEN "stored" ELSE "nothing"

Held(r) ==
    LET d == reader[r] IN
    IF d = Asleep \/ d.at \in {"found", "finished"} THEN Nobody
    ELSE IF d.at = "reading" /\ d.parts # upload[d.file].size THEN "broken"
    ELSE d.file

Catalog == INSTANCE FileCatalog
             WITH status <- [f \in Files |-> Seen(f)],
                  told <- [f \in Files |-> Told(f)],
                  held <- [r \in Readers |-> Held(r)]

ImplementsCatalog == Catalog!CatalogSpec

(***************************************************************************)
(* Whatever becomes of an upload, also one whose client stalls for ever or *)
(* that dies with its process, its temporary file does not stay.           *)
(***************************************************************************)
TempFilesGo == \A f \in Files : []<>(temp[f] = Nothing)

\* A counterexample by hand: the row is written after the rename, so a
\* process that ends in between, or a removal that fails, leaves a file
\* without a row, which no sweeper looks for.
NoFileWithoutRow ==
    \A f \in Files : final[f] # Nothing /\ ~row[f] =>
      upload[f].at \in Running

\* A counterexample by hand: gateway/handler/file.go:134 "we gate on
\* GetFileInfo and fail fast" where a successful empty attachment was sent
\* before; a file deleted after GetFileInfo still gives one.
DownloadsAreWhole ==
    \A r \in Readers : reader[r] # Asleep /\ reader[r].at = "finished" =>
      reader[r].parts = upload[reader[r].file].size

\* A counterexample by hand: file/model.go:10 "legacy: stores the extension".
\* The gateway stores the MIME type, which for Office files exceeds the
\* column: without a fault they are refused.
WholeUploadsAreSaved ==
    \A f \in Files : upload[f].at = "save" => upload[f].fits
=============================================================================
