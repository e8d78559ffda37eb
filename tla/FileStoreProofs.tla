-------------------------- MODULE FileStoreProofs --------------------------
(***************************************************************************)
(* Theorems about FileStore, for any number of uploads, deletions and      *)
(* downloads, and any upload limit.                                        *)
(***************************************************************************)
EXTENDS FileStore, TLAPS

-----------------------------------------------------------------------------
LEMMA DeletionFields ==
    ASSUME NEW d \in Deletions, d # Asleep
    PROVE  /\ d.file \in Files /\ d.at \in {"file", "row", "reply"}
           /\ d = Deletion(d.at, d.file)
BY DEF Deletions, Deletion

LEMMA DownloadFields ==
    ASSUME NEW d \in Downloads, d # Asleep
    PROVE  /\ d.file \in Files /\ d.parts \in Parts
           /\ d.at \in {"found", "open", "reading", "finished"}
           /\ d = Download(d.at, d.file, d.parts)
BY DEF Downloads, Download

\* A request that is at some place is not asleep.
LEMMA AsleepIsIdle ==
    /\ Asleep \in Deletions /\ Asleep \in Downloads
    /\ Asleep.at = "idle"
BY DEF Asleep, Deletions, Downloads

LEMMA DeletionTypes ==
    ASSUME NEW at \in {"file", "row", "reply"}, NEW f \in Files
    PROVE  /\ Deletion(at, f) \in Deletions /\ Deletion(at, f) # Asleep
           /\ Deletion(at, f).at = at /\ Deletion(at, f).file = f
BY DEF Deletions, Deletion, Asleep

LEMMA DownloadTypes ==
    ASSUME NEW at \in {"found", "open", "reading", "finished"},
           NEW f \in Files, NEW n \in Parts
    PROVE  /\ Download(at, f, n) \in Downloads /\ Download(at, f, n) # Asleep
           /\ Download(at, f, n).at = at /\ Download(at, f, n).file = f
           /\ Download(at, f, n).parts = n
BY DEF Downloads, Download, Asleep

\* What a step of an upload does to its handler.
LEMMA GoToTypes ==
    ASSUME TypeOK, NEW f \in Files,
           NEW at \in Running \cup {"none", "stored", "failed"}, GoTo(f, at)
    PROVE  /\ upload' \in [Files -> Uploads]
           /\ upload'[f].at = at /\ upload'[f].size = upload[f].size
           /\ upload'[f].written = upload[f].written
           /\ \A g \in Files \ {f} : upload'[g] = upload[g]
<1> DEFINE u == [at |-> at, size |-> upload[f].size,
                 written |-> upload[f].written, fits |-> upload[f].fits]
<1>1. upload[f] \in Uploads
  BY DEF TypeOK
<1>2. u \in Uploads
  BY <1>1 DEF Uploads
<1>3. [upload[f] EXCEPT !.at = at] = u
  BY <1>1 DEF Uploads
<1>4. upload' = [upload EXCEPT ![f] = u]
  BY <1>3 DEF GoTo
<1> QED
  BY <1>2, <1>4 DEF TypeOK

LEMMA ReceiveTypes ==
    ASSUME TypeOK, NEW f \in Files, ReceivePart(f)
    PROVE  /\ upload' \in [Files -> Uploads]
           /\ upload'[f].at = "receive" /\ upload'[f].size = upload[f].size
           /\ upload'[f].written = upload[f].written + 1
           /\ upload'[f].written <= MaxParts
           /\ \A g \in Files \ {f} : upload'[g] = upload[g]
<1> DEFINE u == [at |-> "receive", size |-> upload[f].size,
                 written |-> upload[f].written + 1, fits |-> upload[f].fits]
<1>1. upload[f] \in Uploads
  BY DEF TypeOK
<1>2. upload[f].written + 1 \in Parts
  BY <1>1, SomeParts DEF ReceivePart, Uploads, Parts
<1>3. u \in Uploads
  BY <1>1, <1>2 DEF Uploads, Running
<1>4. [upload[f] EXCEPT !.written = upload[f].written + 1] = u
  BY <1>1 DEF Uploads, ReceivePart
<1>5. upload' = [upload EXCEPT ![f] = u]
  BY <1>4 DEF ReceivePart
<1> QED
  BY <1>2, <1>3, <1>5, SomeParts DEF TypeOK, Parts

LEMMA CrashTypes ==
    ASSUME TypeOK, Crash
    PROVE  /\ upload' \in [Files -> Uploads]
           /\ \A f \in Files :
                /\ upload'[f].size = upload[f].size
                /\ upload'[f].written = upload[f].written
                /\ upload'[f].at = IF upload[f].at \in Running
                                     THEN "failed" ELSE upload[f].at
<1> SUFFICES ASSUME NEW f \in Files
             PROVE  /\ upload'[f] \in Uploads
                    /\ upload'[f].size = upload[f].size
                    /\ upload'[f].written = upload[f].written
                    /\ upload'[f].at = IF upload[f].at \in Running
                                         THEN "failed" ELSE upload[f].at
  BY DEF Crash
<1>1. upload[f] \in Uploads
  BY DEF TypeOK
<1>2. CASE upload[f].at \in Running
  <2> DEFINE u == [at |-> "failed", size |-> upload[f].size,
                   written |-> upload[f].written, fits |-> upload[f].fits]
  <2>1. u \in Uploads
    BY <1>1 DEF Uploads
  <2>2. [upload[f] EXCEPT !.at = "failed"] = u
    BY <1>1 DEF Uploads
  <2>3. upload'[f] = u
    BY <1>2, <2>2 DEF Crash
  <2> QED
    BY <1>2, <2>1, <2>3
<1>3. CASE upload[f].at \notin Running
  BY <1>1, <1>3 DEF Crash
<1> QED
  BY <1>2, <1>3
-----------------------------------------------------------------------------
\* The inductive invariant.

\* What is on disk and in the table at each point of an upload.
UploadInv(f) ==
    LET u == upload[f] IN
    /\ u.at = "none" => u.written = 0
    /\ u.at = "receive" /\ temp[f] # Nothing => temp[f] = u.written
    /\ u.at \in {"none", "receive"} => final[f] = Nothing
    /\ u.at \in {"none", "receive", "save"} => ~row[f]
    /\ u.at \in {"save", "answer"} => final[f] # Nothing
    /\ u.at = "answer" => row[f]
    /\ final[f] # Nothing => final[f] = u.size

\* Only confirmed files are deleted, and once their row is gone it stays so.
DeletionInv ==
    /\ \A d \in Deleters : request[d] # Asleep =>
         /\ upload[request[d].file].at = "stored"
         /\ request[d].at = "reply" => ~row[request[d].file]
    /\ \A f \in deleted : upload[f].at = "stored" /\ ~row[f]

DownloadInv ==
    \A r \in Readers : reader[r] # Asleep /\ reader[r].at = "reading" =>
      reader[r].parts = upload[reader[r].file].size

FilesInv == (\A f \in Files : UploadInv(f)) /\ DeletionInv /\ DownloadInv

\* Nothing is no number of parts.
LEMMA NothingIsNoNumber == Nothing \notin Parts /\ 0 \in Parts
BY NamesDiffer, SomeParts DEF Parts

\* A file whose upload does not move: it may lose its temporary file, and once
\* confirmed or given up its final file and its row.
LEMMA UploadRests ==
    ASSUME NEW f \in Files, UploadInv(f), upload'[f] = upload[f],
           temp'[f] = temp[f] \/ temp'[f] = Nothing,
           \/ final'[f] = final[f] /\ row'[f] = row[f]
           \/ /\ upload[f].at = "stored"
              /\ final'[f] = final[f] \/ final'[f] = Nothing
    PROVE  UploadInv(f)'
BY DEF UploadInv

LEMMA DeletionRests ==
    ASSUME DeletionInv, TypeOK, UNCHANGED <<request, deleted>>,
           \A f \in Files : upload[f].at = "stored" =>
             upload'[f].at = "stored" /\ (~row[f] => ~row'[f])
    PROVE  DeletionInv'
<1>1. \A d \in Deleters : request[d] # Asleep => request[d].file \in Files
  BY DeletionFields DEF TypeOK
<1> QED
  BY <1>1 DEF DeletionInv, TypeOK

LEMMA DownloadRests ==
    ASSUME DownloadInv, TypeOK, UNCHANGED reader,
           \A f \in Files : upload'[f].size = upload[f].size
    PROVE  DownloadInv'
<1>1. \A r \in Readers : reader[r] # Asleep => reader[r].file \in Files
  BY DownloadFields DEF TypeOK
<1> QED
  BY <1>1 DEF DownloadInv

\* A step of the upload of one file.
LEMMA UploadStep ==
    ASSUME TypeOK, FilesInv, NEW f \in Files, UploadNext(f)
    PROVE  TypeOK' /\ FilesInv'
<1> USE DEF FilesInv
<1>1. ASSUME upload' \in [Files -> Uploads],
             upload[f].at # "stored", upload'[f].size = upload[f].size,
             \A g \in Files \ {f} :
               /\ upload'[g] = upload[g] /\ row'[g] = row[g]
               /\ temp'[g] = temp[g] /\ final'[g] = final[g],
             UploadInv(f)', UNCHANGED clients
      PROVE  FilesInv'
  <2>1. \A g \in Files \ {f} : UploadInv(g)'
    BY <1>1, UploadRests
  <2>2. DeletionInv'
    BY <1>1, DeletionRests DEF clients
  <2>3. DownloadInv'
    BY <1>1, DownloadRests DEF clients
  <2> QED
    BY <1>1, <2>1, <2>2, <2>3
<1>2. UploadInv(f)
  OBVIOUS
<1>3. CASE StartUpload(f)
  <2>1. /\ upload' \in [Files -> Uploads] /\ upload'[f].at = "receive"
        /\ upload'[f].size = upload[f].size
        /\ upload'[f].written = upload[f].written
        /\ \A g \in Files \ {f} : upload'[g] = upload[g]
    BY <1>3, GoToTypes DEF StartUpload, Running
  <2>2. UploadInv(f)'
    BY <1>2, <1>3, <2>1 DEF StartUpload, UploadInv, TypeOK
  <2>3. FilesInv'
    BY <1>1, <1>3, <2>1, <2>2 DEF StartUpload, TypeOK
  <2> QED
    BY <1>3, <2>1, <2>3, NothingIsNoNumber
    DEF StartUpload, clients, OnDisk, TypeOK
<1>4. CASE ReceivePart(f)
  <2>1. upload[f].written \in Nat /\ Parts \subseteq Nat
    BY SomeParts DEF TypeOK, Uploads, Parts
  <2>2. temp'[f] = IF temp[f] = Nothing THEN Nothing ELSE temp[f] + 1
    BY <1>4 DEF ReceivePart, TypeOK
  <2>3. temp'[f] # Nothing => temp'[f] = upload'[f].written
    BY <1>2, <1>4, <2>1, <2>2, ReceiveTypes DEF ReceivePart, UploadInv
  <2>4. UploadInv(f)'
    BY <1>2, <1>4, <2>3, ReceiveTypes DEF ReceivePart, UploadInv
  <2>5. FilesInv'
    BY <1>1, <1>4, <2>4, ReceiveTypes DEF ReceivePart, TypeOK
  <2>6. upload'[f].written \in Parts
    BY <1>4, ReceiveTypes DEF Uploads
  <2>7. temp' \in [Files -> OnDisk]
    BY <1>4, <2>3, <2>6 DEF ReceivePart, OnDisk, TypeOK
  <2> QED
    BY <1>4, <2>5, <2>7, ReceiveTypes DEF ReceivePart, clients, TypeOK
<1>5. CASE StopUpload(f)
  <2>1. /\ upload' \in [Files -> Uploads] /\ upload'[f].at = "failed"
        /\ upload'[f].size = upload[f].size
        /\ \A g \in Files \ {f} : upload'[g] = upload[g]
    BY <1>5, GoToTypes DEF StopUpload
  <2>2. UploadInv(f)'
    BY <1>2, <1>5, <2>1 DEF StopUpload, UploadInv
  <2>3. FilesInv'
    BY <1>1, <1>5, <2>1, <2>2 DEF StopUpload, TryRemoveTemp, TypeOK
  <2> QED
    BY <1>5, <2>1, <2>3 DEF StopUpload, TryRemoveTemp, clients, OnDisk, TypeOK
<1>6. CASE Rename(f)
  <2>1. /\ upload' \in [Files -> Uploads] /\ upload'[f].at = "save"
        /\ upload'[f].size = upload[f].size
        /\ \A g \in Files \ {f} : upload'[g] = upload[g]
    BY <1>6, GoToTypes DEF Rename, Running
  <2>2. final'[f] = temp[f] /\ temp[f] # Nothing /\ temp[f] = upload[f].size
    BY <1>2, <1>6 DEF Rename, UploadInv, TypeOK
  <2>3. UploadInv(f)'
    BY <1>2, <1>6, <2>1, <2>2 DEF Rename, UploadInv
  <2>4. FilesInv'
    BY <1>1, <1>6, <2>1, <2>3 DEF Rename, TypeOK
  <2> QED
    BY <1>6, <2>1, <2>4 DEF Rename, clients, OnDisk, TypeOK
<1>7. CASE SaveMetadata(f)
  <2>1. /\ upload' \in [Files -> Uploads] /\ upload'[f].at = "answer"
        /\ upload'[f].size = upload[f].size
        /\ \A g \in Files \ {f} : upload'[g] = upload[g]
    BY <1>7, GoToTypes DEF SaveMetadata, Running
  <2>2. UploadInv(f)'
    BY <1>2, <1>7, <2>1 DEF SaveMetadata, UploadInv, disk, TypeOK
  <2>3. FilesInv'
    BY <1>1, <1>7, <2>1, <2>2 DEF SaveMetadata, disk, TypeOK
  <2> QED
    BY <1>7, <2>1, <2>3 DEF SaveMetadata, disk, clients, TypeOK
<1>8. CASE SaveFails(f)
  <2>1. /\ upload' \in [Files -> Uploads] /\ upload'[f].at = "undo"
        /\ upload'[f].size = upload[f].size
        /\ \A g \in Files \ {f} : upload'[g] = upload[g]
    BY <1>8, GoToTypes DEF SaveFails, Running
  <2>2. UploadInv(f)'
    BY <1>2, <1>8, <2>1 DEF SaveFails, UploadInv, disk
  <2>3. FilesInv'
    BY <1>1, <1>8, <2>1, <2>2 DEF SaveFails, disk, TypeOK
  <2>4. row' \in [Files -> BOOLEAN]
    BY <1>8 DEF SaveFails, TypeOK, Uploads
  <2> QED
    BY <1>8, <2>1, <2>3, <2>4 DEF SaveFails, disk, clients, TypeOK
<1>9. CASE UndoRename(f)
  <2>1. /\ upload' \in [Files -> Uploads] /\ upload'[f].at = "failed"
        /\ upload'[f].size = upload[f].size
        /\ \A g \in Files \ {f} : upload'[g] = upload[g]
    BY <1>9, GoToTypes DEF UndoRename
  <2>2. final'[f] = final[f] \/ final'[f] = Nothing
    BY <1>9 DEF UndoRename, TryRemoveFinal, TypeOK
  <2>3. UploadInv(f)'
    BY <1>2, <2>1, <2>2 DEF UploadInv
  <2>4. FilesInv'
    BY <1>1, <1>9, <2>1, <2>3 DEF UndoRename, TryRemoveFinal, TypeOK
  <2> QED
    BY <1>9, <2>1, <2>4 DEF UndoRename, TryRemoveFinal, clients, OnDisk, TypeOK
<1>10. CASE AnswerUpload(f)
  <2>1. /\ upload' \in [Files -> Uploads] /\ upload'[f].at \in {"stored", "failed"}
        /\ upload'[f].size = upload[f].size
        /\ \A g \in Files \ {f} : upload'[g] = upload[g]
    BY <1>10, GoToTypes DEF AnswerUpload
  <2>2. UploadInv(f)'
    BY <1>2, <1>10, <2>1 DEF AnswerUpload, UploadInv, disk
  <2>3. FilesInv'
    BY <1>1, <1>10, <2>1, <2>2 DEF AnswerUpload, disk
  <2> QED
    BY <1>10, <2>1, <2>3 DEF AnswerUpload, disk, clients, TypeOK
<1> QED
  BY <1>3, <1>4, <1>5, <1>6, <1>7, <1>8, <1>9, <1>10 DEF UploadNext

\* A request in the place of another.
LEMMA AskTypes ==
    ASSUME TypeOK, NEW d \in Deleters, NEW r \in Deletions, Ask(d, r)
    PROVE  /\ request' \in [Deleters -> Deletions]
           /\ request'[d] = r
           /\ \A e \in Deleters \ {d} : request'[e] = request[e]
BY DEF TypeOK, Ask

LEMMA DeleteStep ==
    ASSUME TypeOK, FilesInv, NEW d \in Deleters, DeleteNext(d)
    PROVE  TypeOK' /\ FilesInv'
<1> USE DEF FilesInv
<1>1. ASSUME UNCHANGED <<upload, reader>>, temp' \in [Files -> OnDisk],
             \A f \in Files :
               /\ temp'[f] = temp[f] \/ temp'[f] = Nothing
               /\ \/ final'[f] = final[f] /\ row'[f] = row[f]
                  \/ /\ upload[f].at = "stored"
                     /\ final'[f] = final[f] \/ final'[f] = Nothing
      PROVE  (\A f \in Files : UploadInv(f)') /\ DownloadInv'
  BY <1>1, UploadRests, DownloadRests
<1>2. ASSUME NEW r \in Deletions, Ask(d, r), UNCHANGED upload,
             \A f \in Files : row'[f] => row[f],
             \A f \in deleted' : upload[f].at = "stored" /\ ~row'[f],
             r # Asleep => /\ upload[r.file].at = "stored"
                           /\ r.at = "reply" => ~row'[r.file]
      PROVE  DeletionInv'
  <2>1. \A e \in Deleters \ {d} : request[e] # Asleep =>
          request[e].file \in Files
    BY DeletionFields DEF TypeOK
  <2>2. ASSUME NEW e \in Deleters, request'[e] # Asleep
        PROVE  /\ upload[request'[e].file].at = "stored"
               /\ request'[e].at = "reply" => ~row'[request'[e].file]
    BY <1>2, <2>1, <2>2, AskTypes DEF DeletionInv
  <2> QED
    BY <1>2, <2>2 DEF DeletionInv
<1>3. ASSUME NEW f \in Files, DeleteFile(d, f) PROVE TypeOK' /\ FilesInv'
  <2>1. DeletionInv'
    BY <1>2, <1>3, DeletionTypes DEF DeleteFile, DeletionInv
  <2> QED
    BY <1>1, <1>3, <2>1, AskTypes, DeletionTypes
    DEF DeleteFile, disk, TypeOK
<1>4. ASSUME request[d] # Asleep
      PROVE  request[d].file \in Files /\ upload[request[d].file].at = "stored"
  BY <1>4, DeletionFields DEF DeletionInv, TypeOK
<1>5. CASE RemoveFile(d)
  <2> DEFINE f == request[d].file
  <2>1. f \in Files /\ upload[f].at = "stored"
    BY <1>4, <1>5, AsleepIsIdle DEF RemoveFile
  <2>2. /\ temp' \in [Files -> OnDisk] /\ final' \in [Files -> OnDisk]
        /\ temp'[f] \in {temp[f], Nothing} /\ final'[f] \in {final[f], Nothing}
        /\ \A g \in Files \ {f} : temp'[g] = temp[g] /\ final'[g] = final[g]
    BY <1>5, <2>1
    DEF RemoveFile, TryRemoveTemp, TryRemoveFinal, OnDisk, TypeOK
  <2>3. Ask(d, Deletion("row", f)) /\ UNCHANGED <<row, upload, deleted, reader>>
    BY <1>5 DEF RemoveFile
  <2> HIDE DEF f
  <2>4. DeletionInv'
    BY <1>2, <2>1, <2>3, DeletionTypes DEF DeletionInv
  <2>5. (\A g \in Files : UploadInv(g)') /\ DownloadInv'
    BY <1>1, <2>1, <2>2, <2>3
  <2> QED
    BY <1>5, <2>1, <2>2, <2>3, <2>4, <2>5, AskTypes, DeletionTypes
    DEF RemoveFile, TypeOK
<1>6. CASE DeleteMetadata(d)
  <2> DEFINE f == request[d].file
  <2>1. f \in Files /\ upload[f].at = "stored"
    BY <1>4, <1>6, AsleepIsIdle DEF DeleteMetadata
  <2>2. /\ row' \in [Files -> BOOLEAN] /\ ~row'[f]
        /\ \A g \in Files \ {f} : row'[g] = row[g]
    BY <1>6, <2>1 DEF DeleteMetadata, TypeOK
  <2>3. /\ Ask(d, Deletion("reply", f))
        /\ UNCHANGED <<temp, final, old, upload, deleted, reader, sweep>>
    BY <1>6 DEF DeleteMetadata, disk
  <2> HIDE DEF f
  <2>4. DeletionInv'
    BY <1>2, <2>1, <2>2, <2>3, DeletionTypes DEF DeletionInv, TypeOK
  <2>5. (\A g \in Files : UploadInv(g)') /\ DownloadInv'
    BY <1>1, <2>1, <2>2, <2>3 DEF TypeOK
  <2> QED
    BY <2>1, <2>2, <2>3, <2>4, <2>5, AskTypes, DeletionTypes DEF TypeOK
<1>7. CASE AnswerDeletion(d)
  <2> DEFINE f == request[d].file
  <2>1. /\ f \in Files /\ upload[f].at = "stored" /\ ~row[f]
    BY <1>4, <1>7, AsleepIsIdle DEF AnswerDeletion, DeletionInv
  <2>2. deleted' = deleted \cup {f} /\ Ask(d, Asleep)
    BY <1>7 DEF AnswerDeletion
  <2>3. UNCHANGED <<disk, row, upload, reader, sweep>>
    BY <1>7 DEF AnswerDeletion
  <2> HIDE DEF f
  <2>4. DeletionInv'
    BY <1>2, <2>1, <2>2, <2>3, AsleepIsIdle DEF DeletionInv
  <2>5. (\A g \in Files : UploadInv(g)') /\ DownloadInv'
    BY <1>1, <2>3 DEF disk, TypeOK
  <2> QED
    BY <2>1, <2>2, <2>3, <2>4, <2>5, AskTypes, AsleepIsIdle DEF disk, TypeOK
<1>8. CASE AbandonDeletion(d)
  <2>1. DeletionInv'
    BY <1>2, <1>8, AsleepIsIdle DEF AbandonDeletion, DeletionInv
  <2> QED
    BY <1>1, <1>8, <2>1, AskTypes, AsleepIsIdle
    DEF AbandonDeletion, disk, TypeOK
<1> QED
  BY <1>3, <1>5, <1>6, <1>7, <1>8 DEF DeleteNext

LEMMA ReadStep ==
    ASSUME TypeOK, FilesInv, NEW r \in Readers, ReadNext(r)
    PROVE  TypeOK' /\ FilesInv'
<1> USE DEF FilesInv
<1>1. UNCHANGED <<disk, row, upload, request, deleted, sweep>>
  BY DEF ReadNext, GetFileInfo, ResolveFilePath, OpenFile, FinishDownload, Leave
<1>2. (\A f \in Files : UploadInv(f)') /\ DeletionInv'
  BY <1>1, UploadRests, DeletionRests DEF disk
<1>3. ASSUME NEW d \in Downloads, Read(r, d),
             d # Asleep /\ d.at = "reading" => d.parts = upload[d.file].size
      PROVE  TypeOK' /\ FilesInv'
  <2>1. /\ reader' \in [Readers -> Downloads] /\ reader'[r] = d
        /\ \A q \in Readers \ {r} : reader'[q] = reader[q]
    BY <1>3 DEF Read, TypeOK
  <2>2. DownloadInv'
    BY <1>1, <1>3, <2>1 DEF DownloadInv
  <2> QED
    BY <1>1, <1>2, <2>1, <2>2 DEF disk, TypeOK
<1>4. ASSUME reader[r] # Asleep
      PROVE  reader[r].file \in Files /\ reader[r].parts \in Parts
  BY <1>4, DownloadFields DEF TypeOK
<1>5. ASSUME NEW f \in Files, GetFileInfo(r, f) PROVE TypeOK' /\ FilesInv'
  BY <1>3, <1>5, DownloadTypes, NothingIsNoNumber DEF GetFileInfo
<1>6. CASE ResolveFilePath(r)
  <2>1. reader[r].file \in Files
    BY <1>4, <1>6, AsleepIsIdle DEF ResolveFilePath
  <2>2. PICK at \in {"open", "finished"} : Read(r, Download(at, reader[r].file, 0))
    BY <1>6 DEF ResolveFilePath
  <2> QED
    BY <1>3, <2>1, <2>2, DownloadTypes, NothingIsNoNumber
<1>7. CASE OpenFile(r)
  <2> DEFINE f == reader[r].file
  <2>1. f \in Files
    BY <1>4, <1>7, AsleepIsIdle DEF OpenFile
  <2>2. CASE final[f] = Nothing
    <3>1. Read(r, Download("finished", f, 0))
      BY <1>7, <2>2 DEF OpenFile
    <3> HIDE DEF f
    <3> QED
      BY <1>3, <2>1, <3>1, DownloadTypes, NothingIsNoNumber
  <2>3. CASE final[f] # Nothing
    <3>1. Read(r, Download("reading", f, final[f]))
      BY <1>7, <2>3 DEF OpenFile
    <3>2. final[f] \in Parts /\ final[f] = upload[f].size
      BY <2>1, <2>3 DEF UploadInv, OnDisk, TypeOK
    <3> HIDE DEF f
    <3> QED
      BY <1>3, <2>1, <3>1, <3>2, DownloadTypes
  <2> QED
    BY <2>2, <2>3
<1>8. CASE FinishDownload(r)
  <2>1. reader[r].file \in Files /\ reader[r].parts \in Parts
    BY <1>4, <1>8, AsleepIsIdle DEF FinishDownload
  <2>2. PICK got \in 0 .. reader[r].parts :
          Read(r, Download("finished", reader[r].file, got))
    BY <1>8 DEF FinishDownload
  <2>3. got \in Parts
    BY <2>1, SomeParts DEF Parts
  <2> QED
    BY <1>3, <2>1, <2>2, <2>3, DownloadTypes
<1>9. CASE Leave(r)
  BY <1>3, <1>9, AsleepIsIdle DEF Leave
<1> QED
  BY <1>5, <1>6, <1>7, <1>8, <1>9 DEF ReadNext

LEMMA SweepStep ==
    ASSUME TypeOK, FilesInv, SweepNext
    PROVE  TypeOK' /\ FilesInv'
<1> USE DEF FilesInv
<1>1. UNCHANGED <<final, row, upload, clients>>
  BY DEF SweepNext, GetOld, JudgeTemp, RemoveTemp, KeepTemp, disk
<1>2. temp' \in [Files -> OnDisk]
      /\ \A f \in Files : temp'[f] = temp[f] \/ temp'[f] = Nothing
  BY DEF SweepNext, GetOld, JudgeTemp, RemoveTemp, KeepTemp, disk, OnDisk, TypeOK
<1>3. old' \in [Files -> BOOLEAN] /\ sweep' \in Files \cup {Nobody}
  BY DEF SweepNext, GetOld, JudgeTemp, RemoveTemp, KeepTemp, disk, TypeOK
<1>4. FilesInv'
  BY <1>1, <1>2, UploadRests, DeletionRests, DownloadRests DEF clients
<1> QED
  BY <1>1, <1>2, <1>3, <1>4 DEF clients, TypeOK

LEMMA CrashStep ==
    ASSUME TypeOK, FilesInv, Crash
    PROVE  TypeOK' /\ FilesInv'
<1> USE DEF FilesInv
<1>1. UNCHANGED <<temp, final, old, row, deleted>>
  BY DEF Crash, disk
<1>2. ASSUME NEW f \in Files PROVE UploadInv(f)'
  <2>1. UploadInv(f)
    OBVIOUS
  <2> QED
    BY <1>1, <2>1, CrashTypes DEF UploadInv
<1>3. DeletionInv'
  BY <1>1, CrashTypes DEF Crash, DeletionInv, Running, TypeOK
<1>4. DownloadInv'
  BY DEF Crash, DownloadInv
<1> QED
  BY <1>1, <1>2, <1>3, <1>4, CrashTypes, AsleepIsIdle DEF Crash, TypeOK

LEMMA FilesStep == TypeOK /\ FilesInv /\ [Next]_vars => TypeOK' /\ FilesInv'
<1> SUFFICES ASSUME TypeOK, FilesInv, [Next]_vars PROVE TypeOK' /\ FilesInv'
  OBVIOUS
<1>1. CASE UNCHANGED vars
  <2>1. TypeOK'
    BY <1>1 DEF vars, disk, clients, TypeOK
  <2>2. FilesInv'
    BY <1>1, UploadRests, DeletionRests, DownloadRests
    DEF vars, disk, clients, FilesInv
  <2> QED
    BY <2>1, <2>2
<1> QED
  BY <1>1, UploadStep, DeleteStep, ReadStep, SweepStep, CrashStep DEF Next

LEMMA InitUploads ==
    ASSUME Init, NEW f \in Files
    PROVE  /\ upload[f].at = "none" /\ upload[f].written = 0
           /\ upload[f] \in Uploads
<1>1. PICK n \in 1 .. MaxParts + 1, fits \in BOOLEAN :
        upload[f] = [at |-> "none", size |-> n, written |-> 0, fits |-> fits]
  BY DEF Init
<1> QED
  BY <1>1, NothingIsNoNumber DEF Uploads

LEMMA InitTypes == Init => TypeOK /\ FilesInv
<1> SUFFICES ASSUME Init PROVE TypeOK /\ FilesInv
  OBVIOUS
<1>1. \A f \in Files : /\ upload[f].at = "none" /\ upload[f].written = 0
                       /\ upload[f] \in Uploads
  BY InitUploads
<1>2. upload \in [Files -> Uploads]
  BY <1>1 DEF Init
<1>3. TypeOK
  BY <1>2, AsleepIsIdle DEF Init, TypeOK, OnDisk
<1>4. \A f \in Files : UploadInv(f)
  BY <1>1 DEF Init, UploadInv
<1> QED
  BY <1>3, <1>4 DEF Init, FilesInv, DeletionInv, DownloadInv

(***************************************************************************)
(* The state stays within its types; no file grows beyond the limit.  That *)
(* needs to be known together with what the temporary file holds.          *)
(***************************************************************************)
THEOREM TypeCorrect == Spec => []TypeOK
BY InitTypes, FilesStep, PTL DEF Spec

LEMMA FilesInvariant == Spec => [](TypeOK /\ FilesInv)
BY InitTypes, FilesStep, PTL DEF Spec
-----------------------------------------------------------------------------
\* The refinement.  A file that a step leaves alone looks as before.
LEMMA SeenRests ==
    ASSUME NEW f \in Files, upload'[f] = upload[f],
           row'[f] = row[f], final'[f] = final[f]
    PROVE  Seen(f)' = Seen(f)
BY DEF Seen, Listed

LEMMA ToldRests ==
    ASSUME NEW f \in Files, upload'[f].at = upload[f].at, UNCHANGED deleted
    PROVE  Told(f)' = Told(f)
BY DEF Told

LEMMA HeldRests ==
    ASSUME TypeOK, UNCHANGED reader,
           \A f \in Files : upload'[f].size = upload[f].size
    PROVE  \A r \in Readers : Held(r)' = Held(r)
<1>1. \A r \in Readers : reader[r] # Asleep => reader[r].file \in Files
  BY DownloadFields DEF TypeOK
<1> QED
  BY <1>1 DEF Held

\* With what is on disk known, a file is seen in one of three ways.
LEMMA SeenWhole ==
    ASSUME FilesInv, NEW f \in Files
    PROVE  Seen(f) = IF Listed(f) THEN "listed"
                     ELSE IF upload[f].at \in {"stored", "failed"} THEN "gone"
                     ELSE "absent"
BY DEF FilesInv, UploadInv, Seen, Listed

\* A step that changes how one file is seen, or what was said of it.
LEMMA OneFileSeen ==
    ASSUME NEW f \in Files,
           \A g \in Files \ {f} : Seen(g)' = Seen(g),
           \A g \in Files : Told(g)' = Told(g),
           \A r \in Readers : Held(r)' = Held(r),
           \/ Seen(f)' = Seen(f)
           \/ Seen(f) = "absent" /\ Seen(f)' = "listed"
           \/ Seen(f)' = "gone"
    PROVE  [Catalog!CatalogNext]_(Catalog!catalog)
<1>1. CASE Seen(f)' = Seen(f)
  BY <1>1 DEF Catalog!catalog
<1>2. CASE Seen(f) = "absent" /\ Seen(f)' = "listed"
  <2>1. Catalog!List(f)
    <3>1. [g \in Files |-> Seen(g)][f] = "absent"
      BY <1>2
    <3>2. [g \in Files |-> Seen(g)]'
            = [[g \in Files |-> Seen(g)] EXCEPT ![f] = "listed"]
      <4>1. \A g \in Files : Seen(g)' = IF g = f THEN "listed" ELSE Seen(g)
        BY <1>2
      <4> QED
        BY <4>1
    <3>3. UNCHANGED <<[g \in Files |-> Told(g)], [r \in Readers |-> Held(r)]>>
      OBVIOUS
    <3> QED
      BY <3>1, <3>2, <3>3, Zenon DEF Catalog!List
  <2> QED
    BY <2>1 DEF Catalog!CatalogNext
<1>3. CASE Seen(f)' = "gone"
  <2>1. Catalog!Drop(f)
    BY <1>3 DEF Catalog!Drop
  <2> QED
    BY <2>1 DEF Catalog!CatalogNext
<1> QED
  BY <1>1, <1>2, <1>3

LEMMA OneFileTold ==
    ASSUME NEW f \in Files,
           \A g \in Files : Seen(g)' = Seen(g),
           \A g \in Files \ {f} : Told(g)' = Told(g),
           \A r \in Readers : Held(r)' = Held(r),
           \/ Told(f)' = Told(f)
           \/ Seen(f) = "listed" /\ Told(f) = "nothing" /\ Told(f)' = "stored"
           \/ Seen(f) = "gone" /\ Told(f) = "stored" /\ Told(f)' = "deleted"
    PROVE  [Catalog!CatalogNext]_(Catalog!catalog)
<1>1. CASE Told(f)' = Told(f)
  BY <1>1 DEF Catalog!catalog
<1>2. CASE Seen(f) = "listed" /\ Told(f) = "nothing" /\ Told(f)' = "stored"
  <2>1. Catalog!ConfirmUpload(f)
    <3>1. /\ [g \in Files |-> Seen(g)][f] = "listed"
          /\ [g \in Files |-> Told(g)][f] = "nothing"
      BY <1>2
    <3>2. [g \in Files |-> Told(g)]'
            = [[g \in Files |-> Told(g)] EXCEPT ![f] = "stored"]
      <4>1. \A g \in Files : Told(g)' = IF g = f THEN "stored" ELSE Told(g)
        BY <1>2
      <4> QED
        BY <4>1
    <3>3. UNCHANGED <<[g \in Files |-> Seen(g)], [r \in Readers |-> Held(r)]>>
      OBVIOUS
    <3> QED
      BY <3>1, <3>2, <3>3, Zenon DEF Catalog!ConfirmUpload
  <2> QED
    BY <2>1 DEF Catalog!CatalogNext
<1>3. CASE Seen(f) = "gone" /\ Told(f) = "stored" /\ Told(f)' = "deleted"
  <2>1. Catalog!ConfirmDeletion(f)
    BY <1>3 DEF Catalog!ConfirmDeletion
  <2> QED
    BY <2>1 DEF Catalog!CatalogNext
<1> QED
  BY <1>1, <1>2, <1>3

LEMMA OneHeld ==
    ASSUME NEW r \in Readers,
           \A f \in Files : Seen(f)' = Seen(f) /\ Told(f)' = Told(f),
           \A q \in Readers \ {r} : Held(q)' = Held(q),
           \/ Held(r)' = Held(r)
           \/ Held(r)' = Nobody
           \/ \E f \in Files : Seen(f) = "listed" /\ Held(r)' = f
    PROVE  [Catalog!CatalogNext]_(Catalog!catalog)
<1>1. CASE Held(r)' = Held(r)
  BY <1>1 DEF Catalog!catalog
<1>2. CASE Held(r)' = Nobody
  <2>1. Catalog!Release(r)
    BY <1>2 DEF Catalog!Release
  <2> QED
    BY <2>1 DEF Catalog!CatalogNext
<1>3. ASSUME NEW f \in Files, Seen(f) = "listed", Held(r)' = f
      PROVE  [Catalog!CatalogNext]_(Catalog!catalog)
  <2>1. Catalog!Take(r, f)
    BY <1>3 DEF Catalog!Take
  <2> QED
    BY <2>1 DEF Catalog!CatalogNext
<1> QED
  BY <1>1, <1>2, <1>3

\* Uploads list a file, give it up or confirm it.
LEMMA UploadImplements ==
    ASSUME TypeOK, FilesInv, FilesInv', NEW f \in Files, UploadNext(f)
    PROVE  [Catalog!CatalogNext]_(Catalog!catalog)
<1>1. UploadInv(f) /\ UNCHANGED <<request, deleted, reader>>
  BY DEF FilesInv, UploadNext, StartUpload, ReceivePart, StopUpload, Rename,
         SaveMetadata, SaveFails, UndoRename, AnswerUpload, clients
<1>2. ASSUME NEW at \in Running \cup {"none", "stored", "failed"}, GoTo(f, at),
             \A g \in Files \ {f} : row'[g] = row[g] /\ final'[g] = final[g]
      PROVE  /\ \A g \in Files \ {f} : Seen(g)' = Seen(g) /\ Told(g)' = Told(g)
             /\ \A r \in Readers : Held(r)' = Held(r)
             /\ upload'[f].at = at
  <2>1. /\ upload'[f].at = at /\ upload'[f].size = upload[f].size
        /\ \A g \in Files \ {f} : upload'[g] = upload[g]
    BY <1>2, GoToTypes
  <2>2. \A g \in Files \ {f} : Seen(g)' = Seen(g) /\ Told(g)' = Told(g)
    BY <1>1, <1>2, <2>1, SeenRests, ToldRests
  <2> QED
    BY <1>1, <2>1, <2>2, HeldRests
<1>3. /\ Seen(f) = IF Listed(f) THEN "listed"
                   ELSE IF upload[f].at \in {"stored", "failed"} THEN "gone"
                   ELSE "absent"
      /\ Seen(f)' = IF row'[f] /\ final'[f] # Nothing THEN "listed"
                    ELSE IF upload'[f].at \in {"stored", "failed"} THEN "gone"
                    ELSE "absent"
  <2>1. UploadInv(f)'
    BY DEF FilesInv
  <2> QED
    BY <2>1, SeenWhole DEF UploadInv, Seen, Listed
<1>4. f \in deleted => upload[f].at = "stored"
  BY DEF FilesInv, DeletionInv
<1>5. ASSUME NEW at \in Running \cup {"failed"}, GoTo(f, at),
             upload[f].at # "stored",
             \A g \in Files \ {f} : row'[g] = row[g] /\ final'[g] = final[g],
             \/ Seen(f)' = Seen(f)
             \/ Seen(f) = "absent" /\ Seen(f)' = "listed"
             \/ Seen(f)' = "gone"
      PROVE  [Catalog!CatalogNext]_(Catalog!catalog)
  <2>1. /\ \A g \in Files \ {f} : Seen(g)' = Seen(g) /\ Told(g)' = Told(g)
        /\ \A r \in Readers : Held(r)' = Held(r)
        /\ upload'[f].at = at
    BY <1>2, <1>5
  <2>2. Told(f)' = Told(f)
    BY <1>1, <1>4, <1>5, <2>1 DEF Told, Running
  <2> QED
    BY <1>5, <2>1, <2>2, OneFileSeen
<1>6. CASE StartUpload(f)
  BY <1>1, <1>3, <1>5, <1>6, <1>2 DEF StartUpload, UploadInv, Listed, Running
<1>7. CASE ReceivePart(f)
  <2>1. \A g \in Files \ {f} : Seen(g)' = Seen(g) /\ Told(g)' = Told(g)
    BY <1>1, <1>7, ReceiveTypes, SeenRests, ToldRests DEF ReceivePart
  <2>2. Told(f)' = Told(f)
    BY <1>1, <1>7, ReceiveTypes, ToldRests DEF ReceivePart
  <2>3. \A r \in Readers : Held(r)' = Held(r)
    BY <1>1, <1>7, ReceiveTypes, HeldRests
  <2>4. Seen(f)' = Seen(f)
    BY <1>1, <1>3, <1>7, ReceiveTypes DEF ReceivePart, UploadInv, Listed
  <2> QED
    BY <2>1, <2>2, <2>3, <2>4, OneFileSeen
<1>8. CASE StopUpload(f)
  BY <1>1, <1>2, <1>3, <1>5, <1>8 DEF StopUpload, UploadInv, Listed
<1>9. CASE Rename(f)
  <2>1. \A g \in Files \ {f} : row'[g] = row[g] /\ final'[g] = final[g]
    BY <1>9 DEF Rename, TypeOK
  <2> QED
    BY <1>1, <1>2, <1>3, <1>5, <1>9, <2>1 DEF Rename, UploadInv, Listed, Running
<1>10. CASE SaveMetadata(f)
  <2>1. \A g \in Files \ {f} : row'[g] = row[g] /\ final'[g] = final[g]
    BY <1>10 DEF SaveMetadata, disk, TypeOK
  <2>2. row'[f] /\ final'[f] = final[f]
    BY <1>10 DEF SaveMetadata, disk, TypeOK
  <2> QED
    BY <1>1, <1>2, <1>3, <1>5, <1>10, <2>1, <2>2
    DEF SaveMetadata, UploadInv, Listed, Running
<1>11. CASE SaveFails(f)
  <2>1. \A g \in Files \ {f} : row'[g] = row[g] /\ final'[g] = final[g]
    BY <1>11 DEF SaveFails, disk, TypeOK
  <2> QED
    BY <1>1, <1>2, <1>3, <1>5, <1>11, <2>1
    DEF SaveFails, UploadInv, Listed, Running
<1>12. CASE UndoRename(f)
  <2>1. /\ \A g \in Files \ {f} : row'[g] = row[g] /\ final'[g] = final[g]
        /\ row'[f] = row[f]
        /\ final'[f] = final[f] \/ final'[f] = Nothing
    BY <1>12 DEF UndoRename, TryRemoveFinal, TypeOK
  <2>2. upload[f].at = "undo" /\ GoTo(f, "failed")
    BY <1>12 DEF UndoRename
  <2>3. upload'[f].at = "failed"
    BY <1>2, <2>1, <2>2
  <2> QED
    BY <1>3, <1>5, <2>1, <2>2, <2>3 DEF Listed
<1>13. CASE AnswerUpload(f)
  <2>1. PICK at \in {"stored", "failed"} : GoTo(f, at)
    BY <1>13 DEF AnswerUpload
  <2>2. upload[f].at = "answer" /\ UNCHANGED <<row, final>>
    BY <1>13 DEF AnswerUpload, disk
  <2>3. /\ \A g \in Files \ {f} : Seen(g)' = Seen(g) /\ Told(g)' = Told(g)
        /\ \A r \in Readers : Held(r)' = Held(r)
        /\ upload'[f].at = at
    BY <1>2, <2>1, <2>2
  <2>4. Seen(f)' = Seen(f) /\ Seen(f) = "listed"
    BY <1>1, <1>3, <2>2 DEF UploadInv, Listed
  <2>5. /\ Told(f) = "nothing"
        /\ Told(f)' \in {"stored", "nothing"}
    BY <1>1, <1>4, <2>2, <2>3 DEF Told
  <2> QED
    BY <2>3, <2>4, <2>5, OneFileTold
<1> QED
  BY <1>6, <1>7, <1>8, <1>9, <1>10, <1>11, <1>12, <1>13 DEF UploadNext

\* Deletions take a file away or confirm that it is gone.
LEMMA DeleteImplements ==
    ASSUME TypeOK, FilesInv, FilesInv', NEW d \in Deleters, DeleteNext(d)
    PROVE  [Catalog!CatalogNext]_(Catalog!catalog)
<1>1. UNCHANGED <<upload, reader>>
  BY DEF DeleteNext, DeleteFile, RemoveFile, DeleteMetadata, AnswerDeletion,
         AbandonDeletion
<1>2. \A r \in Readers : Held(r)' = Held(r)
  BY <1>1, HeldRests
<1>3. ASSUME request[d] # Asleep
      PROVE  request[d].file \in Files /\ upload[request[d].file].at = "stored"
  BY <1>3, DeletionFields DEF FilesInv, DeletionInv, TypeOK
<1>4. CASE UNCHANGED <<row, final, deleted>>
  <2>1. \A g \in Files : Seen(g)' = Seen(g) /\ Told(g)' = Told(g)
    BY <1>1, <1>4, SeenRests, ToldRests
  <2> QED
    BY <1>2, <2>1 DEF Catalog!catalog
<1>5. ASSUME NEW f \in Files, upload[f].at = "stored", UNCHANGED deleted,
             \A g \in Files \ {f} : row'[g] = row[g] /\ final'[g] = final[g],
             \/ row'[f] = row[f] /\ final'[f] = final[f]
             \/ ~row'[f] \/ final'[f] = Nothing
      PROVE  [Catalog!CatalogNext]_(Catalog!catalog)
  <2>1. /\ \A g \in Files \ {f} : Seen(g)' = Seen(g)
        /\ \A g \in Files : Told(g)' = Told(g)
    BY <1>1, <1>5, SeenRests, ToldRests
  <2>2. Seen(f)' = Seen(f) \/ Seen(f)' = "gone"
    BY <1>1, <1>5, SeenRests DEF Seen, Listed
  <2> QED
    BY <1>2, <2>1, <2>2, OneFileSeen
<1>6. ASSUME NEW f \in Files, DeleteFile(d, f) PROVE UNCHANGED <<row, final, deleted>>
  BY <1>6 DEF DeleteFile, disk
<1>7. CASE RemoveFile(d)
  <2> DEFINE f == request[d].file
  <2>1. f \in Files /\ upload[f].at = "stored"
    BY <1>3, <1>7, AsleepIsIdle DEF RemoveFile
  <2>2. /\ UNCHANGED <<row, deleted>>
        /\ \A g \in Files \ {f} : final'[g] = final[g]
        /\ final'[f] = final[f] \/ final'[f] = Nothing
    BY <1>7, <2>1 DEF RemoveFile, TryRemoveFinal, TypeOK
  <2> HIDE DEF f
  <2> QED
    BY <1>5, <2>1, <2>2
<1>8. CASE DeleteMetadata(d)
  <2> DEFINE f == request[d].file
  <2>1. f \in Files /\ upload[f].at = "stored"
    BY <1>3, <1>8, AsleepIsIdle DEF DeleteMetadata
  <2>2. /\ UNCHANGED <<final, deleted>> /\ ~row'[f]
        /\ \A g \in Files \ {f} : row'[g] = row[g]
    BY <1>8, <2>1 DEF DeleteMetadata, disk, TypeOK
  <2> HIDE DEF f
  <2> QED
    BY <1>5, <2>1, <2>2
<1>9. CASE AnswerDeletion(d)
  <2>1. PICK f \in Files : /\ f = request[d].file
                           /\ upload[f].at = "stored" /\ ~row[f]
    BY <1>3, <1>9, AsleepIsIdle DEF AnswerDeletion, FilesInv, DeletionInv
  <2>2. UNCHANGED <<row, final>> /\ deleted' = deleted \cup {f}
    BY <1>9, <2>1 DEF AnswerDeletion, disk
  <2>3. \A g \in Files : Seen(g)' = Seen(g)
    BY <1>1, <2>2, SeenRests
  <2>4. Seen(f) = "gone"
    BY <2>1, SeenWhole DEF Listed
  <2>5. ASSUME NEW g \in Files \ {f} PROVE Told(g)' = Told(g)
    <3>1. g \in deleted' <=> g \in deleted
      BY <2>2
    <3> QED
      BY <1>1, <3>1 DEF Told
  <2>6. Told(f)' = "deleted"
    <3>1. f \in deleted'
      BY <2>2
    <3> QED
      BY <3>1 DEF Told
  <2>7. Told(f) = "deleted" \/ Told(f) = "stored"
    BY <2>1 DEF Told
  <2>8. \/ Told(f)' = Told(f)
        \/ Seen(f) = "gone" /\ Told(f) = "stored" /\ Told(f)' = "deleted"
    BY <2>4, <2>6, <2>7
  <2>9. \A g \in Files \ {f} : Told(g)' = Told(g)
    BY <2>5
  <2> QED
    BY <1>2, <2>1, <2>3, <2>8, <2>9, OneFileTold
<1>10. CASE AbandonDeletion(d)
  BY <1>4, <1>10 DEF AbandonDeletion, disk
<1> QED
  BY <1>4, <1>6, <1>7, <1>8, <1>9, <1>10 DEF DeleteNext

\* Downloads take a file that is listed and let go of it.
LEMMA ReadImplements ==
    ASSUME TypeOK, FilesInv, NEW r \in Readers, ReadNext(r)
    PROVE  [Catalog!CatalogNext]_(Catalog!catalog)
<1>1. UNCHANGED <<row, final, upload, deleted>>
  BY DEF ReadNext, GetFileInfo, ResolveFilePath, OpenFile, FinishDownload,
         Leave, disk
<1>2. \A g \in Files : Seen(g)' = Seen(g) /\ Told(g)' = Told(g)
  BY <1>1, SeenRests, ToldRests
<1>3. ASSUME NEW x \in Downloads, Read(r, x),
             \/ x = Asleep \/ x.at \in {"found", "finished"}
             \/ /\ x # Asleep /\ x.at \in {"open", "reading"}
                /\ x.file \in Files
                /\ x.at = "reading" => x.parts = upload[x.file].size
                /\ \/ Seen(x.file) = "listed"
                   \/ Held(r) = x.file
      PROVE  [Catalog!CatalogNext]_(Catalog!catalog)
  <2>1. reader'[r] = x /\ \A q \in Readers \ {r} : reader'[q] = reader[q]
    BY <1>3 DEF Read, TypeOK
  <2>2. \A q \in Readers \ {r} : Held(q)' = Held(q)
    BY <1>1, <2>1 DEF Held
  <2>3. \/ Held(r)' = Nobody
        \/ x.file \in Files /\ Seen(x.file) = "listed" /\ Held(r)' = x.file
        \/ Held(r)' = Held(r)
    BY <1>1, <1>3, <2>1 DEF Held
  <2> QED
    BY <1>2, <2>2, <2>3, OneHeld
<1>4. ASSUME reader[r] # Asleep
      PROVE  reader[r].file \in Files /\ reader[r].parts \in Parts
  BY <1>4, DownloadFields DEF TypeOK
<1>5. ASSUME NEW f \in Files, GetFileInfo(r, f)
      PROVE  [Catalog!CatalogNext]_(Catalog!catalog)
  BY <1>3, <1>5, DownloadTypes, NothingIsNoNumber DEF GetFileInfo
<1>6. CASE ResolveFilePath(r)
  <2> DEFINE f == reader[r].file
  <2>1. f \in Files
    BY <1>4, <1>6, AsleepIsIdle DEF ResolveFilePath
  <2>2. CASE Listed(f)
    <3>1. Read(r, Download("open", f, 0))
      BY <1>6, <2>2 DEF ResolveFilePath
    <3>2. Seen(f) = "listed"
      BY <2>1, <2>2, SeenWhole
    <3> HIDE DEF f
    <3> QED
      BY <1>3, <2>1, <3>1, <3>2, DownloadTypes, NothingIsNoNumber
  <2>3. CASE ~Listed(f)
    <3>1. Read(r, Download("finished", f, 0))
      BY <1>6, <2>3 DEF ResolveFilePath
    <3> HIDE DEF f
    <3> QED
      BY <1>3, <2>1, <3>1, DownloadTypes, NothingIsNoNumber
  <2> QED
    BY <2>2, <2>3
<1>7. CASE OpenFile(r)
  <2> DEFINE f == reader[r].file
  <2>1. f \in Files /\ reader[r].at = "open" /\ Held(r) = f
    BY <1>4, <1>7, AsleepIsIdle DEF OpenFile, Held
  <2>2. CASE final[f] = Nothing
    <3>1. Read(r, Download("finished", f, 0))
      BY <1>7, <2>2 DEF OpenFile
    <3> HIDE DEF f
    <3> QED
      BY <1>3, <2>1, <3>1, DownloadTypes, NothingIsNoNumber
  <2>3. CASE final[f] # Nothing
    <3>1. Read(r, Download("reading", f, final[f]))
      BY <1>7, <2>3 DEF OpenFile
    <3>2. final[f] \in Parts /\ final[f] = upload[f].size
      BY <2>1, <2>3 DEF FilesInv, UploadInv, OnDisk, TypeOK
    <3> HIDE DEF f
    <3> QED
      BY <1>3, <2>1, <3>1, <3>2, DownloadTypes
  <2> QED
    BY <2>2, <2>3
<1>8. CASE FinishDownload(r)
  <2>1. reader[r].file \in Files /\ reader[r].parts \in Parts
    BY <1>4, <1>8, AsleepIsIdle DEF FinishDownload
  <2>2. PICK got \in 0 .. reader[r].parts :
          Read(r, Download("finished", reader[r].file, got))
    BY <1>8 DEF FinishDownload
  <2>3. got \in Parts
    BY <2>1, SomeParts DEF Parts
  <2> QED
    BY <1>3, <2>1, <2>2, <2>3, DownloadTypes
<1>9. CASE Leave(r)
  BY <1>3, <1>9, AsleepIsIdle DEF Leave
<1> QED
  BY <1>5, <1>6, <1>7, <1>8, <1>9 DEF ReadNext

\* With the process ends what was not listed by then.
LEMMA CrashImplements ==
    ASSUME TypeOK, FilesInv, FilesInv', Crash
    PROVE  [Catalog!CatalogNext]_(Catalog!catalog)
<1> DEFINE lost == {f \in Files : upload[f].at \in Running /\ ~Listed(f)}
<1>1. UNCHANGED <<row, final, deleted>>
  BY DEF Crash, disk
<1>2. ASSUME NEW f \in Files
      PROVE  /\ Seen(f)' = IF f \in lost THEN "gone" ELSE Seen(f)
             /\ f \in lost => Seen(f) = "absent"
  <2>1. UploadInv(f)
    BY DEF FilesInv
  <2>2. Listed(f)' = Listed(f)
    BY <1>1 DEF Listed
  <2> QED
    BY <1>1, <2>1, <2>2, CrashTypes, SeenWhole
    DEF UploadInv, Seen, Listed, Running
<1>3. \A f \in Files : Told(f)' = Told(f)
  BY <1>1, CrashTypes DEF Told, Running
<1>4. \A r \in Readers : Held(r)' = Nobody
  BY DEF Crash, Held
<1>5. lost \in SUBSET Files
  OBVIOUS
<1> HIDE DEF lost
<1>6. Catalog!Interrupt(lost)
  <2>1. \A f \in lost : [g \in Files |-> Seen(g)][f] = "absent"
    BY <1>2, <1>5
  <2>2. [g \in Files |-> Seen(g)]' =
          [f \in Files |-> IF f \in lost THEN "gone"
                                         ELSE [g \in Files |-> Seen(g)][f]]
    BY <1>2
  <2>3. [r \in Readers |-> Held(r)]' = [r \in Readers |-> Nobody]
    BY <1>4
  <2>4. UNCHANGED [g \in Files |-> Told(g)]
    BY <1>3
  <2> QED
    BY <2>1, <2>2, <2>3, <2>4, Zenon DEF Catalog!Interrupt
<1> QED
  BY <1>5, <1>6 DEF Catalog!CatalogNext

LEMMA CatalogStep ==
    ASSUME TypeOK, FilesInv, FilesInv', [Next]_vars
    PROVE  [Catalog!CatalogNext]_(Catalog!catalog)
<1>1. CASE SweepNext \/ UNCHANGED vars
  <2>1. UNCHANGED <<row, final, upload, deleted, reader>>
    BY <1>1 DEF SweepNext, GetOld, JudgeTemp, RemoveTemp, KeepTemp, vars,
                disk, clients
  <2>2. \A f \in Files : Seen(f)' = Seen(f) /\ Told(f)' = Told(f)
    BY <2>1, SeenRests, ToldRests
  <2>3. \A r \in Readers : Held(r)' = Held(r)
    BY <2>1, HeldRests
  <2> QED
    BY <2>2, <2>3 DEF Catalog!catalog
<1> QED
  BY <1>1, UploadImplements, DeleteImplements, ReadImplements,
     CrashImplements DEF Next

(***************************************************************************)
(* The directory and the table implement the catalog: a file is listed     *)
(* whole or not at all and never comes back, whatever fails and whenever   *)
(* the process ends.                                                       *)
(***************************************************************************)
THEOREM CatalogRefinement == Spec => ImplementsCatalog
<1>1. Init => Catalog!CatalogInit
  <2> SUFFICES ASSUME Init PROVE Catalog!CatalogInit
    OBVIOUS
  <2>1. \A f \in Files : upload[f].at = "none"
    BY InitUploads
  <2>2. \A f \in Files : Seen(f) = "absent" /\ Told(f) = "nothing"
    BY <2>1 DEF Init, Seen, Told, Listed
  <2>3. \A r \in Readers : Held(r) = Nobody
    BY DEF Init, Held
  <2> QED
    BY <2>2, <2>3 DEF Catalog!CatalogInit
<1>2. TypeOK /\ FilesInv /\ FilesInv' /\ [Next]_vars
        => [Catalog!CatalogNext]_(Catalog!catalog)
  BY CatalogStep
<1> QED
  BY <1>1, <1>2, FilesInvariant, PTL
  DEF Spec, ImplementsCatalog, Catalog!CatalogSpec
-----------------------------------------------------------------------------
\* What the catalog promises, said of the store.

\* In the catalog only what was never listed can be listed.
LEMMA CatalogKeepsGone ==
    ASSUME [Catalog!CatalogNext]_(Catalog!catalog),
           NEW f \in Files, Seen(f) = "gone"
    PROVE  Seen(f)' = "gone"
<1> DEFINE status == [g \in Files |-> Seen(g)]
<1> SUFFICES status'[f] = "gone"
  OBVIOUS
<1>1. status[f] = "gone"
  OBVIOUS
<1> HIDE DEF status
<1>2. CASE status' = status
  BY <1>1, <1>2
<1>3. ASSUME NEW g \in Files, NEW new, g = f => new = "gone",
             status' = [status EXCEPT ![g] = new]
      PROVE  status'[f] = "gone"
  BY <1>1, <1>3 DEF status
<1>4. CASE Catalog!CatalogNext
  <2>1. ASSUME NEW g \in Files, Catalog!List(g) PROVE status'[f] = "gone"
    <3>1. status[g] = "absent" /\ status' = [status EXCEPT ![g] = "listed"]
      BY <2>1 DEF Catalog!List, status
    <3> QED
      BY <1>1, <1>3, <3>1
  <2>2. ASSUME NEW g \in Files, Catalog!Drop(g) PROVE status'[f] = "gone"
    <3>1. status' = [status EXCEPT ![g] = "gone"]
      BY <2>2 DEF Catalog!Drop, status
    <3> QED
      BY <1>3, <3>1
  <2>3. ASSUME NEW lost \in SUBSET Files, Catalog!Interrupt(lost)
        PROVE  status'[f] = "gone"
    BY <1>1, <2>3 DEF Catalog!Interrupt, status
  <2>4. ASSUME NEW g, NEW r,
               \/ Catalog!ConfirmUpload(g) \/ Catalog!ConfirmDeletion(g)
               \/ Catalog!Release(r) \/ Catalog!Take(r, g)
        PROVE  status'[f] = "gone"
    <3>1. Catalog!ConfirmUpload(g) => status' = status
      BY DEF Catalog!ConfirmUpload, status
    <3>2. Catalog!ConfirmDeletion(g) => status' = status
      BY DEF Catalog!ConfirmDeletion, status
    <3>3. Catalog!Release(r) => status' = status
      BY DEF Catalog!Release, status
    <3>4. Catalog!Take(r, g) => status' = status
      BY DEF Catalog!Take, status
    <3> QED
      BY <1>2, <2>4, <3>1, <3>2, <3>3, <3>4
  <2> QED
    BY <1>4, <2>1, <2>2, <2>3, <2>4 DEF Catalog!CatalogNext
<1> QED
  BY <1>2, <1>4 DEF Catalog!catalog, status

(***************************************************************************)
(* A file that is gone, because it was deleted or because its upload was   *)
(* given up, is never listed again, whatever requests are still in flight: *)
(* no late rename or row brings it back.  And what the owner was told is   *)
(* deleted is gone.                                                        *)
(***************************************************************************)
THEOREM GoneForGood ==
    Spec => /\ [][\A f \in Files : Seen(f) = "gone" => Seen(f)' = "gone"]_vars
            /\ [](\A f \in deleted : Seen(f) = "gone")
<1>1. TypeOK /\ FilesInv /\ FilesInv' /\ [Next]_vars
        => [\A f \in Files : Seen(f) = "gone" => Seen(f)' = "gone"]_vars
  BY CatalogStep, CatalogKeepsGone
<1>2. TypeOK /\ FilesInv => \A f \in deleted : Seen(f) = "gone"
  BY SeenWhole DEF FilesInv, DeletionInv, Listed, TypeOK
<1> QED
  BY <1>1, <1>2, FilesInvariant, PTL DEF Spec
-----------------------------------------------------------------------------
(***************************************************************************)
(* Files without a row.  NoFileWithoutRow has a counterexample; these are  *)
(* the only ways to one: the process ends between the rename and the row,  *)
(* or a removal that the code does not repeat fails, when a save is undone *)
(* or a file deleted.  Broken streams, refused rows, requests given up and *)
(* the end of the process at any other time leave nothing behind.          *)
(***************************************************************************)
TidyStep ==
    /\ \A f \in Files :
         /\ upload[f].at = "save" => upload'[f].at # "failed"
         /\ upload[f].at = "undo" /\ upload'[f].at = "failed" =>
              final'[f] = Nothing
    /\ \A d \in Deleters :
         request[d].at = "file" /\ request'[d].at = "row" =>
           final'[request[d].file] = Nothing

RemovedFirst ==
    \A d \in Deleters : request[d].at = "row" =>
      final[request[d].file] = Nothing

TidyInv == NoFileWithoutRow /\ RemovedFirst

\* A file that a step leaves alone, or takes away, or that has its row.
LEMMA TidyRests ==
    ASSUME NoFileWithoutRow, NEW f \in Files,
           \/ /\ final'[f] = final[f] /\ row'[f] = row[f]
              /\ upload'[f].at = upload[f].at
           \/ final'[f] = Nothing
           \/ row'[f] = TRUE
           \/ upload'[f].at \in Running
    PROVE  final'[f] # Nothing /\ ~row'[f] => upload'[f].at \in Running
BY DEF NoFileWithoutRow

LEMMA TidyUpload ==
    ASSUME TypeOK, FilesInv, TidyInv, TidyStep, NEW f \in Files, UploadNext(f)
    PROVE  TidyInv'
<1>1. \A g \in Files \ {f} :
        upload'[g] = upload[g] /\ final'[g] = final[g] /\ row'[g] = row[g]
  BY DEF UploadNext, StartUpload, ReceivePart, StopUpload, Rename,
         SaveMetadata, SaveFails, UndoRename, AnswerUpload, GoTo,
         TryRemoveFinal, disk, TypeOK
<1>2. upload[f].at # "stored" /\ UNCHANGED request
  BY DEF UploadNext, StartUpload, ReceivePart, StopUpload, Rename,
         SaveMetadata, SaveFails, UndoRename, AnswerUpload, clients
<1>3. RemovedFirst'
  <2>1. \A d \in Deleters : request[d].at = "row" =>
          request[d].file \in Files \ {f}
    BY <1>2, DeletionFields, AsleepIsIdle DEF FilesInv, DeletionInv, TypeOK
  <2> QED
    BY <1>1, <1>2, <2>1 DEF TidyInv, RemovedFirst
<1>4. UploadInv(f)
  BY DEF FilesInv
<1>5. final'[f] # Nothing /\ ~row'[f] => upload'[f].at \in Running
  <2>1. CASE StartUpload(f)
    BY <2>1, GoToTypes DEF StartUpload, Running
  <2>2. CASE ReceivePart(f)
    BY <2>2, ReceiveTypes DEF Running
  <2>3. CASE StopUpload(f)
    BY <1>4, <2>3 DEF StopUpload, UploadInv
  <2>4. CASE Rename(f)
    BY <2>4, GoToTypes DEF Rename, Running
  <2>5. CASE SaveMetadata(f)
    BY <2>5, GoToTypes DEF SaveMetadata, Running
  <2>6. CASE SaveFails(f)
    BY <2>6, GoToTypes DEF SaveFails, Running
  <2>7. CASE UndoRename(f)
    BY <2>7, GoToTypes DEF UndoRename, TidyStep
  <2>8. CASE AnswerUpload(f)
    BY <1>4, <2>8 DEF AnswerUpload, UploadInv
  <2> QED
    BY <2>1, <2>2, <2>3, <2>4, <2>5, <2>6, <2>7, <2>8 DEF UploadNext
<1>6. NoFileWithoutRow'
  BY <1>1, <1>5, TidyRests DEF TidyInv, NoFileWithoutRow
<1> QED
  BY <1>3, <1>6 DEF TidyInv

LEMMA TidyDelete ==
    ASSUME TypeOK, FilesInv, TidyInv, TidyStep,
           NEW d \in Deleters, DeleteNext(d)
    PROVE  TidyInv'
<1>1. UNCHANGED upload
  BY DEF DeleteNext, DeleteFile, RemoveFile, DeleteMetadata, AnswerDeletion,
         AbandonDeletion
<1>2. \A e \in Deleters : request[e].at = "row" => request[e].file \in Files
  BY DeletionFields, AsleepIsIdle DEF TypeOK
<1>3. ASSUME NEW r \in Deletions, Ask(d, r),
             \A f \in Files : /\ final'[f] = final[f] \/ final'[f] = Nothing
                              /\ \/ row'[f] = row[f]
                                 \/ final[f] = Nothing,
             r.at = "row" => r.file \in Files /\ final'[r.file] = Nothing
      PROVE  TidyInv'
  <2>1. RemovedFirst'
    BY <1>2, <1>3, AskTypes DEF TidyInv, RemovedFirst
  <2>2. NoFileWithoutRow'
    BY <1>1, <1>3, TidyRests DEF TidyInv, NoFileWithoutRow
  <2> QED
    BY <2>1, <2>2 DEF TidyInv
<1>4. ASSUME NEW f \in Files, DeleteFile(d, f) PROVE TidyInv'
  BY <1>3, <1>4, DeletionTypes DEF DeleteFile, disk
<1>5. CASE RemoveFile(d)
  <2> DEFINE f == request[d].file
  <2>1. f \in Files
    BY <1>5, DeletionFields, AsleepIsIdle DEF RemoveFile, TypeOK
  <2>2. Ask(d, Deletion("row", f)) /\ request[d].at = "file" /\ UNCHANGED row
    BY <1>5 DEF RemoveFile
  <2>3. request'[d].at = "row"
    BY <2>1, <2>2, AskTypes, DeletionTypes
  <2>4. final'[f] = Nothing
    BY <2>2, <2>3 DEF TidyStep
  <2>5. \A g \in Files \ {f} : final'[g] = final[g]
    BY <1>5 DEF RemoveFile, TryRemoveFinal, TypeOK
  <2> HIDE DEF f
  <2> QED
    BY <1>3, <2>1, <2>2, <2>4, <2>5, DeletionTypes
<1>6. CASE DeleteMetadata(d)
  <2> DEFINE f == request[d].file
  <2>1. f \in Files /\ request[d].at = "row"
    BY <1>2, <1>6 DEF DeleteMetadata
  <2>2. /\ Ask(d, Deletion("reply", f)) /\ UNCHANGED final
        /\ \A g \in Files \ {f} : row'[g] = row[g]
    BY <1>6 DEF DeleteMetadata, disk, TypeOK
  <2>3. final[f] = Nothing
    BY <2>1 DEF TidyInv, RemovedFirst
  <2> HIDE DEF f
  <2> QED
    BY <1>3, <2>1, <2>2, <2>3, DeletionTypes
<1>7. CASE AnswerDeletion(d) \/ AbandonDeletion(d)
  BY <1>3, <1>7, AsleepIsIdle DEF AnswerDeletion, AbandonDeletion, disk
<1> QED
  BY <1>4, <1>5, <1>6, <1>7 DEF DeleteNext

LEMMA TidyCrash ==
    ASSUME TypeOK, FilesInv, TidyInv, TidyStep, Crash PROVE TidyInv'
<1>1. UNCHANGED <<row, final>>
  BY DEF Crash, disk
<1>2. RemovedFirst'
  BY AsleepIsIdle DEF Crash, RemovedFirst
<1>3. ASSUME NEW f \in Files
      PROVE  final'[f] # Nothing /\ ~row'[f] => upload'[f].at \in Running
  <2>1. UploadInv(f)
    BY DEF FilesInv
  <2>2. upload'[f].at = IF upload[f].at \in Running
                          THEN "failed" ELSE upload[f].at
    BY CrashTypes
  <2>3. upload[f].at \notin {"save", "undo"} \/ final'[f] = Nothing
    BY <2>2 DEF TidyStep, Running
  <2> QED
    BY <1>1, <2>1, <2>2, <2>3 DEF TidyInv, NoFileWithoutRow, UploadInv, Running
<1> QED
  BY <1>2, <1>3 DEF TidyInv, NoFileWithoutRow

THEOREM TidyStoreHasNoStrays ==
    Spec /\ [][TidyStep]_vars => []NoFileWithoutRow
<1>1. Init => TidyInv
  BY AsleepIsIdle DEF Init, TidyInv, NoFileWithoutRow, RemovedFirst
<1>2. TypeOK /\ FilesInv /\ TidyInv /\ [Next]_vars /\ [TidyStep]_vars
        => TidyInv'
  <2> SUFFICES ASSUME TypeOK, FilesInv, TidyInv, [Next]_vars, [TidyStep]_vars
               PROVE  TidyInv'
    OBVIOUS
  <2>1. ASSUME UNCHANGED <<upload, final, row, request>> PROVE TidyInv'
    BY <2>1 DEF TidyInv, NoFileWithoutRow, RemovedFirst
  <2>2. CASE UNCHANGED vars
    BY <2>1, <2>2 DEF vars, disk, clients
  <2>3. ASSUME NEW r \in Readers, ReadNext(r) PROVE TidyInv'
    BY <2>1, <2>3
    DEF ReadNext, GetFileInfo, ResolveFilePath, OpenFile, FinishDownload,
        Leave, disk
  <2>4. CASE SweepNext
    BY <2>1, <2>4
    DEF SweepNext, GetOld, JudgeTemp, RemoveTemp, KeepTemp, disk, clients
  <2> QED
    BY <2>2, <2>3, <2>4, TidyUpload, TidyDelete, TidyCrash DEF Next
<1>3. TidyInv => NoFileWithoutRow
  BY DEF TidyInv
<1> QED
  BY <1>1, <1>2, <1>3, FilesInvariant, PTL DEF Spec
=============================================================================
