---------------------------- MODULE FileCatalog ----------------------------
(***************************************************************************)
(* What the file service promises to everyone who uploads, deletes or      *)
(* downloads: a file is listed at once and whole, or never; once it is     *)
(* gone it does not come back; an upload is confirmed only while the file  *)
(* is listed, a deletion only when it is gone; and a download takes a file *)
(* that is listed.                                                         *)
(*                                                                         *)
(* FileStore implements this with a directory, a table and no transaction  *)
(* over both.                                                              *)
(***************************************************************************)
CONSTANTS Files, Readers, Nobody

VARIABLES
    status,   \* "absent", "listed" or "gone"
    told,     \* what the owner has been told
    held      \* the file each reader takes its parts from

catalog == <<status, told, held>>

CatalogInit ==
    /\ status = [f \in Files |-> "absent"]
    /\ told = [f \in Files |-> "nothing"]
    /\ held = [r \in Readers |-> Nobody]

List(f) ==
    /\ status[f] = "absent"
    /\ status' = [status EXCEPT ![f] = "listed"]
    /\ UNCHANGED <<told, held>>

\* Refused before it was listed, or removed after.
Drop(f) ==
    /\ status' = [status EXCEPT ![f] = "gone"]
    /\ UNCHANGED <<told, held>>

ConfirmUpload(f) ==
    /\ status[f] = "listed" /\ told[f] = "nothing"
    /\ told' = [told EXCEPT ![f] = "stored"]
    /\ UNCHANGED <<status, held>>

ConfirmDeletion(f) ==
    /\ status[f] = "gone" /\ told[f] = "stored"
    /\ told' = [told EXCEPT ![f] = "deleted"]
    /\ UNCHANGED <<status, held>>

Take(r, f) ==
    /\ status[f] = "listed"
    /\ held' = [held EXCEPT ![r] = f]
    /\ UNCHANGED <<status, told>>

Release(r) ==
    /\ held' = [held EXCEPT ![r] = Nobody]
    /\ UNCHANGED <<status, told>>

\* The service ends: what is not listed by then never will be.
Interrupt(lost) ==
    /\ \A f \in lost : status[f] = "absent"
    /\ status' = [f \in Files |-> IF f \in lost THEN "gone" ELSE status[f]]
    /\ held' = [r \in Readers |-> Nobody]
    /\ UNCHANGED told

CatalogNext ==
    \/ \E f \in Files :
         List(f) \/ Drop(f) \/ ConfirmUpload(f) \/ ConfirmDeletion(f)
    \/ \E r \in Readers : Release(r) \/ \E f \in Files : Take(r, f)
    \/ \E lost \in SUBSET Files : Interrupt(lost)

CatalogSpec == CatalogInit /\ [][CatalogNext]_catalog
=============================================================================
