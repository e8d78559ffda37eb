---------------------------- MODULE MCFileStore ----------------------------
(* FileStore with two uploads, a deletion and a download in flight; every   *)
(* upload has as many parts as are allowed, or one more.                    *)
EXTENDS FileStore

LargeOnly == \A f \in Files : upload[f].size >= MaxParts
=============================================================================
