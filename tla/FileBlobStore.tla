--------------------------- MODULE FileBlobStore ---------------------------
(* FileBlob seen as the BlobStore that the rest of wdb relies on.            *)
EXTENDS FileBlob

\* The stage of grid f: what has been committed about it, and, for a row that
\* is not there, whether it can still come.
Stage(f) ==
    CASE row[f] = "active"   -> "stored"
      [] row[f] = "inactive" -> "dropped"
      [] OTHER               -> IF Gone(f) THEN "gone" ELSE "free"

Store == INSTANCE BlobStore WITH
    stage <- [f \in FileId |-> Stage(f)],
    asked <- [r \in Reader |-> cur[r]]

\* The table and the directory together keep the promise of BlobStore, with
\* vacuums and scans by transactions that may be aborted at any moment.
StorePromise == Store!Spec
=============================================================================
