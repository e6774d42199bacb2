--------------------------- MODULE MCFileBlobStore ---------------------------
(* Instances of FileBlobStore for TLC.                                        *)
EXTENDS FileBlobStore, TLC

NoFiles == {}
Symmetry == Permutations(Client) \cup Permutations(Cleaner) \cup Permutations(Reader)
=============================================================================
