----------------------------- MODULE MCFileBlob -----------------------------
(* Instances of FileBlob for TLC: model values for the backends, and the     *)
(* symmetry between backends of one kind (safety runs only).                 *)
EXTENDS FileBlob, TLC

NoFiles == {}
FirstFile == {1}

Symmetry == Permutations(Client) \cup Permutations(Cleaner) \cup Permutations(Reader)
=============================================================================
