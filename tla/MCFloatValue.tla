---------------------------- MODULE MCFloatValue ----------------------------
(* Instances of FloatValue for TLC.  Backends of one kind are                *)
(* interchangeable, and so are reference times.                              *)
EXTENDS FloatValue, TLC

Symmetry == Permutations(Writer \ Remover) \cup Permutations(Remover \ Writer)
            \cup Permutations(Writer \cap Remover)
            \cup Permutations(RefTime)
=============================================================================
