---------------------------- MODULE MCGridValue ----------------------------
(* Instances of GridValue for TLC.  Backends of one kind are interchangeable, *)
(* and so are fields.                                                        *)
EXTENDS GridValue, TLC

Symmetry == Permutations(Writer \ Remover) \cup Permutations(Remover \ Writer)
            \cup Permutations(Writer \cap Remover)
            \cup Permutations(Field)
=============================================================================
