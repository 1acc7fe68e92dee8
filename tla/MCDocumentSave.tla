-------------------------- MODULE MCDocumentSave --------------------------
(* Small instances of DocumentSave: callers and contents are interchangeable. *)
EXTENDS DocumentSave, TLC

Symmetry == Permutations(Callers) \cup Permutations(Contents) \cup Permutations(Paths)
=============================================================================
