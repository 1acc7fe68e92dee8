------------------------- MODULE MCDocumentSession -------------------------
(* Small instances of DocumentSession. *)
EXTENDS DocumentSession, TLC

\* Folders and file names are interchangeable (no action tells one from another).
\* Used by the run without a liveness property only.
Symmetry == Permutations(Roots) \cup Permutations(Files)
=============================================================================
