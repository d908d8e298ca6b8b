------------------------------ MODULE MCNotes ------------------------------
(* Values for the constants of Notes. *)
EXTENDS Notes, TLC
CONSTANTS n1, n2

NotesAlike == Permutations(Note)
=============================================================================
