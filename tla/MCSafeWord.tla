----------------------------- MODULE MCSafeWord -----------------------------
(* Values for the constants of SafeWord. *)
EXTENDS SafeWord, TLC
CONSTANTS red, amber

(* The words are not told apart. *)
WordsAlike == Permutations(Word)
=============================================================================
