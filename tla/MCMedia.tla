------------------------------ MODULE MCMedia ------------------------------
(* A photo and a voice note. *)
EXTENDS Media, TLC
CONSTANTS photo, voice, t1, t2

TasksAlike == Permutations(Task)
=============================================================================
