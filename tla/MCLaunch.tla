------------------------------ MODULE MCLaunch ------------------------------
(* Two migrations, of two statements and of one. *)
EXTENDS Launch

MCShipped == <<2, 1>>
=============================================================================
