----------------------------- MODULE MCChannel -----------------------------
(* Values for the constants of Channel: two callers on phone a that no     *)
(* guard keeps apart (a screen beside another one, or beside the ticker,   *)
(* whose cycle is a flush and then a pull), and the ticker of phone b.     *)
EXTENDS Channel, TLC

CONSTANTS o1, o2, o3, ta, sa, tb

BothWays == [o \in Op |-> IF o = o3 THEN "b" ELSE "a"]
PhoneOf  == [t \in Task |-> IF t = tb THEN "b" ELSE "a"]

(* o1 and o2 have one author, ta and sa one phone. *)
Alike == Permutations({o1, o2}) \cup Permutations({ta, sa})
=============================================================================
