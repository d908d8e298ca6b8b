------------------------------ MODULE MCTicker ------------------------------
(* Channel with the ticker as the only caller on each phone, which is what *)
(* most theorems of ChannelProofs suppose.                                 *)
EXTENDS ChannelProofs

CONSTANTS o1, o2, o3, ta, tb

FromA      == [o \in Op |-> "a"]
BothWays   == [o \in Op |-> IF o = o3 THEN "b" ELSE "a"]
TickerHome == [t \in Task |-> IF t = tb THEN "b" ELSE "a"]

(* The callers given here are the ticker's.                                *)
ASSUME OneTicker == OneTaskPerSide
=============================================================================
