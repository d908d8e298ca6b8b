------------------------------ MODULE Custody ------------------------------
(***************************************************************************)
(* What the connection channel promises to the features above it           *)
(* (SyncEngine.enqueue and applyCrdtOp): an operation handed to enqueue()  *)
(* stays in the custody of the channel until the partner's projector has   *)
(* applied it, the projector never applies anything else, and what it has  *)
(* applied stays applied.  Order is not promised, nor that an operation is *)
(* applied only once.                                                      *)
(***************************************************************************)
CONSTANT Op

VARIABLES
  custody,     \* accepted, not yet applied
  delivered    \* applied by the partner's projector

Init == custody = {} /\ delivered = {}

Accept(o) ==
  /\ o \notin custody \cup delivered
  /\ custody' = custody \cup {o}
  /\ UNCHANGED delivered

Deliver(o) ==
  /\ o \in custody
  /\ custody'   = custody \ {o}
  /\ delivered' = delivered \cup {o}

Next == \E o \in Op : Accept(o) \/ Deliver(o)

Spec == Init /\ [][Next]_<<custody, delivered>>

=============================================================================
