----------------------------- MODULE MCPairing -----------------------------
(* Pairing takes its constants from the configuration. *)
EXTENDS Pairing
=============================================================================
