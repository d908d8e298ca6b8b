------------------------------ MODULE Ratchet ------------------------------
(***************************************************************************)
(* The symmetric ratchet of the connection channel                         *)
(* (packages/connection-protocol/src/ratchet).  A device keeps, in one row *)
(* of its database, the counter of the next envelope it will seal and, for *)
(* the opposite direction, the counter of the next envelope it expects     *)
(* together with the message keys it stepped over.                         *)
(*                                                                         *)
(* A chain key is the image of the root under as many one-way steps as the *)
(* counter says, so the counter stands for the chain key, and "key n" for  *)
(* the message key derived from it.  A key that is neither ahead of recv   *)
(* nor in the cache cannot be recomputed.                                  *)
(***************************************************************************)
EXTENDS Integers, FiniteSets

CONSTANT MaxSkipped      \* MAX_SKIPPED_MESSAGE_KEYS (1000 in the code)

ASSUME MaxSkippedAssumption == MaxSkipped \in Nat

RatchetState == [send : Nat, recv : Nat, skipped : SUBSET Nat]

FreshRatchet == [send |-> 0, recv |-> 0, skipped |-> {}]

(* The state after sealing one envelope with key r.send. *)
Encrypted(r) == [r EXCEPT !.send = @ + 1]

(* Key n can still be derived: ahead on the chain, or kept aside. *)
KeyHeld(r, n) == n >= r.recv \/ n \in r.skipped

(* An envelope behind the chain needs its cached key; one at or ahead of   *)
(* it needs room in the cache for the keys in between.                     *)
Decryptable(r, n) ==
  IF n < r.recv
    THEN n \in r.skipped
    ELSE Cardinality(r.skipped) + (n - r.recv) <= MaxSkipped

(* Mutant: the keys that were stepped over are thrown away. *)
DecryptedForgetful(r, n) ==
  IF n < r.recv
    THEN [r EXCEPT !.skipped = @ \ {n}]
    ELSE [r EXCEPT !.recv = n + 1]

(* Mutant: a key taken from the cache is not removed from it. *)
DecryptedKeepsKey(r, n) ==
  IF n < r.recv
    THEN r
    ELSE [send |-> r.send, recv |-> n + 1, skipped |-> r.skipped \cup r.recv .. (n - 1)]

(* The state after opening envelope n, given Decryptable(r, n). *)
Decrypted(r, n) ==
  IF n < r.recv
    THEN [r EXCEPT !.skipped = @ \ {n}]
    ELSE [send |-> r.send, recv |-> n + 1, skipped |-> r.skipped \cup r.recv .. (n - 1)]

=============================================================================
