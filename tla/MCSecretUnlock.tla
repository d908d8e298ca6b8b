--------------------------- MODULE MCSecretUnlock ---------------------------
(* Values for the constants of SecretUnlock: a unlocks the secrets of b. *)
EXTENDS SecretUnlock, TLC

CONSTANTS x1, x2, n1, n2, p1, p2, OpsA, OpsB

UnlockerA == [x \in Attempt |-> "a"]
AuthorB   == [n \in Note |-> "b"]

Ops == [s \in Side |-> IF s = "a" THEN OpsA ELSE OpsB]

(* Neither attempts, notes nor prompts are told apart. *)
Alike == Permutations(Attempt) \cup Permutations(Note) \cup Permutations(Prompt)
=============================================================================
