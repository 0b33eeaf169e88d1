---------------------------- MODULE MCNonceStore ----------------------------
(* Small instances of NonceStore: c1 is registered; c2, where it is present, *)
(* has a key the broker does not know.                                      *)
EXTENDS NonceStore, TLC

CONSTANTS c1, c2, k1, k2, elevate, confirm

MCHolds    == [c \in Client |-> IF c = c1 THEN k1 ELSE k2]
MCRegistry == c1 :> k1

NonceSymmetry == Permutations(Nonce)
=============================================================================
