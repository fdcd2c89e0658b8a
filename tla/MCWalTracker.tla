---------------------------- MODULE MCWalTracker ----------------------------
(* Instances of WalTracker for TLC. *)
EXTENDS WalTracker, TLC

CONSTANTS k1, k2, k3

MCKeys == {k1, k2, k3}
KeySymmetry == Permutations(MCKeys)
=============================================================================
