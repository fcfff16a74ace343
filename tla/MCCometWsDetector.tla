-------------------------- MODULE MCCometWsDetector --------------------------
(* Small instances of CometWsDetector for TLC. *)
EXTENDS CometWsDetector, TLC

Symmetry == Permutations(Wallets) \cup Permutations(Reconciles)
==============================================================================
