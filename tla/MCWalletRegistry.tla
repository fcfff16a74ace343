--------------------------- MODULE MCWalletRegistry ---------------------------
(* Small instances of WalletRegistry for TLC. *)
EXTENDS WalletRegistry, TLC

(* Calls are interchangeable, and so are the wallets an address check accepts. *)
Symmetry == Permutations(Calls) \cup Permutations(Wallets \ UnsafeWallets)
===============================================================================
