---------------------------- MODULE MCHistoryRoute ----------------------------
(* Small instances of HistoryRoute for TLC. *)
EXTENDS HistoryRoute, TLC

(* Two transactions of one block, and of two. *)
OneOrTwoBlocks == {<<1, 1>>, <<1, 2>>}

(* Of two blocks: a stub leaves their order open just as one block does. *)
TwoBlocks == {<<1, 2>>}

(* Calls are interchangeable. *)
Symmetry == Permutations(Calls)
===============================================================================
