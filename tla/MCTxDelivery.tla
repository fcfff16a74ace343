----------------------------- MODULE MCTxDelivery -----------------------------
(* TLC instances of TxDelivery: transactions of one block and of two. *)
EXTENDS TxDelivery

OneTx == {<<1>>}
OneBlockEach == {<<1, 2>>}
TwoTxs == {<<1, 1>>, <<1, 2>>}
===============================================================================
