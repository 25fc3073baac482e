----------------------------- MODULE MCTxEvents -----------------------------
(* TxEvents on small instances. *)
EXTENDS TxEvents
=============================================================================
