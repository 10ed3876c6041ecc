------------------------------- MODULE MCTxn -------------------------------
(* Two sessions and three transactions, the xid counter about to wrap.      *)
EXTENDS Txn

TwoPids == {101, 102}
OnePid == {102}
=============================================================================
