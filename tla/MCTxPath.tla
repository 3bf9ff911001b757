------------------------------ MODULE MCTxPath ------------------------------
(* Model-checking instance of TxPath: a 4-byte TX ring, 3-byte MTU and    *)
(* write cap, writes of one or two bytes.                                 *)
EXTENDS TxPath

MCWriteLens == {1, 2}
=============================================================================
