-------------------------- MODULE MCTransactionPool --------------------------
(* Small instances of TransactionPool.                                     *)
EXTENDS TransactionPool

CONSTANTS t1, t2, t3, t4

Txs == {t1, t2, t3, t4}
Tags == 1 .. 4

\* t3 requires a tag of t1 and one of t2, and t4 one of t3.
MCRequired == t1 :> {} @@ t2 :> {} @@ t3 :> {1, 2} @@ t4 :> {3}
MCProvided == t1 :> {1} @@ t2 :> {2} @@ t3 :> {3} @@ t4 :> {4}

MCValidTill == t1 :> 2 @@ t2 :> 1 @@ t3 :> 1 @@ t4 :> 1
=============================================================================
