------------------------------ MODULE MCBeefy ------------------------------
(***************************************************************************)
(* Five blocks. The pallet appears with block 1, its genesis is set again  *)
(* to block 2, and block 3 changes the validators.                         *)
(***************************************************************************)
EXTENDS Beefy

MCDigest == 3 :> 1
MCGenesis == [b \in 0 .. 5 |-> IF b = 0 THEN Nothing ELSE IF b = 1 THEN 1 ELSE 2]
MCValidator == [set \in 0 .. 1 |-> IF set = 0 THEN {"self", "b"} ELSE {"self", "b", "c", "w"}]
=============================================================================
