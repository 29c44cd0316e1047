---------------------------- MODULE MCBlockTree ----------------------------
(***************************************************************************)
(* Two branches above the genesis block 0. Block 1 is primary, so that its *)
(* branch is the better one until GRANDPA finalizes the other:             *)
(*                                                                         *)
(*                     1 - 3                                               *)
(*                   /                                                     *)
(*                 0 - 2 - 4 - 5                                           *)
(***************************************************************************)
EXTENDS BlockTree

MCBlock == 0..5
MCParent == <<0, 0, 1, 2, 4>>
=============================================================================
