--------------------------- MODULE MCSynchronizer ---------------------------
(***************************************************************************)
(* Two branches above the genesis block, one for each peer:                *)
(*                          1                                              *)
(*                      0 <                                                *)
(*                          2 - 3                                          *)
(***************************************************************************)
EXTENDS Synchronizer

MCBlock == 0..3
MCParent == <<0, 0, 2>>
MCPeerBest == <<1, 3>>
=============================================================================
