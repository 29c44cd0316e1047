---------------------------- MODULE MCPvfWorkers ----------------------------
(* Small instances of PvfWorkers.                                          *)
EXTENDS PvfWorkers, TLC

CONSTANTS j1, j2, j3, j4, c1, c2

Jobs == {j1, j2, j3, j4}
MCKind == j1 :> "Approval" @@ j2 :> "Backing" @@ j3 :> "Approval" @@ j4 :> "Backing"
MCCode == j1 :> c1 @@ j2 :> c2 @@ j3 :> c2 @@ j4 :> c1
=============================================================================
