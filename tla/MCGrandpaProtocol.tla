------------------------- MODULE MCGrandpaProtocol -------------------------
(***************************************************************************)
(* Three honest voters and a Byzantine one, two rounds and a fork above    *)
(* the genesis.                                                            *)
(***************************************************************************)
EXTENDS GrandpaProtocol, FiniteSetsExt, TLC

CONSTANTS g, a, b, v1, v2, v3, v4

MCBlock == {g, a, b}
MCParent == [x \in {a, b} |-> g]
MCVoter == {v1, v2, v3, v4}
MCSetWeight == [S \in SUBSET MCVoter |-> Cardinality(S)]
VoterSymmetry == Permutations({v1, v2, v3})
=============================================================================
