------------------------------ MODULE Finality ------------------------------
(***************************************************************************)
(* What GRANDPA promises to the block tree: the finalized blocks are on    *)
(* one chain, and a finalized block stays finalized.                       *)
(***************************************************************************)
CONSTANTS
  Block,
  Comparable(_, _)  \* the blocks are on one chain

VARIABLE finalized

OneChain(S) == \A a, b \in S : Comparable(a, b)

Init == finalized \subseteq Block /\ OneChain(finalized)

Finalize ==
  /\ finalized' \subseteq Block
  /\ finalized \subseteq finalized'
  /\ OneChain(finalized')

Spec == Init /\ [][Finalize]_finalized
=============================================================================
