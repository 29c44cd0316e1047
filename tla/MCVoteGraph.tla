---------------------------- MODULE MCVoteGraph ----------------------------
(***************************************************************************)
(* The vote graph over a chain g-a-b with two branches above b, and a      *)
(* branch of g:                                                            *)
(*                      c                                                  *)
(*            g - a - b <                                                  *)
(*             \        d                                                  *)
(*              f                                                          *)
(***************************************************************************)
EXTENDS VoteGraph

CONSTANTS g, a, b, c, d, f, v1, v2, v3, v4

MCBlock == {g, a, b, c, d, f}
MCParent == [x \in MCBlock \ {g} |->
               CASE x = a -> g [] x = b -> a [] x = c -> b
                 [] x = d -> b [] x = f -> g]
MCVoter == {v1, v2, v3, v4}
MCWeight == [v \in MCVoter |-> 1]
AllBallots == ({"precommit"} \X MCVoter) \cup {<<"prevote", v1>>}
VoterSymmetry == Permutations({v2, v3, v4})
=============================================================================
