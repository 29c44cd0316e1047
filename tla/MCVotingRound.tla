--------------------------- MODULE MCVotingRound ---------------------------
(***************************************************************************)
(* A round of four voters of weight one, v1 being this node and v4         *)
(* Byzantine, on the tree                                                  *)
(*                     b                                                   *)
(*            g - a - <                                                    *)
(*                     c                                                   *)
(***************************************************************************)
EXTENDS VotingRound

CONSTANTS g, a, b, c, v1, v2, v3, v4

MCBlock == {g, a, b, c}
MCParent == [x \in MCBlock \ {g} |-> IF x = a THEN g ELSE a]
MCVoter == {v1, v2, v3, v4}
MCSetWeight == [S \in SUBSET MCVoter |-> Cardinality(S)]

\* The previous round's estimate, finalized block and whether it can still
\* notify.  It starts as left by a completed round, or (MCPrevHop) by a hop.
Prev(candidate, finalized, grandpa) ==
  [candidate |-> candidate, finalized |-> finalized, grandpa |-> grandpa]
MCPrevStates == {Prev(a, g, FALSE), Prev(a, a, FALSE)}
MCPrevHop == {Prev(a, g, TRUE), Prev(g, g, FALSE), None}

\* Commits for `target` with the precommits of three voters, and of two.
Items(p2, p3, p4) == [v \in MCVoter |-> CASE v = v1 -> <<>> [] v = v2 -> p2
                                          [] v = v3 -> p3 [] v = v4 -> p4]
MCCommits == {[target |-> a, items |-> Items(<<b>>, <<b>>, <<a>>)],
              [target |-> b, items |-> Items(<<b>>, <<b>>, <<b>>)],
              [target |-> b, items |-> Items(<<>>, <<b>>, <<b>>)],
              [target |-> c, items |-> Items(<<c>>, <<>>, <<c>>)]}

MCBallot ==
  ({"prevotes"} \X {v2, v4} \X {b, c}) \cup {<<"prevotes", v3, b>>}
    \cup {<<"precommits", v2, a>>, <<"precommits", v3, b>>}
    \cup ({"precommits"} \X {v4} \X {b, c})
FewBallots ==
  ({"prevotes"} \X {v2, v3, v4} \X {b})
    \cup ({"precommits"} \X {v2, v3} \X {a})
CommitBallots ==
  FewBallots \cup {<<"prevotes", v1, b>>, <<"precommits", v1, a>>}
    \cup {<<"precommits", v4, c>>}

\* A voter that sees an equivocation and no commit; and the primary, after a
\* restart or a hop, with commits.
MCSetup ==
  {[primary |-> FALSE, prevs |-> MCPrevStates, ballots |-> MCBallot, commits |-> {}],
   [primary |-> TRUE, prevs |-> MCPrevHop, ballots |-> CommitBallots,
    commits |-> MCCommits]}
=============================================================================
