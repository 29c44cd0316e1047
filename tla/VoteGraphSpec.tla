--------------------------- MODULE VoteGraphSpec ---------------------------
(***************************************************************************)
(* What a round is promised by the queries of its vote graph               *)
(* (core/consensus/grandpa/vote_graph.hpp), stated over the block tree     *)
(* alone.  `nodes` are the blocks with a vote graph node, of which the     *)
(* base is the lowest; a condition is the set `S` of the blocks whose      *)
(* cumulative vote satisfies it.  VoteGraph.tla checks that the compressed *)
(* graph of the implementation answers so; the modules about rounds use    *)
(* these operators.                                                        *)
(***************************************************************************)
EXTENDS Chain

\* The blocks of the graph: its nodes and the blocks on its edges.
GraphBlocks(base, nodes) ==
  {b \in Subtree(base) : \E n \in nodes : HasAncestry(b, n)}

\* VoteGraph::findAncestor: the highest block at or below `b` in `S`.
AncestorIn(base, nodes, b, S) ==
  LET G == GraphBlocks(base, nodes)
      below == Ancestors[b] \cap G \cap S
  IN  IF b \notin G \/ below = {} THEN None ELSE Highest(below)

\* The nodes directly above the node `n`.
ChildNodes(nodes, n) ==
  {m \in nodes \cap Subtree(n) : nodes \cap Subtree(n) \cap Ancestors[m] = {n, m}} \ {n}

\* Where VoteGraph::findGhost ends when `cb` is on an edge and not in `S`: at
\* the node below it, or where at least two edges above that node part.
MergePoint(nodes, cb, S) ==
  LET start == Highest(nodes \cap Ancestors[cb])
      children == ChildNodes(nodes, start)
      shared == {b \in (Subtree(start) \cap S) \ nodes :
                   Cardinality(Subtree(b) \cap children) > 1}
  IN  IF start \in S THEN Highest({start} \cup shared) ELSE None

\* VoteGraph::findGhost: the highest block in `S` at or above `cb`.
GhostFrom(base, nodes, cb, S) ==
  LET G == GraphBlocks(base, nodes)
  IN  CASE cb \notin G \/ cb \in nodes \ S -> None
        [] cb \in G \cap S -> Highest(G \cap S \cap Subtree(cb))
        [] OTHER -> MergePoint(nodes, cb, S)
=============================================================================
