----------------------------- MODULE CachedTree -----------------------------
(***************************************************************************)
(* The part of the block tree that is held in memory (CachedTree of        *)
(* blockchain/impl/cached_tree.cpp): the last finalized block as root,     *)
(* the blocks above it, the leaves, the best block, and the blocks that    *)
(* disputes have reverted. An operation gives the new tree and, as Reorg   *)
(* and prune, what the number-to-hash records and the stored blocks have   *)
(* to follow.                                                              *)
(*                                                                         *)
(* A block is a natural number; their order stands for the order of the    *)
(* hashes, which breaks ties between blocks of one height.                 *)
(***************************************************************************)
EXTENDS Integers, FiniteSets, Sequences, SequencesExt

CONSTANTS
  Block,    \* all blocks there may be
  Parent,   \* Parent[b]: the parent of b, for every block but Genesis
  Primary   \* blocks made in a primary slot, which weigh more

Genesis == 0

ASSUME TreeOfBlocks ==
  /\ Block \subseteq Nat /\ Genesis \in Block /\ IsFiniteSet(Block)
  /\ DOMAIN Parent = Block \ {Genesis}
  /\ \A b \in Block \ {Genesis} : Parent[b] \in Block /\ Parent[b] < b
  /\ Primary \subseteq Block

\* b and the blocks below it
Chain[b \in Block] ==
  {b} \cup (IF b = Genesis THEN {} ELSE Chain[Parent[b]])

Number(b) == Cardinality(Chain[b]) - 1

Descends(b, a) == a \in Chain[b]

\* TreeNode::weight, compared as BlockWeight: primary blocks first, then height
Heavier(a, b) ==
  LET p(x) == Cardinality(Chain[x] \cap Primary)
  IN  p(a) > p(b) \/ (p(a) = p(b) /\ Number(a) > Number(b))

\* The order of BlockInfo: height, then hash
Before(a, b) == Number(a) < Number(b) \/ (Number(a) = Number(b) /\ a < b)

Ascending(S) == SetToSortSeq(S, Before)
Descending(S) == Reverse(Ascending(S))
-----------------------------------------------------------------------------
NewTree(b) ==
  [root |-> b, best |-> b, nodes |-> {b}, leaves |-> {b}, reverted |-> {}]

Children(t, b) == {c \in t.nodes \ {t.root} : Parent[c] = b}

\* What the number-to-hash records follow when `to` takes the place of `from`
Reorg(from, to) ==
  [revert |-> Descending(Chain[from] \ Chain[to]),
   apply |-> Ascending(Chain[to] \ Chain[from])]

NoReorg == [revert |-> <<>>, apply |-> <<>>]

\* The heaviest block of S; the greatest hash among equals
Heaviest(S) ==
  CHOOSE b \in S : \A c \in S \ {b} :
    Heavier(b, c) \/ (~Heavier(c, b) /\ b > c)

\* A mutant: reverted leaves are still candidates
RefreshBestAny(t) == [t EXCEPT !.best = Heaviest(t.nodes)]

\* forceRefreshBest: from the leaves down, past reverted blocks
RefreshBest(t) ==
  [t EXCEPT !.best = Heaviest((t.nodes \ t.reverted) \cup {t.root})]

\* add; a block above a reverted one is reverted as well (TreeNode)
Add(t, b) ==
  LET reverted == Parent[b] \in t.reverted
      better == ~reverted /\ Heavier(b, t.best)
  IN  IF b \in t.nodes THEN [tree |-> t, reorg |-> NoReorg, prune |-> <<>>]
      ELSE [tree |-> [t EXCEPT
                        !.nodes = @ \cup {b},
                        !.leaves = (@ \ {Parent[b]}) \cup {b},
                        !.best = IF better THEN b ELSE @,
                        !.reverted = IF reverted THEN @ \cup {b} ELSE @],
            reorg |-> IF better THEN Reorg(t.best, b) ELSE NoReorg,
            prune |-> <<>>]

\* The blocks that finalizing f leaves out, in the reverse of the order in
\* which the queue meets them: by the distance from the finalized chain
Prune(t, f) ==
  LET distance(b) == Cardinality(Chain[b] \ Chain[f])
  IN  SetToSortSeq({b \in t.nodes : ~Descends(b, f) /\ ~Descends(f, b)},
        LAMBDA a, b : \/ distance(a) > distance(b)
                      \/ distance(a) = distance(b) /\ Before(a, b))

Rooted(t, f) ==
  LET kept == {b \in t.nodes : Descends(b, f)}
  IN  [t EXCEPT !.root = f, !.nodes = kept, !.leaves = @ \cap kept,
                !.reverted = @ \cap kept]

\* finalize; when the best block is on another branch it is chosen again
FinalizeTree(t, f) ==
  IF Descends(t.best, f)
  THEN [tree |-> Rooted(t, f), reorg |-> NoReorg, prune |-> Prune(t, f)]
  ELSE LET u == RefreshBest(Rooted(t, f))
       IN  [tree |-> u, reorg |-> Reorg(t.best, u.best), prune |-> Prune(t, f)]

\* removeLeaf, of a leaf other than the root
RemoveLeafTree(t, b) ==
  LET without == [t EXCEPT
        !.nodes = @ \ {b},
        !.leaves = (@ \ {b}) \cup
                     (IF Children(t, Parent[b]) = {b} THEN {Parent[b]} ELSE {}),
        !.reverted = @ \ {b}]
      u == IF t.best = b THEN RefreshBest(without) ELSE without
  IN  [tree |-> u, reorg |-> Reorg(t.best, u.best), prune |-> <<b>>]

\* removeUnfinalized; the root is made anew
RemoveUnfinalizedTree(t) ==
  [tree |-> NewTree(t.root), reorg |-> Reorg(t.best, t.root),
   prune |-> Descending(t.nodes \ {t.root})]

\* markAsRevertedBlocks: b and all that is above it
RevertTree(t, b) ==
  LET u == [t EXCEPT !.reverted = @ \cup {c \in t.nodes : Descends(c, b)}]
  IN  IF t.best \in u.reverted \ t.reverted THEN RefreshBest(u) ELSE u

\* bestWith: the heaviest block above `required`, past reverted ones
BestWith(t, required) ==
  Heaviest({b \in t.nodes \ t.reverted : Descends(b, required)}
             \cup {required})
=============================================================================
