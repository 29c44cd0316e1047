-------------------------------- MODULE Chain --------------------------------
(***************************************************************************)
(* The tree of block headers as GRANDPA sees it through the `Chain` and    *)
(* `Environment` interfaces (core/consensus/grandpa/chain.hpp): ancestry   *)
(* queries answered by the block tree.  A block stands for its             *)
(* `BlockInfo`, the pair of its hash and its number.                       *)
(***************************************************************************)
EXTENDS Integers, FiniteSets, Sequences

CONSTANTS
  Block,    \* the blocks there are
  Genesis,  \* the root of the tree
  Parent    \* parent hash of every other block

\* `std::nullopt` of an optional block.
CONSTANT None

\* The blocks from `b` down to the genesis, `b` first.
Path[b \in Block] ==
  IF b = Genesis THEN <<b>> ELSE <<b>> \o Path[Parent[b]]

\* Block number.
Number == [b \in Block |-> Len(Path[b]) - 1]

\* The ancestors of every block, itself included.
Ancestors == [b \in Block |-> {Path[b][i] : i \in 1 .. Len(Path[b])}]

\* EnvironmentImpl::hasAncestry: there is a direct chain from `base` to `block`.
HasAncestry(base, block) == base \in Ancestors[block]

\* The blocks are on one chain.
Comparable(a, b) == HasAncestry(a, b) \/ HasAncestry(b, a)

\* The blocks at or above every block.
Descendants == [b \in Block |-> {c \in Block : HasAncestry(b, c)}]

Subtree(b) == Descendants[b]

\* Of a set of blocks on one chain, the highest.
Highest(S) == CHOOSE b \in S : \A c \in S : Number[c] <= Number[b]

\* EnvironmentImpl::getAncestry on a chain that has both blocks: the hashes
\* from `block` down to `base`, both included.
GetAncestry(base, block) ==
  SubSeq(Path[block], 1, Number[block] - Number[base] + 1)

(***************************************************************************)
(* Every header but the genesis' names a parent, and following the parent  *)
(* links from a block ends: Path is the list of the blocks on the way.     *)
(***************************************************************************)
ASSUME ChainAssumption ==
  /\ Genesis \in Block
  /\ Parent \in [Block \ {Genesis} -> Block]
  /\ None \notin Block
  /\ Path \in [Block -> Seq(Block)]
  /\ \A b \in Block :
       Path[b] = IF b = Genesis THEN <<b>> ELSE <<b>> \o Path[Parent[b]]
=============================================================================
