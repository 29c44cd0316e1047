------------------------------ MODULE BlockTree ------------------------------
(***************************************************************************)
(* The block tree over its storage (blockchain/impl/block_tree_impl.cpp    *)
(* and block_storage_impl.cpp), with warp sync (network/warp/sync.cpp) and *)
(* the recovery mode.                                                      *)
(*                                                                         *)
(* The database has no transactions here: every put and every remove is a  *)
(* write of its own. An operation changes the tree in memory and leaves a  *)
(* sequence of writes to be done; nobody else sees the tree until they are *)
(* done, since the operations hold its lock, but the process may stop      *)
(* between any two of them. What a restart finds is what was written.      *)
(*                                                                         *)
(* Left out: failures of the database, the state trie and its pruner,      *)
(* extrinsics and events (a finalization is told once, with `told`).       *)
(***************************************************************************)
EXTENDS CachedTree

CONSTANTS
  Goal,       \* GRANDPA finalizes blocks of the chain of this block only
  Kept,       \* blocks whose justification is kept (shouldStoreFor)
  Keep,       \* blocks_pruning_.keep_: bodies kept below the finalized block
  Reverts,    \* blocks that a dispute may revert
  Modes,      \* the modes a start may be in
  MaxStops,   \* how often the process stops, by a crash or on request
  None

ASSUME BlockTreeAssumption ==
  /\ Goal \in Block /\ Kept \subseteq Block /\ Genesis \in Kept
  /\ Reverts \subseteq Block
  /\ Modes \subseteq {"warp", "headers", "full", "recover"}
  /\ Keep \in Nat /\ MaxStops \in Nat

VARIABLES
  disk,   \* what is written: sets of blocks with a header, a body and a
          \* justification; number-to-hash records; the leaves and the first
          \* of them; the warp sync operation that is not finished
  tree,   \* the tree in memory; None if the process has stopped in an
          \* operation, what it was if it has stopped between two
  mode,   \* "down", or how the running process syncs
  todo,   \* writes to be done by the operation in progress
  next,   \* blocks_pruning_.next_
  told,   \* the last block whose finalization was told
  stops,
  past    \* what has happened that number-to-hash records do not recover from

vars == <<disk, tree, mode, todo, next, told, stops, past>>

Numbers == {Number(b) : b \in Block}
Up == mode # "down"
Idle == Up /\ todo = <<>>
FinalChain == Chain[Goal]
-----------------------------------------------------------------------------
(* The storage *)

\* One write. setBlockTreeLeaves writes the leaves in the order of an
\* unordered_map: any of them may be the first.
Written(d, w) ==
  LET what == w[1]
      x == w[2]
  IN  CASE what = "header" -> {[d EXCEPT !.header = @ \cup {x}]}
        [] what = "body" -> {[d EXCEPT !.body = @ \cup {x}]}
        [] what = "justification" -> {[d EXCEPT !.justification = @ \cup {x}]}
        [] what = "no body" -> {[d EXCEPT !.body = @ \ {x}]}
        [] what = "no body at" -> {[d EXCEPT !.body = @ \ {d.number[x]}]}
        [] what = "no justification" ->
             {[d EXCEPT !.justification = @ \ {x}]}
        [] what = "no header" -> {[d EXCEPT !.header = @ \ {x}]}
        [] what = "assign" -> {[d EXCEPT !.number[Number(x)] = x]}
        [] what = "deassign" -> {[d EXCEPT !.number[x] = None]}
        [] what = "deassign hash" ->
             {[d EXCEPT !.number[Number(x)] = IF @ = x THEN None ELSE @]}
        [] what = "leaves" ->
             {[d EXCEPT !.leaves = x, !.first = f] : f \in x}
        [] what = "warp" -> {[d EXCEPT !.warp = x]}
        [] OTHER -> {d}

Each(what, seq) == [i \in DOMAIN seq |-> <<what, seq[i]>>]

\* putBlock
PutBlock(b) == <<<<"header", b>>, <<"body", b>>>>

\* removeBlock, of a block whose header is there
RemoveBlock(b) ==
  <<<<"deassign hash", b>>, <<"no body", b>>, <<"no justification", b>>,
    <<"no header", b>>>>

\* reorgAndPrune
ReorgAndPrune(c) ==
  <<<<"leaves", c.tree.leaves>>>>
    \o Each("deassign",
            [i \in DOMAIN c.reorg.revert |-> Number(c.reorg.revert[i])])
    \o Each("assign", c.reorg.apply)
    \o FlattenSeq([i \in DOMAIN c.prune |-> RemoveBlock(c.prune[i])])

-----------------------------------------------------------------------------
(* The start: BlockTreeImpl::create and BlockStorageImpl::getLastFinalized *)

\* The highest block with a justification under the first leaf
LastFinalized(d) ==
  CHOOSE f \in Chain[d.first] :
    /\ f \in d.justification \cup {Genesis}
    /\ \A b \in Chain[d.first] \ Chain[f] : b \notin d.justification

\* The blocks from a leaf to the height of the finalized block
Subchain(leaf, f) == {b \in Chain[leaf] : Number(b) > Number(f)}

\* What create reads is there. A leaf without a header is an error:
\* loadLeaves passes over the error of the block tree, the storage returns
\* its own.
Loaded(d) ==
  LET f == LastFinalized(d)
  IN  /\ (Chain[d.first] \ Chain[f]) \cup {f} \subseteq d.header
      /\ \A leaf \in d.leaves : Subchain(leaf, f) \cup {leaf} \subseteq d.header

\* Leaves on a branch that the finalized block is not on, not lower than it
Orphaned(d, f) ==
  {leaf \in d.leaves : Number(leaf) >= Number(f) /\ ~Descends(leaf, f)}

\* The part of an orphaned branch at and under the finalized height, as far
\* as the headers of the branch and of the finalized chain are there
DeadFork(d, leaf, f) ==
  LET fork == {b \in Chain[leaf] \ Chain[f] : Number(b) <= Number(f)}
  IN  {b \in fork : \A c \in fork \ Chain[b] :
         /\ c \in d.header
         /\ \A m \in Chain[f] : Number(m) = Number(c) => m \in d.header}

\* The leaves are gone over in their order; one that meets a block observed
\* before leaves what it has collected as it is
Dead(d, f) ==
  UNION {Subchain(leaf, f) \cup DeadFork(d, leaf, f) :
           leaf \in {l \in Orphaned(d, f) :
              \A k \in Orphaned(d, f) :
                 Before(k, l) => Subchain(k, f) \cap Subchain(l, f) = {}}}

\* A mutant: only the branch of the highest leaf is loaded
CollectedHighest(d, f) ==
  Subchain(Ascending(d.leaves)[Cardinality(d.leaves)], f) \ Dead(d, f)

\* The blocks that are loaded
Collected(d, f) == UNION {Subchain(leaf, f) : leaf \in d.leaves} \ Dead(d, f)

\* Adding blocks to a tree one by one: the tree, and the writes of each.
\* A block whose parent is not in the tree is not added.
AddAll(t, S) ==
  LET step(acc, b) ==
        LET c == Add(acc.tree, b)
        IN  IF Parent[b] \notin acc.tree.nodes THEN acc
            ELSE [tree |-> c.tree,
                  todo |-> acc.todo \o ReorgAndPrune(c)]
  IN  FoldLeft(step, [tree |-> t, todo |-> <<>>], Ascending(S))

\* applyInner of warp sync
ApplyInner(b) ==
  <<<<"justification", b>>, <<"header", b>>, <<"assign", b>>,
    <<"leaves", {b}>>, <<"told", b>>, <<"warp", None>>>>

\* A mutant: one block too far
PruneEndLate(n) == IF n >= Keep THEN n + 1 - Keep ELSE 0

\* BlocksPruning::max
PruneEnd(n) == IF n > Keep THEN n - Keep ELSE 0
-----------------------------------------------------------------------------
(* Actions *)

Init ==
  /\ disk = [header |-> {Genesis}, body |-> {Genesis}, justification |-> {},
             number |-> [n \in Numbers |-> IF n = 0 THEN Genesis ELSE None],
             leaves |-> {Genesis}, first |-> Genesis, warp |-> None]
  /\ tree = NewTree(Genesis)
  /\ mode = "down" /\ todo = <<>> /\ next = 0 /\ told = Genesis
  /\ stops = 0 /\ past = {}

\* The process starts: the tree is made from the storage; an unfinished warp
\* sync operation is applied again (WarpSync::start)
Start ==
  /\ ~Up /\ Loaded(disk)
  /\ mode' \in Modes
  /\ LET f == LastFinalized(disk)
         dead == Dead(disk, f)
         all == AddAll(NewTree(f), Collected(disk, f))
     IN  /\ tree' = IF disk.warp = None THEN all.tree ELSE NewTree(disk.warp)
         /\ todo' = (IF dead = {} THEN <<>> ELSE <<<<"remove", dead>>>>)
                       \o all.todo
                       \o (IF disk.warp = None THEN <<>>
                           ELSE ApplyInner(disk.warp))
         /\ next' = PruneEnd(Number(f))
  /\ UNCHANGED <<disk, told, stops, past>>

\* The next write of the operation in progress. The blocks that create
\* removes are in an unordered_set.
Write ==
  /\ Up /\ todo # <<>>
  /\ LET w == Head(todo)
     IN  IF w[1] = "remove" /\ w[2] # {}
         THEN /\ \E b \in w[2] :
                  todo' = (IF b \in disk.header THEN RemoveBlock(b) ELSE <<>>)
                            \o <<<<"remove", w[2] \ {b}>>>> \o Tail(todo)
              /\ UNCHANGED <<disk, told>>
         ELSE /\ disk' \in Written(disk, w)
              /\ told' = IF w[1] = "told" THEN w[2] ELSE told
              /\ todo' = Tail(todo)
  /\ UNCHANGED <<tree, mode, next, stops, past>>

\* A crash, or a shutdown when no operation is in progress
Stop ==
  /\ Up /\ stops < MaxStops
  /\ stops' = stops + 1
  /\ mode' = "down" /\ todo' = <<>>
  /\ tree' = IF todo = <<>> THEN tree ELSE None
  /\ past' = past \cup {"stop"}
  /\ UNCHANGED <<disk, next, told>>

Has(b) == b \in tree.nodes \cup disk.header

\* appendHeader of a header that is not known yet, and addBlockHeader
AppendHeader(b) ==
  /\ Idle /\ mode = "headers"
  /\ ~Has(b) /\ Parent[b] \in tree.nodes
  /\ LET c == Add(tree, b)
     IN  /\ tree' = c.tree
         /\ todo' = <<<<"header", b>>>>
                       \o ReorgAndPrune(c)
  /\ UNCHANGED <<disk, mode, next, told, stops, past>>

\* applyBlock of a block that has not been executed, or a block of this
\* node's own, and addBlock
AddBlock(b) ==
  /\ Idle /\ mode = "full"
  /\ b \notin disk.body /\ Parent[b] \in tree.nodes
  /\ LET c == Add(tree, b)
     IN  /\ tree' = c.tree
         /\ todo' = PutBlock(b) \o ReorgAndPrune(c)
  /\ UNCHANGED <<disk, mode, next, told, stops, past>>

\* applyBlock of a block that has a body, and addExistingBlock: the branch it
\* is on is restored from the storage
AddExistingBlock(b) ==
  LET missing == Chain[b] \ UNION {Chain[n] : n \in tree.nodes}
  IN  /\ Idle /\ mode = "full"
      /\ b \in disk.body \ tree.nodes /\ Descends(b, tree.root)
      /\ Has(Parent[b]) /\ missing \ {b} \subseteq disk.header
      /\ LET all == AddAll(tree, missing)
         IN  tree' = all.tree /\ todo' = all.todo
      /\ UNCHANGED <<disk, mode, next, told, stops, past>>

\* The last part of finalize: the justification of the block finalized
\* before goes unless it has to be stored, and the bodies that are not kept
PurgeOld(f) ==
  (IF tree.root \in Kept \/ tree.root \notin disk.justification THEN <<>>
   ELSE <<<<"no justification", tree.root>>>>)
    \o [i \in 1..(PruneEnd(Number(f)) - next) |->
          <<"no body at", next + i - 1>>]

\* A mutant: the justification of the block finalized before goes first
FinalizePurgesFirst(f) ==
  /\ Idle /\ mode \in {"headers", "full"}
  /\ f \in (tree.nodes \cap FinalChain) \ {tree.root}
  /\ LET c == FinalizeTree(tree, f)
     IN  /\ tree' = c.tree
         /\ todo' = PurgeOld(f) \o <<<<"justification", f>>>>
                       \o ReorgAndPrune(c) \o <<<<"told", f>>>>
  /\ next' = Max({next, PruneEnd(Number(f))})
  /\ UNCHANGED <<disk, mode, told, stops, past>>

\* finalize of a block of the tree
Finalize(f) ==
  /\ Idle /\ mode \in {"headers", "full"}
  /\ f \in (tree.nodes \cap FinalChain) \ {tree.root}
  /\ LET c == FinalizeTree(tree, f)
     IN  /\ tree' = c.tree
         /\ todo' = <<<<"justification", f>>>> \o ReorgAndPrune(c)
                       \o <<<<"told", f>>>> \o PurgeOld(f)
  /\ next' = Max({next, PruneEnd(Number(f))})
  /\ UNCHANGED <<disk, mode, told, stops, past>>

\* finalize of a block under the last finalized one: its justification is
\* stored if it should be and is not there
FinalizeOld(f) ==
  /\ Idle /\ mode \in {"headers", "full"}
  /\ f \in (FinalChain \cap disk.header) \ tree.nodes
  /\ Number(f) < Number(tree.root) /\ disk.number[Number(f)] = f
  /\ f \in Kept \ disk.justification
  /\ todo' = <<<<"justification", f>>>>
  /\ UNCHANGED <<disk, tree, mode, next, told, stops, past>>

\* A dispute has concluded against a candidate included in b
MarkAsReverted(b) ==
  /\ Idle /\ mode = "full"
  /\ b \in (Reverts \cap tree.nodes) \ tree.reverted
  /\ tree' = RevertTree(tree, b)
  /\ past' = past \cup {"revert"}
  /\ UNCHANGED <<disk, mode, todo, next, told, stops>>

\* onResponse of warp sync: a verified proof of a block above the finalized
Warp(b) ==
  /\ Idle /\ mode = "warp"
  /\ b \in FinalChain /\ Number(b) > Number(tree.root)
  /\ tree' = NewTree(b)
  /\ todo' = <<<<"warp", b>>>> \o ApplyInner(b)
  /\ past' = past \cup {"warp"}
  /\ UNCHANGED <<disk, mode, next, told, stops>>

\* syncState: headers or proofs are loaded; without the state of the best
\* block the blocks that are not finalized are removed
StateLoading(has_state) ==
  /\ Idle /\ mode \in {"warp", "headers"}
  /\ mode' = "full"
  /\ IF has_state THEN UNCHANGED <<tree, todo>>
     ELSE LET c == RemoveUnfinalizedTree(tree)
          IN  tree' = c.tree /\ todo' = ReorgAndPrune(c)
  /\ UNCHANGED <<disk, next, told, stops, past>>

\* recover, one leaf at a time, from the highest. The finalized block itself
\* may be removed: its justification goes first, and what was told no longer
\* holds.
Recover ==
  LET b == Ascending(tree.leaves)[Cardinality(tree.leaves)]
      parent == Parent[b]
      c == IF b = tree.root
           THEN [tree |-> NewTree(parent), prune |-> <<b>>,
                 reorg |-> [revert |-> <<b>>, apply |-> <<>>]]
           ELSE RemoveLeafTree(tree, b)
  IN  /\ Idle /\ mode = "recover" /\ b \in disk.header \ {Genesis}
      /\ tree' = c.tree
      /\ todo' = <<<<"leaves", (tree.leaves \ {b}) \cup {parent}>>>>
                   \o (IF b = tree.root
                       THEN <<<<"no justification", b>>>> ELSE <<>>)
                   \o ReorgAndPrune(c)
      /\ told' = IF b = tree.root THEN Genesis ELSE told
      /\ UNCHANGED <<disk, mode, next, stops, past>>

Next ==
  \/ Start \/ Write \/ Stop \/ Recover
  \/ \E b \in Block \ {Genesis} :
       \/ AppendHeader(b) \/ AddBlock(b) \/ AddExistingBlock(b)
       \/ Finalize(b) \/ FinalizeOld(b) \/ MarkAsReverted(b) \/ Warp(b)
  \/ \E has_state \in BOOLEAN : StateLoading(has_state)

Spec == Init /\ [][Next]_vars
-----------------------------------------------------------------------------
(* What the tree answers *)

\* isFinalized
IsFinalized(b) == Number(b) <= Number(tree.root) /\ disk.number[Number(b)] = b

\* A mutant: the way that is meant for finalized blocks is taken always
HasDirectChainByNumber(a, d) ==
  \/ a = d
  \/ Number(d) >= Number(a) /\ disk.number[Number(a)] = a

\* hasDirectChain, of blocks with a header
HasDirectChain(a, d) ==
  \/ a = d
  \/ IF {a, d} \subseteq tree.nodes THEN Descends(d, a)
     ELSE /\ Number(d) >= Number(a)
          /\ IF d \in tree.nodes \/ IsFinalized(d) THEN IsFinalized(a)
             ELSE Descends(d, a) /\ Chain[d] \ Chain[a] \subseteq disk.header

\* getBestContaining, of a block with a header; None is an error
BestContaining(b) ==
  CASE b = tree.root -> tree.best
    [] b \in tree.nodes \ {tree.root} -> BestWith(tree, b)
    [] OTHER -> IF disk.number[Number(b)] = b THEN tree.best ELSE None

\* getChildren, of a block with a header
GetChildren(b) ==
  IF b \in tree.nodes THEN Children(tree, b) ELSE {disk.number[Number(b) + 1]}
-----------------------------------------------------------------------------
(* Properties *)

\* The blocks in memory are a tree over the finalized block with a best block
\* in it, and the records of the database name known blocks.
TypeOK ==
  /\ disk.header \cup disk.body \cup disk.justification \cup disk.leaves
       \subseteq Block
  /\ disk.number \in [Numbers -> Block \cup {None}]
  /\ disk.first \in disk.leaves /\ disk.warp \in Block \cup {None}
  /\ mode \in Modes \cup {"down", "full"}
  /\ Up => /\ tree.root \in tree.nodes /\ tree.best \in tree.nodes
           /\ tree.leaves \cup tree.reverted \subseteq tree.nodes
           /\ tree.nodes \subseteq Block
  /\ told \in Block /\ stops \in 0..MaxStops /\ next \in Nat

\* A finalization that has been told is not lost: wherever the process stops,
\* the tree made at the next start has a root at or above the block. The
\* writes of finalize, of warp sync and of the start are in an order that
\* leaves a justification under the first leaf at every moment. And it can
\* start: the leaves that are written have their headers, down to the finalized
\* block. (Of one stop this holds; a start after it that removes dead leaves
\* does not write the leaves, and a second stop may then leave one without a
\* header, see Loaded.)
ToldIsKept == IF Up THEN Descends(tree.root, told) ELSE Loaded(disk)

\* The leaves are the blocks without a child, and the best block is the
\* heaviest that is not reverted, after any sequence of additions,
\* finalizations, reversions, removals and restarts. getBestContaining gives a
\* block above the one asked for, of the tree or finalized before, and none that
\* is not reverted is heavier.
BestIsHeaviest ==
  /\ TypeOK
  /\ Up => /\ tree.leaves = {b \in tree.nodes : Children(tree, b) = {}}
           /\ \A b \in tree.nodes : Descends(b, tree.root)
           /\ tree.best \in tree.reverted => tree.best = tree.root
           /\ \A b \in tree.nodes \ tree.reverted : ~Heavier(b, tree.best)
  /\ Idle =>
       \A b \in tree.nodes \cup (IF past = {} THEN disk.header ELSE {}) :
         /\ Descends(BestContaining(b), b)
         /\ \A c \in tree.nodes \ tree.reverted :
              Descends(c, b) => ~Heavier(c, BestContaining(b))

\* hasDirectChain, which GRANDPA asks for every vote, is ancestry, and
\* getChildren gives the children that are stored, although they are answered
\* from the tree, from number-to-hash records or from headers, depending on
\* where the blocks are. For this the storage is what the tree says: the leaves
\* are the same, number-to-hash records are those of the best chain, and nothing
\* is stored but the finalized chain and the blocks of the tree.
AncestryIsExact ==
  Idle /\ past = {} =>
    /\ \A a \in disk.header :
         /\ \A d \in disk.header : HasDirectChain(a, d) <=> Descends(d, a)
         /\ GetChildren(a) = {c \in disk.header \ {Genesis} : Parent[c] = a}
    /\ disk.leaves = tree.leaves
    /\ \A n \in Numbers :
         disk.number[n] = IF n > Number(tree.best) THEN None
                          ELSE CHOOSE b \in Chain[tree.best] : Number(b) = n
    /\ disk.header = Chain[tree.root] \cup tree.nodes

\* The finalized blocks are found by their numbers, as pruneTrie asserts
\* (BOOST_ASSERT(hash_opt.has_value())) and getChildren, isFinalized and
\* hasDirectChain take for granted. Does not hold, and no run has it: after
\* markAsRevertedBlocks the best block changes without a reorganization of the
\* numbers, and a block of the new best chain may then be finalized.
FinalizedIsNumbered ==
  Idle => \A b \in Chain[tree.root] : disk.number[Number(b)] = b

\* A process that stops between two operations comes back with the blocks it
\* had and the same finalized block.
RestartRestoresTree ==
  [][~Up /\ Up' /\ tree # None /\ mode' # "recover" =>
       tree'.root = tree.root /\ tree'.nodes = tree.nodes]_vars

\* The body of a block in the tree, or of one of the last Keep blocks under
\* the finalized one, is never removed.
RecentBodiesKept ==
  [][\A b \in disk.body \ disk.body' :
       /\ b \notin tree'.nodes
       /\ b \in Chain[tree'.root] => Number(b) < Number(tree'.root) - Keep]_vars
=============================================================================
