----------------------------- MODULE TriePruner -----------------------------
(***************************************************************************)
(* The pruner of states (TriePrunerImpl) between the block tree, which     *)
(* schedules what is to be pruned, the threads that execute blocks and     *)
(* register their states before they write them, and its own thread.       *)
(*                                                                         *)
(* A state is a trie of nodes that are stored under their hashes, so that  *)
(* states share what they have in common. The pruner counts the            *)
(* references to a node in memory only.                                    *)
(***************************************************************************)
EXTENDS CachedTree

CONSTANTS
  Node,         \* hashes of trie nodes
  Value,        \* hashes of values that are stored beside their node
  Kids,         \* Kids[n]: the children of n that are stored, in order
  ValueOf,      \* ValueOf[n]: the hashed value of n, or None
  Root,         \* Root[b]: the state root of block b
  ChildTries,   \* ChildTries[n]: the roots of child tries that a root n names
  Depth,        \* pruning_depth_, or Unlimited
  MaxJobs,      \* bound: blocks executed at the same time
  MaxFaults,    \* bound: restarts and executions that fail
  None

Unlimited == -1

\* The block number is a part of the state: no two states of a chain are equal
ASSUME TrieAssumption ==
  /\ Kids \in [Node -> Seq(Node)] /\ ValueOf \in [Node -> Value \cup {None}]
  /\ Root \in [Block -> Node] /\ ChildTries \in [Node -> Seq(Node)]
  /\ \A b \in Block : \A a \in Chain[b] \ {b} : Root[a] # Root[b]
  /\ Depth \in Nat \cup {Unlimited} /\ MaxJobs \in Nat /\ MaxFaults \in Nat
  /\ Value \cap Node = {}

VARIABLES
  tree,     \* the block tree; the finalized block is its root
  disk,     \* the nodes and values in the database
  saved,    \* TRIE_PRUNER_INFO_KEY: the last pruned block on disk
  pruner,   \* the members of TriePrunerImpl
  jobs,     \* blocks that are executed: what is still to be committed
  stored,   \* history: blocks whose state was written when they were added
  past      \* history: "restored", "orphaned", and the number of faults

vars == <<tree, disk, saved, pruner, jobs, stored, past>>

\* The nodes of the trie under each of S, and their values
RECURSIVE NodesFrom(_)
NodesFrom(S) ==
  LET more == S \cup UNION {ToSet(Kids[n]) : n \in S}
  IN  IF more = S THEN S ELSE NodesFrom(more)

WithValues(S) == S \cup ({ValueOf[n] : n \in S} \ {None})

Tries(b) == {Root[b]} \cup ToSet(ChildTries[Root[b]])
-----------------------------------------------------------------------------
(* addNewStateWith                                                         *)

\* One more reference to n. A node that is stored and has no count was there
\* before the pruner: it gets a reference more, and is never removed.
CountNode(p, n, d) ==
  IF p.refs[n] = 0 /\ ~p.thorough /\ n \in d
    THEN [p EXCEPT !.refs[n] = 2, !.immortal = @ \cup {n}]
    ELSE [p EXCEPT !.refs[n] = @ + 1]

CountValue(p, v, d) ==
  IF v = None THEN p
  ELSE [p EXCEPT !.values[v] =
          IF @ = 0 /\ ~p.thorough /\ v \in d THEN 2 ELSE @ + 1]

\* Depth first; below a node only if this is the first reference to it. The
\* children that are not in memory are read.
RECURSIVE AddNodes(_, _, _, _)
AddNodes(p, queued, memory, d) ==
  IF queued = <<>> THEN p
  ELSE LET n == Last(queued)
           q == CountNode(p, n, d)
           more == Front(queued) \o Kids[n]
       IN  CASE q.refs[n] # 1 -> AddNodes(q, Front(queued), memory, d)
             [] ToSet(Kids[n]) \subseteq d \cup memory ->
                  AddNodes(CountValue(q, ValueOf[n], d), more, memory, d)
             [] OTHER -> [CountValue(q, ValueOf[n], d) EXCEPT !.ok = FALSE]

\* The trie, then its child tries, as far as they are stored
AddNewState(p, root, memory, d) ==
  FoldLeft(LAMBDA q, c : IF q.ok /\ c \in d THEN AddNodes(q, <<c>>, {}, d) ELSE q,
           AddNodes(p, <<root>>, memory, d), ChildTries[root])
-----------------------------------------------------------------------------
(* prune: gives the pruner and what the batch removes                      *)

\* Mutant: the value of a removed node is left
DropNodeOnly(r, n) ==
  [r EXCEPT !.p.refs[n] = 0, !.removed = @ \cup {n}]

\* The last reference to n is gone: n goes, and its value if n was the last
DropNode(r, n) ==
  LET v == ValueOf[n]
      lone == v # None /\ r.p.values[v] = 1
  IN  [r EXCEPT !.p.refs[n] = 0,
                !.p.values = [w \in Value |-> IF w = v /\ @[w] > 0 THEN @[w] - 1
                                              ELSE @[w]],
                !.removed = @ \cup {n} \cup (IF lone THEN {v} ELSE {})]

RECURSIVE PruneNodes(_, _)
PruneNodes(r, queued) ==
  IF queued = <<>> THEN r
  ELSE LET n == Last(queued)
           rest == Front(queued)
       IN  CASE r.p.refs[n] = 0 -> PruneNodes(r, rest)
             [] r.p.refs[n] > 1 \/ n \in r.p.immortal ->
                  PruneNodes([r EXCEPT !.p.refs[n] = @ - 1], rest)
             [] ToSet(Kids[n]) \subseteq disk ->
                  PruneNodes(DropNode(r, n), rest \o Kids[n])
             [] OTHER -> [DropNode(r, n) EXCEPT !.p.ok = FALSE]

\* Child tries first; a trie without its root is taken for pruned already
PruneTrie(p, root) ==
  FoldLeft(LAMBDA r, c : IF r.p.ok /\ c \in disk THEN PruneNodes(r, <<c>>) ELSE r,
           [p |-> p, removed |-> {}],
           IF root \in disk THEN Append(ChildTries[root], root) ELSE <<>>)
-----------------------------------------------------------------------------
(* The pruner's record of the states, made anew                            *)

\* getChildren: of a block in the tree, or the finalized child of one below
GetChildren(t, b) ==
  IF b \in t.nodes THEN Children(t, b)
  ELSE {c \in Chain[t.root] \ {Genesis} : Parent[c] = b}

\* The blocks from `base` up whose states are stored without a gap
Restorable(t, base, d) ==
  {b \in t.nodes \cup Chain[t.root] :
     /\ Descends(b, base)
     /\ \A c \in Chain[b] : Descends(c, base) => Root[c] \in d}

\* restoreStateAt; of the children of the last pruned block `base` is the first
\* one, the others are passed over
RestoreStateAt(p, t, last, base, d) ==
  LET cleared == [p EXCEPT !.refs = [n \in Node |-> 0]]
      added == FoldLeft(LAMBDA q, b : IF q.ok THEN AddNewState(q, Root[b], {}, d) ELSE q,
                        cleared, Ascending(Restorable(t, base, d)))
  IN  CASE base = None -> [cleared EXCEPT !.last = last]
        [] Root[base] \notin d -> cleared
        [] OTHER -> [added EXCEPT !.last = IF added.ok THEN last ELSE @]

\* The block restoreStateAt begins with
Bases(t, last) ==
  LET children == GetChildren(t, last)
  IN  IF children = {} THEN {None} ELSE children

NewPruner(thorough, last) ==
  [thorough |-> thorough, refs |-> [n \in Node |-> 0],
   values |-> [v \in Value |-> 0], immortal |-> {}, last |-> last,
   queue |-> <<>>, saving |-> None, ok |-> TRUE]

Idle == pruner.saving = None  \* mutex_ is free

Init ==
  /\ tree = NewTree(Genesis) /\ saved = None /\ jobs = {}
  /\ disk = WithValues(NodesFrom(Tries(Genesis)))
  /\ \E thorough \in BOOLEAN :
       pruner = AddNewState(NewPruner(thorough, None), Root[Genesis], {}, disk)
  /\ stored = {Genesis} /\ past = [events |-> {}, faults |-> 0]
-----------------------------------------------------------------------------
(* Execution of blocks, on worker threads                                  *)

\* The runtime begins from the state of the parent. Child tries that changed
\* are committed before the trie that names them. Of what is left as it was the
\* node may have `loaded` nothing, or everything.
Execute(b) ==
  /\ Cardinality(jobs) < MaxJobs
  /\ b \notin tree.nodes \cup {j.block : j \in jobs}
  /\ Parent[b] \in tree.nodes /\ Root[Parent[b]] \in disk
  /\ \E loaded \in BOOLEAN :
       jobs' = jobs \cup
         {[block |-> b, loaded |-> loaded, registered |-> FALSE,
           todo |-> Append(SelectSeq(ChildTries[Root[b]],
                             LAMBDA c : c \notin Tries(Parent[b])), Root[b])]}
  /\ UNCHANGED <<tree, disk, saved, pruner, stored, past>>

\* The nodes of the trie that the batch of the job has in memory, and writes
Memory(j) ==
  NodesFrom({Head(j.todo)})
    \ (IF j.loaded THEN {} ELSE NodesFrom(Tries(Parent[j.block])))

Orphaned == [past EXCEPT !.events = @ \cup {"orphaned"}]

\* PersistentTrieBatchImpl::commit registers the trie with the pruner
Register(j) ==
  LET p == AddNewState(pruner, Head(j.todo), Memory(j), disk)
  IN  /\ j.todo # <<>> /\ ~j.registered /\ Idle
      /\ pruner' = [p EXCEPT !.ok = TRUE]
      /\ jobs' = (jobs \ {j}) \cup
                   (IF p.ok THEN {[j EXCEPT !.registered = TRUE]} ELSE {})
      /\ past' = IF p.ok THEN past ELSE Orphaned
      /\ UNCHANGED <<tree, disk, saved, stored>>

\* and writes it after that
Write(j) ==
  /\ j.registered
  /\ disk' = disk \cup WithValues(Memory(j))
  /\ jobs' = (jobs \ {j}) \cup
               {[j EXCEPT !.registered = FALSE, !.todo = Tail(@)]}
  /\ UNCHANGED <<tree, saved, pruner, stored, past>>

\* addBlock, which fails when the parent has been removed meanwhile
AddBlock(j) ==
  /\ j.todo = <<>>
  /\ jobs' = jobs \ {j}
  /\ IF Parent[j.block] \in tree.nodes
       THEN /\ tree' = Add(tree, j.block).tree
            /\ stored' = stored \cup {j.block} /\ past' = past
       ELSE past' = Orphaned /\ UNCHANGED <<tree, stored>>
  /\ UNCHANGED <<disk, saved, pruner>>

\* The call of the runtime fails; what was committed stays
ExecutionFails(j) ==
  /\ past.faults < MaxFaults
  /\ jobs' = jobs \ {j}
  /\ past' = [Orphaned EXCEPT !.faults = @ + 1]
  /\ UNCHANGED <<tree, disk, saved, pruner, stored>>
-----------------------------------------------------------------------------
(* Finality, the thread of the pruner, restart and state sync              *)

Scheduled(blocks, why) ==
  [i \in DOMAIN blocks |-> [block |-> blocks[i], reason |-> why]]

\* Mutant: one block too many
StatesToPruneDeeper(f) ==
  SelectSeq(Ascending(Chain[f]), LAMBDA b :
    /\ Depth # Unlimited /\ Number(b) <= Number(f) - Depth
    /\ pruner.last # None => Number(b) > Number(pruner.last))

\* pruneTrie of the block tree: from the last pruned block, as the pruner has
\* it now, to the depth
StatesToPrune(f) ==
  SelectSeq(Ascending(Chain[f]), LAMBDA b :
    /\ Depth # Unlimited /\ Number(b) < Number(f) - Depth
    /\ pruner.last # None => Number(b) > Number(pruner.last))

\* finalize schedules the blocks it discards, then those that are too old
Finalize(f) ==
  LET changes == FinalizeTree(tree, f)
  IN  /\ Idle /\ f \in tree.nodes \ {tree.root}
      /\ tree' = changes.tree
      /\ pruner' = [pruner EXCEPT !.queue =
           @ \o Scheduled(changes.prune, "Discarded")
             \o Scheduled(StatesToPrune(f), "Finalized")]
      /\ UNCHANGED <<disk, saved, jobs, stored, past>>

\* pruneFinalized and pruneDiscarded, up to the commit of the batch
PruneQueuedState ==
  LET next == Head(pruner.queue)
      r == PruneTrie(pruner, Root[next.block])
  IN  /\ Idle /\ pruner.queue # <<>>
      /\ disk' = IF r.p.ok THEN disk \ r.removed ELSE disk
      /\ pruner' = [r.p EXCEPT !.ok = TRUE, !.queue = Tail(@),
           !.saving = IF r.p.ok /\ next.reason = "Finalized" THEN next.block ELSE None]
      /\ past' = IF r.p.ok THEN past ELSE Orphaned
      /\ UNCHANGED <<tree, saved, jobs, stored>>

\* The end of pruneFinalized: savePersistentState
SavePersistentState ==
  /\ ~Idle
  /\ pruner' = [pruner EXCEPT !.last = pruner.saving, !.saving = None]
  /\ saved' = pruner.saving
  /\ UNCHANGED <<tree, disk, jobs, stored, past>>

\* recoverState: what restoreStateAt may give
Recovered(p) ==
  LET last == IF saved = None THEN tree.root ELSE saved
  IN  IF saved = None /\ tree.best = Genesis
        THEN {AddNewState(p, Root[Genesis], {}, disk)}
        ELSE {RestoreStateAt(p, tree, last, base, disk) : base \in Bases(tree, last)}

\* A stop at any moment, and a start: prepare and recoverState. Without a last
\* pruned block a failure ends the start.
Restart ==
  /\ past.faults < MaxFaults
  /\ \E p \in Recovered(NewPruner(pruner.thorough, saved)) :
       /\ p.ok \/ saved # None
       /\ pruner' = [p EXCEPT !.ok = TRUE] /\ saved' = p.last
  /\ jobs' = {}
  /\ past' = [events |-> past.events \cup {"restored"}, faults |-> past.faults + 1]
  /\ UNCHANGED <<tree, disk, stored>>

\* A node without blocks has come to f by a warp sync and has loaded its state:
\* addNewState of the synchronizer, then restoreStateAtFinalized
SyncState(f) ==
  LET d == disk \cup WithValues(NodesFrom(Tries(f)))
      added == AddNewState(pruner, Root[f], {}, d)
  IN  /\ stored = {Genesis} /\ jobs = {} /\ Idle
      /\ disk' = d /\ tree' = NewTree(f)
      /\ pruner' = RestoreStateAt(added, NewTree(f), f, None, d)
      /\ saved' = f /\ stored' = {Genesis, f}
      /\ past' = [past EXCEPT !.events = @ \cup {"restored"}]
      /\ UNCHANGED jobs

Next ==
  \/ \E b \in Block \ {Genesis} : Execute(b) \/ Finalize(b) \/ SyncState(b)
  \/ \E j \in jobs : Register(j) \/ Write(j) \/ AddBlock(j) \/ ExecutionFails(j)
  \/ PruneQueuedState \/ SavePersistentState \/ Restart

Spec == Init /\ [][Next]_vars
-----------------------------------------------------------------------------
StateOf(b) == WithValues(NodesFrom(Tries(b)))

\* The blocks whose state is in use: those of the tree, the finalized ones within
\* the depth, and those about to be added to the tree
InUse ==
  {b \in stored : \/ b \in tree.nodes
                  \/ /\ b \in Chain[tree.root]
                     /\ Depth = Unlimited \/ Number(b) >= Number(tree.root) - Depth}
    \cup {j.block : j \in {k \in jobs : k.todo = <<>>
                                         /\ Parent[k.block] \in tree.nodes}}

TypeOK ==
  /\ disk \subseteq Node \cup Value /\ saved \in Block \cup {None}
  /\ pruner.refs \in [Node -> Nat] /\ pruner.values \in [Value -> Nat]
  /\ pruner.immortal \subseteq Node /\ pruner.last \in Block \cup {None}
  /\ stored \subseteq Block

\* Every state in use is on disk. Does not hold with thorough pruning once the
\* counts were made anew, and no run has it: the states that restoreStateAt passes
\* over (the last finalized one, and the siblings of the first block above it)
\* share nodes with new ones, which are then counted as if they had them alone.
StatesInUseKept == \A b \in InUse : StateOf(b) \subseteq disk

\* A state that is in use is never pruned, not even in part, though states share
\* nodes, blocks are executed while others are pruned, a finalized block is
\* scheduled twice while the pruner is behind, and a restart forgets the counts.
\* With thorough pruning only as long as the counts were not made anew.
LiveStatesKept ==
  /\ TypeOK
  /\ (pruner.thorough => "restored" \notin past.events) => StatesInUseKept

\* What no state in use has is removed, once the queue is empty: as long as the
\* counts were not made anew and no block was executed in vain. Excepted are the
\* nodes that were there before the pruner, which are immortal unless pruning is
\* thorough, and child tries, which are counted when their own batch is
\* committed and again with the trie that names them.
NothingLeaks ==
  past.events = {} /\ pruner.queue = <<>> /\ jobs = {} =>
    disk \subseteq UNION {StateOf(b) : b \in InUse}
      \cup (IF pruner.thorough THEN {} ELSE StateOf(Genesis))
      \cup WithValues(NodesFrom(UNION {ToSet(ChildTries[n]) : n \in Node}))
=============================================================================
