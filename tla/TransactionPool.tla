--------------------------- MODULE TransactionPool ---------------------------
(***************************************************************************)
(* The transaction pool                                                    *)
(* (core/transaction_pool/impl/transaction_pool_impl.cpp).  The bans of    *)
(* pool_moderator_impl.cpp, which the pool never asks for, are left out.   *)
(*                                                                         *)
(* The pool is called from RPC threads, the network, offchain workers,     *)
(* block import and block production.  `pool_state_` is a SafeObject: what *)
(* runs in one exclusiveAccess or sharedAccess is one action, and the      *)
(* accesses of one call interleave with those of others.                   *)
(***************************************************************************)
EXTENDS Integers, FiniteSets, SequencesExt, TLC

CONSTANTS
  Tx,           \* transactions, by hash
  Tag,          \* what transactions require and provide
  Required,     \* required_tags of every transaction
  Provided,     \* provided_tags
  ValidTill,    \* valid_till, a block number
  Capacity,     \* limits_.capacity
  Submitter,    \* threads that submit transactions
  MaxBlock      \* bound: the highest block for which removeStale is called

VARIABLES
  pool,    \* pool_state_
  calls,   \* where each submitter is in its call
  stale    \* the hashes removeStale is about to remove

vars == <<pool, calls, stale>>

(***************************************************************************)
(* Tags are made of nonces: a transaction requires earlier ones than it    *)
(* provides.                                                               *)
(***************************************************************************)
ASSUME TagAssumption ==
  /\ Tag \subseteq Nat
  /\ \A t \in Tx : /\ Required[t] \subseteq Tag /\ Provided[t] \subseteq Tag
                   /\ \A r \in Required[t], p \in Provided[t] : r < p

Ready(st) == DOMAIN st.ready
Imported(st) == st.pending \cup Ready(st)
Idle == [at |-> "idle"]

\* A set of transactions in the order in which the hash map lists them.
Listed(S, order) == SelectSeq(order, LAMBDA t : t \in S)

-----------------------------------------------------------------------------
(* The dependency graph                                                    *)

\* Mutant: only a transaction without requirements is ready at once.
IsReadyAlone(st, tx) == Required[tx] = {}

IsReady(st, tx) == Required[tx] \subseteq st.provided

ClearDependents(st, tag) == [st EXCEPT !.dependents[tag] = {}]

\* setReady: `tx` provides its tags, and a dependent that has all it requires
\* is set ready in turn.
RECURSIVE SetReady(_, _, _)
SetReady(st, tx, order) ==
  LET Trigger(s, dependent) ==
        LET t == [s EXCEPT !.ready[tx] = Append(@, dependent),
                           !.remains[dependent] = @ - 1]
        IN  IF t.remains[dependent] # 0 THEN t
            ELSE SetReady([t EXCEPT !.pending = @ \ {dependent}], dependent, order)
      Provide(s, tag) ==
        ClearDependents(FoldLeft(Trigger, [s EXCEPT !.provided = @ \cup {tag}],
                                 Listed(s.dependents[tag], order)),
                        tag)
  IN  IF tx \in Ready(st) THEN st
      ELSE FoldLeft(Provide, [st EXCEPT !.ready = @ @@ (tx :> <<>>)],
                    SetToSeq(Provided[tx]))

\* A new TxReadyState of `tx` in pending_txs_ and in the graph.
SetPending(st, tx) ==
  LET missing == Required[tx] \ st.provided
  IN  [st EXCEPT
         !.pending = @ \cup {tx},
         !.remains[tx] = Cardinality(missing),
         !.dependents = [tag \in Tag |-> IF tag \in missing THEN @[tag] \cup {tx}
                                                            ELSE @[tag]]]

ProcessTransaction(st, tx, order) ==
  IF IsReady(st, tx) THEN SetReady(st, tx, order) ELSE SetPending(st, tx)

\* Mutant: a tag that was not triggered is counted again.
RollbackPendingTwice(st, tx) ==
  LET missing == Required[tx] \ st.provided
  IN  [st EXCEPT
         !.remains[tx] = @ + Cardinality(missing),
         !.dependents = [tag \in Tag |-> IF tag \in missing THEN @[tag] \cup {tx}
                                                            ELSE @[tag]]]

\* rollback of a transaction that is pending.
RollbackPending(st, tx) ==
  LET missing == {tag \in Required[tx] \ st.provided : tx \notin st.dependents[tag]}
  IN  [st EXCEPT
         !.remains[tx] = @ + Cardinality(missing),
         !.dependents = [tag \in Tag |-> IF tag \in missing THEN @[tag] \cup {tx}
                                                            ELSE @[tag]]]

\* The provided tags of `tx` are not provided any more.
Withdraw(st, tx) == [st EXCEPT !.provided = @ \ Provided[tx]]

EraseReady(st, tx) ==
  [st EXCEPT !.ready = [t \in DOMAIN @ \ {tx} |-> @[t]]]

\* rollback: back to pending, and what `tx` triggered with it.
RECURSIVE Rollback(_, _)
Rollback(st, tx) ==
  CASE tx \in st.pending -> RollbackPending(st, tx)
    [] tx \in Ready(st) \ st.pending ->
         EraseReady(FoldLeft(Rollback, Withdraw(SetPending(st, tx), tx), st.ready[tx]),
                    tx)
    [] OTHER -> st

\* removeOne
RemoveFrom(st, tx) ==
  CASE tx \in st.pending ->
         [st EXCEPT !.pending = @ \ {tx},
                    !.dependents = [tag \in Tag |-> @[tag] \ {tx}]]
    [] tx \in Ready(st) \ st.pending ->
         EraseReady(FoldLeft(Rollback, Withdraw(st, tx), st.ready[tx]), tx)
    [] OTHER -> st

-----------------------------------------------------------------------------
Init ==
  /\ pool = [pending |-> {}, ready |-> <<>>, provided |-> {},
             dependents |-> [tag \in Tag |-> {}], remains |-> [t \in Tx |-> 0]]
  /\ calls = [s \in Submitter |-> Idle]
  /\ stale = <<>>

\* submitExtrinsic and submitOne: `imported`, under a lock of its own.  The
\* extrinsic is then validated, which may fail.
Submit(s, tx) ==
  /\ calls[s] = Idle
  /\ tx \notin Imported(pool)
  /\ calls' = [calls EXCEPT ![s] = [at |-> "count", tx |-> tx]]
  /\ UNCHANGED <<pool, stale>>

ConstructTransactionFails(s) ==
  /\ calls[s].at = "count"
  /\ calls' = [calls EXCEPT ![s] = Idle]
  /\ UNCHANGED <<pool, stale>>

\* Mutant: one too many.
IsFullAbove(st) == Cardinality(st.pending) + Cardinality(Ready(st)) > Capacity

IsFull(st) == Cardinality(st.pending) + Cardinality(Ready(st)) >= Capacity

\* submitOneInternal: the number of transactions, under another lock.
CheckCapacity(s) ==
  /\ calls[s].at = "count"
  /\ calls' = [calls EXCEPT ![s] = IF IsFull(pool) THEN Idle
                                   ELSE [@ EXCEPT !.at = "process"]]
  /\ UNCHANGED <<pool, stale>>

Process(s) ==
  /\ calls[s].at = "process"
  /\ \E order \in SetToSeqs(Tx) :
       pool' = ProcessTransaction(pool, calls[s].tx, order)
  /\ calls' = [calls EXCEPT ![s] = Idle]
  /\ UNCHANGED stale

\* Block import and block production remove what a block includes.
RemoveOne(tx) ==
  /\ tx \in Imported(pool)
  /\ pool' = RemoveFrom(pool, tx)
  /\ UNCHANGED <<calls, stale>>

-----------------------------------------------------------------------------
(* Stale transactions                                                      *)

\* removeStale collects under one lock what banIfStale bans.
CollectStale(number) ==
  /\ stale = <<>>
  /\ LET expired == {t \in Imported(pool) : ValidTill[t] <= number}
     IN  /\ expired # {}
         /\ stale' \in SetToSeqs(expired)
  /\ UNCHANGED <<pool, calls>>

\* It then removes one after another, and gives up at one that is not there.
RemoveStale ==
  /\ stale # <<>>
  /\ LET tx == Head(stale)
     IN  IF tx \in Imported(pool)
           THEN /\ pool' = RemoveFrom(pool, tx)
                /\ stale' = Tail(stale)
           ELSE stale' = <<>> /\ UNCHANGED pool
  /\ UNCHANGED calls

Next ==
  \/ \E s \in Submitter : \/ \E tx \in Tx : Submit(s, tx)
                          \/ ConstructTransactionFails(s)
                          \/ CheckCapacity(s) \/ Process(s)
  \/ \E tx \in Tx : RemoveOne(tx)
  \/ \E number \in 1 .. MaxBlock : CollectStale(number)
  \/ RemoveStale

Spec == Init /\ [][Next]_vars

-----------------------------------------------------------------------------
(* Properties                                                              *)

\* The members of PoolState; remains_required_txs_count stays within the
\* number of tags, so that the unsigned counter never wraps.
TypeOK ==
  /\ pool.pending \subseteq Tx /\ Ready(pool) \subseteq Tx
  /\ pool.provided \subseteq Tag
  /\ pool.dependents \in [Tag -> SUBSET Tx]
  /\ \A t \in Tx : pool.remains[t] \in 0 .. Cardinality(Tag)
  /\ \A s \in Submitter : calls[s].at \in {"idle", "count", "process"}

\* pending_txs_ holds weak pointers: a pending transaction lives as long as the
\* graph holds it.  It is held for exactly the tags its counter says, and none
\* of them is provided, however submissions, removals and rollbacks interleave.
\* And the graph holds no transaction that has left pending_txs_.
PendingIsHeld ==
  /\ TypeOK
  /\ \A t \in pool.pending :
       LET held == {tag \in Tag : t \in pool.dependents[tag]}
       IN  /\ held # {} /\ pool.remains[t] = Cardinality(held)
           /\ held \subseteq Required[t] \ pool.provided
  /\ \A tag \in Tag : pool.dependents[tag] \subseteq pool.pending

\* Concurrent submitters exceed the capacity by at most one transaction each
\* but the first: the check and the insertion are under different locks.
CapacityBound ==
  Cardinality(Imported(pool)) <= Capacity + Cardinality(Submitter) - 1

\* submitOne's comment: a transaction with "unresolved dependencies (requires
\* tags of transactions that are not in the pool yet)" waits "until its
\* dependencies are solved".  So it waits only while some tag it requires is
\* provided by no ready transaction.
WaitsForMissing ==
  \A t \in pool.pending :
    \E tag \in Required[t] : \A u \in Ready(pool) : tag \notin Provided[u]

\* removeOne and rollback assert that a pending transaction is not ready. Does
\* not hold with a capacity of 3, and no run has it: `imported` and the
\* insertion are under different locks, so that a transaction submitted twice
\* is inserted twice, as pending and as ready if a tag was provided between.
PendingNotReady == pool.pending \cap Ready(pool) = {}
=============================================================================
