------------------------- MODULE JustificationQueue -------------------------
(***************************************************************************)
(* The queue between GRANDPA and the block tree                            *)
(* (core/consensus/grandpa/impl/verified_justification_queue.cpp): it      *)
(* holds verified justifications back until the scheduled changes of       *)
(* authorities before them are finalized, and fetches the missing ones.    *)
(*                                                                         *)
(* All of it runs on the main thread; an action is one callback.  GRANDPA  *)
(* finalizes one chain, so that blocks are their numbers and the blocks of *)
(* other forks are left out.  The authority manager is modelled by what it *)
(* answers on that chain.                                                  *)
(***************************************************************************)
EXTENDS Integers, Sequences, FiniteSetsExt

CONSTANTS
  Top,         \* bound: the highest block
  Scheduled,   \* blocks with a scheduled change of authorities
  Forced,      \* blocks with a forced change of authorities
  RangeStart,  \* kRangeStart
  WarpSync,    \* whether the sync method is Warp
  Idle         \* no fetch and no held justification

VARIABLES
  node,        \* the members of the queue, and the block tree it finalizes
  sync         \* Timeline: "headers" while a warp sync may run, "blocks" when
               \* blocks are imported, "done" once wasSynchronized

vars == <<node, sync>>

Blocks == 0 .. Top

(***************************************************************************)
(* A forced change takes effect after every scheduled change before it:    *)
(* none is cancelled.                                                      *)
(***************************************************************************)
ASSUME ChangeAssumption ==
  /\ Top \in Nat /\ RangeStart \in Nat /\ WarpSync \in BOOLEAN
  /\ Scheduled \subseteq 1 .. Top /\ Forced \subseteq 1 .. Top
  /\ Scheduled \cap Forced = {} /\ Idle \notin Blocks

-----------------------------------------------------------------------------
(* AuthorityManager                                                        *)

\* The id of the set that finalizes block `b`: the set a forced change names
\* is in force at its block, that of a scheduled change after it.
Authorities(b) ==
  Cardinality({c \in Scheduled : c < b}) + Cardinality({f \in Forced : f <= b})

\* The id of the set in force once `b` is finalized.
NextAuthorities(b) ==
  Cardinality({c \in Scheduled : c <= b}) + Cardinality({f \in Forced : f <= b})

\* The scheduled changes before `b` that the index leads to: it starts at the
\* genesis block, or at the block of a warp sync.
ScheduledBefore(st, b) == {c \in Scheduled : st.base <= c /\ c < b}

\* The first change above the finalized block.
PossibleScheduled(st) ==
  LET above == {c \in Scheduled \cup Forced : st.finalized < c /\ c <= st.best}
  IN  IF above = {} THEN <<>> ELSE <<Min(above)>>

-----------------------------------------------------------------------------
(* The operations of the queue                                             *)

\* The blocks of verified_, whose justifications wait for earlier ones.
Held(st) == {v.block : v \in st.verified}

\* BlockTree::finalize, which knows the blocks from the finalized one on.
\* After a scheduled change the next set is expected.
Finalize(st, b) ==
  IF b \notin st.finalized .. st.best THEN st
  ELSE [st EXCEPT !.finalized = b,
                  !.justified = @ \cup {b},
                  !.expected = IF b \in Scheduled THEN Authorities(b) + 1 ELSE @,
                  !.possible = <<>>]

\* One iteration of verifiedLoop.
ApplyVerified(st, v) ==
  LET erased == [st EXCEPT !.verified = @ \ {v}]
  IN  IF v.expected > st.expected THEN st
      ELSE IF v.expected = st.expected THEN Finalize(erased, v.block)
      ELSE erased

\* The iterations, from the lowest set that is held on.  The sets ascend with
\* the blocks, and with them what they expect: the iteration that stops is
\* followed by ones that do nothing.
Applied(st) ==
  LET upTo[b \in Blocks] ==
        LET before == IF b = 0 THEN st ELSE upTo[b - 1]
        IN  IF b \notin Held(st) THEN before
            ELSE ApplyVerified(before, CHOOSE v \in st.verified : v.block = b)
  IN  upTo

\* The end of verifiedLoop: the justification held for last.
ApplyLast(st) ==
  IF st.last = Idle \/ Authorities(st.last) > st.expected THEN st
  ELSE [(IF Authorities(st.last) < st.expected THEN st
         ELSE Finalize(st, st.last)) EXCEPT !.last = Idle]

VerifiedLoop(st) == ApplyLast(Applied(st)[Top])

\* fetchJustification and fetchJustificationRange ask a peer, if there is one.
Fetch(st, peer, kind, b) ==
  IF peer THEN [st EXCEPT !.fetching = [kind |-> kind, block |-> b, applied |-> FALSE]]
          ELSE st

RequiredLoop(st, peer) ==
  IF st.fetching # Idle \/ st.required = {} THEN st
  ELSE Fetch(st, peer, "required", Min(st.required))

RangeLoop(st, peer) ==
  LET range == Max({st.range, st.finalized + 1})
  IN  IF sync # "done" \/ st.best - st.finalized < RangeStart THEN st
      ELSE IF range > st.best THEN [st EXCEPT !.range = 0]
      ELSE Fetch([st EXCEPT !.range = range], peer, "range", range)

PossibleLoop(st, peer) ==
  LET possible == IF st.possible = <<>> THEN PossibleScheduled(st) ELSE st.possible
  IN  IF \/ st.fetching # Idle \/ st.required # {}
         \/ st.verified # {} \/ st.last # Idle
        THEN st
      ELSE IF possible = <<>> THEN RangeLoop(st, peer)
      ELSE Fetch([st EXCEPT !.possible = SubSeq(possible, 1, Len(possible) - 1)], peer,
                 "possible", possible[Len(possible)])

\* The justification of `b` does not wait for another.
Ready(st, b, peer) ==
  IF b \notin Scheduled THEN Finalize(st, b)
  ELSE PossibleLoop(RequiredLoop(VerifiedLoop(Finalize(st, b)), peer), peer)

\* The justification of `b` waits for those of the scheduled changes `parents`.
Hold(st, b, parents, peer) ==
  LET missing == {c \in parents : Authorities(c) >= st.expected} \ Held(st)
      asked == RequiredLoop([st EXCEPT !.required = @ \cup missing], peer)
  IN  IF b \in Scheduled
        THEN [asked EXCEPT !.verified =
                IF b \in Held(st) THEN @
                ELSE @ \cup {[block |-> b, expected |-> Authorities(Max(parents)) + 1]}]
        ELSE [asked EXCEPT !.last = IF @ = Idle \/ b > @ THEN b ELSE @]

\* Mutant: a later set is not told from the expected one.
IsReadyLate(st, b) == Authorities(b) >= st.expected

IsReady(st, b) ==
  \/ Authorities(b) = st.expected
  \/ LET parents == ScheduledBefore(st, b)
     IN  parents # {} /\ Authorities(Max(parents)) + 1 = st.expected

AddVerified(st, b, peer) ==
  LET erased == [st EXCEPT !.required = @ \ {b}]
      parents == ScheduledBefore(st, b)
  IN  IF Authorities(b) < st.expected \/ b <= st.finalized THEN st
      ELSE IF IsReady(st, b) THEN Ready(erased, b, peer)
      ELSE IF parents = {} THEN erased
      ELSE Hold(erased, b, parents, peer)

-----------------------------------------------------------------------------
Started(finalized, justified, base, best) ==
  [expected |-> NextAuthorities(finalized), verified |-> {}, last |-> Idle,
   required |-> {}, possible |-> <<>>, range |-> 0, fetching |-> Idle,
   finalized |-> finalized, justified |-> justified, base |-> base, best |-> best]

Init ==
  /\ node = Started(0, {}, 0, 0)
  /\ sync = "headers"

\* A block is imported: onHead.
NewHead(peer) ==
  /\ node.best < Top
  /\ node' = PossibleLoop([node EXCEPT !.best = @ + 1], peer)
  /\ sync' = IF sync = "headers" THEN "blocks" ELSE sync

Synchronized ==
  /\ sync = "blocks"
  /\ sync' = "done"
  /\ UNCHANGED node

\* GRANDPA finalizes a block: a round, a commit or a justification.
Verified(b, peer) ==
  /\ b \in 1 .. node.best
  /\ node' = AddVerified(node, b, peer)
  /\ UNCHANGED sync

\* What a callback does once fetching_ is reset.
Continue(st, kind, peer) ==
  LET next == RequiredLoop(st, peer)
  IN  IF kind = "required" THEN next ELSE PossibleLoop(next, peer)

\* Mutant: a block is not required any more when its fetch fails.
FetchFailsForgets(peer) ==
  /\ node.fetching # Idle
  /\ ~node.fetching.applied
  /\ node' = Continue([node EXCEPT !.fetching = Idle,
                                   !.required = @ \ {node.fetching.block}],
                      node.fetching.kind, peer)
  /\ UNCHANGED sync

\* The peer does not answer, has no justification (of a range: fetching goes
\* on at the same block), or a wrong one.
FetchFails(peer) ==
  /\ node.fetching # Idle
  /\ ~node.fetching.applied
  /\ node' = Continue([node EXCEPT !.fetching = Idle], node.fetching.kind, peer)
  /\ UNCHANGED sync

\* The justification of the answer is verified on the GRANDPA thread, which
\* posts addVerified and then the callback.  A range is answered with the
\* justification of some block.
FetchVerified(b, peer) ==
  /\ node.fetching # Idle
  /\ ~node.fetching.applied
  /\ b \in 1 .. node.best
  /\ node.fetching.kind = "range" \/ b = node.fetching.block
  /\ node' = AddVerified([node EXCEPT !.fetching.applied = TRUE], b, peer)
  /\ UNCHANGED sync

\* Mutant: fetching_ is not reset.
FetchDoneBusy(peer) ==
  /\ node.fetching # Idle
  /\ node.fetching.applied
  /\ node' = RequiredLoop([node EXCEPT !.required = @ \ {node.fetching.block}], peer)
  /\ UNCHANGED sync

FetchDone(peer) ==
  /\ node.fetching # Idle
  /\ node.fetching.applied
  /\ LET kind == node.fetching.kind
         st == [node EXCEPT !.fetching = Idle]
     IN  node' = CASE kind = "required" ->
                        RequiredLoop([st EXCEPT !.required = @ \ {node.fetching.block}], peer)
                   [] kind = "possible" -> RequiredLoop(st, peer)
                   [] kind = "range" -> Continue(st, kind, peer)
  /\ UNCHANGED sync

\* The process restarts with what the block tree has stored.
Restart ==
  /\ node' = Started(node.finalized, node.justified, node.base, node.best)
  /\ sync' = "headers"

\* WarpSync::applyInner: a justification of the set that is in force replaces
\* the block tree.  The members other than expected_ and required_ are kept.
Warp(b) ==
  /\ WarpSync /\ sync = "headers"
  /\ b \in node.finalized + 1 .. Top
  /\ Authorities(b) = NextAuthorities(node.finalized)
  /\ node' = [node EXCEPT !.finalized = b, !.justified = @ \cup {b},
                          !.base = b, !.best = b,
                          !.expected = NextAuthorities(b), !.required = {}]
  /\ UNCHANGED sync

Next ==
  \/ \E peer \in BOOLEAN :
       \/ NewHead(peer) \/ FetchFails(peer) \/ FetchDone(peer)
       \/ \E b \in Blocks : Verified(b, peer) \/ FetchVerified(b, peer)
  \/ Synchronized \/ Restart
  \/ \E b \in Blocks : Warp(b)

Spec == Init /\ [][Next]_vars

\* GRANDPA goes on finalizing, blocks are imported, and of the peers that are
\* asked again and again one has the justification.
Fairness ==
  /\ WF_vars(NewHead(TRUE)) /\ WF_vars(Verified(Top, TRUE))
  /\ WF_vars(\E peer \in BOOLEAN : FetchDone(peer))
  /\ SF_vars(\E b \in Blocks, peer \in BOOLEAN : FetchVerified(b, peer))

FairSpec == Spec /\ Fairness

-----------------------------------------------------------------------------
(* Properties                                                              *)

\* The members of VerifiedJustificationQueue: verified_ and required_ hold
\* scheduled changes, last_ a block without one, and the finalized block is a
\* block of the tree.
TypeOK ==
  /\ node.finalized \in Blocks /\ node.best \in node.finalized .. Top
  /\ node.base \in 0 .. node.finalized /\ node.range \in 0 .. Top
  /\ node.justified \subseteq 1 .. node.finalized
  /\ node.expected \in 0 .. Top
  /\ node.verified \subseteq [block : Scheduled, expected : 1 .. Top]
  /\ node.last \in {Idle} \cup (1 .. Top \ Scheduled)
  /\ node.required \subseteq Scheduled
  /\ node.fetching \in {Idle} \cup [kind : {"required", "possible", "range"},
                                   block : 1 .. Top, applied : BOOLEAN]
  /\ sync \in {"headers", "blocks", "done"}

\* "Finalize scheduled change after finalizing it's parent"
\* (i_verified_justification_queue.hpp): whatever the order in which
\* justifications come, and with restarts and warp syncs between them, the
\* justification of every scheduled change up to the finalized block is stored.
\* expected_ is kept apart from the block tree, and in step with it: it is at
\* least the set after the last finalized scheduled change, and not above the
\* set in force, so that the justification of the next block is never stale.
NoChangeSkipped ==
  LET changes == {c \in Scheduled : c <= node.finalized}
  IN  /\ TypeOK
      /\ changes \subseteq node.justified
      /\ node.expected <= NextAuthorities(node.finalized)
      /\ changes # {} => node.expected >= NextAuthorities(Max(changes))

\* Every forced change comes after a scheduled one, with no other in between.
ForcedApart ==
  \A f \in Forced : \E c \in Scheduled :
    c < f /\ \A d \in Forced : d <= c \/ f <= d

\* What requiredLoop fetches is still missing: it is above the finalized block
\* and its justification does not already wait in verified_.
\* While the justification of a scheduled change waits, something it waits for
\* is required: that is not forgotten when a fetch fails, and not the last to
\* leave the queue.  (A warp sync, after which base is not 0, clears required_
\* alone.  addVerified drops a justification that it does not expect when no
\* scheduled change comes before it, and holds one for nothing when a restart
\* came between two forced changes: hence ForcedApart.  last_ may stay behind
\* when a forced change comes before it: its set is above what is expected
\* until the next scheduled change.)
HeldIsAwaited ==
  /\ \A c \in node.required : c > node.finalized /\ c \notin Held(node)
  /\ node.base = 0 /\ ForcedApart =>
       \/ node.required # {}
       \/ /\ node.verified = {}
          /\ node.last # Idle => Forced \cap 1 .. node.last # {}

\* When GRANDPA goes on and some peer has the justifications that this node
\* missed, finality catches up, unless there was a warp sync: what the queue
\* held before it may keep it from fetching.
CatchesUp == <>(node.finalized = Top \/ node.base > 0)
=============================================================================
