---------------------------- MODULE Synchronizer ----------------------------
(***************************************************************************)
(* How a node catches up with its peers: the queue of loaded blocks, the   *)
(* requests to peers and the switch from headers to full blocks            *)
(* (network/impl/synchronizer_impl.cpp), driven by the sync state of the   *)
(* timeline (consensus/timeline/impl/timeline_impl.cpp).                   *)
(*                                                                         *)
(* Handlers run one at a time on the main thread; between a request and    *)
(* its response, and between the start and the end of the execution of a   *)
(* block (on a worker thread), anything else may happen. The best chain of *)
(* a peer ends at PeerBest[p]; a peer that was still growing has told of   *)
(* any lower block of it. Finalization comes from outside, at any moment.  *)
(*                                                                         *)
(* Time is a choice. A request is refused when the same one is remembered  *)
(* (recent_requests_, for a minute) and a load also when one from a higher *)
(* block has just started (load_blocks_max_, for five seconds). Both have  *)
(* the same effect: of requests that have been answered, each may still be *)
(* remembered or not. `refused` are the peers to which a handler cannot    *)
(* send its request for this reason.                                       *)
(***************************************************************************)
EXTENDS CachedTree

CONSTANTS
  Peer,         \* peers, as naturals: their order is the order of peer ids
  PeerBest,     \* PeerBest[p]: the best block of peer p
  Recent,       \* blocks of the current or the previous slot
  Final,        \* blocks that GRANDPA may finalize
  Portion,      \* the most blocks in a response
  Preload,      \* kMinPreloadedBlockAmount
  MaxParallel,  \* max_parallel_downloads_
  Methods,      \* the sync methods the node may be started with
  Fetches,      \* other requests to peers: "justification", "headers"
  MaxRequests,  \* requests in flight up to which peers announce blocks
  MaxTasks,     \* scheduled calls of applyNextBlock that are told apart
  MaxFaults     \* requests and executions that fail, responses cut short

ASSUME SynchronizerAssumption ==
  /\ Peer \subseteq Nat /\ IsFiniteSet(Peer)
  /\ PeerBest \in [Peer -> Block]
  /\ Recent \subseteq Block
  /\ Final \subseteq Block
  /\ \A n \in {Portion, Preload, MaxParallel, MaxRequests, MaxTasks} :
       n \in Nat \ {0}
  /\ MaxFaults \in Nat
  /\ Methods \subseteq {"full", "fast"}
  /\ Fetches \subseteq {"justification", "headers"}

VARIABLES
  q,         \* the synchronizer
  timeline,  \* current_state_ and was_synchronized_ of the timeline
  tree,      \* the block tree in memory
  executed,  \* blocks that are stored with their state
  faults     \* how many failures so far, and whether a response was cut

vars == <<q, timeline, tree, executed, faults>>

NoBlock == -1

(***************************************************************************)
(* q.known          known_blocks_, with the peers that have each of them   *)
(* q.bare           those of them that came without a body                 *)
(* q.generations    generations_, q.ancestry ancestry_                     *)
(* q.watched        watched_blocks_, q.height watched_blocks_number_       *)
(* q.asking         asking_blocks_portion_in_progress_                     *)
(* q.busy           busy_peers_                                            *)
(* q.loading        load_blocks_                                           *)
(* q.requests       requests that are not answered yet                     *)
(* q.tasks          scheduled calls of applyNextBlock                      *)
(* q.applying       blocks given to the executor                           *)
(* q.method         sync_method_, q.stateSync state_sync_                  *)
(* q.dead           an exception nobody catches has ended the process      *)
(***************************************************************************)
Enqueued(s) == DOMAIN s.known

\* BlockTree::has: unfinalized blocks and the finalized chain
Stored(t) == t.nodes \cup Chain[t.root]

IsKnown(s, t, b) == b \in Enqueued(s) \/ b \in Stored(t)

\* One more call of applyNextBlock is scheduled
OneMore(tasks) == IF tasks < MaxTasks THEN tasks + 1 ELSE tasks

Finalized(t) == Number(t.root)

MinOf(S) == CHOOSE x \in S : \A y \in S : x <= y
MaxOf(S) == CHOOSE x \in S : \A y \in S : y <= x

\* The block at height n of the chain of p; NoBlock above its head
At(p, n) ==
  LET found == {b \in Chain[PeerBest[p]] : Number(b) = n}
  IN  IF found = {} THEN NoBlock ELSE CHOOSE b \in found : TRUE

\* The order of generations_ from below, and from above
Lowest(S) == CHOOSE b \in S : \A c \in S \ {b} : Before(b, c)
Highest(S) == CHOOSE b \in S : \A c \in S \ {b} : Before(c, b)

Fresh(m) ==
  [known |-> <<>>, bare |-> {}, generations |-> {}, ancestry |-> {},
   watched |-> {}, height |-> 0, asking |-> FALSE, busy |-> {},
   loading |-> [b \in Block |-> 0], requests |-> {}, tasks |-> 0,
   applying |-> {}, method |-> m, stateSync |-> NoBlock, dead |-> FALSE]

\* An exception that nobody catches: nothing of it is left
Dead == [Fresh("full") EXCEPT !.dead = TRUE]

Init ==
  \E m \in Methods :
    /\ q = Fresh(m)
    /\ timeline = [state |-> IF m = "full" THEN "WAIT_REMOTE_STATUS"
                                           ELSE "HEADERS_LOADING",
                   synchronized |-> FALSE]
    /\ tree = NewTree(Genesis)
    /\ executed = {Genesis}
    /\ faults = [count |-> 0, cut |-> FALSE]
-----------------------------------------------------------------------------
(***************************************************************************)
(* Requests. `use` says whose callback waits: "catchup" for the search of  *)
(* syncByBlockInfo, "ask" for askNextPortionOfBlocks, "load" for a load    *)
(* with a callback that only logs.                                         *)
(***************************************************************************)
Fingerprint(r) ==
  <<r.peer, r.kind, IF r.kind = "find" THEN r.target ELSE r.from, r.body>>

InFlight(s) == {Fingerprint(r) : r \in s.requests}

\* A mutant: the flag stays when the search has failed
EndedKeepsAsking(s, p, use) ==
  [s EXCEPT !.busy = IF use = "load" THEN @ ELSE @ \ {p}]

\* What the callbacks do at the end of a search or of a load
Ended(s, p, use) ==
  [s EXCEPT !.busy = IF use = "load" THEN @ ELSE @ \ {p},
            !.asking = IF use = "ask" THEN FALSE ELSE @]

\* fetch of one header by number, with the check for recent requests
FindCommonBlock(s, p, lower, upper, hint, observed, use, refused) ==
  LET r == [kind |-> "find", peer |-> p, lower |-> lower, upper |-> upper,
            target |-> hint, observed |-> observed, body |-> FALSE,
            use |-> use]
  IN  IF p \in refused \/ Fingerprint(r) \in InFlight(s)
      THEN Ended(s, p, use)
      ELSE [s EXCEPT !.requests = @ \cup {r}]

LoadBlocks(s, p, from, use, refused) ==
  LET r == [kind |-> "load", peer |-> p, from |-> from,
            body |-> s.method = "full", use |-> use]
  IN  IF \/ p \in refused \/ Fingerprint(r) \in InFlight(s)
         \/ s.loading[from] >= MaxParallel
      THEN Ended(s, p, use)
      ELSE [s EXCEPT !.loading[from] = @ + 1, !.requests = @ \cup {r}]

\* syncByBlockInfo; ran is its result
SyncByBlockInfo(s, b, p, refused) ==
  LET least == IF Number(b) < Number(tree.best) THEN Number(b)
                                                ELSE Number(tree.best)
  IN  IF b = tree.best THEN [q |-> s, ran |-> FALSE]
      ELSE IF b \in Enqueued(s)
      THEN [q |-> [s EXCEPT !.known[b] = @ \cup {p}], ran |-> FALSE]
      ELSE IF p \in s.busy THEN [q |-> s, ran |-> FALSE]
      ELSE [q |-> FindCommonBlock([s EXCEPT !.busy = @ \cup {p}], p,
                    Finalized(tree), least + 1, least, {}, "catchup", refused),
            ran |-> TRUE]

\* The peers of b that can be asked
Free(s, b) == s.known[b] \ s.busy

\* askNextPortionOfBlocks: the highest known block that has a free peer
AskNextPortion(s, refused) ==
  LET candidates == {b \in s.generations \cap Enqueued(s) : Free(s, b) # {}}
      b == Highest(candidates)
      p == MinOf(Free(s, b))
      marked == [s EXCEPT !.asking = TRUE, !.busy = @ \cup {p},
                          !.known[b] = @ \ {p}]
      heights == {Number(c) : c \in s.generations}
  IN  IF s.asking \/ candidates = {} THEN s
      ELSE IF s.method = "full"
      THEN FindCommonBlock(marked, p, MinOf(heights), MaxOf(heights) + 1,
                           MaxOf(heights), {}, "ask", refused)
      ELSE LoadBlocks(marked, p, b, "ask", refused)
-----------------------------------------------------------------------------
(***************************************************************************)
(* The search of the best common block. The answers are blocks of one      *)
(* chain: a height says which block it is.                                 *)
(***************************************************************************)
\* A mutant: the height below one that is not known is left out as well
NarrowedBelow(known, lower, upper, target) ==
  IF known THEN <<target, upper>> ELSE <<lower, target - 1>>

\* The bounds of the search after the block at target was seen
Narrowed(known, lower, upper, target) ==
  IF known THEN <<target, upper>> ELSE <<lower, target>>

\* The heights at which the block of p is known
KnownHeights(s, p) ==
  {Number(b) : b \in {c \in Chain[PeerBest[p]] : IsKnown(s, tree, c)}}

\* The block is found, there is none, or the next height to ask for
RECURSIVE Narrow(_, _, _, _, _)
Narrow(heights, lower, upper, target, observed) ==
  LET known == target \in heights
      bounds == Narrowed(known, lower, upper, target)
      hint == bounds[1] + (bounds[2] - bounds[1]) \div 2
  IN  IF target = lower
      THEN [found |-> IF known THEN target ELSE NoBlock, next |-> NoBlock]
      ELSE IF hint \in observed
      THEN Narrow(heights, bounds[1], bounds[2], hint, observed)
      ELSE [found |-> NoBlock, next |-> hint,
            lower |-> bounds[1], upper |-> bounds[2]]

\* find_handler of syncByBlockInfo and the callback of askNextPortionOfBlocks
Found(s, p, b, use, refused) ==
  CASE use = "catchup" /\ b \in Enqueued(s) ->
         [Ended(s, p, use) EXCEPT !.known[b] = @ \cup {p}]
    [] use = "catchup" /\ b \notin Enqueued(s) ->
         LoadBlocks(Ended(s, p, use), p, b, "load", refused)
    [] use = "ask" -> LoadBlocks(s, p, b, "ask", refused)

FindResponse(r, refused) ==
  LET s == [q EXCEPT !.requests = @ \ {r}]
      observed == r.observed \cup {r.target}
      n == Narrow(KnownHeights(s, r.peer), r.lower, r.upper, r.target,
                  observed)
  IN  /\ r \in q.requests /\ r.kind = "find"
      /\ q' = IF At(r.peer, r.target) = NoBlock
              THEN Ended(s, r.peer, r.use)
              ELSE IF n.next # NoBlock
              THEN FindCommonBlock(s, r.peer, n.lower, n.upper, n.next,
                                   observed, r.use, refused)
              ELSE IF n.found = NoBlock THEN Ended(s, r.peer, r.use)
              ELSE Found(s, r.peer, At(r.peer, n.found), r.use, refused)
      /\ UNCHANGED <<timeline, tree, executed, faults>>
-----------------------------------------------------------------------------
\* The blocks of p from `from` upwards, the first `count` of them
Answer(p, from, count) ==
  {b \in Chain[PeerBest[p]] : /\ Descends(b, from)
                          /\ Number(b) < Number(from) + count}

\* One request for `from` is over
Unloading(s, from) == [s EXCEPT !.loading[from] = IF @ > 1 THEN @ - 1 ELSE 0]

\* Blocks that would never be applied: their parent is not at hand, or they
\* are beside the finalized chain
Rejected(s, from, blocks) ==
  \/ /\ Number(from) > Finalized(tree)
     /\ ~IsKnown(s, tree, Parent[from])
  \/ \E b \in blocks : /\ Number(b) = Finalized(tree)
                       /\ b # tree.root
  \/ \E b \in blocks : /\ Number(b) = Finalized(tree) + 1
                       /\ Parent[b] # tree.root

\* The loop over the blocks of a response
Enqueue(s, r, blocks, added) ==
  [s EXCEPT
     !.known = [b \in Enqueued(s) \cup added |->
                  (IF b \in Enqueued(s) THEN s.known[b] ELSE {})
                    \cup (IF b \in blocks THEN {r.peer} ELSE {})],
     !.bare = IF r.body THEN @ ELSE @ \cup added,
     !.generations = @ \cup added,
     !.ancestry = @ \cup {<<Parent[b], b>> : b \in added},
     !.loading[r.from] = IF r.from \in added THEN 0 ELSE @]

\* The response of a load: `count` blocks, then perhaps one that is refused
Loaded(s, r, count, cut) ==
  LET blocks == Answer(r.peer, r.from, count)
      above == {b \in blocks : Number(b) > Finalized(tree)}
      added == above \ Enqueued(s)
  IN  IF blocks = {} \/ Rejected(s, r.from, blocks)
      THEN Ended(s, r.peer, r.use)
      ELSE [Ended(Enqueue(s, r, above, added), r.peer, r.use) EXCEPT
              !.tasks = IF cut \/ added = {} THEN @ ELSE OneMore(@)]

LoadResponse(r) ==
  /\ r \in q.requests /\ r.kind = "load"
  /\ q' = Loaded(Unloading([q EXCEPT !.requests = @ \ {r}], r.from), r,
                 Portion, FALSE)
  /\ UNCHANGED <<timeline, tree, executed, faults>>

\* The blocks after some of the first are refused: no header or body, a
\* wrong parent or hash. What was enqueued before stays.
LoadCut(r, count) ==
  /\ r \in q.requests /\ r.kind = "load" /\ faults.count < MaxFaults
  /\ count \in 1..(Portion - 1)
  /\ q' = Loaded(Unloading([q EXCEPT !.requests = @ \ {r}], r.from), r,
                 count, TRUE)
  /\ faults' = [count |-> faults.count + 1, cut |-> TRUE]
  /\ UNCHANGED <<timeline, tree, executed>>

\* A request that fails or times out
RequestFails(r) ==
  LET s == [q EXCEPT !.requests = @ \ {r}]
  IN  /\ r \in q.requests /\ r.kind # "back" /\ faults.count < MaxFaults
      /\ q' = IF r.kind = "find" THEN Ended(s, r.peer, r.use)
              ELSE Ended(Unloading(s, r.from), r.peer, r.use)
      /\ faults' = [faults EXCEPT !.count = @ + 1]
      /\ UNCHANGED <<timeline, tree, executed>>

\* Peers tell of their blocks, and are asked for other things, while few
\* requests are in flight
Quiet == ~q.dead /\ Cardinality(q.requests) < MaxRequests

\* fetchJustification(Range) mark the peer they choose; fetchHeadersBack
\* does not, but all of them free it
FetchBack(p, use) ==
  LET r == [kind |-> "back", peer |-> p, from |-> NoBlock, body |-> FALSE,
            use |-> use]
  IN  /\ Quiet
      /\ p \notin q.busy /\ Fingerprint(r) \notin InFlight(q)
      /\ q' = [q EXCEPT !.requests = @ \cup {r},
                        !.busy = IF use = "headers" THEN @ ELSE @ \cup {p}]
      /\ UNCHANGED <<timeline, tree, executed, faults>>

\* Their response, or its failure
FetchedBack(r) ==
  /\ r \in q.requests /\ r.kind = "back"
  /\ q' = [q EXCEPT !.requests = @ \ {r}, !.busy = @ \ {r.peer}]
  /\ UNCHANGED <<timeline, tree, executed, faults>>
-----------------------------------------------------------------------------
(***************************************************************************)
(* The state sync and the sync state of the timeline. The callbacks of the *)
(* synchronizer change the timeline, which calls the synchronizer: x is    *)
(* all that a handler may change, [q, timeline, tree].                     *)
(***************************************************************************)
\* afterStateSync; what is in flight stays in flight
AfterStateSync(s) ==
  [s EXCEPT !.method = "full", !.known = <<>>, !.bare = {},
            !.generations = {}, !.ancestry = {}]

\* startStateSyncing with syncState of the synchronizer
StartStateSyncing(x) ==
  LET rolled == [x EXCEPT !.tree = RemoveUnfinalizedTree(x.tree).tree,
                          !.timeline.state = "STATE_LOADING"]
  IN  IF x.tree.best \in executed
      THEN [x EXCEPT !.timeline.state = "CATCHING_UP"]
      ELSE IF x.q.stateSync # NoBlock THEN rolled
      ELSE IF x.tree.root \in executed
      THEN [rolled EXCEPT !.q = AfterStateSync(@),
                          !.timeline.state = "CATCHING_UP"]
      ELSE [rolled EXCEPT !.q.stateSync = x.tree.root]

\* onCaughtUp and onSynchronized
OnCaughtUp(x, b) ==
  IF x.timeline.synchronized \/ b \in Recent \cup {Genesis}
  THEN [x EXCEPT !.timeline = [state |-> "SYNCHRONIZED",
                               synchronized |-> TRUE]]
  ELSE [x EXCEPT !.timeline.state = "WAIT_REMOTE_STATUS"]

\* The callback of onBlockAnnounce, when the block has been added
OnAnnounced(x, b) ==
  CASE x.timeline.state = "HEADERS_LOADING" -> StartStateSyncing(x)
    [] x.timeline.state \in {"CATCHING_UP", "WAIT_REMOTE_STATUS"} ->
         OnCaughtUp(x, b)
    [] OTHER -> x

StateResponse(ok) ==
  /\ q.stateSync # NoBlock
  /\ ok \/ faults.count < MaxFaults
  /\ q' = IF ok THEN [AfterStateSync(q) EXCEPT !.stateSync = NoBlock]
                ELSE [q EXCEPT !.stateSync = NoBlock]
  /\ executed' = IF ok THEN executed \cup {q.stateSync} ELSE executed
  /\ timeline' = IF ok THEN [timeline EXCEPT !.state = "CATCHING_UP"]
                       ELSE timeline
  /\ faults' = IF ok THEN faults ELSE [faults EXCEPT !.count = @ + 1]
  /\ UNCHANGED tree
-----------------------------------------------------------------------------
\* Blocks in the queue that are linked to b from below
Linked(s, b) ==
  {c \in Block : /\ Descends(c, b)
                 /\ \A d \in Chain[c] \ Chain[b] :
                      <<Parent[d], d>> \in s.ancestry}

\* A mutant: the entries stay
RestrictedNot(s, gone) == s.known

\* known_blocks_.erase
Restricted(s, gone) == [b \in Enqueued(s) \ gone |-> s.known[b]]

\* discardBlock
DiscardBlock(s, b) ==
  [s EXCEPT !.known = Restricted(s, Linked(s, b)),
            !.bare = @ \ Linked(s, b),
            !.ancestry = {l \in @ : l[1] \notin Linked(s, b)}]

EraseLinks(s, b) == [s EXCEPT !.ancestry = {l \in @ : l[1] # b}]

\* A mutant: applyNextBlock is not scheduled
PostApplyAsksOnly(s, refused) ==
  IF Cardinality(Enqueued(s)) < Preload THEN AskNextPortion(s, refused) ELSE s

\* postApplyBlock
PostApply(s, refused) ==
  LET asked == IF Cardinality(Enqueued(s)) < Preload
               THEN AskNextPortion(s, refused) ELSE s
  IN  [asked EXCEPT !.tasks = OneMore(@)]

\* processBlockAdditionResult
ProcessResult(x, b, result, watched) ==
  LET without == [x EXCEPT !.q.known = Restricted(x.q, {b}),
                           !.q.bare = @ \ {b}]
  IN  IF b \notin Enqueued(x.q) THEN x
      ELSE IF result = "error" THEN [without EXCEPT !.q = DiscardBlock(@, b)]
      ELSE IF watched THEN OnAnnounced(without, b) ELSE without

\* post_block_addition
PostBlockAddition(x, b, result, watched, refused) ==
  LET y == ProcessResult(x, b, result, watched)
  IN  [y EXCEPT !.q = PostApply(EraseLinks(@, b), refused)]

\* appendHeader, without a justification
HeaderResult(t, b) ==
  IF b \in Stored(t) THEN [tree |-> t, result |-> "ok"]
  ELSE IF Parent[b] \notin t.nodes
  THEN [tree |-> t, result |-> "error"]
  ELSE [tree |-> Add(t, b).tree, result |-> "ok"]

\* The block is given to the executor or to the appender of headers.
\* Full sync: body.value() throws for a block without a body.
Apply(x, b, watched, refused) ==
  CASE x.q.method = "full" /\ b \in x.q.bare -> [x EXCEPT !.q = Dead]
    [] x.q.method = "full" /\ b \notin x.q.bare /\ b \in executed ->
         PostBlockAddition(x, b, "exists", watched, refused)
    [] x.q.method = "full" /\ b \notin x.q.bare \cup executed ->
         [x EXCEPT !.q.applying = @ \cup
            {[block |-> b, watched |-> watched, result |-> "none"]}]
    [] x.q.method # "full" /\ x.q.stateSync # NoBlock ->
         [x EXCEPT !.q = DiscardBlock(@, b)]
    [] OTHER ->
         PostBlockAddition([x EXCEPT !.tree = HeaderResult(x.tree, b).tree],
                           b, HeaderResult(x.tree, b).result, watched, refused)

\* The loop of applyNextBlock. any: a block has been taken from the queue
RECURSIVE ApplyLoop(_, _, _)
ApplyLoop(x, any, refused) ==
  LET s == x.q
      b == Lowest(s.generations)
      popped == [s EXCEPT !.generations = @ \ {b}]
      handlers == IF s.height = Number(b) THEN {w \in s.watched : w[1] = b}
                                          ELSE {}
      taken == IF handlers = {} THEN {}
               ELSE {CHOOSE w \in handlers : \A v \in handlers : w[2] <= v[2]}
      y == [x EXCEPT !.q = [popped EXCEPT !.watched = @ \ taken]]
      skipped == IF b \in Stored(x.tree) THEN y
                 ELSE [y EXCEPT !.q = DiscardBlock(@, b)]
      over == IF any THEN [x EXCEPT !.q = PostApply(@, refused)]
                     ELSE x
  IN  IF s.generations = {} THEN over
      ELSE IF b \notin Enqueued(s)
      THEN ApplyLoop([x EXCEPT !.q = popped], any, refused)
      ELSE IF Parent[b] \notin Stored(x.tree) THEN over
      ELSE IF Number(b) <= Finalized(x.tree)
      THEN ApplyLoop([skipped EXCEPT !.q = EraseLinks(@, b)], TRUE, refused)
      ELSE Apply(y, b, taken # {}, refused)

\* What is no longer stored has no state either
Changed(x) ==
  /\ q' = x.q /\ timeline' = x.timeline /\ tree' = x.tree
  /\ executed' = executed \cap Stored(x.tree)

ApplyNextBlock(refused) ==
  /\ q.tasks > 0
  /\ Changed(ApplyLoop([q |-> [q EXCEPT !.tasks = @ - 1],
                        timeline |-> timeline, tree |-> tree], FALSE, refused))
  /\ UNCHANGED faults

\* The executor, on a worker thread. Without the header of the parent its
\* value() throws.
Execute(a, ok) ==
  LET b == a.block
      result == IF ~ok \/ Parent[b] \notin executed \cap tree.nodes
                THEN "error"
                ELSE IF b \in tree.nodes THEN "exists" ELSE "ok"
  IN  /\ a \in q.applying /\ a.result = "none"
      /\ ok \/ faults.count < MaxFaults
      /\ q' = IF Parent[b] \notin Stored(tree) THEN Dead
              ELSE [q EXCEPT !.applying =
                      (@ \ {a}) \cup {[a EXCEPT !.result = result]}]
      /\ tree' = IF result = "ok" THEN Add(tree, b).tree ELSE tree
      /\ executed' = IF result = "ok" THEN executed \cup {b} ELSE executed
      /\ faults' = IF ok THEN faults ELSE [faults EXCEPT !.count = @ + 1]
      /\ UNCHANGED timeline

\* The callback of the executor, on the main thread
Applied(a, refused) ==
  /\ a \in q.applying /\ a.result # "none"
  /\ Changed(PostBlockAddition(
               [q |-> [q EXCEPT !.applying = @ \ {a}],
                timeline |-> timeline, tree |-> tree],
               a.block, a.result, a.watched, refused))
  /\ UNCHANGED faults
-----------------------------------------------------------------------------
\* startCatchUp
StartCatchUp(p, b, refused) ==
  LET r == SyncByBlockInfo(q, b, p, refused)
      state == CASE timeline.state = "HEADERS_LOADED" -> "HEADERS_LOADING"
                 [] timeline.state \in {"WAIT_REMOTE_STATUS",
                                       "SYNCHRONIZED"} -> "CATCHING_UP"
                 [] OTHER -> timeline.state
  IN  /\ q' = r.q
      /\ timeline' = IF r.ran THEN [timeline EXCEPT !.state = state]
                              ELSE timeline
      /\ UNCHANGED <<tree, executed>>

Here == [q |-> q, timeline |-> timeline, tree |-> tree]

\* onBlockAnnounceHandshake: p says that its best block is b
Handshake(p, b, refused) ==
  /\ Quiet
  /\ \/ timeline.state = "STATE_LOADING" /\ Changed(StartStateSyncing(Here))
     \/ /\ timeline.state # "STATE_LOADING" /\ b = tree.best
        /\ Changed(
             CASE timeline.state = "HEADERS_LOADING" -> StartStateSyncing(Here)
               [] timeline.state \in {"CATCHING_UP", "WAIT_REMOTE_STATUS"} ->
                    OnCaughtUp(Here, b)
               [] OTHER -> Here)
     \/ /\ timeline.state # "STATE_LOADING" /\ b # tree.best
        /\ Number(b) > Finalized(tree)
        /\ StartCatchUp(p, b, refused)
  /\ UNCHANGED faults

\* The peers that are asked together with p for a block that p announces
Selected(p, others) ==
  /\ others \subseteq Peer \ {p}
  /\ Cardinality(others) =
       MinOf({Cardinality(Peer) - 1, MaxParallel - 1})

\* syncByBlockHeader, past its early returns
SyncByBlockHeader(s, b, p, peers, refused) ==
  LET watch == [s EXCEPT
        !.height = MaxOf({@, Number(b)}),
        !.watched = (IF s.height < Number(b) THEN {} ELSE @)
                      \cup (IF s.height <= Number(b) THEN {<<b, p>>} ELSE {})]
  IN  FoldLeft(LAMBDA acc, o :
                 IF IsKnown(s, tree, Parent[b])
                 THEN LoadBlocks(acc, o, b, "load", refused)
                 ELSE SyncByBlockInfo(acc, b, o, refused).q,
               watch, <<p>> \o SetToSeq(peers))

\* onBlockAnnounce: p has a new best block b
Announce(p, b, refused) ==
  /\ Quiet /\ b # Genesis
  /\ \/ timeline.state = "STATE_LOADING" /\ Changed(StartStateSyncing(Here))
     \/ /\ timeline.state = "SYNCHRONIZED"
        /\ Number(b) > Number(tree.best) + 1
        /\ StartCatchUp(p, b, refused)
     \/ /\ timeline.state # "STATE_LOADING" /\ Number(b) >= Number(tree.best)
        /\ timeline.state = "SYNCHRONIZED" => Number(b) <= Number(tree.best) + 1
        /\ b \notin Stored(tree)
        /\ IF b \in Enqueued(q)
           THEN q' = [q EXCEPT !.known[b] = @ \cup {p}]
           ELSE /\ q.loading[b] < MaxParallel
                /\ \E others \in SUBSET Peer :
                     /\ Selected(p, others)
                     /\ q' = SyncByBlockHeader(q, b, p, others, refused)
        /\ UNCHANGED <<timeline, tree, executed>>
  /\ UNCHANGED faults

\* GRANDPA finalizes f, on a thread of its own. prune is never called.
Finalize(f) ==
  /\ ~q.dead /\ q.stateSync = NoBlock
  /\ f \in (tree.nodes \cap Final) \ {tree.root}
  /\ tree' = FinalizeTree(tree, f).tree
  /\ executed' = executed \cap Stored(tree')
  /\ UNCHANGED <<q, timeline, faults>>

Next ==
  \/ \E p \in Peer : \E b \in Chain[PeerBest[p]] :
       \/ \E refused \in {{}, Peer} : Handshake(p, b, refused)
       \/ \E refused \in SUBSET Peer : Announce(p, b, refused)
  \/ \E p \in Peer, use \in Fetches : FetchBack(p, use)
  \/ \E refused \in {{}, Peer} :
       \/ \E r \in q.requests : FindResponse(r, refused)
       \/ ApplyNextBlock(refused)
       \/ \E a \in q.applying : Applied(a, refused)
  \/ \E r \in q.requests :
       \/ LoadResponse(r) \/ FetchedBack(r) \/ RequestFails(r)
       \/ \E count \in 1..Portion : LoadCut(r, count)
  \/ \E a \in q.applying, ok \in BOOLEAN : Execute(a, ok)
  \/ \E ok \in BOOLEAN : StateResponse(ok)
  \/ \E f \in Final : Finalize(f)

Spec == Init /\ [][Next]_vars
-----------------------------------------------------------------------------
\* The queue holds blocks with peers that have them; at most MaxParallel
\* loads of a block are counted, and the count does not go below zero when
\* it was erased with the block while a load was in flight.
TypeOK ==
  /\ Enqueued(q) \subseteq Block
  /\ \A b \in Enqueued(q) : q.known[b] \subseteq Peer
  /\ q.bare \subseteq Enqueued(q)
  /\ q.loading \in [Block -> 0..MaxParallel]
  /\ q.tasks \in 0..MaxTasks

\* A block that is known has its turn: it waits in generations_ or is being
\* applied, whatever was discarded, applied or reset in between. A block that
\* is known and has no turn would never be asked for again. (Those that were
\* finalized before their turn do stay behind.) It is in the queue only with
\* its parent in the queue or in the tree: when a block fails, discardBlock takes
\* everything that rests on it along, and only what finalization has put beside
\* the tree may have lost its parent.
NothingLost ==
  /\ TypeOK
  /\ \A b \in Enqueued(q) :
       /\ \/ b \in q.generations
          \/ \E a \in q.applying : a.block = b
          \/ Number(b) <= Finalized(tree)
       /\ \/ IsKnown(q, tree, Parent[b])
          \/ ~Descends(Parent[b], tree.root)

\* A peer is busy, and a portion is being asked for, only while a request is
\* on its way whose answer or failure ends it: no callback path leaves the
\* peer or the flag behind. A peer may be free while it is asked, since
\* fetchHeadersBack frees peers that others have marked.
BusyIsOwned ==
  /\ q.busy \subseteq {r.peer : r \in {r \in q.requests :
                                        r.use \notin {"load", "headers"}}}
  /\ q.asking <=> \E r \in q.requests : r.use = "ask"

\* The search, with the answers as they are now
RECURSIVE Search(_, _, _, _, _)
Search(heights, lower, upper, target, observed) ==
  LET n == Narrow(heights, lower, upper, target, observed \cup {target})
  IN  IF n.next = NoBlock THEN n.found
      ELSE Search(heights, n.lower, n.upper, n.next, observed \cup {target})

\* findCommonBlock, asked from any height of a peer's chain, finds the
\* highest block below it that is known, and none only when none is.
SearchFindsBestCommon ==
  \A p \in Peer :
    LET heights == KnownHeights(q, p)
    IN  \A upper \in (Finalized(tree) + 1)..(Number(PeerBest[p]) + 1) :
          LET common == heights \cap Finalized(tree)..(upper - 1)
          IN  Search(heights, Finalized(tree), upper, upper - 1, {})
                = IF common = {} THEN NoBlock ELSE MaxOf(common)

\* While the lowest block of the queue can be applied, applyNextBlock is
\* scheduled or a block is being applied, after which it is: no wake-up is
\* lost. There are two exceptions. What a response brought until it was refused
\* is in the queue, and nothing is scheduled. While the state is loaded,
\* applyNextBlock discards a block and stops; the queue is cleared afterwards.
WorkIsScheduled ==
  LET queue == q.generations \cap Enqueued(q)
  IN  \/ q.tasks > 0 \/ q.applying # {}
      \/ faults.cut \/ timeline.state = "STATE_LOADING"
      \/ queue = {} \/ Parent[Lowest(queue)] \notin Stored(tree)

\* When nothing is in progress the lowest block of the queue does not wait for a
\* parent that finalization has removed: side chains it has left behind are
\* discarded, and do not hold up the blocks after them.
QueueIsNotStuck ==
  LET queue == q.generations \cap Enqueued(q)
  IN  \/ q.tasks > 0 \/ q.applying # {} \/ q.requests # {} \/ queue = {}
      \/ Parent[Lowest(queue)] \in Stored(tree)
      \/ Descends(Parent[Lowest(queue)], tree.root)

\* A node is SYNCHRONIZED, and may produce blocks, only when the best block
\* has been applied and not only its header loaded. Does not hold in fast mode,
\* and no run has it: when startStateSyncing finds the state it needs, it goes
\* back to catching up while the synchronizer still loads headers only.
SynchronizedIsApplied ==
  timeline.state = "SYNCHRONIZED" => tree.best \in executed
=============================================================================
