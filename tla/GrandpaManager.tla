--------------------------- MODULE GrandpaManager ---------------------------
(***************************************************************************)
(* The rounds of one GRANDPA node over time                                *)
(* (core/consensus/grandpa/impl/grandpa_impl.cpp): the chain of recent     *)
(* rounds, the ways from one round to the next (completion, commits and    *)
(* justifications, catch-up), the records a restart begins from, and       *)
(* catch-up responses that wait for blocks.  votes_cache_ makes some votes *)
(* that are sent again be ignored: here any vote may be lost.              *)
(*                                                                         *)
(* All handlers run on the GRANDPA thread, so an action is a whole         *)
(* handler or task.  They nest, so each method is an operator from the     *)
(* state of the node to the state of the node.                             *)
(*                                                                         *)
(* The other voters have finished all rounds but the last, and any of      *)
(* their messages may come at any time, again, or never.  They have        *)
(* finalized one chain, so blocks are their numbers.  A round is seen from *)
(* outside: the vote of a voter stands for its prevote and its precommit,  *)
(* and a round with the votes of all the others is completable             *)
(* (VotingRound.tla has the inside).                                       *)
(***************************************************************************)
EXTENDS Integers, FiniteSets, SequencesExt

CONSTANTS
  Rounds,             \* the rounds the other voters go through, in their order:
                      \* voter set, number, and the block that is finalized
  Changes,            \* the blocks with a scheduled change of authorities
  Voter,              \* the other voters; their votes complete a round
  Me,                 \* this voter
  Top,                \* bound: the highest block
  MaxRestarts,        \* bound: the number of restarts and reloads
  kKeepRecentRounds,  \* how many rounds are kept
  kCatchUpThreshold,  \* how many rounds behind a peer to ask for a catch-up
  None

VARIABLES
  node,      \* the members of GrandpaImpl, and the blocks and the round of the
             \* last justification in the block tree
  answers,   \* the rounds for which a catch-up response is on its way
  restarts   \* how often the node was restarted or reloaded

vars == <<node, answers, restarts>>

RoundAt(key) == CHOOSE k \in DOMAIN Rounds : key = <<Rounds[k].set, Rounds[k].number>>
Key(rd) == <<rd.set, rd.number>>
Finished == 1 .. Len(Rounds) - 1

(***************************************************************************)
(* A set finalizes the block that changes it with its last round, and the  *)
(* rounds of the next set are counted from 1 and finalize blocks above it. *)
(* The votes of five rounds are kept, and there are not more here.         *)
(***************************************************************************)
ASSUME RoundsAssumption ==
  /\ Top \in Nat /\ MaxRestarts \in Nat
  /\ kKeepRecentRounds \in Nat \ {0} /\ kCatchUpThreshold \in Nat \ {0}
  /\ Len(Rounds) <= 5
  /\ Changes \subseteq 1 .. Top /\ Voter # {} /\ Me \notin Voter
  /\ <<Rounds[1].set, Rounds[1].number>> = <<0, 1>>
  /\ \A k \in 1 .. Len(Rounds) - 1 :
       /\ Rounds[k].block \in 0 .. Top
       /\ Rounds[k].set = Cardinality({c \in Changes : c < Rounds[k].block})
       /\ k > 1 => Rounds[k - 1].block <= Rounds[k].block
       /\ <<Rounds[k + 1].set, Rounds[k + 1].number>> =
            IF Rounds[k].block \in Changes
              THEN <<Rounds[k].set + 1, 1>>
              ELSE <<Rounds[k].set, Rounds[k].number + 1>>

-----------------------------------------------------------------------------
(* AuthorityManager::authorities                                           *)

\* The id of the set that finalizes block `b`.
Authorities(b) == Cardinality({c \in Changes : c < b})

\* The id of the set in force once `b` is finalized.
NextAuthorities(b) == Cardinality({c \in Changes : c <= b})

\* The highest block the voters of `set` vote for: bestChainContaining.
BestChain(st, set) == Min({st.known} \cup {c \in Changes : Authorities(c) = set})

\* The block tree's last finalized block.
LastFinalized(st) == IF st.justified = 0 THEN 0 ELSE Rounds[st.justified].block

Precedes(p, q) == p[1] < q[1] \/ (p[1] = q[1] /\ p[2] < q[2])

\* The round a start begins with: after a change of authorities the first one,
\* otherwise the one after the round of the stored justification.
StartKey(j) ==
  CASE j = 0 -> <<0, 1>>
    [] j # 0 /\ Rounds[j].block \in Changes -> <<Rounds[j].set + 1, 1>>
    [] OTHER -> <<Rounds[j].set, Rounds[j].number + 1>>

\* Of a set of votes those that matter: a start may come to their round again.
Live(votes, j) == {v \in votes : ~Precedes(v.key, StartKey(j))}

-----------------------------------------------------------------------------
(* Rounds as the manager sees them                                         *)

Current(st) == st.chain[1]

\* What the votes of a round come to, by VotingRoundImpl::updateEstimate.
Count(rd) ==
  IF rd.seen # Voter THEN rd
  ELSE [rd EXCEPT !.completable = TRUE,
                  !.finalized = Rounds[RoundAt(Key(rd))].block]

\* The end of VotingRoundImpl::update: tryExecuteNextRound is scheduled, with
\* the pointer to GRANDPA moved into the task.
TryStartNextRound(rd, previous) ==
  IF rd.completable /\ \A p \in previous : p.finalized # None
    THEN [rd EXCEPT !.next_round = @ \/ rd.grandpa, !.grandpa = FALSE]
    ELSE rd

\* The previous round of the i-th round of a chain, if it is not forgotten.
Previous(chain, i) == IF i = Len(chain) THEN {} ELSE {chain[i + 1]}

\* A new round before its history is applied.
NewRound(set, number, base) ==
  [set |-> set, number |-> number, base |-> base, finalized |-> None,
   completable |-> FALSE, seen |-> {}, vote |-> None,
   stage |-> "INIT", announced |-> FALSE, grandpa |-> TRUE, next_round |-> FALSE]

\* Mutant: the own votes are left out.
RestoreOthers(st, rd, previous) ==
  LET votes == {v \in st.history : v.key = Key(rd) /\ v.block >= rd.base}
  IN  TryStartNextRound(Count([rd EXCEPT !.seen = {v.voter : v \in votes} \ {Me}]),
                        previous)

\* applyHistoricalVotes: votes that the vote graph does not take are skipped.
ApplyHistoricalVotes(st, rd, previous) ==
  LET votes == {v \in st.history : v.key = Key(rd) /\ v.block >= rd.base}
      own == {v.block : v \in {w \in votes : w.voter = Me}}
  IN  TryStartNextRound(
        Count([rd EXCEPT !.seen = {v.voter : v \in votes} \ {Me},
                         !.vote = IF own = {} THEN None ELSE CHOOSE b \in own : TRUE]),
        previous)

MakeInitialRound(st, set, number, base) ==
  ApplyHistoricalVotes(st, NewRound(set, number, base), {})

\* Mutant: the rounds of the next voter set are not counted from 1.
CountOn(st, i) ==
  LET rd == st.chain[i]
      best_block == IF rd.finalized # None THEN rd.finalized ELSE rd.base
  IN  ApplyHistoricalVotes(
        st, NewRound(NextAuthorities(best_block), rd.number + 1, best_block), {rd})

\* makeNextRound of the i-th round.
MakeNextRound(st, i) ==
  LET rd == st.chain[i]
      best_block == IF rd.finalized # None THEN rd.finalized ELSE rd.base
      set == NextAuthorities(best_block)
      number == IF rd.set = set THEN rd.number + 1 ELSE 1
  IN  ApplyHistoricalVotes(st, NewRound(set, number, best_block), {rd})

\* Environment::finalize: the justification goes to the queue, which works on
\* another thread, in order: what is finalized or comes after another one for
\* the same block is left out.
Hand(st, k) ==
  IF \/ Rounds[k].block <= LastFinalized(st)
     \/ \E j \in st.handed : Rounds[j].block = Rounds[k].block
    THEN st ELSE [st EXCEPT !.handed = @ \cup {k}]

\* doFinalize of a round that is not over.
Finalize(st, rd) ==
  IF rd.completable /\ rd.stage # "COMPLETED"
    THEN Hand(st, RoundAt(Key(rd))) ELSE st

\* A new round in front of the rounds `previous`: one with a complete history
\* has finalized its block.  The tasks of the previous rounds are void from now
\* on, since tryExecuteNextRound compares with the current round.
WithRound(st, rd, previous) ==
  [Finalize(st, rd) EXCEPT
     !.chain = <<rd>> \o [i \in DOMAIN previous |-> [previous[i] EXCEPT !.next_round = FALSE]]]

\* selectRound, as the set of indices found: it ends at the first round below
\* the number, which may be one of a later voter set.
SelectRound(st, number, set) ==
  {i \in DOMAIN st.chain :
     /\ st.chain[i].number = number /\ st.chain[i].set = set
     /\ \A j \in 1 .. i - 1 : st.chain[j].number >= number}

End(rd) == [rd EXCEPT !.stage = "COMPLETED"]

\* saveHistoricalVote, for a round that still has its pointer to GRANDPA.
SaveHistoricalVotes(st, rd, voters, b) ==
  IF rd.grandpa
    THEN [st EXCEPT !.history = @ \cup Live({[key |-> Key(rd), voter |-> v, block |-> b] :
                                               v \in voters}, st.justified)]
    ELSE st

\* doPrevote: the vote that is there or restored, or else the best chain.
OwnVote(st, rd) ==
  IF rd.vote # None THEN rd.vote ELSE Max({rd.base, BestChain(st, rd.set)})

\* The i-th round ends its prevote stage: its vote is saved and sent.
Cast(st, i) ==
  LET rd == st.chain[i]
      b == OwnVote(st, rd)
  IN  [SaveHistoricalVotes(st, rd, IF rd.vote = None THEN {Me} ELSE {}, b) EXCEPT
         !.chain[i] = [rd EXCEPT !.vote = b, !.stage = "VOTED"]]

\* play: the round is announced to the neighbors, and one that is completable
\* votes at once.
Play(st) ==
  LET announced == [st EXCEPT !.chain[1].announced = TRUE, !.chain[1].stage = "RUNS"]
  IN  IF Current(st).completable THEN Cast(announced, 1) ELSE announced

\* startCurrentRound: the chain is cut, and the round is played.
StartCurrentRound(st) ==
  Play([st EXCEPT !.chain = SubSeq(@, 1, Min({Len(@), kKeepRecentRounds}))])

\* tryExecuteNextRound of the round with this key.
TryExecuteNextRound(st, key) ==
  IF Key(Current(st)) # key THEN st
  ELSE StartCurrentRound(WithRound(st, MakeNextRound(st, 1), st.chain))

\* makeRoundAfterLastFinalized
MakeRoundAfterLastFinalized(st) ==
  LET key == StartKey(st.justified)
  IN  StartCurrentRound(
        WithRound(st, MakeInitialRound(st, key[1], key[2], LastFinalized(st)), <<>>))

-----------------------------------------------------------------------------
(* Votes                                                                   *)

\* The end of update for the i-th round: its on_complete_handler_ casts the
\* vote while the round still has its pointer to GRANDPA.
Updated(st, i) ==
  LET voted == IF st.chain[i].completable /\ st.chain[i].stage = "RUNS"
                 THEN Cast(st, i) ELSE st
  IN  [Finalize(voted, st.chain[i]) EXCEPT
         !.chain[i] = TryStartNextRound(@, Previous(st.chain, i))]

\* The i-th round receives the votes of `voters` for the block of round `k`.
AddVotes(st, i, voters, k) ==
  LET rd == st.chain[i]
      new == IF Rounds[k].block \in rd.base .. st.known THEN voters \ rd.seen ELSE {}
  IN  IF new = {} THEN st
      ELSE Updated([SaveHistoricalVotes(st, rd, new, Rounds[k].block) EXCEPT
                      !.chain[i] = Count([rd EXCEPT !.seen = @ \cup new])], i)

\* onVoteMessage.  A vote that votes_cache_ skips or that comes from a peer
\* without a view is like a lost one; a vote or commit that has waited for its
\* block is handled like one that comes again, and any of them may.
OnVoteMessage(st, k, voter) ==
  LET found == SelectRound(st, Rounds[k].number, Rounds[k].set)
  IN  IF \/ Rounds[k].set # Current(st).set
         \/ Rounds[k].number + 2 < Current(st).number
         \/ Rounds[k].number > Current(st).number + 1
         \/ found = {}
        THEN st
        ELSE AddVotes(st, Max(found), {voter}, k)

-----------------------------------------------------------------------------
(* Justifications                                                          *)

\* Mutant: the justification is passed on without being applied.
HandOnly(st, i, k) == Hand(st, k)

\* VotingRoundImpl::applyJustification of the i-th round: the precommits
\* finalize the block, and do not complete the round.
ApplyToRound(st, i, k) ==
  Hand([st EXCEPT !.chain[i].finalized = IF @ = None THEN Rounds[k].block ELSE @], k)

\* The node with round `k` as a round that is over in place of its chain.
InRound(st, k) ==
  LET initial == MakeInitialRound(st, Rounds[k].set, Rounds[k].number, Current(st).base)
  IN  [Finalize(st, initial) EXCEPT !.chain = <<End(initial)>>]

\* The node in round `k`, which is made for its justification: after the
\* current round if that is the one before it, otherwise without a previous
\* round and over at once.  The current round is over.
Hop(st, k) ==
  LET prev == SelectRound(st, Rounds[k].number - 1, Rounds[k].set)
  IN  IF prev # {}
        THEN WithRound(st, MakeNextRound(st, Max(prev)),
                       [st.chain EXCEPT ![1] = End(@)])
        ELSE InRound(st, k)

\* Mutant: a justification of a round that is over makes a round of its own.
ApplyJustificationAnyRound(st, k) ==
  LET found == SelectRound(st, Rounds[k].number, Rounds[k].set)
  IN  IF Rounds[k].block > st.known THEN st
      ELSE TryExecuteNextRound(
             IF found # {} THEN ApplyToRound(st, Max(found), k)
                           ELSE ApplyToRound(Hop(st, k), 1, k),
             Key(Rounds[k]))

\* applyJustification of what the voters have signed in round `k`: for a
\* round of the past it is finalized as it is, for one in the chain or a
\* coming one it is applied to the round, and the next one is started.
ApplyJustification(st, k) ==
  LET found == SelectRound(st, Rounds[k].number, Rounds[k].set)
      past == found = {} /\ Precedes(Key(Rounds[k]), Key(Current(st)))
      coming == found = {} /\ ~past
  IN  IF Rounds[k].block > st.known \/ (coming /\ Current(st).base > Rounds[k].block)
        THEN st
      ELSE IF past
        THEN Hand(st, k)
        ELSE TryExecuteNextRound(
               IF coming THEN ApplyToRound(Hop(st, k), 1, k)
                         ELSE ApplyToRound(st, Max(found), k),
               Key(Rounds[k]))

OnCommitMessage(st, k) ==
  IF \/ Rounds[k].set # Current(st).set
     \/ Rounds[k].number < Current(st).number
     \/ LastFinalized(st) >= Rounds[k].block
    THEN st ELSE ApplyJustification(st, k)

-----------------------------------------------------------------------------
(* Catch-up                                                                *)

\* Mutant: a peer that is kCatchUpThreshold ahead is not asked.
AskFarAhead(st, k) ==
  [st EXCEPT
     !.pending = IF /\ st.synchronized /\ @ = 0
                    /\ Rounds[k].set = Current(st).set
                    /\ Rounds[k].number > Current(st).number + kCatchUpThreshold
                   THEN k - 1 ELSE @]

\* The request of onNeighborMessage to a peer in round `k`: the round before it.
OnNeighborMessage(st, k) ==
  [st EXCEPT
     !.pending = IF /\ st.synchronized /\ @ = 0
                    /\ Rounds[k].set = Current(st).set
                    /\ Rounds[k].number >= Current(st).number + kCatchUpThreshold
                   THEN k - 1 ELSE @]

\* pruneWaitingBlocks: only responses of rounds that are in the chain stay.
PruneWaitingBlocks(st) ==
  [st EXCEPT !.waiting = {k \in @ : \E i \in DOMAIN st.chain :
                            Key(st.chain[i]) = Key(Rounds[k])}]

\* loadMissingBlocks for a response that needs the block of its round.
LoadMissingBlocks(st, k) ==
  IF Rounds[k].block <= st.known \/ ~st.synchronized THEN st
  ELSE PruneWaitingBlocks([st EXCEPT !.waiting = @ \cup {k}])

\* The end of onCatchUpResponse, with the votes imported: a new round that was
\* not finalized by them is forgotten.
CaughtUp(st, voted, new_round, k) ==
  IF /\ ~Current(voted).completable
     /\ ~new_round \/ Current(voted).finalized = None
    THEN LoadMissingBlocks(IF new_round THEN [voted EXCEPT !.chain = st.chain] ELSE voted, k)
    ELSE TryExecuteNextRound(voted, Key(Rounds[k]))

\* onCatchUpResponse behind the checks of the request.
CatchUp(st, k) ==
  LET new_round == Rounds[k].number > Current(st).number
  IN  IF \/ Rounds[k].set # Current(st).set
         \/ Rounds[k].number < Current(st).number
         \/ new_round /\ Rounds[k].block > st.known
        THEN st
        ELSE CaughtUp(st, AddVotes(IF new_round THEN InRound(st, k) ELSE st, 1, Voter, k),
                      new_round, k)

OnCatchUpResponse(st, k) ==
  IF \/ st.pending = 0
     \/ Rounds[k].set # Rounds[st.pending].set
     \/ Rounds[k].number < Rounds[st.pending].number
    THEN st
    ELSE [CatchUp(st, k) EXCEPT !.pending = 0]

\* onCatchUpRequest for round `number`: it throws when the round is found and
\* has finalized nothing.
RequestThrows(st, set, number) ==
  /\ set = Current(st).set /\ number <= Current(st).number
  /\ \E i \in SelectRound(st, number, set) : st.chain[i].finalized = None

-----------------------------------------------------------------------------
Empty ==
  [chain |-> <<>>, history |-> {}, pending |-> 0,
   waiting |-> {}, retry |-> {}, handed |-> {},
   justified |-> 0, known |-> 0, synchronized |-> FALSE]

\* A restart keeps the blocks and the votes `db` that are in the database.
Restarted(st, db) ==
  MakeRoundAfterLastFinalized(
    [Empty EXCEPT !.history = db, !.justified = st.justified, !.known = st.known])

Init ==
  /\ node = MakeRoundAfterLastFinalized(Empty)
  /\ answers = {} /\ restarts = 0

\* A handler or task of the node.
Becomes(st) == node' = st /\ UNCHANGED <<answers, restarts>>

ReceiveVote(k, v) == Becomes(OnVoteMessage(node, k, v))

ReceiveCommit(k) == Becomes(OnCommitMessage(node, k))

\* A justification that came with a block or was fetched.
ReceiveJustification(k) == Becomes(ApplyJustification(node, k))

ReceiveNeighbor(k) ==
  /\ node' = OnNeighborMessage(node, k)
  /\ answers' = IF node.pending = 0 /\ node'.pending # 0
                  THEN answers \cup {node'.pending} ELSE answers
  /\ UNCHANGED restarts

ReceiveCatchUp(k) ==
  /\ k \in answers
  /\ answers' = answers \ {k}
  /\ node' = OnCatchUpResponse(node, k)
  /\ UNCHANGED restarts

CatchUpTimeout ==
  /\ node.pending # 0
  /\ Becomes([node EXCEPT !.pending = 0])

\* The task that update has scheduled.
NextRoundTask ==
  /\ Current(node).next_round
  /\ Becomes(TryExecuteNextRound(node, Key(Current(node))))

\* The time of the prevote stage is out.
CastVote(i) ==
  /\ i \in DOMAIN node.chain
  /\ node.chain[i].stage = "RUNS" /\ ~node.chain[i].completable
  /\ Becomes(Cast(node, i))

\* A block is imported; onHead hands responses that have waited for it back.
ImportBlock ==
  /\ node.known < Top
  /\ LET ready == {k \in node.waiting : Rounds[k].block = node.known + 1}
     IN  Becomes(PruneWaitingBlocks([node EXCEPT !.known = @ + 1,
                                                 !.waiting = @ \ ready,
                                                 !.retry = @ \cup ready]))

\* The task that handles such a response again.
Retry(k) ==
  /\ k \in node.retry
  /\ Becomes(CatchUp([node EXCEPT !.retry = @ \ {k}], k))

\* The queue of justifications finalizes, one voter set after another.  Votes
\* of rounds that no start comes to any more are left out from here on.
FinalizeBlock(k) ==
  /\ k \in node.handed
  /\ Rounds[k].block <= node.known
  /\ Rounds[k].set = NextAuthorities(LastFinalized(node))
  /\ Becomes([node EXCEPT !.justified = k,
                          !.handed = {j \in @ : Rounds[j].block > Rounds[k].block},
                          !.history = Live(@, k)])

Synchronized ==
  /\ ~node.synchronized
  /\ Becomes([node EXCEPT !.synchronized = TRUE])

\* writeHistoricalVotes is a later task, and ignores what fails: any part of
\* the votes may not be in the database.
Restart ==
  /\ restarts < MaxRestarts
  /\ restarts' = restarts + 1
  /\ \E db \in SUBSET node.history : node' = Restarted(node, db)
  /\ answers' = {}

\* reload, when the state of a block is synchronized.
Reload ==
  /\ ~node.synchronized /\ restarts < MaxRestarts
  /\ restarts' = restarts + 1
  /\ node' = MakeRoundAfterLastFinalized(node)
  /\ UNCHANGED answers

Next ==
  \/ \E k \in Finished, v \in Voter : ReceiveVote(k, v)
  \/ \E k \in Finished : ReceiveCommit(k) \/ ReceiveJustification(k) \/ FinalizeBlock(k)
  \/ \E k \in Finished : Retry(k)
  \/ \E k \in DOMAIN Rounds : ReceiveNeighbor(k) \/ ReceiveCatchUp(k)
  \/ CatchUpTimeout \/ NextRoundTask
  \/ \E i \in 1 .. kKeepRecentRounds : CastVote(i)
  \/ ImportBlock \/ Synchronized
  \/ Restart \/ Reload

Spec == Init /\ [][Next]_vars

(***************************************************************************)
(* Fairness: tasks run, timers expire, blocks come, a peer in the last     *)
(* round goes on announcing it, the justifications of authority changes    *)
(* are fetched (JustificationQueue.tla), and of the catch-up requests that *)
(* are made again and again one is answered in time.  Votes and commits    *)
(* may all be lost.  The conditions of the last three are written out: in  *)
(* such a state the step is possible and changes the node.                 *)
(***************************************************************************)
Fetched(k) == Current(node).set = Rounds[k].set /\ Rounds[k].block <= node.known
Awaited(k) == node.pending = k /\ k \in answers

FairSpec ==
  /\ Spec
  /\ WF_vars(CatchUpTimeout) /\ WF_vars(ImportBlock) /\ WF_vars(Synchronized)
  /\ WF_vars(ReceiveNeighbor(Len(Rounds)))
  /\ <>[]Current(node).next_round => []<><<NextRoundTask>>_vars
  /\ \A k \in Finished :
       /\ Rounds[k].block \in Changes =>
            (<>[]Fetched(k) => []<><<Fetched(k) /\ ReceiveJustification(k)>>_vars)
       /\ []<>Awaited(k) => []<><<Awaited(k) /\ ReceiveCatchUp(k)>>_vars

-----------------------------------------------------------------------------
(* Properties                                                              *)

RoundType ==
  [set : Nat, number : Nat, base : 0 .. Top, finalized : (0 .. Top) \cup {None},
   completable : BOOLEAN, seen : SUBSET Voter, vote : (0 .. Top) \cup {None},
   stage : {"INIT", "RUNS", "VOTED", "COMPLETED"}, announced : BOOLEAN,
   grandpa : BOOLEAN, next_round : BOOLEAN]

\* The members have the types of GrandpaImpl, at most kKeepRecentRounds rounds
\* are kept.
TypeOK ==
  /\ node.chain \in Seq(RoundType) /\ Len(node.chain) \in 1 .. kKeepRecentRounds
  /\ node.pending \in {0} \cup Finished /\ node.handed \subseteq Finished
  /\ node.justified \in {0} \cup Finished /\ node.known \in 0 .. Top
  /\ answers \subseteq Finished /\ restarts \in 0 .. MaxRestarts

\* The current round (set and number) only goes up while the node runs, by
\* whatever mix of completion, commits, justifications, late catch-up
\* responses and messages that have waited for blocks it goes on.
RoundsOnlyGoUp ==
  [][restarts' = restarts =>
       ~Precedes(Key(Current(node')), Key(Current(node)))]_vars

\* The chain follows the rounds of the other voters: each kept round is the
\* successor of the kept round before it, and starts from what that one has
\* finalized. And a current round that is completable has the task that starts
\* its successor before it: update moves the pointer to GRANDPA away with the
\* first task, so that there would be no second.
ChainIsConsecutive ==
  /\ TypeOK
  /\ \A i \in 1 .. Len(node.chain) - 1 :
       LET k == RoundAt(Key(node.chain[i]))
       IN  /\ Key(node.chain[i + 1]) = Key(Rounds[k - 1])
           /\ node.chain[i].base
                \in {node.chain[i + 1].base, node.chain[i + 1].finalized}
  /\ Current(node).completable => Current(node).next_round

\* A peer that asks for the round before the one this node has announced, as
\* onNeighborMessage does, is never met by the exception of onCatchUpRequest.
HonestRequestAnswered ==
  \A i \in DOMAIN node.chain :
    node.chain[i].announced =>
      ~RequestThrows(node, node.chain[i].set, node.chain[i].number - 1)

\* A vote in the historical votes is never contradicted, in whatever way and in
\* whatever life of the process the voter comes to its round again ("Don't
\* change defined vote to avoid equivocation" in doPrevote).
VoteOnRecordKept ==
  \A rd \in Range(node.chain), h \in node.history :
    rd.stage = "VOTED" /\ h.voter = Me /\ h.key = Key(rd) => h.block = rd.vote

\* A node that has fallen behind comes within kCatchUpThreshold of the round
\* its peers announce, and stays there, although all votes and commits may be
\* lost and catch-up responses may be late.
CatchesUpWithPeers ==
  LET last == Rounds[Len(Rounds)]
  IN  <>[](/\ Current(node).set = last.set
           /\ Current(node).number + kCatchUpThreshold > last.number)
=============================================================================
