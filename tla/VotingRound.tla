----------------------------- MODULE VotingRound -----------------------------
(***************************************************************************)
(* One GRANDPA round at one voter                                          *)
(* (core/consensus/grandpa/impl/voting_round_impl.cpp).                    *)
(*                                                                         *)
(* All handlers of a round run on the GRANDPA thread, so an action is a    *)
(* whole handler.  Handlers nest (a vote completes the round, which casts  *)
(* the own vote, which is imported like any other), so each method is an   *)
(* operator from the state of the round to the state of the round and an   *)
(* action applies one of them.  The vote graph is taken at its             *)
(* specification (VoteGraphSpec.tla).                                      *)
(***************************************************************************)
EXTENDS VoteGraphSpec

CONSTANTS
  Voter,
  SetWeight,      \* the weight of every set of voters
  Me,             \* the voter whose round this is
  Byzantine,      \* the voters that may cast two votes of a kind
  LastFinalized,  \* last_finalized_block_, which is the base of the vote graph
  Proposal,       \* the blocks the primary may propose
  Setup           \* what a round may meet: whether this voter is the primary
                  \* (isPrimary_), the states the previous round may be in, the
                  \* votes <<type, voter, block>> others may cast and the own
                  \* ones that may be restored, the justifications of commits

VARIABLE
  round

WeightOf(S) == SetWeight[S]
TotalWeight == WeightOf(Voter)

\* The constructor's `faulty` and `threshold_`.
Faulty == (TotalWeight - 1) \div 3
ThresholdRoundedDown == (TotalWeight * 2) \div 3  \* mutant
Threshold == TotalWeight - Faulty

(***************************************************************************)
(* The weight of a set is the sum of its voters' weights, Byzantine voters *)
(* are within the weight GRANDPA tolerates, and this one is not one.       *)
(***************************************************************************)
ASSUME VoterAssumption ==
  /\ SetWeight \in [SUBSET Voter -> Nat]
  /\ SetWeight[{}] = 0
  /\ \A S, T \in SUBSET Voter :
       SetWeight[S \cup T] + SetWeight[S \cap T] = SetWeight[S] + SetWeight[T]
  /\ Byzantine \subseteq Voter /\ Me \in Voter \ Byzantine
  /\ TotalWeight > 0 /\ WeightOf(Byzantine) <= Faulty

\* A tracker's list of a voter's messages, or the precommits of a voter in a
\* commit: a vote, and at most one that contradicts it.
Ballots == {s \in Seq(Block) : Len(s) <= 2}

(***************************************************************************)
(* Votes are for blocks.  A commit shows one precommit of an honest voter, *)
(* and is for a block that this round's base does not rule out.            *)
(***************************************************************************)
ASSUME SetupAssumption ==
  /\ IsFiniteSet(Block) /\ LastFinalized \in Block /\ Proposal \subseteq Block
  /\ \A setup \in Setup :
       /\ setup.primary \in BOOLEAN
       /\ \A prev \in setup.prevs \ {None} :
            prev.candidate \in Block /\ prev.finalized \in Block
       /\ setup.ballots \subseteq {"prevotes", "precommits"} \X Voter \X Block
       /\ \A commit \in setup.commits :
            /\ commit.target \in Subtree(LastFinalized) /\ commit.items \in [Voter -> Ballots]
            /\ \A v \in Voter \ Byzantine : Len(commit.items[v]) <= 1

-----------------------------------------------------------------------------
(* VoteTracker: a voter's first vote, then its equivocation                *)

Voted(tracker) == {v \in Voter : tracker[v] # <<>>}
Equivocators(tracker) == {v \in Voter : Len(tracker[v]) = 2}
GetTotalWeight(tracker) == WeightOf(Voted(tracker))

\* VoteWeight::total of the cumulative vote of `b`.
TotalFor(tracker, b) ==
  WeightOf({v \in Voted(tracker) : HasAncestry(b, tracker[v][1])}
             \cup Equivocators(tracker))

\* possible_to_prevote, possible_to_finalize
Supermajority(tracker) == {b \in Block : TotalFor(tracker, b) >= Threshold}

\* Mutant: votes cast are taken to be final.
PossibleWithoutEquivocation(tracker) ==
  {b \in Block : TotalFor(tracker, b) + (TotalWeight - GetTotalWeight(tracker))
                   >= Threshold}

\* possible_to_precommit: the blocks that may still get a supermajority.
PossibleToPrecommit(tracker) ==
  LET current_equivocations == WeightOf(Equivocators(tracker))
      additional_equivocations == (TotalWeight - Threshold) - current_equivocations
      remaining_commit_votes == TotalWeight - GetTotalWeight(tracker)
      Possible(b) ==
        LET against == GetTotalWeight(tracker) - TotalFor(tracker, b)
        IN  TotalFor(tracker, b) + remaining_commit_votes
              + (IF against < additional_equivocations
                   THEN against ELSE additional_equivocations) >= Threshold
  IN  {b \in Block : Possible(b)}

\* The nodes of the round's vote graph.
Nodes(rd) ==
  {LastFinalized} \cup {rd.prevotes[v][1] : v \in Voted(rd.prevotes)}
                  \cup {rd.precommits[v][1] : v \in Voted(rd.precommits)}

FindAncestor(rd, b, S) == AncestorIn(LastFinalized, Nodes(rd), b, S)
FindGhost(rd, b, S) == GhostFrom(LastFinalized, Nodes(rd), b, S)

\* prevBestFinalCandidate
PrevBestFinalCandidate(rd) ==
  IF rd.previous_round = None THEN LastFinalized
                              ELSE rd.previous_round.candidate

-----------------------------------------------------------------------------
(* updateGrandpaGhost, updateEstimate                                      *)

NewPrevoteGhost(rd) ==
  IF GetTotalWeight(rd.prevotes) < Threshold
    THEN None
    ELSE FindGhost(rd, PrevBestFinalCandidate(rd), Supermajority(rd.prevotes))

\* Mutant: the ghost is set once.
UpdateGrandpaGhostOnce(rd) ==
  IF NewPrevoteGhost(rd) = None \/ rd.prevote_ghost # None THEN rd
  ELSE [rd EXCEPT !.prevote_ghost = NewPrevoteGhost(rd)]

SetGhost(rd, new_ghost) ==
  IF new_ghost = None THEN rd ELSE [rd EXCEPT !.prevote_ghost = new_ghost]

UpdateGrandpaGhost(rd) == SetGhost(rd, NewPrevoteGhost(rd))

\* What updateGrandpaGhost returns.
GhostUpdated(rd, new_ghost) ==
  new_ghost # None /\ (new_ghost = LastFinalized \/ new_ghost # rd.prevote_ghost)

EstimateKnown(rd) ==
  GetTotalWeight(rd.prevotes) >= Threshold /\ rd.prevote_ghost # None

\* What updateEstimate returns.
EstimateUpdated(rd) ==
  EstimateKnown(rd) /\ GetTotalWeight(rd.precommits) >= Threshold

\* Mutant: the two conditions are swapped.
UpdateEstimateSwapped(rd) ==
  IF ~EstimateKnown(rd) THEN rd
  ELSE [rd EXCEPT
          !.estimate = FindAncestor(rd, rd.prevote_ghost, Supermajority(rd.precommits)),
          !.finalized = FindAncestor(rd, rd.prevote_ghost,
                                     PossibleToPrecommit(rd.precommits))]

\* The results when there are enough precommits.
SetEstimate(rd, possible, estimate) ==
  [rd EXCEPT
     !.finalized = FindAncestor(rd, rd.prevote_ghost, Supermajority(rd.precommits)),
     !.estimate = estimate,
     !.completable =
       /\ estimate # None
       /\ estimate # rd.prevote_ghost
            \/ FindGhost(rd, estimate, possible) \in {None, estimate}]

UpdateEstimate(rd) ==
  LET possible == PossibleToPrecommit(rd.precommits)
  IN  CASE ~EstimateKnown(rd) -> rd
        [] EstimateUpdated(rd) ->
             SetEstimate(rd, possible, FindAncestor(rd, rd.prevote_ghost, possible))
        [] OTHER -> [rd EXCEPT !.estimate = rd.prevote_ghost]

-----------------------------------------------------------------------------
(* update and the handlers it calls                                        *)

\* doFinalize: the finalized block goes to Environment::finalize.
DoFinalize(rd) == [rd EXCEPT !.handed = @ \cup {rd.finalized}]

\* update finalizes what updateEstimate found.
FinalizeEstimated(rd) ==
  IF EstimateUpdated(rd) /\ rd.stage # "COMPLETED" /\ rd.finalized # None
    THEN DoFinalize(rd) ELSE rd

\* A known ghost schedules another attempt to precommit.
ScheduleWake(rd) == [rd EXCEPT !.wake = @ \/ rd.prevote_ghost # None]

\* Mutant: a known ghost schedules nothing.
RecountAsleep(rd, ghost_changed, precommits_changed) ==
  IF ~ghost_changed /\ ~precommits_changed THEN rd
  ELSE FinalizeEstimated(UpdateEstimate(
         IF ghost_changed THEN UpdateGrandpaGhost(rd) ELSE rd))

\* update up to on_complete_handler_: the ghost, the estimate, doFinalize.
Recount(rd, ghost_changed, precommits_changed) ==
  IF ~ghost_changed /\ ~precommits_changed THEN rd
  ELSE FinalizeEstimated(UpdateEstimate(
         IF ghost_changed THEN ScheduleWake(UpdateGrandpaGhost(rd)) ELSE rd))

\* update's tail: tryExecuteNextRound is scheduled, with the round's pointer
\* to GRANDPA moved into the task (`grandpa` is whether it still has one).
TryStartNextRound(rd) ==
  IF /\ rd.completable
     /\ rd.previous_round # None => rd.previous_round.finalized # None
    THEN [rd EXCEPT !.next_round = @ \/ rd.grandpa, !.grandpa = FALSE]
    ELSE rd

\* update while no on_complete_handler_ is set.
UpdateQuietly(rd, ghost_changed, precommits_changed) ==
  TryStartNextRound(Recount(rd, ghost_changed, precommits_changed))

\* What onSigned accepts: a first vote that the graph takes, or a second one.
Accepts(rd, type, v, b) ==
  \/ rd[type][v] = <<>> /\ HasAncestry(LastFinalized, b)
  \/ Len(rd[type][v]) = 1 /\ rd[type][v][1] # b

\* onSigned with saveHistoricalVote, of which the own votes are kept here, and
\* what onPrevote and onPrecommit do with an own vote that is restored.
OnSigned(rd, type, v, b) ==
  LET own == IF type = "prevotes" THEN "prevote" ELSE "precommit"
  IN  [rd EXCEPT ![type][v] = Append(@, b),
                 !.saved = IF v = Me /\ rd.grandpa THEN @ \cup {type} ELSE @,
                 ![own] = IF v = Me /\ @ = None THEN b ELSE @]

SendPrecommit(rd, b) ==
  LET sent == [rd EXCEPT !.sent = @ \cup {<<"precommits", b>>}]
  IN  IF Accepts(rd, "precommits", Me, b)
        THEN UpdateQuietly(OnSigned(sent, "precommits", Me, b), FALSE, TRUE)
        ELSE sent

DoPrecommit(rd) ==
  LET vote == IF rd.precommit # None THEN rd.precommit ELSE rd.prevote_ghost
  IN  IF \/ rd.precommit # None
         \/ HasAncestry(PrevBestFinalCandidate(rd), rd.prevote_ghost)
        THEN SendPrecommit([rd EXCEPT !.precommit = vote], vote)
        ELSE rd

IsReadyToEnd(rd) ==
  /\ rd.finalized # None
  /\ Number[rd.finalized] >= Number[PrevBestFinalCandidate(rd)]

End(rd) == [rd EXCEPT !.stage = "COMPLETED"]

EndWaitingStage(rd) == End(DoFinalize(rd))

StartWaitingStage(rd) ==
  IF IsReadyToEnd(rd) THEN EndWaitingStage(rd)
                      ELSE [rd EXCEPT !.stage = "WAITING_RUNS"]

EndPrecommitStage(rd) ==
  IF rd.prevote_ghost = None
    THEN [rd EXCEPT !.stage = "PRECOMMIT_WAITS_FOR_PREVOTES"]
    ELSE StartWaitingStage(DoPrecommit([rd EXCEPT !.stage = "END_PRECOMMIT"]))

StartPrecommitStage(rd) ==
  IF rd.completable THEN EndPrecommitStage(rd)
                    ELSE [rd EXCEPT !.stage = "PRECOMMIT_RUNS"]

SendPrevote(rd, b) ==
  LET sent == [rd EXCEPT !.sent = @ \cup {<<"prevotes", b>>}]
  IN  IF Accepts(rd, "prevotes", Me, b)
        THEN UpdateQuietly(OnSigned(sent, "prevotes", Me, b), TRUE, FALSE)
        ELSE sent

\* Mutant: the vote that is already there is not asked for.
DoPrevoteAgain(rd, best_chain) ==
  SendPrevote([rd EXCEPT !.prevote = best_chain], best_chain)

\* doPrevote, with what bestChainContaining answers.
DoPrevote(rd, best_chain) ==
  LET L == PrevBestFinalCandidate(rd)
      primary == rd.primary_vote
      vote == CASE rd.prevote # None -> rd.prevote
                [] /\ rd.prevote = None /\ primary # None
                   /\ Number[best_chain] >= Number[primary]
                   /\ Number[primary] > Number[L] -> primary
                [] OTHER -> best_chain
  IN  SendPrevote([rd EXCEPT !.prevote = vote], vote)

EndPrevoteStage(rd, best_chain) ==
  StartPrecommitStage(DoPrevote([rd EXCEPT !.stage = "END_PREVOTE"], best_chain))

StartPrevoteStage(rd, best_chain) ==
  IF rd.completable THEN EndPrevoteStage(rd, best_chain)
                    ELSE [rd EXCEPT !.stage = "PREVOTE_RUNS"]

\* on_complete_handler_, which startPrevoteStage, startPrecommitStage and
\* startWaitingStage set for their stage.
OnComplete(rd, best_chain) ==
  CASE rd.stage = "PREVOTE_RUNS" -> EndPrevoteStage(rd, best_chain)
    [] rd.stage = "PRECOMMIT_RUNS" -> EndPrecommitStage(rd)
    [] rd.stage = "WAITING_RUNS" /\ IsReadyToEnd(rd) -> EndWaitingStage(rd)
    [] OTHER -> rd

CallOnComplete(rd, best_chain) ==
  IF EstimateUpdated(rd) /\ rd.finalized # None THEN OnComplete(rd, best_chain) ELSE rd

Update(rd, ghost_changed, precommits_changed, best_chain) ==
  TryStartNextRound(
    IF ghost_changed \/ precommits_changed
      THEN CallOnComplete(Recount(rd, ghost_changed, precommits_changed), best_chain)
      ELSE rd)

\* What onPrevote does after onSigned: a stage that waits for the ghost ends.
AfterPrevote(rd, new_ghost) ==
  CASE rd.stage # "PRECOMMIT_WAITS_FOR_PREVOTES" -> rd
    [] rd.stage = "PRECOMMIT_WAITS_FOR_PREVOTES" /\ GhostUpdated(rd, new_ghost) ->
         EndPrecommitStage(SetGhost(rd, new_ghost))
    [] OTHER -> SetGhost(rd, new_ghost)

\* onPrevote of an accepted vote.
OnPrevote(rd, v, b) ==
  LET r == OnSigned(rd, "prevotes", v, b) IN AfterPrevote(r, NewPrevoteGhost(r))

-----------------------------------------------------------------------------
(* Justifications                                                          *)

\* validatePrecommitJustification by a round that knows the equivocators
\* `known`.  An item list is a function from voters to their precommits.
Validates(known, items, target) ==
  LET checked == {v \in Voter \ known : items[v] # <<>>}
      for == {v \in checked : HasAncestry(target, items[v][1])}
      equivocators == {v \in for : Len(items[v]) = 2}
  IN  WeightOf(for \ equivocators) >= Threshold - WeightOf(equivocators)

\* `taken` and then the voters of `S` in the order of the tracker's messages,
\* until the threshold is reached.
TakeInOrder(taken, S, order) ==
  LET Before(i) == {order[h] : h \in 1 .. i - 1} \cap S
  IN  taken \cup {order[i] : i \in {i \in DOMAIN order :
                       order[i] \in S /\ WeightOf(taken \cup Before(i)) < Threshold}}

\* getPrecommitJustification: equivocations, then precommits for the block.
GetPrecommitJustification(tracker, order, b) ==
  LET precommits == {v \in Voted(tracker) \ Equivocators(tracker) :
                       HasAncestry(b, tracker[v][1])}
      equivocations == TakeInOrder({}, Equivocators(tracker), order)
      taken == TakeInOrder(equivocations, precommits, order)
  IN  [v \in Voter |-> IF v \in taken THEN tracker[v] ELSE <<>>]

\* A precommit of a justification is imported like any other.
ImportVote(votes, b) ==
  IF \/ votes = <<>> /\ HasAncestry(LastFinalized, b)
     \/ Len(votes) = 1 /\ votes[1] # b
    THEN Append(votes, b) ELSE votes

\* The precommits of a voter, one after the other.
ImportItem(votes, item) ==
  CASE item = <<>> -> votes
    [] Len(item) = 1 -> ImportVote(votes, item[1])
    [] Len(item) = 2 -> ImportVote(ImportVote(votes, item[1]), item[2])

ImportPrecommits(rd, items) ==
  [rd EXCEPT !.precommits = [v \in Voter |-> ImportItem(rd.precommits[v], items[v])]]

\* The end of applyJustification, with the finalized block it has found.
FinalizeJustified(rd, target, finalized) ==
  IF rd.finalized = None /\ GetTotalWeight(rd.precommits) < Threshold THEN rd
  ELSE IF HasAncestry(target, finalized)
    THEN [rd EXCEPT !.finalized = finalized, !.handed = @ \cup {target},
                    !.next_round = TRUE]
    ELSE [rd EXCEPT !.finalized = finalized]

JustifiedBlock(rd, target) ==
  IF rd.finalized # None THEN rd.finalized
  ELSE FindAncestor(rd, target, Supermajority(rd.precommits))

FinalizeTarget(rd, target) == FinalizeJustified(rd, target, JustifiedBlock(rd, target))

\* applyJustification of a valid justification, and tryExecuteNextRound, which
\* GrandpaImpl::applyJustification calls after it.
ApplyJustification(rd, justification, best_chain) ==
  LET imported == ImportPrecommits(rd, justification.items)
  IN  FinalizeTarget(Update(imported, FALSE, imported # rd, best_chain),
                     justification.target)

-----------------------------------------------------------------------------
(* The round as a state machine                                            *)

\* What bestChainContaining may answer: the best chain contains the candidate,
\* and is cut at the approved, undisputed part of it.  Only doPrevote asks.
BestChains(rd) ==
  LET L == PrevBestFinalCandidate(rd)
  IN  IF rd.prevote # None THEN {LastFinalized}
      ELSE {b \in Subtree(LastFinalized) : HasAncestry(b, L) \/ HasAncestry(L, b)}

NoVotes == [v \in Voter |-> <<>>]

Init ==
  \E setup \in Setup : \E prev \in setup.prevs :
    /\ prev # None => prev.finalized = LastFinalized
    /\ round = [setup |-> setup, stage |-> "INIT", previous_round |-> prev,
                prevotes |-> NoVotes, precommits |-> NoVotes,
                primary_vote |-> None, prevote |-> None, precommit |-> None,
                prevote_ghost |-> None, estimate |-> None, finalized |-> None,
                completable |-> FALSE, grandpa |-> TRUE, wake |-> FALSE,
                next_round |-> FALSE, handed |-> {}, sent |-> {}, saved |-> {},
                untold |-> FALSE]

Play ==
  /\ round.stage = "INIT"
  /\ \E best_chain \in BestChains(round) :
       LET proposes == /\ round.setup.primary /\ round.previous_round # None
                       /\ Number[PrevBestFinalCandidate(round)] > Number[LastFinalized]
           proposal == IF round.primary_vote # None THEN round.primary_vote
                       ELSE PrevBestFinalCandidate(round)
       IN  round' = StartPrevoteStage(
             IF proposes THEN [round EXCEPT !.primary_vote = proposal] ELSE round,
             best_chain)

\* The stage timer.
PrevoteTimeout ==
  /\ round.stage = "PREVOTE_RUNS"
  /\ \E best_chain \in BestChains(round) : round' = EndPrevoteStage(round, best_chain)

PrecommitTimeout ==
  /\ round.stage = "PRECOMMIT_RUNS"
  /\ round' = EndPrecommitStage(round)

\* The task that update schedules when the ghost is known.
Wake ==
  /\ round.wake
  /\ LET r == [round EXCEPT !.wake = FALSE]
     IN  round' = IF r.stage = "PRECOMMIT_WAITS_FOR_PREVOTES"
                    THEN EndPrecommitStage(r) ELSE r

\* onProposal of the primary's proposal.
OnProposal(b) ==
  /\ ~round.setup.primary
  /\ round' = [round EXCEPT !.primary_vote = b]

\* GrandpaImpl::onVoteMessage for this round.  Only a Byzantine voter sends a
\* second vote; any vote may arrive again.
OnVoteMessage(type, v, b) ==
  /\ v # Me
  /\ round[type][v] \in {<<>>, <<b>>} \/ v \in Byzantine
  /\ \E best_chain \in BestChains(round) :
       LET accepted == Accepts(round, type, v, b)
           imported == CASE ~accepted -> round
                         [] accepted /\ type = "prevotes" -> OnPrevote(round, v, b)
                         [] OTHER -> OnSigned(round, type, v, b)
       IN  round' = Update(imported, accepted /\ type = "prevotes",
                           accepted /\ type = "precommits", best_chain)

\* GrandpaImpl::applyHistoricalVotes of a new round: an own vote sent before a
\* restart comes back before the round is played.
ApplyHistoricalVote(type, b) ==
  /\ round.stage = "INIT" /\ round[type][Me] = <<>>
  /\ Accepts(round, type, Me, b)
  /\ LET seen == [OnSigned(round, type, Me, b) EXCEPT !.sent = @ \cup {<<type, b>>}]
     IN  round' = UpdateQuietly(seen, type = "prevotes", type = "precommits")

\* GrandpaImpl::applyJustification for this round.
OnJustification(justification) ==
  /\ \A v \in Voter \ Byzantine :
       /\ round.precommits[v] \in {<<>>, justification.items[v]}
            \/ justification.items[v] = <<>>
       /\ v = Me => justification.items[v] \in {<<>>, round.precommits[v]}
  /\ Validates(Equivocators(round.precommits), justification.items,
               justification.target)
  /\ \E best_chain \in BestChains(round) :
       round' = ApplyJustification(round, justification, best_chain)

\* The previous round's estimate falls or it finalizes a block.  It calls
\* updateNextRound while it has its pointer to GRANDPA.
PreviousRoundChanged ==
  /\ round.previous_round # None
  /\ \E prev \in round.setup.prevs \ {None, round.previous_round} :
       LET changed == [round EXCEPT !.previous_round = prev]
       IN  /\ HasAncestry(prev.candidate, round.previous_round.candidate)
           /\ HasAncestry(round.previous_round.finalized, prev.finalized)
           /\ prev.grandpa => round.previous_round.grandpa
           /\ \/ /\ round.previous_round.grandpa
                 /\ \E best_chain \in BestChains(changed) :
                      round' = Update(changed, TRUE, FALSE, best_chain)
              \/ /\ ~round.previous_round.grandpa
                 /\ round' = [changed EXCEPT !.untold = TRUE]

\* GRANDPA hops to a later round (catch-up, justification) and ends this one.
Abandon ==
  /\ round.stage # "COMPLETED"
  /\ round' = End(round)

Receive ==
  \/ \E b \in Proposal : OnProposal(b)
  \/ \E ballot \in round.setup.ballots : OnVoteMessage(ballot[1], ballot[2], ballot[3])
  \/ \E ballot \in round.setup.ballots :
       ballot[2] = Me /\ ApplyHistoricalVote(ballot[1], ballot[3])
  \/ \E justification \in round.setup.commits : OnJustification(justification)

Next ==
  \/ Play \/ PrevoteTimeout \/ PrecommitTimeout \/ Wake
  \/ Receive \/ PreviousRoundChanged \/ Abandon

Spec == Init /\ [][Next]_round

\* The scheduler runs timers and tasks; nothing makes messages arrive.  Each
\* conjunct is the weak fairness of an action whose guard is written out.
FairSpec ==
  /\ Spec
  /\ []<>(round.stage # "INIT") \/ []<><<Play>>_round
  /\ []<>(round.stage # "PREVOTE_RUNS") \/ []<><<PrevoteTimeout>>_round
  /\ []<>(round.stage # "PRECOMMIT_RUNS") \/ []<><<PrecommitTimeout>>_round
  /\ []<>(~round.wake) \/ []<><<Wake>>_round

-----------------------------------------------------------------------------
(* Properties                                                              *)

Stage == {"INIT", "PREVOTE_RUNS", "PRECOMMIT_RUNS",
          "PRECOMMIT_WAITS_FOR_PREVOTES", "WAITING_RUNS", "COMPLETED"}

\* The members of VotingRoundImpl, with at most two votes of a kind per voter:
\* VoteTracker keeps a first vote and an equivocation.
TypeOK ==
  LET Opt == Block \cup {None}
      Votes == [Voter -> Ballots]
  IN  /\ round.stage \in Stage
      /\ round.setup \in Setup /\ round.previous_round \in round.setup.prevs
      /\ round.prevotes \in Votes /\ round.precommits \in Votes
      /\ {round.primary_vote, round.prevote, round.precommit, round.prevote_ghost,
          round.estimate, round.finalized} \subseteq Opt
      /\ {round.completable, round.grandpa, round.wake, round.next_round}
           \subseteq BOOLEAN
      /\ round.handed \subseteq Block
      /\ round.sent \subseteq {"prevotes", "precommits"} \X Block
      /\ round.saved \subseteq {"prevotes", "precommits"}

\* The blocks a round hands to Environment::finalize, by doFinalize and by
\* applyJustification, are on one chain.
HandedOnOneChain == \A x, y \in round.handed : Comparable(x, y)

\* The finalized block is at or below the estimate and the estimate at or
\* below the prevote ghost, whatever the order of votes.
EstimateBetween ==
  /\ TypeOK
  /\ EstimateUpdated(round) =>
       /\ round.finalized # None /\ round.estimate # None
       /\ HasAncestry(round.finalized, round.estimate)
       /\ HasAncestry(round.estimate, round.prevote_ghost)

\* The voter never sends two different votes of a kind in a round.
NoEquivocation ==
  \A s, t \in round.sent : s[1] = t[1] => s = t

\* A voter that knows the prevote ghost goes on to wait for finality, whichever
\* of the timer, the completion handler, onPrevote and the scheduled task gets
\* to end the precommit stage: none is lost between the others.
GhostEndsPrecommitStage ==
  (round.prevote_ghost # None) ~> (round.stage \in {"WAITING_RUNS", "COMPLETED"})

\* updateNextRound's comment: the next round "will be checked and updated to
\* the new prevote ghost (if any)".  So the ghost is always the one of the
\* votes and of the previous round's estimate, while every change of the
\* previous round is told to this one.  The prevotes reach that estimate here:
\* otherwise what findGhost answers changes with the nodes that precommits add
\* to the graph, and update does not ask it again for a precommit.
GhostUpToDate ==
  ~round.untold /\ PrevBestFinalCandidate(round) \in Supermajority(round.prevotes) =>
    NewPrevoteGhost(round) \in {None, round.prevote_ghost}

\* The votes a round has seen, the own ones above all, are among the
\* historical votes that a restarted node applies. Does not hold, and no run
\* has it: the first update that can start the next round moves grandpa_ away,
\* and the votes that come later are not saved.
OwnVotesSaved ==
  \A type \in {"prevotes", "precommits"} :
    round[type][Me] # <<>> => type \in round.saved

\* The justification that doFinalize and doCommit build for the finalized
\* block, in whatever order the tracker lists the votes, is one that
\* validatePrecommitJustification of the same round accepts. Does not hold with
\* an equivocator, and no run has it: the one counts it, the other skips it.
JustificationAccepted ==
  round.finalized # None =>
    \A order \in {o \in [1 .. Cardinality(Voter) -> Voter] :
                   \A v \in Voter : \E i \in DOMAIN o : o[i] = v} :
      Validates(Equivocators(round.precommits),
                GetPrecommitJustification(round.precommits, order, round.finalized),
                round.finalized)

\* What a round has found out is not taken back by later votes: it stays
\* completable, its estimate, from which the next round starts, never rises,
\* and (without commits) its finalized block never moves back.
NothingReverts ==
  [][/\ round.completable =>
          /\ round'.completable
          /\ HasAncestry(round'.estimate, round.estimate)
     /\ round.finalized # None /\ round.setup.commits = {} =>
          /\ round'.finalized # None
          /\ HasAncestry(round.finalized, round'.finalized)]_round
=============================================================================
