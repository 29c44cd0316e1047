--------------------------- MODULE GrandpaProtocol ---------------------------
(***************************************************************************)
(* The rounds of all voters of one voter set: how the votes that honest    *)
(* voters send (doPrevote, doPrecommit) and the condition under which they *)
(* go on to the next round (updateEstimate, update) keep what is finalized *)
(* in any round, at any node, on one chain.                                *)
(*                                                                         *)
(* `prevotes` and `precommits` hold every vote ever sent.  A node has      *)
(* received some of them: what it computes, it computes from a subset (a   *)
(* view), so messages may be lost, delayed and reordered.  Byzantine       *)
(* voters have sent every vote from the start, and a view shows any of     *)
(* them.  Voters that skip rounds (catch-up, commit messages for a round   *)
(* that is not completable, restart) are not here.                         *)
(***************************************************************************)
EXTENDS Chain

CONSTANTS
  Voter,
  Byzantine,
  SetWeight,   \* the weight of every set of voters
  MaxRound     \* bound: the last round

VARIABLES
  prevotes,    \* in each round, the votes <<voter, block>> sent
  precommits,
  candidate    \* each voter's prevBestFinalCandidate in the rounds it is in

vars == <<prevotes, precommits, candidate>>

Round == 1 .. MaxRound
Honest == Voter \ Byzantine

TotalWeight == SetWeight[Voter]
Faulty == (TotalWeight - 1) \div 3
ThresholdRoundedDown == (TotalWeight * 2) \div 3  \* mutant
Threshold == TotalWeight - Faulty

(***************************************************************************)
(* The weight of a set is the sum of its voters' weights, and Byzantine    *)
(* voters are within the weight GRANDPA tolerates.                         *)
(***************************************************************************)
ASSUME WeightAssumption ==
  /\ SetWeight \in [SUBSET Voter -> Nat]
  /\ SetWeight[{}] = 0
  /\ \A S, T \in SUBSET Voter :
       SetWeight[S \cup T] + SetWeight[S \cap T] = SetWeight[S] + SetWeight[T]

ASSUME FaultAssumption ==
  /\ Byzantine \subseteq Voter
  /\ TotalWeight > 0
  /\ SetWeight[Byzantine] <= Faulty

ASSUME RoundAssumption == MaxRound \in Nat \ {0}

-----------------------------------------------------------------------------
(* What a view shows                                                       *)

Voted(view) == {v \in Voter : \E b \in Block : <<v, b>> \in view}

Equivocators(view) ==
  {v \in Voter : \E b, c \in Block : b # c /\ <<v, b>> \in view /\ <<v, c>> \in view}

\* VoteWeight::total: the voters for `b` or above, equivocators included.
Supporters(view, b) ==
  {v \in Voter : \E c \in Block : <<v, c>> \in view /\ HasAncestry(b, c)}
    \cup Equivocators(view)

HasSupermajority(view, b) == SetWeight[Supporters(view, b)] >= Threshold

\* Mutant: only the votes seen count.
PossibleNow(view, b) == HasSupermajority(view, b)

\* possible_to_precommit
Possible(view, b) ==
  LET precommited_for == SetWeight[Supporters(view, b)]
      against == SetWeight[Voted(view)] - precommited_for
      additional_equivocations ==
        (TotalWeight - Threshold) - SetWeight[Equivocators(view)]
      remaining_commit_votes == TotalWeight - SetWeight[Voted(view)]
  IN  precommited_for + remaining_commit_votes
        + (IF against < additional_equivocations
             THEN against ELSE additional_equivocations) >= Threshold

\* updateEstimate with enough precommits: the highest block on the ghost's
\* chain that may still be finalized.
IsEstimate(view, ghost, b) ==
  /\ SetWeight[Voted(view)] >= Threshold
  /\ HasAncestry(b, ghost) /\ Possible(view, b)
  /\ \A c \in Block : HasAncestry(c, ghost) /\ Possible(view, c) => HasAncestry(c, b)

\* Mutant: any estimate will do.
AlwaysCompletable(view, ghost, estimate) == HasAncestry(estimate, ghost)

\* completable_
Completable(view, ghost, estimate) ==
  \/ estimate # ghost
  \/ \A c \in Block : HasAncestry(estimate, c) /\ Possible(view, c) => c = estimate

\* What bestFinalCandidate of a completable round `r` may be at a node.  The
\* ghost is a block with a supermajority of prevotes (a view has no more of it
\* than all the votes have); which one depends on the candidate from which
\* updateGrandpaGhost started, and here it may be any.
Estimates(r) ==
  {b \in Block :
     \E ghost \in {c \in Block : HasSupermajority(prevotes[r], c)},
        view \in SUBSET precommits[r] :
       IsEstimate(view, ghost, b) /\ Completable(view, ghost, b)}

-----------------------------------------------------------------------------
Init ==
  /\ prevotes = [r \in Round |-> Byzantine \X Block]
  /\ precommits = [r \in Round |-> Byzantine \X Block]
  /\ candidate = [r \in Round |-> [v \in Honest |-> IF r = 1 THEN Genesis ELSE None]]

\* doPrevote: the best chain with the candidate, cut where it is not approved
\* or disputed, or the primary's block, of which only the number is compared.
DoPrevote(v, r, b) ==
  /\ candidate[r][v] # None
  /\ v \notin Voted(prevotes[r])
  /\ Comparable(b, candidate[r][v]) \/ Number[b] > Number[candidate[r][v]]
  /\ prevotes' = [prevotes EXCEPT ![r] = @ \cup {<<v, b>>}]
  /\ UNCHANGED <<precommits, candidate>>

\* doPrecommit for the prevote ghost `b` of a view.
DoPrecommit(v, r, b) ==
  /\ candidate[r][v] # None
  /\ v \in Voted(prevotes[r]) /\ v \notin Voted(precommits[r])
  /\ HasSupermajority(prevotes[r], b) /\ HasAncestry(candidate[r][v], b)
  /\ precommits' = [precommits EXCEPT ![r] = @ \cup {<<v, b>>}]
  /\ UNCHANGED <<prevotes, candidate>>

\* update of a completable round, and tryExecuteNextRound: the next round is
\* made, with this one as its previous_round_ and its estimate as candidate.
TryExecuteNextRound(v, r, estimate) ==
  /\ candidate[r][v] # None /\ candidate[r + 1][v] = None
  /\ candidate' = [candidate EXCEPT ![r + 1][v] = estimate]
  /\ UNCHANGED <<prevotes, precommits>>

\* update of a round that has a next one: the next round reads the estimate
\* through previous_round_, and later votes may have lowered it.
Update(v, r, estimate) ==
  /\ candidate[r + 1][v] # None
  /\ HasAncestry(estimate, candidate[r + 1][v])
  /\ candidate' = [candidate EXCEPT ![r + 1][v] = estimate]
  /\ UNCHANGED <<prevotes, precommits>>

Next ==
  \/ \E r \in Round, v \in Honest, b \in Block :
       DoPrevote(v, r, b) \/ DoPrecommit(v, r, b)
  \/ \E r \in 1 .. MaxRound - 1 : \E estimate \in Estimates(r), v \in Honest :
       TryExecuteNextRound(v, r, estimate) \/ Update(v, r, estimate)

Spec == Init /\ [][Next]_vars

-----------------------------------------------------------------------------
(* Properties                                                              *)

\* Votes are for blocks, and a voter's candidate is a block or not set yet.
TypeOK ==
  /\ prevotes \in [Round -> SUBSET (Voter \X Block)]
  /\ precommits \in [Round -> SUBSET (Voter \X Block)]
  /\ candidate \in [Round -> [Honest -> Block \cup {None}]]

\* Some node may finalize `b` in round `r`.
Finalizable(r, b) == HasSupermajority(precommits[r], b)

FinalBlocks == {b \in Block : \E r \in Round : Finalizable(r, b)}

\* Blocks that nodes finalize, in the same round or in different ones, are on
\* one chain.
Agreement == \A b, c \in FinalBlocks : Comparable(b, c)

\* The honest voters that have precommitted in round `r`, but not for `b`, do
\* not yet keep the others from finalizing it.
Open(r, b) ==
  SetWeight[{v \in Honest : \E c \in Block : /\ <<v, c>> \in precommits[r]
                                             /\ ~HasAncestry(b, c)}] <= Faulty

\* When a voter goes on to a later round, its candidate is above every block
\* that may still be finalized in any earlier round.
CandidateAboveOpen ==
  \A r, q \in Round, v \in Honest, b \in Block :
    r < q /\ candidate[q][v] # None /\ Open(r, b) => HasAncestry(b, candidate[q][v])

\* The voters together implement the finality of Finality.tla.
FinalitySpec == INSTANCE Finality WITH finalized <- FinalBlocks
ImplementsFinality == FinalitySpec!Spec
=============================================================================
