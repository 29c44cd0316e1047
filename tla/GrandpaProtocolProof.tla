------------------------ MODULE GrandpaProtocolProof ------------------------
(***************************************************************************)
(* Agreement of GrandpaProtocol.tla, for every block tree, voter set,      *)
(* weights and number of rounds.                                           *)
(*                                                                         *)
(* A finalized block is open: too few honest voters have precommitted      *)
(* against it.  The inductive invariant says that a voter's candidate in a *)
(* later round is above every open block.  It is inductive because being   *)
(* open is lost and never gained, and because a completable view of a      *)
(* round has its estimate above every open block of that round             *)
(* (EstimateAboveOpen).                                                    *)
(***************************************************************************)
EXTENDS GrandpaProtocol, ChainProof

-----------------------------------------------------------------------------
(* Weights                                                                 *)

\* The constructor's `faulty` and `threshold_` are what GRANDPA needs: the
\* total weight is more than three times the tolerated one.
LEMMA ThresholdFacts ==
  /\ TotalWeight \in Nat /\ Faulty \in Nat /\ Threshold \in Nat
  /\ 3 * Faulty < TotalWeight
  /\ Threshold = TotalWeight - Faulty
<1>1. TotalWeight \in Nat
  BY WeightAssumption DEF TotalWeight
<1>2. TotalWeight > 0
  BY FaultAssumption
<1>3. Faulty = (TotalWeight - 1) \div 3
  BY DEF Faulty
<1>4. QED
  BY <1>1, <1>2, <1>3, SMT DEF Threshold

\* A larger set weighs no less, and two sets weigh at least their union.
LEMMA WeightFacts ==
  ASSUME NEW S \in SUBSET Voter, NEW T \in SUBSET Voter
  PROVE  /\ SetWeight[S] \in Nat
         /\ S \subseteq T => SetWeight[S] <= SetWeight[T]
         /\ SetWeight[S \cup T] <= SetWeight[S] + SetWeight[T]
         /\ S \subseteq T => SetWeight[T \ S] = SetWeight[T] - SetWeight[S]
<1>1. /\ SetWeight[S] \in Nat /\ SetWeight[T] \in Nat /\ SetWeight[T \ S] \in Nat
      /\ SetWeight[S \cap T] \in Nat /\ SetWeight[S \cup T] \in Nat
  BY WeightAssumption
<1>2. SetWeight[S \cup T] + SetWeight[S \cap T] = SetWeight[S] + SetWeight[T]
  BY WeightAssumption
<1>3. ASSUME S \subseteq T
      PROVE  SetWeight[T] = SetWeight[S] + SetWeight[T \ S]
  <2>1. S \cup (T \ S) = T /\ S \cap (T \ S) = {}
    BY <1>3
  <2>2. SetWeight[S \cup (T \ S)] + SetWeight[S \cap (T \ S)]
          = SetWeight[S] + SetWeight[T \ S]
    BY WeightAssumption
  <2>3. SetWeight[{}] = 0
    BY WeightAssumption
  <2>4. QED
    BY <1>1, <2>1, <2>2, <2>3
<1>4. QED
  BY <1>1, <1>2, <1>3

\* Two supermajorities share an honest voter.
LEMMA QuorumsMeet ==
  ASSUME NEW S \in SUBSET Voter, NEW T \in SUBSET Voter,
         SetWeight[S] >= Threshold, SetWeight[T] >= Threshold
  PROVE  \E v \in Honest : v \in S /\ v \in T
<1> SUFFICES ASSUME S \cap T \subseteq Byzantine
             PROVE  FALSE
  BY DEF Honest
<1>1. SetWeight[S \cup T] + SetWeight[S \cap T] = SetWeight[S] + SetWeight[T]
  BY WeightAssumption
<1>2. SetWeight[S \cup T] <= TotalWeight /\ SetWeight[S \cup T] \in Nat
  BY WeightFacts DEF TotalWeight
<1>3. SetWeight[S \cap T] <= SetWeight[Byzantine] /\ SetWeight[S \cap T] \in Nat
  BY WeightFacts, FaultAssumption
<1>4. SetWeight[Byzantine] <= Faulty /\ SetWeight[Byzantine] \in Nat
  BY FaultAssumption, WeightFacts
<1>5. SetWeight[S] \in Nat /\ SetWeight[T] \in Nat
  BY WeightFacts
<1>6. QED
  BY <1>1, <1>2, <1>3, <1>4, <1>5, ThresholdFacts

-----------------------------------------------------------------------------
(* The inductive invariant                                                 *)

\* The honest voters that precommitted in round `r`, but not for `b`.
Against(r, b) ==
  {v \in Honest : \E c \in Block : <<v, c>> \in precommits[r] /\ ~HasAncestry(b, c)}

VoteOnce(votes) ==
  \A r \in Round, v \in Honest, b, c \in Block :
    <<v, b>> \in votes[r] /\ <<v, c>> \in votes[r] => b = c

PrecommitsJustified ==
  \A r \in Round, v \in Honest, b \in Block :
    <<v, b>> \in precommits[r] => /\ candidate[r][v] # None
                                 /\ HasAncestry(candidate[r][v], b)
                                 /\ HasSupermajority(prevotes[r], b)

IInv ==
  /\ TypeOK
  /\ VoteOnce(prevotes)
  /\ VoteOnce(precommits)
  /\ PrecommitsJustified
  /\ CandidateAboveOpen

\* Open, with the voters against a block named.
LEMMA OpenDef ==
  \A r \in Round, b \in Block : Open(r, b) <=> SetWeight[Against(r, b)] <= Faulty
BY DEF Open, Against

\* What a view shows are sets of voters.
LEMMA ViewTypes ==
  ASSUME NEW view, NEW b
  PROVE  /\ Voted(view) \in SUBSET Voter
         /\ Equivocators(view) \in SUBSET Voter
         /\ Supporters(view, b) \in SUBSET Voter
         /\ Equivocators(view) \subseteq Supporters(view, b)
         /\ Supporters(view, b) \subseteq Voted(view)
BY DEF Voted, Equivocators, Supporters

\* The voters against a block are a set of voters.
LEMMA AgainstType ==
  ASSUME NEW r, NEW b
  PROVE  Against(r, b) \in SUBSET Voter
BY FaultAssumption DEF Against, Honest

\* More votes never take a supermajority away (VoteWeight::total).
LEMMA SupermajorityGrows ==
  ASSUME NEW small, NEW large, NEW b \in Block,
         small \subseteq large, HasSupermajority(small, b)
  PROVE  HasSupermajority(large, b)
<1>1. Supporters(small, b) \subseteq Supporters(large, b)
  BY DEF Supporters, Equivocators
<1>2. SetWeight[Supporters(small, b)] <= SetWeight[Supporters(large, b)]
  BY <1>1, WeightFacts, ViewTypes
<1>3. /\ SetWeight[Supporters(small, b)] \in Nat
      /\ SetWeight[Supporters(large, b)] \in Nat
  BY WeightFacts, ViewTypes
<1>4. QED
  BY <1>2, <1>3, ThresholdFacts DEF HasSupermajority

\* Two blocks with a supermajority of prevotes (or of precommits) in a round
\* are on one chain.
LEMMA SupermajoritiesComparable ==
  ASSUME NEW votes, VoteOnce(votes), NEW r \in Round,
         NEW b \in Block, NEW c \in Block,
         HasSupermajority(votes[r], b), HasSupermajority(votes[r], c)
  PROVE  Comparable(b, c)
<1>1. PICK v \in Honest : v \in Supporters(votes[r], b) /\ v \in Supporters(votes[r], c)
  BY QuorumsMeet, ViewTypes DEF HasSupermajority
<1>2. v \notin Equivocators(votes[r])
  BY DEF VoteOnce, Equivocators
<1>3. PICK x \in Block : <<v, x>> \in votes[r] /\ HasAncestry(b, x)
  BY <1>1, <1>2 DEF Supporters
<1>4. PICK y \in Block : <<v, y>> \in votes[r] /\ HasAncestry(c, y)
  BY <1>1, <1>2 DEF Supporters
<1>5. x = y
  BY <1>3, <1>4 DEF VoteOnce
<1>6. QED
  BY <1>3, <1>4, <1>5, AncestryFacts DEF Comparable

\* possible_to_precommit never gives up an open block, whatever the view.
LEMMA OpenIsPossible ==
  ASSUME VoteOnce(precommits), NEW r \in Round, NEW b \in Block, Open(r, b),
         NEW view \in SUBSET precommits[r]
  PROVE  Possible(view, b)
<1> DEFINE V == Voted(view)
           F == Supporters(view, b)
           E == Equivocators(view)
           H == Against(r, b)
<1>1. /\ V \in SUBSET Voter /\ F \in SUBSET Voter /\ E \in SUBSET Voter
      /\ H \in SUBSET Voter /\ Byzantine \in SUBSET Voter
      /\ E \subseteq F /\ F \subseteq V
  BY ViewTypes, AgainstType, FaultAssumption
<1>2. E \subseteq Byzantine
  BY DEF VoteOnce, Equivocators, Honest
<1>3. V \ F \subseteq H \cup (Byzantine \ E)
  BY DEF Voted, Supporters, Against, Honest
<1> HIDE DEF V, F, E, H
<1>4. /\ SetWeight[V] \in Nat /\ SetWeight[F] \in Nat /\ SetWeight[E] \in Nat
      /\ SetWeight[H] \in Nat /\ SetWeight[Byzantine] \in Nat
  BY <1>1, WeightFacts
<1>5. SetWeight[V \ F] = SetWeight[V] - SetWeight[F]
  BY <1>1, WeightFacts
<1>6. SetWeight[Byzantine \ E] = SetWeight[Byzantine] - SetWeight[E]
  BY <1>1, <1>2, WeightFacts
<1>7. SetWeight[V \ F] <= SetWeight[H \cup (Byzantine \ E)]
  <2>1. V \ F \in SUBSET Voter /\ H \cup (Byzantine \ E) \in SUBSET Voter
    BY <1>1
  <2>2. QED
    BY <2>1, <1>3, WeightFacts
<1>8. SetWeight[H \cup (Byzantine \ E)] <= SetWeight[H] + SetWeight[Byzantine \ E]
  <2>1. Byzantine \ E \in SUBSET Voter
    BY <1>1
  <2>2. QED
    BY <2>1, <1>1, WeightFacts
<1>9. SetWeight[H \cup (Byzantine \ E)] \in Nat
  <2>1. H \cup (Byzantine \ E) \in SUBSET Voter
    BY <1>1
  <2>2. QED
    BY <2>1, WeightFacts
<1>10. SetWeight[H] <= Faulty /\ SetWeight[Byzantine] <= Faulty
  BY OpenDef, FaultAssumption DEF H
<1>11. SetWeight[V] - SetWeight[F] <= 2 * Faulty - SetWeight[E]
  BY <1>4, <1>5, <1>6, <1>7, <1>8, <1>9, <1>10, ThresholdFacts
<1>12. QED
  BY <1>4, <1>11, ThresholdFacts DEF Possible, V, F, E

\* A view with enough precommits shows an honest one for an open block.
LEMMA OpenIsVotedFor ==
  ASSUME NEW r \in Round, NEW b \in Block, Open(r, b),
         NEW view \in SUBSET precommits[r], SetWeight[Voted(view)] >= Threshold
  PROVE  \E v \in Honest, c \in Block : <<v, c>> \in precommits[r] /\ HasAncestry(b, c)
<1> DEFINE V == Voted(view)
           H == Against(r, b)
<1>1. V \in SUBSET Voter /\ H \in SUBSET Voter /\ Byzantine \in SUBSET Voter
  BY ViewTypes, AgainstType, FaultAssumption
<1>2. ~(V \subseteq H \cup Byzantine)
  <2> SUFFICES ASSUME V \subseteq H \cup Byzantine
               PROVE  FALSE
    OBVIOUS
  <2>1. H \cup Byzantine \in SUBSET Voter
    BY <1>1
  <2> HIDE DEF V, H
  <2>2. SetWeight[V] <= SetWeight[H \cup Byzantine]
    BY <2>1, <1>1, WeightFacts
  <2>3. SetWeight[H \cup Byzantine] <= SetWeight[H] + SetWeight[Byzantine]
    BY <1>1, WeightFacts
  <2>4. /\ SetWeight[V] \in Nat /\ SetWeight[H] \in Nat
        /\ SetWeight[Byzantine] \in Nat /\ SetWeight[H \cup Byzantine] \in Nat
    BY <2>1, <1>1, WeightFacts
  <2>5. SetWeight[H] <= Faulty /\ SetWeight[Byzantine] <= Faulty
    BY OpenDef, FaultAssumption DEF H
  <2>6. SetWeight[V] >= Threshold
    BY DEF V
  <2>7. QED
    BY <2>2, <2>3, <2>4, <2>5, <2>6, ThresholdFacts
<1>3. PICK v \in Voter : v \in V /\ v \notin H /\ v \notin Byzantine
  BY <1>1, <1>2
<1>4. v \in Honest
  BY <1>3 DEF Honest
<1>5. PICK c \in Block : <<v, c>> \in view
  BY <1>3 DEF Voted
<1>6. <<v, c>> \in precommits[r]
  BY <1>5
<1>7. HasAncestry(b, c)
  BY <1>3, <1>4, <1>6 DEF Against
<1>8. QED
  BY <1>4, <1>6, <1>7

\* A block below an open one is open.
LEMMA OpenBelow ==
  ASSUME NEW r \in Round, NEW b \in Block, NEW c \in Block,
         Open(r, b), HasAncestry(c, b)
  PROVE  Open(r, c)
<1>1. Against(r, c) \subseteq Against(r, b)
  BY AncestryFacts DEF Against
<1>2. SetWeight[Against(r, c)] <= SetWeight[Against(r, b)]
  BY <1>1, AgainstType, WeightFacts
<1>3. SetWeight[Against(r, c)] \in Nat /\ SetWeight[Against(r, b)] \in Nat
  BY AgainstType, WeightFacts
<1>4. QED
  BY <1>2, <1>3, OpenDef, ThresholdFacts

\* The estimate of a completable round is above every block that is open in
\* the round: updateEstimate is right to let the next round start from it.
LEMMA EstimateAboveOpen ==
  ASSUME IInv, NEW r \in Round, NEW b \in Block, Open(r, b),
         NEW estimate \in Estimates(r)
  PROVE  HasAncestry(b, estimate)
<1>1. estimate \in Block
  BY DEF Estimates
<1>2. PICK ghost \in Block, view \in SUBSET precommits[r] :
        /\ HasSupermajority(prevotes[r], ghost)
        /\ IsEstimate(view, ghost, estimate)
        /\ Completable(view, ghost, estimate)
  BY DEF Estimates
<1>3. PICK v \in Honest, c \in Block : <<v, c>> \in precommits[r] /\ HasAncestry(b, c)
  BY <1>2, OpenIsVotedFor DEF IsEstimate
<1>4. HasSupermajority(prevotes[r], c)
  BY <1>3 DEF IInv, PrecommitsJustified
<1>5. Comparable(c, ghost)
  BY <1>2, <1>4, SupermajoritiesComparable DEF IInv
<1>6. HasAncestry(b, ghost) \/ HasAncestry(ghost, b)
  BY <1>2, <1>3, <1>5, AncestryFacts DEF Comparable
<1>7. Possible(view, b)
  BY <1>2, OpenIsPossible DEF IInv
<1>8. CASE HasAncestry(b, ghost)
  BY <1>2, <1>7, <1>8 DEF IsEstimate
<1>9. CASE HasAncestry(ghost, b)
  <2>1. Possible(view, ghost)
    BY <1>2, <1>9, OpenBelow, OpenIsPossible DEF IInv
  <2>2. HasAncestry(ghost, estimate) /\ HasAncestry(estimate, ghost)
    BY <1>2, <2>1, AncestryFacts DEF IsEstimate
  <2>3. estimate = ghost
    BY <1>1, <1>2, <2>2, AncestryFacts
  <2>4. b = estimate
    BY <1>2, <1>7, <1>9, <2>3 DEF Completable
  <2>5. QED
    BY <2>4, AncestryFacts
<1>10. QED
  BY <1>6, <1>8, <1>9

\* A block that is open in an earlier round is open in every round in which
\* candidates are above it.
LEMMA OpenCarriesOver ==
  ASSUME IInv, NEW r \in Round, NEW q \in Round, r < q,
         NEW b \in Block, Open(r, b)
  PROVE  Open(q, b)
<1>1. Against(q, b) = {}
  <2> SUFFICES ASSUME NEW v \in Honest, NEW c \in Block, <<v, c>> \in precommits[q]
               PROVE  HasAncestry(b, c)
    BY DEF Against
  <2>1. /\ candidate[q][v] # None /\ HasAncestry(candidate[q][v], c)
        /\ candidate[q][v] \in Block
    BY DEF IInv, PrecommitsJustified, TypeOK
  <2>2. HasAncestry(b, candidate[q][v])
    BY <2>1 DEF IInv, CandidateAboveOpen
  <2>3. QED
    BY <2>1, <2>2, AncestryFacts
<1>2. SetWeight[Against(q, b)] = 0
  BY <1>1, WeightAssumption
<1>3. QED
  BY <1>2, OpenDef, ThresholdFacts

\* A block with a supermajority of precommits is open.
LEMMA FinalizableIsOpen ==
  ASSUME VoteOnce(precommits), NEW r \in Round, NEW b \in Block, Finalizable(r, b)
  PROVE  Open(r, b)
<1> DEFINE F == Supporters(precommits[r], b)
<1>1. F \in SUBSET Voter /\ Against(r, b) \in SUBSET Voter
  BY ViewTypes, AgainstType
<1>2. Against(r, b) \subseteq Voter \ F
  BY <1>1 DEF Against, Supporters, Equivocators, VoteOnce
<1>3. SetWeight[F] >= Threshold
  BY DEF Finalizable, HasSupermajority
<1> HIDE DEF F
<1>4. SetWeight[Voter \ F] = TotalWeight - SetWeight[F]
  BY <1>1, WeightFacts DEF TotalWeight
<1>5. SetWeight[Against(r, b)] <= SetWeight[Voter \ F]
  BY <1>1, <1>2, WeightFacts
<1>6. SetWeight[F] \in Nat /\ SetWeight[Against(r, b)] \in Nat
  BY <1>1, WeightFacts
<1>7. QED
  BY <1>3, <1>4, <1>5, <1>6, OpenDef, ThresholdFacts

-----------------------------------------------------------------------------
(* Invariance                                                              *)

\* The first round has no votes of honest voters and no earlier round.
LEMMA InitIInv == Init => IInv
<1> SUFFICES ASSUME Init
             PROVE  IInv
  OBVIOUS
<1>1. TypeOK
  BY FaultAssumption, ChainAssumption DEF Init, TypeOK, Honest
<1>2. \A r \in Round, v \in Honest, b \in Block :
        <<v, b>> \notin prevotes[r] /\ <<v, b>> \notin precommits[r]
  BY DEF Init, Honest
<1>3. VoteOnce(prevotes) /\ VoteOnce(precommits) /\ PrecommitsJustified
  BY <1>2 DEF VoteOnce, PrecommitsJustified
<1>4. CandidateAboveOpen
  BY DEF Init, CandidateAboveOpen, Round
<1>5. QED
  BY <1>1, <1>3, <1>4 DEF IInv

\* PrecommitsJustified of the next state, said of the next values of the variables.
LEMMA JustifiedNext ==
  PrecommitsJustified' <=>
    \A q \in Round, w \in Honest, c \in Block :
      <<w, c>> \in precommits'[q] =>
        /\ candidate'[q][w] # None
        /\ HasAncestry(candidate'[q][w], c)
        /\ HasSupermajority(prevotes'[q], c)
BY DEF PrecommitsJustified, HasSupermajority, Supporters, Equivocators

\* doPrevote: one vote more, and it is the voter's first of the round.
LEMMA PrevoteKeepsIInv ==
  ASSUME IInv, NEW v \in Honest, NEW r \in Round, NEW b \in Block, DoPrevote(v, r, b)
  PROVE  IInv'
<1>1. v \in Voter
  BY DEF Honest
<1>2. TypeOK'
  BY <1>1 DEF IInv, TypeOK, DoPrevote
<1>3. \A q \in Round : prevotes[q] \subseteq prevotes'[q]
  BY DEF IInv, TypeOK, DoPrevote
<1>4. VoteOnce(prevotes')
  BY <1>1 DEF IInv, TypeOK, VoteOnce, DoPrevote, Voted
<1>5. PrecommitsJustified'
  <2> SUFFICES ASSUME NEW q \in Round, NEW w \in Honest, NEW c \in Block,
                      <<w, c>> \in precommits[q]
               PROVE  /\ candidate[q][w] # None
                      /\ HasAncestry(candidate[q][w], c)
                      /\ HasSupermajority(prevotes'[q], c)
    BY JustifiedNext DEF DoPrevote
  <2>1. /\ candidate[q][w] # None
        /\ HasAncestry(candidate[q][w], c)
        /\ HasSupermajority(prevotes[q], c)
    BY DEF IInv, PrecommitsJustified
  <2>2. HasSupermajority(prevotes'[q], c)
    BY <1>3, <2>1, SupermajorityGrows
  <2>3. QED
    BY <2>1, <2>2
<1>6. CandidateAboveOpen'
  BY DEF IInv, CandidateAboveOpen, Open, DoPrevote
<1>7. VoteOnce(precommits')
  BY DEF IInv, DoPrevote, VoteOnce
<1>8. QED
  BY <1>2, <1>4, <1>5, <1>6, <1>7 DEF IInv, VoteOnce

\* doPrecommit: fewer blocks are open, and the new precommit is above the
\* candidate and has the prevotes.
LEMMA PrecommitKeepsIInv ==
  ASSUME IInv, NEW v \in Honest, NEW r \in Round, NEW b \in Block, DoPrecommit(v, r, b)
  PROVE  IInv'
<1>1. v \in Voter
  BY DEF Honest
<1>2. TypeOK'
  BY <1>1 DEF IInv, TypeOK, DoPrecommit
<1>3. \A q \in Round : precommits[q] \subseteq precommits'[q]
  BY DEF IInv, TypeOK, DoPrecommit
<1>4. VoteOnce(precommits') /\ VoteOnce(prevotes')
  BY <1>1 DEF IInv, TypeOK, VoteOnce, DoPrecommit, Voted
<1>5. PrecommitsJustified'
  <2>1. \A q \in Round, w \in Honest, c \in Block :
          <<w, c>> \in precommits'[q] =>
            <<w, c>> \in precommits[q] \/ (w = v /\ q = r /\ c = b)
    BY DEF IInv, TypeOK, DoPrecommit
  <2>2. /\ candidate[r][v] # None /\ HasAncestry(candidate[r][v], b)
        /\ HasSupermajority(prevotes[r], b)
    BY DEF DoPrecommit
  <2>3. prevotes' = prevotes /\ candidate' = candidate
    BY DEF DoPrecommit
  <2> SUFFICES ASSUME NEW q \in Round, NEW w \in Honest, NEW c \in Block,
                      <<w, c>> \in precommits'[q]
               PROVE  /\ candidate[q][w] # None
                      /\ HasAncestry(candidate[q][w], c)
                      /\ HasSupermajority(prevotes[q], c)
    BY <2>3, JustifiedNext
  <2>4. QED
    BY <2>1, <2>2 DEF IInv, PrecommitsJustified
<1>6. CandidateAboveOpen'
  <2> SUFFICES ASSUME NEW p \in Round, NEW q \in Round, NEW w \in Honest,
                      NEW c \in Block, p < q, candidate[q][w] # None, Open(p, c)'
               PROVE  HasAncestry(c, candidate[q][w])
    BY DEF CandidateAboveOpen, DoPrecommit
  <2>1. Against(p, c) \subseteq Against(p, c)'
    BY <1>3 DEF Against
  <2>2. Against(p, c) \in SUBSET Voter /\ Against(p, c)' \in SUBSET Voter
    BY FaultAssumption DEF Against, Honest
  <2>3. /\ SetWeight[Against(p, c)] <= SetWeight[Against(p, c)']
        /\ SetWeight[Against(p, c)] \in Nat /\ SetWeight[Against(p, c)'] \in Nat
    BY <2>1, <2>2, WeightFacts
  <2>4. SetWeight[Against(p, c)'] <= Faulty
    BY DEF Open, Against
  <2>5. Open(p, c)
    <3>1. SetWeight[Against(p, c)] <= Faulty
      BY <2>3, <2>4, ThresholdFacts
    <3>2. QED
      BY <3>1, OpenDef
  <2>6. QED
    BY <2>5 DEF IInv, CandidateAboveOpen
<1>7. QED
  BY <1>2, <1>4, <1>5, <1>6 DEF IInv, VoteOnce

\* A candidate taken from a completable view of round `r` is above every block
\* that is open in round `r` or before.
LEMMA EstimateAboveAllOpen ==
  ASSUME IInv, NEW r \in Round, r + 1 \in Round, NEW estimate \in Estimates(r),
         NEW p \in Round, p < r + 1, NEW b \in Block, Open(p, b)
  PROVE  HasAncestry(b, estimate)
<1>1. CASE p = r
  BY <1>1, EstimateAboveOpen
<1>2. CASE p < r
  BY <1>2, OpenCarriesOver, EstimateAboveOpen
<1>3. QED
  BY <1>1, <1>2, RoundAssumption DEF Round

\* tryExecuteNextRound and update: the next round's candidate is set, or falls.
LEMMA CandidateKeepsIInv ==
  ASSUME IInv, NEW v \in Honest, NEW r \in Round, r < MaxRound,
         NEW estimate \in Estimates(r),
         candidate[r + 1][v] = None \/ HasAncestry(estimate, candidate[r + 1][v]),
         candidate' = [candidate EXCEPT ![r + 1][v] = estimate],
         UNCHANGED <<prevotes, precommits>>
  PROVE  IInv'
<1>1. r + 1 \in Round
  BY RoundAssumption DEF Round
<1>2. estimate \in Block /\ estimate # None
  BY ChainAssumption DEF Estimates
<1>3. TypeOK'
  BY <1>1, <1>2 DEF IInv, TypeOK
<1>4. \A q \in Round, w \in Honest :
        candidate'[q][w] = IF q = r + 1 /\ w = v THEN estimate ELSE candidate[q][w]
  BY <1>1 DEF IInv, TypeOK
<1>5. VoteOnce(prevotes') /\ VoteOnce(precommits')
  BY DEF IInv, VoteOnce
<1>6. PrecommitsJustified'
  <2> SUFFICES ASSUME NEW q \in Round, NEW w \in Honest, NEW c \in Block,
                      <<w, c>> \in precommits[q]
               PROVE  /\ candidate'[q][w] # None
                      /\ HasAncestry(candidate'[q][w], c)
                      /\ HasSupermajority(prevotes[q], c)
    BY JustifiedNext
  <2>1. /\ candidate[q][w] # None
        /\ HasAncestry(candidate[q][w], c)
        /\ HasSupermajority(prevotes[q], c)
    BY DEF IInv, PrecommitsJustified
  <2>2. candidate[q][w] \in Block
    BY <2>1 DEF IInv, TypeOK
  <2>3. CASE q = r + 1 /\ w = v
    <3>1. candidate'[q][w] = estimate
      BY <1>4, <2>3
    <3>2. HasAncestry(estimate, candidate[q][w])
      BY <2>1, <2>3
    <3>3. HasAncestry(estimate, c)
      BY <1>2, <2>1, <2>2, <3>2, AncestryFacts
    <3>4. QED
      BY <1>2, <2>1, <3>1, <3>3
  <2>4. CASE ~(q = r + 1 /\ w = v)
    BY <1>4, <2>1, <2>4
  <2>5. QED
    BY <2>3, <2>4
<1>7. CandidateAboveOpen'
  <2> SUFFICES ASSUME NEW p \in Round, NEW q \in Round, NEW w \in Honest,
                      NEW c \in Block, p < q, candidate'[q][w] # None, Open(p, c)
               PROVE  HasAncestry(c, candidate'[q][w])
    BY DEF CandidateAboveOpen, Open
  <2>1. CASE q = r + 1 /\ w = v
    BY <1>1, <1>4, <2>1, EstimateAboveAllOpen
  <2>2. CASE ~(q = r + 1 /\ w = v)
    BY <1>4, <2>2 DEF IInv, CandidateAboveOpen
  <2>3. QED
    BY <2>1, <2>2
<1>8. QED
  BY <1>3, <1>5, <1>6, <1>7 DEF IInv, VoteOnce

\* Every step of a voter keeps the inductive invariant.
LEMMA NextIInv == IInv /\ [Next]_vars => IInv'
<1> SUFFICES ASSUME IInv, [Next]_vars
             PROVE  IInv'
  OBVIOUS
<1>1. CASE UNCHANGED vars
  <2>1. prevotes' = prevotes /\ precommits' = precommits /\ candidate' = candidate
    BY <1>1 DEF vars
  <2>2. TypeOK' /\ VoteOnce(prevotes)' /\ VoteOnce(precommits)'
    BY <2>1 DEF IInv, TypeOK, VoteOnce
  <2>3. PrecommitsJustified'
    BY <2>1, JustifiedNext DEF IInv, PrecommitsJustified
  <2>4. CandidateAboveOpen'
    BY <2>1 DEF IInv, CandidateAboveOpen, Open
  <2>5. QED
    BY <2>2, <2>3, <2>4 DEF IInv
<1>2. CASE Next
  <2>1. ASSUME NEW r \in Round, NEW v \in Honest, NEW b \in Block, DoPrevote(v, r, b)
        PROVE  IInv'
    BY <2>1, PrevoteKeepsIInv
  <2>2. ASSUME NEW r \in Round, NEW v \in Honest, NEW b \in Block, DoPrecommit(v, r, b)
        PROVE  IInv'
    BY <2>2, PrecommitKeepsIInv
  <2>3. ASSUME NEW r \in 1 .. MaxRound - 1, NEW estimate \in Estimates(r),
               NEW v \in Honest,
               TryExecuteNextRound(v, r, estimate) \/ Update(v, r, estimate)
        PROVE  IInv'
    <3>1. r \in Round /\ r < MaxRound
      BY RoundAssumption DEF Round
    <3>2. /\ candidate[r + 1][v] = None \/ HasAncestry(estimate, candidate[r + 1][v])
          /\ candidate' = [candidate EXCEPT ![r + 1][v] = estimate]
          /\ UNCHANGED <<prevotes, precommits>>
      BY <2>3 DEF TryExecuteNextRound, Update
    <3>3. QED
      BY <3>1, <3>2, CandidateKeepsIInv
  <2>4. QED
    BY <1>2, <2>1, <2>2, <2>3 DEF Next
<1>3. QED
  BY <1>1, <1>2

\* The type invariant and its strengthening, in every reachable state.
THEOREM Invariance == Spec => []IInv
<1>1. QED
  BY InitIInv, NextIInv, PTL DEF Spec

\* Votes are for blocks, and a candidate is a block or not set, in every round
\* of every voter.
THEOREM TypeCorrect == Spec => []TypeOK
<1>1. IInv => TypeOK
  BY DEF IInv
<1>2. QED
  BY <1>1, Invariance, PTL

\* A voter's candidate in a later round is above every block that may still be
\* finalized in an earlier one.
THEOREM CandidatesSafe == Spec => []CandidateAboveOpen
<1>1. IInv => CandidateAboveOpen
  BY DEF IInv
<1>2. QED
  BY <1>1, Invariance, PTL

-----------------------------------------------------------------------------
(* Agreement, and the abstract specification                               *)

\* A block with a supermajority of precommits in a later round has an honest
\* voter behind it, whose candidate is above what an earlier round finalized.
LEMMA RoundsAgree ==
  ASSUME IInv, NEW r \in Round, NEW q \in Round, r < q,
         NEW b \in Block, NEW c \in Block, Finalizable(r, b), Finalizable(q, c)
  PROVE  Comparable(b, c)
<1>1. Open(r, b)
  BY FinalizableIsOpen DEF IInv
<1>2. precommits[q] \in SUBSET (Voter \X Block)
  BY DEF IInv, TypeOK
<1>3. Supporters(precommits[q], c) \in SUBSET Voter
  BY DEF Supporters, Equivocators
<1>4. SetWeight[Supporters(precommits[q], c)] > Faulty
  <2>1. SetWeight[Supporters(precommits[q], c)] >= Threshold
    BY DEF Finalizable, HasSupermajority
  <2>2. SetWeight[Supporters(precommits[q], c)] \in Nat
    BY <1>3, WeightFacts
  <2>3. QED
    BY <2>1, <2>2, ThresholdFacts
<1>5. PICK v \in Supporters(precommits[q], c) : v \in Honest
  <2> SUFFICES ASSUME Supporters(precommits[q], c) \subseteq Byzantine
               PROVE  FALSE
    BY <1>3 DEF Honest
  <2>1. SetWeight[Supporters(precommits[q], c)] <= SetWeight[Byzantine]
    BY WeightFacts, FaultAssumption
  <2>2. QED
    <3>1. SetWeight[Byzantine] \in Nat /\ SetWeight[Supporters(precommits[q], c)] \in Nat
      BY <1>3, FaultAssumption, WeightFacts
    <3>2. SetWeight[Byzantine] <= Faulty
      BY FaultAssumption
    <3>3. QED
      BY <1>4, <2>1, <3>1, <3>2, ThresholdFacts
<1>6. v \notin Equivocators(precommits[q])
  BY <1>5 DEF IInv, VoteOnce, Equivocators
<1>7. PICK d \in Block : <<v, d>> \in precommits[q] /\ HasAncestry(c, d)
  BY <1>5, <1>6 DEF Supporters
<1>8. candidate[q][v] # None /\ HasAncestry(candidate[q][v], d)
  BY <1>5, <1>7 DEF IInv, PrecommitsJustified
<1>9. candidate[q][v] \in Block /\ HasAncestry(b, candidate[q][v])
  BY <1>1, <1>5, <1>8 DEF IInv, TypeOK, CandidateAboveOpen
<1>10. QED
  BY <1>7, <1>8, <1>9, AncestryFacts DEF Comparable

\* The inductive invariant gives agreement, within a round and between rounds.
LEMMA IInvAgreement == IInv => Agreement
<1> SUFFICES ASSUME IInv, NEW b \in Block, NEW c \in Block,
                    NEW r \in Round, NEW q \in Round,
                    Finalizable(r, b), Finalizable(q, c)
             PROVE  Comparable(b, c)
  BY DEF Agreement, FinalBlocks
<1>1. CASE r = q
  BY <1>1, SupermajoritiesComparable DEF IInv, Finalizable
<1>2. CASE r < q
  BY <1>2, RoundsAgree
<1>3. CASE q < r
  <2>1. Comparable(c, b)
    BY <1>3, RoundsAgree
  <2>2. QED
    BY <2>1 DEF Comparable
<1>4. QED
  BY <1>1, <1>2, <1>3, RoundAssumption DEF Round

\* Blocks that nodes finalize in any rounds are on one chain, whatever the tree,
\* the weights, the order of the messages and the Byzantine voters' votes.
THEOREM Safety == Spec => []Agreement
<1>1. QED
  BY IInvAgreement, Invariance, PTL

\* What may be finalized never becomes not finalizable: votes are not withdrawn.
LEMMA FinalBlocksGrow == IInv /\ [Next]_vars => FinalBlocks \subseteq FinalBlocks'
<1> SUFFICES ASSUME IInv, [Next]_vars, NEW b \in Block, NEW r \in Round,
                    Finalizable(r, b)
             PROVE  Finalizable(r, b)'
  BY DEF FinalBlocks
<1>1. precommits[r] \subseteq precommits'[r]
  <2>1. CASE precommits' = precommits
    BY <2>1
  <2>2. ASSUME NEW q \in Round, NEW v \in Honest, NEW c \in Block, DoPrecommit(v, q, c)
        PROVE  precommits[r] \subseteq precommits'[r]
    BY <2>2 DEF IInv, TypeOK, DoPrecommit
  <2>3. \/ precommits' = precommits
        \/ \E q \in Round, v \in Honest, c \in Block : DoPrecommit(v, q, c)
    BY DEF Next, vars, DoPrevote, TryExecuteNextRound, Update
  <2>4. QED
    BY <2>1, <2>2, <2>3
<1>2. HasSupermajority(precommits'[r], b)
  BY <1>1, SupermajorityGrows DEF Finalizable
<1>3. QED
  BY <1>2 DEF Finalizable, HasSupermajority, Supporters, Equivocators

\* The voters of GrandpaProtocol implement Finality: each of their steps adds
\* blocks to the one finalized chain, or none.
THEOREM Refinement == Spec => ImplementsFinality
<1>1. Init => FinalitySpec!Init
  BY InitIInv, IInvAgreement DEF FinalitySpec!Init, FinalitySpec!OneChain, Agreement, FinalBlocks
<1>2. IInv /\ IInv' /\ [Next]_vars => [FinalitySpec!Finalize]_FinalBlocks
  <2> SUFFICES ASSUME IInv, IInv', [Next]_vars
               PROVE  FinalitySpec!Finalize
    OBVIOUS
  <2>1. Agreement'
    BY IInvAgreement, PTL
  <2>2. FinalBlocks \subseteq FinalBlocks'
    BY FinalBlocksGrow
  <2>3. FinalBlocks' \subseteq Block
    BY DEF FinalBlocks
  <2>4. QED
    BY <2>1, <2>2, <2>3 DEF FinalitySpec!Finalize, FinalitySpec!OneChain, Agreement
<1>3. QED
  BY <1>1, <1>2, Invariance, PTL DEF Spec, ImplementsFinality, FinalitySpec!Spec
=============================================================================
