--------------------------- MODULE VotingRoundProof ---------------------------
(***************************************************************************)
(* Proofs about VotingRound.  Every method of the round keeps `Sound`, and *)
(* a handler as a whole restores `Between` and `Ghostly`, which hold       *)
(* between handlers only: a vote is counted before the results are.        *)
(***************************************************************************)
EXTENDS VotingRoundLemmas

-----------------------------------------------------------------------------
(* The own votes                                                           *)

\* The votes stay and what the results are compared with.
LEMMA BetweenFrame ==
  ASSUME NEW rd, NEW s, s.prevotes = rd.prevotes, s.precommits = rd.precommits,
         s.prevote_ghost = rd.prevote_ghost, s.finalized = rd.finalized,
         s.estimate = rd.estimate, Between(rd)
  PROVE  Between(s)
BY Zenon DEF Between, EstimateUpdated, EstimateKnown

\* The vote that is decided on is sent.
LEMMA SentKeeps ==
  ASSUME NEW rd, Sound(rd), NEW type \in Kinds, NEW b \in Block, OwnVote(rd, type) = b,
         NEW s, s = [rd EXCEPT !.sent = rd.sent \cup {<<type, b>>}]
  PROVE  /\ Keeps(s, rd) /\ s.stage = rd.stage /\ OwnVote(s, type) = b
         /\ s[type] = rd[type]
<1>1. rd \in Rounds
  BY DEF Sound
<1>2. s \in Rounds
  BY <1>1 DEF Rounds
<1>3. /\ s.setup = rd.setup /\ s.previous_round = rd.previous_round
      /\ s.prevotes = rd.prevotes /\ s.precommits = rd.precommits
      /\ s.prevote = rd.prevote /\ s.precommit = rd.precommit
      /\ s.sent = rd.sent \cup {<<type, b>>} /\ s.estimate = rd.estimate
      /\ s.prevote_ghost = rd.prevote_ghost /\ s.untold = rd.untold
      /\ s.finalized = rd.finalized /\ s.handed = rd.handed /\ s.stage = rd.stage
  BY <1>1 DEF Rounds
<1>4. ASSUME NEW kind \in Kinds PROVE OwnVotes(s, kind)
  <2>1. OwnVotes(rd, kind)
    BY DEF Sound, Kinds
  <2>2. s[kind] = rd[kind] /\ OwnVote(s, kind) = OwnVote(rd, kind)
    BY <1>3, Zenon DEF Kinds, OwnVote
  <2>3. ASSUME NEW c \in Block, <<kind, c>> \in s.sent PROVE c = OwnVote(s, kind)
    BY <1>3, <2>1, <2>2, <2>3 DEF OwnVotes
  <2>4. QED
    BY <1>3, <2>1, <2>2, <2>3, Zenon DEF OwnVotes
<1>5. Follows(s, rd) /\ (Ghostly(rd) => Ghostly(s))
  <2>1. OwnVotes(s, "prevotes") /\ OwnVotes(s, "precommits")
    BY <1>4 DEF Kinds
  <2>2. /\ HonestTracker(s.prevotes) /\ HonestTracker(s.precommits)
        /\ Grows(s.prevotes, rd.prevotes) /\ Grows(s.precommits, rd.precommits)
    BY <1>3, GrowsIsOrder DEF Sound
  <2>3. QED
    BY <1>2, <1>3, <2>1, <2>2, MoreVotesFollows, Zenon
<1>6. Between(rd) => Between(s)
  BY <1>3, BetweenFrame, Zenon
<1>7. OwnVote(s, type) = b /\ s[type] = rd[type]
  BY <1>3, Zenon DEF OwnVote, Kinds
<1>8. QED
  BY <1>3, <1>5, <1>6, <1>7 DEF Keeps

\* A vote is decided on, once.
LEMMA DecidedKeeps ==
  ASSUME NEW rd, Sound(rd), rd.stage # "INIT", NEW type \in Kinds, NEW b \in Block,
         OwnVote(rd, type) \in {None, b},
         NEW s, s = IF type = "prevotes" THEN [rd EXCEPT !.prevote = b]
                                         ELSE [rd EXCEPT !.precommit = b]
  PROVE  Keeps(s, rd) /\ s.stage = rd.stage /\ OwnVote(s, type) = b
<1>1. rd \in Rounds
  BY DEF Sound
<1>2. s \in Rounds
  BY <1>1 DEF Rounds, Opt
<1>3. /\ s.setup = rd.setup /\ s.previous_round = rd.previous_round
      /\ s.prevotes = rd.prevotes /\ s.precommits = rd.precommits
      /\ s.prevote = (IF type = "prevotes" THEN b ELSE rd.prevote)
      /\ s.precommit = (IF type = "prevotes" THEN rd.precommit ELSE b)
      /\ s.sent = rd.sent /\ s.estimate = rd.estimate
      /\ s.prevote_ghost = rd.prevote_ghost /\ s.untold = rd.untold
      /\ s.finalized = rd.finalized /\ s.handed = rd.handed /\ s.stage = rd.stage
  BY <1>1 DEF Rounds
<1>4. OwnVote(s, type) = b /\ \A kind \in Kinds \ {type} : OwnVote(s, kind) = OwnVote(rd, kind)
  BY <1>3 DEF OwnVote, Kinds
<1>5. ASSUME NEW kind \in Kinds PROVE OwnVotes(s, kind)
  <2>1. OwnVotes(rd, kind)
    BY DEF Sound, Kinds
  <2>2. s[kind] = rd[kind]
    BY <1>3, Zenon DEF Kinds
  <2>3. b # None /\ \A c \in Block : c # None
    BY ChainAssumption
  <2>4. OwnVote(rd, kind) \in {None, OwnVote(s, kind)}
    BY <1>4
  <2>5. QED
    BY <1>3, <2>1, <2>2, <2>3, <2>4 DEF OwnVotes
<1>6. Follows(s, rd) /\ (Ghostly(rd) => Ghostly(s))
  <2>1. OwnVotes(s, "prevotes") /\ OwnVotes(s, "precommits")
    BY <1>5 DEF Kinds
  <2>2. /\ HonestTracker(s.prevotes) /\ HonestTracker(s.precommits)
        /\ Grows(s.prevotes, rd.prevotes) /\ Grows(s.precommits, rd.precommits)
    BY <1>3, GrowsIsOrder DEF Sound
  <2>3. QED
    BY <1>2, <1>3, <2>1, <2>2, MoreVotesFollows, Zenon
<1>7. Between(rd) => Between(s)
  BY <1>3, BetweenFrame, Zenon
<1>8. QED
  BY <1>3, <1>4, <1>6, <1>7 DEF Keeps

\* The own vote in the tracker is the one that is decided on, so it is not
\* imported a second time.
LEMMA OwnIsFirst ==
  ASSUME NEW rd, Sound(rd), NEW type \in Kinds, NEW b \in Block, OwnVote(rd, type) = b,
         Accepts(rd, type, Me, b)
  PROVE  rd[type][Me] = <<>>
<1>1. OwnVotes(rd, type) /\ HonestTracker(rd[type]) /\ Me \in Voter
  BY VoterAssumption DEF Sound, Kinds
<1>2. ASSUME rd[type][Me] # <<>> PROVE FALSE
  <2>1. rd[type][Me] = <<b>>
    BY <1>1, <1>2 DEF OwnVotes
  <2>2. <<b>>[1] = b
    OBVIOUS
  <2>3. QED
    BY <1>2, <2>1, <2>2 DEF Accepts
<1>3. QED
  BY <1>2

\* sendPrevote and sendPrecommit
LEMMA SendKeeps ==
  ASSUME NEW rd, Sound(rd), NEW type \in Kinds, NEW b \in Block, OwnVote(rd, type) = b,
         NEW s, s = IF type = "prevotes" THEN SendPrevote(rd, b) ELSE SendPrecommit(rd, b)
  PROVE  Keeps(s, rd) /\ s.stage = rd.stage
<1> DEFINE sent == [rd EXCEPT !.sent = rd.sent \cup {<<type, b>>}]
           signed == OnSigned(sent, type, Me, b)
           ghost == type = "prevotes"
           precommit == type = "precommits"
<1>1. /\ Keeps(sent, rd) /\ sent.stage = rd.stage /\ OwnVote(sent, type) = b
      /\ sent[type] = rd[type]
  BY SentKeeps
<1>2. s = IF Accepts(rd, type, Me, b) THEN UpdateQuietly(signed, ghost, precommit) ELSE sent
  <2>1. CASE type = "prevotes"
    BY <2>1, Zenon DEF SendPrevote
  <2>2. CASE type = "precommits"
    BY <2>2, Zenon DEF SendPrecommit
  <2>3. QED
    BY <2>1, <2>2 DEF Kinds
<1>3. CASE ~Accepts(rd, type, Me, b)
  BY <1>1, <1>2, <1>3, Zenon
<1>4. CASE Accepts(rd, type, Me, b)
  <2> HIDE DEF sent
  <2>1. Sound(sent) /\ sent[type][Me] = <<>> /\ Accepts(sent, type, Me, b)
    BY <1>1, <1>4, OwnIsFirst DEF Keeps, Follows, Accepts
  <2>2. Me \in Voter
    BY VoterAssumption
  <2>3. /\ Follows(signed, sent) /\ signed.stage = sent.stage
        /\ precommit /\ Ghostly(sent) => Ghostly(signed)
    BY <1>1, <2>1, <2>2, OnSignedFollows
  <2> HIDE DEF signed
  <2>4. Sound(signed) /\ ghost \in BOOLEAN /\ precommit \in BOOLEAN
    BY <2>3 DEF Follows
  <2>5. ghost \/ precommit
    BY DEF Kinds
  <2> HIDE DEF ghost, precommit
  <2>6. Counts(s, signed, ghost, ghost \/ precommit)
    BY <1>2, <1>4, <2>4, UpdateQuietlyCounts
  <2>7. Follows(s, rd)
    BY <1>1, <2>3, <2>6, FollowsTrans, Zenon DEF Counts, Keeps
  <2>8. QED
    BY <1>1, <2>3, <2>5, <2>6, <2>7, Zenon DEF Counts, Keeps
<1>5. QED
  BY <1>3, <1>4

-----------------------------------------------------------------------------
(* Stages                                                                  *)

LEMMA StageKeeps ==
  ASSUME NEW rd, Sound(rd), NEW x \in AnyStage \ {"INIT"},
         NEW s, s = [rd EXCEPT !.stage = x]
  PROVE  Keeps(s, rd) /\ s.stage = x /\ SameVotes(s, rd) /\ s.finalized = rd.finalized
<1>1. rd \in Rounds
  BY DEF Sound
<1>2. s \in Rounds
  BY <1>1 DEF Rounds
<1>3. /\ SameVotes(s, rd) /\ s.stage = x /\ s.finalized = rd.finalized
      /\ s.estimate = rd.estimate /\ s.handed = rd.handed
  BY <1>1 DEF Rounds, SameVotes
<1>4. QED
  BY <1>2, <1>3, FrameKeeps, Zenon

LEMMA StageNames ==
  /\ Stage \in SUBSET AnyStage
  /\ {"PREVOTE_RUNS", "PRECOMMIT_RUNS", "PRECOMMIT_WAITS_FOR_PREVOTES", "WAITING_RUNS",
      "COMPLETED"} \in SUBSET (Stage \ {"INIT"})
  /\ {"END_PREVOTE", "END_PRECOMMIT"} \in SUBSET (AnyStage \ {"INIT"})
BY DEF Stage, AnyStage

\* doPrecommit, which endPrecommitStage calls when there is a ghost.
LEMMA DoPrecommitKeeps ==
  ASSUME NEW rd, Sound(rd), rd.stage # "INIT", rd.prevote_ghost # None,
         NEW s, s = DoPrecommit(rd)
  PROVE  Keeps(s, rd) /\ s.stage = rd.stage
<1> DEFINE vote == IF rd.precommit # None THEN rd.precommit ELSE rd.prevote_ghost
           decided == [rd EXCEPT !.precommit = vote]
<1>1. CASE s = rd
  BY <1>1, KeepsItself
<1>2. CASE s = SendPrecommit(decided, vote)
  <2>1. vote \in Block /\ rd.precommit \in {None, vote}
    BY DEF Sound, Rounds, Opt
  <2>2. OwnVote(rd, "precommits") \in {None, vote} /\ "precommits" \in Kinds
        /\ "precommits" # "prevotes"
    BY <2>1 DEF OwnVote, Kinds
  <2> HIDE DEF vote
  <2>3. Keeps(decided, rd) /\ decided.stage = rd.stage /\ OwnVote(decided, "precommits") = vote
    BY <2>1, <2>2, DecidedKeeps
  <2> HIDE DEF decided
  <2>4. Keeps(s, decided) /\ s.stage = decided.stage
    BY <1>2, <2>1, <2>2, <2>3, SendKeeps DEF Keeps, Follows
  <2>5. QED
    BY <2>3, <2>4, KeepsTrans
<1>3. QED
  BY <1>1, <1>2, Zenon DEF DoPrecommit

\* doPrevote
LEMMA DoPrevoteKeeps ==
  ASSUME NEW rd, Sound(rd), rd.stage # "INIT", NEW best_chain \in Block,
         NEW s, s = DoPrevote(rd, best_chain)
  PROVE  Keeps(s, rd) /\ s.stage = rd.stage
<1>1. PICK vote \in Block : /\ rd.prevote \in {None, vote}
                            /\ s = SendPrevote([rd EXCEPT !.prevote = vote], vote)
  <2> DEFINE L == PrevBestFinalCandidate(rd)
             primary == rd.primary_vote
             vote == CASE rd.prevote # None -> rd.prevote
                       [] /\ rd.prevote = None /\ primary # None
                          /\ Number[best_chain] >= Number[primary]
                          /\ Number[primary] > Number[L] -> primary
                       [] OTHER -> best_chain
  <2>1. s = SendPrevote([rd EXCEPT !.prevote = vote], vote)
    BY DEF DoPrevote
  <2>2. rd.prevote \in Opt /\ primary \in Opt
    BY DEF Sound, Rounds
  <2>3. vote \in Block /\ rd.prevote \in {None, vote}
    <3>1. CASE rd.prevote # None
      <4>1. vote = rd.prevote
        BY <3>1
      <4>2. QED
        BY <2>2, <3>1, <4>1 DEF Opt
    <3>2. CASE rd.prevote = None
      <4>1. (vote = primary /\ primary # None) \/ vote = best_chain
        BY <3>2
      <4>2. QED
        BY <2>2, <3>2, <4>1 DEF Opt
    <3>3. QED
      BY <3>1, <3>2
  <2>4. QED
    BY <2>1, <2>3, Zenon
<1> DEFINE decided == [rd EXCEPT !.prevote = vote]
<1>2. OwnVote(rd, "prevotes") \in {None, vote} /\ "prevotes" \in Kinds
  BY <1>1 DEF OwnVote, Kinds
<1>3. Keeps(decided, rd) /\ decided.stage = rd.stage /\ OwnVote(decided, "prevotes") = vote
  BY <1>2, DecidedKeeps
<1> HIDE DEF decided
<1>4. Keeps(s, decided) /\ s.stage = decided.stage
  <2>1. s = SendPrevote(decided, vote)
    BY <1>1 DEF decided
  <2>2. QED
    BY <1>2, <1>3, <2>1, SendKeeps DEF Keeps, Follows
<1>5. QED
  BY <1>3, <1>4, KeepsTrans

\* What a method does that may end a stage of a round that is played.
Plays(s, rd) == Keeps(s, rd) /\ s.stage \in Stage \ {"INIT"}

LEMMA PlaysTrans ==
  ASSUME NEW q, NEW r, NEW s, Keeps(r, q), Plays(s, r)
  PROVE  Plays(s, q)
BY KeepsTrans DEF Plays

LEMMA EndWaitingStagePlays ==
  ASSUME NEW rd, Sound(rd), rd.finalized # None, NEW s, s = EndWaitingStage(rd)
  PROVE  Plays(s, rd)
<1> DEFINE f == [rd EXCEPT !.handed = rd.handed \cup {rd.finalized}]
<1>1. s = [f EXCEPT !.stage = "COMPLETED"]
  BY DEF EndWaitingStage, End, DoFinalize
<1>2. rd \in Rounds /\ rd.finalized \in Block
  BY DEF Sound, Supermajority
<1>3. f \in Rounds
  BY <1>2 DEF Rounds
<1>4. /\ SameVotes(f, rd) /\ f.stage = rd.stage /\ f.finalized = rd.finalized
      /\ f.estimate = rd.estimate /\ f.handed = rd.handed \cup {rd.finalized}
  BY <1>2 DEF Rounds, SameVotes
<1> HIDE DEF f
<1>5. Keeps(f, rd)
  BY <1>3, <1>4, FrameKeeps
<1>6. Sound(f) /\ "COMPLETED" \in AnyStage \ {"INIT"} /\ "COMPLETED" \in Stage \ {"INIT"}
  BY <1>5, StageNames DEF Keeps, Follows
<1>7. Keeps(s, f) /\ s.stage = "COMPLETED"
  BY <1>1, <1>6, StageKeeps
<1>8. QED
  BY <1>5, <1>6, <1>7, KeepsTrans DEF Plays

LEMMA StartWaitingStagePlays ==
  ASSUME NEW rd, Sound(rd), NEW s, s = StartWaitingStage(rd)
  PROVE  Plays(s, rd)
<1>1. CASE IsReadyToEnd(rd)
  BY <1>1, EndWaitingStagePlays DEF StartWaitingStage, IsReadyToEnd
<1>2. CASE ~IsReadyToEnd(rd)
  BY <1>2, StageKeeps, StageNames DEF StartWaitingStage, Plays
<1>3. QED
  BY <1>1, <1>2

LEMMA EndPrecommitStagePlays ==
  ASSUME NEW rd, Sound(rd), NEW s, s = EndPrecommitStage(rd)
  PROVE  Plays(s, rd)
<1>1. CASE rd.prevote_ghost = None
  BY <1>1, StageKeeps, StageNames DEF EndPrecommitStage, Plays
<1>2. CASE rd.prevote_ghost # None
  <2> DEFINE e == [rd EXCEPT !.stage = "END_PRECOMMIT"]
             p == DoPrecommit(e)
  <2>1. s = StartWaitingStage(p)
    BY <1>2 DEF EndPrecommitStage
  <2>2. Keeps(e, rd) /\ e.stage = "END_PRECOMMIT" /\ e.prevote_ghost = rd.prevote_ghost
    BY StageKeeps, StageNames DEF SameVotes
  <2> HIDE DEF e
  <2>3. Keeps(p, e)
    BY <1>2, <2>2, DoPrecommitKeeps DEF Keeps, Follows
  <2> HIDE DEF p
  <2>4. Plays(s, p)
    BY <2>1, <2>3, StartWaitingStagePlays DEF Keeps, Follows
  <2>5. QED
    BY <2>2, <2>3, <2>4, PlaysTrans
<1>3. QED
  BY <1>1, <1>2

LEMMA StartPrecommitStagePlays ==
  ASSUME NEW rd, Sound(rd), NEW s, s = StartPrecommitStage(rd)
  PROVE  Plays(s, rd)
<1>1. CASE s = EndPrecommitStage(rd)
  BY <1>1, EndPrecommitStagePlays
<1>2. CASE s = [rd EXCEPT !.stage = "PRECOMMIT_RUNS"]
  BY <1>2, StageKeeps, StageNames DEF Plays
<1>3. QED
  BY <1>1, <1>2, Zenon DEF StartPrecommitStage

LEMMA EndPrevoteStagePlays ==
  ASSUME NEW rd, Sound(rd), NEW best_chain \in Block, NEW s, s = EndPrevoteStage(rd, best_chain)
  PROVE  Plays(s, rd)
<1> DEFINE e == [rd EXCEPT !.stage = "END_PREVOTE"]
           p == DoPrevote(e, best_chain)
<1>1. s = StartPrecommitStage(p)
  BY DEF EndPrevoteStage
<1>2. Keeps(e, rd) /\ e.stage = "END_PREVOTE"
  BY StageKeeps, StageNames
<1> HIDE DEF e
<1>3. Keeps(p, e)
  BY <1>2, DoPrevoteKeeps DEF Keeps, Follows
<1> HIDE DEF p
<1>4. Plays(s, p)
  BY <1>1, <1>3, StartPrecommitStagePlays DEF Keeps, Follows
<1>5. QED
  BY <1>2, <1>3, <1>4, PlaysTrans

LEMMA StartPrevoteStagePlays ==
  ASSUME NEW rd, Sound(rd), NEW best_chain \in Block, NEW s, s = StartPrevoteStage(rd, best_chain)
  PROVE  Plays(s, rd)
<1>1. CASE s = EndPrevoteStage(rd, best_chain)
  BY <1>1, EndPrevoteStagePlays
<1>2. CASE s = [rd EXCEPT !.stage = "PREVOTE_RUNS"]
  BY <1>2, StageKeeps, StageNames DEF Plays
<1>3. QED
  BY <1>1, <1>2, Zenon DEF StartPrevoteStage

-----------------------------------------------------------------------------
(* update                                                                  *)

\* on_complete_handler_
LEMMA OnCompleteKeeps ==
  ASSUME NEW rd, Sound(rd), rd.stage \in Stage, NEW best_chain \in Block,
         NEW s, s = CallOnComplete(rd, best_chain)
  PROVE  Keeps(s, rd) /\ s.stage \in Stage
<1>1. CASE s = rd
  BY <1>1, KeepsItself
<1>2. CASE s = OnComplete(rd, best_chain)
  <2>1. CASE rd.stage = "PREVOTE_RUNS"
    <3>1. s = EndPrevoteStage(rd, best_chain)
      BY <1>2, <2>1 DEF OnComplete
    <3>2. QED
      BY <3>1, EndPrevoteStagePlays DEF Plays
  <2>2. CASE rd.stage = "PRECOMMIT_RUNS"
    <3>1. s = EndPrecommitStage(rd)
      BY <1>2, <2>2 DEF OnComplete
    <3>2. QED
      BY <3>1, EndPrecommitStagePlays DEF Plays
  <2>3. CASE rd.stage = "WAITING_RUNS" /\ IsReadyToEnd(rd)
    <3>1. s = EndWaitingStage(rd)
      BY <1>2, <2>3 DEF OnComplete
    <3>2. QED
      BY <2>3, <3>1, EndWaitingStagePlays DEF Plays, IsReadyToEnd
  <2>4. CASE /\ rd.stage # "PREVOTE_RUNS" /\ rd.stage # "PRECOMMIT_RUNS"
             /\ ~(rd.stage = "WAITING_RUNS" /\ IsReadyToEnd(rd))
    <3>1. s = rd
      BY <1>2, <2>4 DEF OnComplete
    <3>2. QED
      BY <3>1, KeepsItself
  <2>5. QED
    BY <2>1, <2>2, <2>3, <2>4
<1>3. QED
  BY <1>1, <1>2, Zenon DEF CallOnComplete

LEMMA UpdateKeeps ==
  ASSUME NEW rd, Sound(rd), rd.stage \in Stage, NEW best_chain \in Block,
         NEW ghost \in BOOLEAN, NEW precommits \in BOOLEAN,
         NEW s, s = Update(rd, ghost, precommits, best_chain)
  PROVE  /\ Keeps(s, rd) /\ s.stage \in Stage
         /\ ghost \/ precommits => Between(s)
         /\ ghost => Ghostly(s)
<1> DEFINE r == Recount(rd, ghost, precommits)
           c == CallOnComplete(r, best_chain)
<1>1. CASE ghost \/ precommits
  <2>1. Counts(r, rd, ghost, ghost \/ precommits)
    BY RecountCounts
  <2>2. s = TryStartNextRound(c)
    BY <1>1, Zenon DEF Update
  <2> HIDE DEF r
  <2>3. Sound(r) /\ r.stage \in Stage
    BY <2>1, Zenon DEF Counts, Keeps, Follows
  <2>4. Keeps(c, r) /\ c.stage \in Stage
    BY <2>3, OnCompleteKeeps
  <2> HIDE DEF c
  <2>5. Keeps(s, c) /\ s.stage = c.stage
    BY <2>2, <2>4, TryStartNextRoundKeeps DEF Keeps, Follows
  <2>6. Keeps(s, r)
    BY <2>4, <2>5, KeepsTrans
  <2>7. Keeps(s, rd)
    BY <2>1, <2>6, KeepsTrans, Zenon DEF Counts
  <2>8. QED
    BY <1>1, <2>1, <2>4, <2>5, <2>6, <2>7, Zenon DEF Counts, Keeps
<1>2. CASE ~(ghost \/ precommits)
  <2>1. s = TryStartNextRound(rd)
    BY <1>2, Zenon DEF Update
  <2>2. Keeps(s, rd) /\ s.stage = rd.stage
    BY <2>1, TryStartNextRoundKeeps
  <2>3. QED
    BY <1>2, <2>2, Zenon
<1>3. QED
  BY <1>1, <1>2, Zenon

\* onPrevote of an accepted vote
LEMMA AfterPrevoteFollows ==
  ASSUME NEW rd, Sound(rd), rd.stage \in Stage,
         NEW s, s = AfterPrevote(rd, NewPrevoteGhost(rd))
  PROVE  Follows(s, rd) /\ s.stage \in Stage
<1> DEFINE g == SetGhost(rd, NewPrevoteGhost(rd))
<1>1. Follows(g, rd) /\ g.stage = rd.stage
  BY SetGhostFollows
<1>2. s \in {rd, g, EndPrecommitStage(g)}
  BY Zenon DEF AfterPrevote
<1> HIDE DEF g
<1>3. CASE s = rd
  BY <1>3, KeepsItself DEF Keeps
<1>4. CASE s = g
  BY <1>1, <1>4
<1>5. CASE s = EndPrecommitStage(g)
  <2>1. Plays(s, g)
    BY <1>1, <1>5, EndPrecommitStagePlays DEF Follows
  <2>2. QED
    BY <1>1, <2>1, FollowsTrans DEF Plays, Keeps
<1>6. QED
  BY <1>2, <1>3, <1>4, <1>5

-----------------------------------------------------------------------------
(* Justifications                                                          *)

LEMMA ImportVoteFacts ==
  ASSUME NEW votes \in Ballots, NEW b \in Block,
         votes # <<>> => HasAncestry(LastFinalized, votes[1]),
         NEW r, r = ImportVote(votes, b)
  PROVE  /\ r \in Ballots
         /\ r # <<>> => HasAncestry(LastFinalized, r[1])
         /\ votes # <<>> => r # <<>> /\ r[1] = votes[1]
         /\ Len(votes) = 2 => r = votes
         /\ votes = <<>> => r = <<>> \/ r = <<b>>
         /\ votes = <<>> /\ HasAncestry(LastFinalized, b) => r = <<b>>
         /\ votes = <<b>> => r = votes
<1>1. CASE votes = <<>>
  <2>1. Len(votes) = 0 /\ <<b>> # <<>> /\ <<b>> \in Ballots /\ <<b>>[1] = b
        /\ Append(votes, b) = <<b>>
    BY <1>1, BallotFacts
  <2>2. r = IF HasAncestry(LastFinalized, b) THEN <<b>> ELSE <<>>
    BY <1>1, <2>1 DEF ImportVote
  <2>3. QED
    BY <1>1, <2>1, <2>2
<1>2. CASE Len(votes) = 1
  <2>1. /\ votes # <<>> /\ Append(votes, b) \in Ballots /\ Append(votes, b) # <<>>
        /\ Append(votes, b)[1] = votes[1] /\ votes = <<votes[1]>> /\ <<b>>[1] = b
    BY <1>2, BallotFacts, Zenon
  <2>2. r = IF votes[1] # b THEN Append(votes, b) ELSE votes
    BY <1>2, <2>1 DEF ImportVote
  <2>3. QED
    BY <1>2, <2>1, <2>2
<1>3. CASE Len(votes) = 2
  <2>1. votes # <<>> /\ Len(votes) # 1
    BY <1>3, BallotFacts
  <2>2. r = votes
    BY <2>1 DEF ImportVote
  <2>3. QED
    BY <2>1, <2>2
<1>4. QED
  BY <1>1, <1>2, <1>3, BallotFacts

\* Of an honest voter the round has at most the precommit that the
\* justification has.
LEMMA ImportItemFacts ==
  ASSUME NEW votes \in Ballots, NEW item \in Ballots,
         votes # <<>> => HasAncestry(LastFinalized, votes[1]),
         NEW r, r = ImportItem(votes, item)
  PROVE  /\ r \in Ballots
         /\ r # <<>> => HasAncestry(LastFinalized, r[1])
         /\ votes # <<>> => r # <<>> /\ r[1] = votes[1]
         /\ Len(votes) = 2 => r = votes
         /\ item = <<>> => r = votes
         /\ Len(item) = 1 /\ votes = item => r = votes
         /\ Len(item) = 1 /\ votes = <<>> => r = <<>> \/ r = item
         /\ Len(item) = 1 /\ votes \in {<<>>, item} /\ HasAncestry(LastFinalized, item[1]) =>
              r = item
<1>1. CASE item = <<>>
  <2>1. Len(item) = 0 /\ r = votes
    BY <1>1, BallotFacts DEF ImportItem
  <2>2. QED
    BY <1>1, <2>1
<1>2. CASE Len(item) = 1
  <2>1. item # <<>> /\ item[1] \in Block /\ item = <<item[1]>>
    BY <1>2, BallotFacts
  <2>2. r = ImportVote(votes, item[1])
    BY <1>2, <2>1 DEF ImportItem
  <2>3. /\ r \in Ballots
        /\ r # <<>> => HasAncestry(LastFinalized, r[1])
        /\ votes # <<>> => r # <<>> /\ r[1] = votes[1]
        /\ Len(votes) = 2 => r = votes
        /\ votes = <<>> => r = <<>> \/ r = item
        /\ votes = <<>> /\ HasAncestry(LastFinalized, item[1]) => r = item
        /\ votes = item => r = votes
    BY <2>1, <2>2, ImportVoteFacts
  <2>4. QED
    BY <2>1, <2>3
<1>3. CASE Len(item) = 2
  <2> DEFINE q == ImportVote(votes, item[1])
  <2>1. item # <<>> /\ item[1] \in Block /\ item[2] \in Block
    <3>1. item \in Seq(Block) /\ 2 \in 1 .. Len(item)
      BY <1>3 DEF Ballots
    <3>2. item[2] \in Block
      BY <3>1
    <3>3. QED
      BY <1>3, <3>2, BallotFacts
  <2>2. r = ImportVote(q, item[2])
    BY <1>3, <2>1 DEF ImportItem
  <2>3. /\ q \in Ballots
        /\ q # <<>> => HasAncestry(LastFinalized, q[1])
        /\ votes # <<>> => q # <<>> /\ q[1] = votes[1]
        /\ Len(votes) = 2 => q = votes
    BY <2>1, ImportVoteFacts
  <2> HIDE DEF q
  <2>4. /\ r \in Ballots
        /\ r # <<>> => HasAncestry(LastFinalized, r[1])
        /\ q # <<>> => r # <<>> /\ r[1] = q[1]
        /\ Len(q) = 2 => r = q
    BY <2>1, <2>2, <2>3, ImportVoteFacts
  <2>5. QED
    BY <1>3, <2>1, <2>3, <2>4
<1>4. QED
  BY <1>1, <1>2, <1>3, BallotFacts

\* The precommits of a justification are imported.  A commit can only show what
\* honest voters have sent, and this voter has what it sent itself.
LEMMA ImportFollows ==
  ASSUME NEW rd, Sound(rd), NEW items \in [Voter -> Ballots],
         \A v \in Voter \ Byzantine :
           /\ Len(items[v]) <= 1
           /\ rd.precommits[v] \in {<<>>, items[v]} \/ items[v] = <<>>,
         items[Me] \in {<<>>, rd.precommits[Me]},
         NEW s, s = ImportPrecommits(rd, items)
  PROVE  /\ Follows(s, rd) /\ s.stage = rd.stage /\ (Ghostly(rd) => Ghostly(s))
         /\ \A v \in Voter \ Byzantine :
              items[v] # <<>> /\ HasAncestry(LastFinalized, items[v][1]) =>
                s.precommits[v] = items[v]
<1> DEFINE t == rd.precommits
           u == [v \in Voter |-> ImportItem(t[v], items[v])]
<1>1. rd \in Rounds /\ HonestTracker(t) /\ t \in [Voter -> Ballots]
  BY DEF Sound, HonestTracker
<1>2. s = [rd EXCEPT !.precommits = u]
  BY DEF ImportPrecommits
<1>3. ASSUME NEW v \in Voter
      PROVE  /\ u[v] \in Ballots
             /\ u[v] # <<>> => HasAncestry(LastFinalized, u[v][1])
             /\ t[v] # <<>> => u[v] # <<>> /\ u[v][1] = t[v][1]
             /\ Len(t[v]) = 2 => u[v] = t[v]
             /\ items[v] = <<>> => u[v] = t[v]
             /\ Len(items[v]) = 1 /\ t[v] = items[v] => u[v] = t[v]
             /\ Len(items[v]) = 1 /\ t[v] = <<>> => u[v] = <<>> \/ u[v] = items[v]
             /\ Len(items[v]) = 1 /\ t[v] \in {<<>>, items[v]}
                  /\ HasAncestry(LastFinalized, items[v][1]) => u[v] = items[v]
  <2>1. t[v] \in Ballots /\ items[v] \in Ballots
        /\ (t[v] # <<>> => HasAncestry(LastFinalized, t[v][1]))
    BY <1>1 DEF HonestTracker
  <2>2. u[v] = ImportItem(t[v], items[v])
    OBVIOUS
  <2> HIDE DEF t, u
  <2>3. QED
    BY <2>1, <2>2, ImportItemFacts
<1>4. u \in [Voter -> Ballots]
  BY <1>3
<1> HIDE DEF u
\* An honest voter's item is its only precommit.
<1>5. ASSUME NEW v \in Voter \ Byzantine
      PROVE  /\ Len(u[v]) <= 1
             /\ items[v] # <<>> => Len(items[v]) = 1 /\ t[v] \in {<<>>, items[v]}
  <2>1. t[v] \in Ballots /\ items[v] \in Ballots /\ Len(t[v]) <= 1 /\ Len(items[v]) <= 1
        /\ (t[v] \in {<<>>, items[v]} \/ items[v] = <<>>)
    BY <1>1 DEF HonestTracker
  <2>2. items[v] # <<>> => Len(items[v]) = 1
    BY <2>1, BallotFacts
  <2>3. u[v] \in {<<>>, t[v], items[v]}
    BY <1>3, <2>1, <2>2
  <2>4. Len(<<>>) <= 1
    OBVIOUS
  <2>5. QED
    BY <2>1, <2>2, <2>3, <2>4
<1>6. HonestTracker(u) /\ Grows(u, t)
  <2>1. HonestTracker(u)
    BY <1>3, <1>4, <1>5 DEF HonestTracker
  <2>2. Grows(u, t)
    BY <1>3 DEF Grows
  <2>3. QED
    BY <2>1, <2>2
<1>7. u[Me] = t[Me]
  <2>1. Me \in Voter \ Byzantine
    BY VoterAssumption
  <2>2. QED
    BY <1>3, <1>5, <2>1
<1>8. s \in Rounds
  BY <1>1, <1>2, <1>4 DEF Rounds
<1>9. /\ s.setup = rd.setup /\ s.previous_round = rd.previous_round
      /\ s.prevotes = rd.prevotes /\ s.precommits = u
      /\ s.prevote = rd.prevote /\ s.precommit = rd.precommit /\ s.sent = rd.sent
      /\ s.prevote_ghost = rd.prevote_ghost /\ s.untold = rd.untold
      /\ s.finalized = rd.finalized /\ s.handed = rd.handed /\ s.stage = rd.stage
  BY <1>1, <1>2 DEF Rounds
<1>10. OwnVotes(s, "prevotes") /\ OwnVotes(s, "precommits")
  <2>1. OwnVotes(s, "prevotes")
    BY <1>9, Zenon DEF Sound, OwnVotes, OwnVote
  <2>2. OwnVotes(s, "precommits")
    BY <1>7, <1>9, Zenon DEF Sound, OwnVotes, OwnVote
  <2>3. QED
    BY <2>1, <2>2
<1>11. Follows(s, rd) /\ (Ghostly(rd) => Ghostly(s))
  <2>1. /\ HonestTracker(s.prevotes) /\ HonestTracker(s.precommits)
        /\ Grows(s.prevotes, rd.prevotes) /\ Grows(s.precommits, rd.precommits)
    BY <1>6, <1>9, GrowsIsOrder DEF Sound
  <2>2. QED
    BY <1>8, <1>9, <1>10, <2>1, MoreVotesFollows
<1>12. ASSUME NEW v \in Voter \ Byzantine, items[v] # <<>>,
              HasAncestry(LastFinalized, items[v][1])
       PROVE  s.precommits[v] = items[v]
  BY <1>3, <1>5, <1>9, <1>12
<1>13. QED
  BY <1>9, <1>11, <1>12

\* A justification that validates has an honest precommit for its target, so
\* the target is in the graph once it is imported.
LEMMA JustifiedInGraph ==
  ASSUME NEW known, NEW items \in [Voter -> Ballots], NEW target \in Subtree(LastFinalized),
         Validates(known, items, target),
         \A v \in Voter \ Byzantine : Len(items[v]) <= 1,
         NEW rd,
         \A v \in Voter \ Byzantine :
           items[v] # <<>> /\ HasAncestry(LastFinalized, items[v][1]) =>
             rd.precommits[v] # <<>> /\ rd.precommits[v][1] = items[v][1]
  PROVE  target \in Block /\ target \in Graph(rd)
<1> DEFINE checked == {v \in Voter \ known : items[v] # <<>>}
           for == {v \in checked : HasAncestry(target, items[v][1])}
           equivocators == {v \in for : Len(items[v]) = 2}
<1>1. LastFinalized \in Block /\ target \in Block /\ HasAncestry(LastFinalized, target)
  BY SetupAssumption, SubtreeFacts
<1>2. WeightOf(for \ equivocators) >= Threshold - WeightOf(equivocators)
  BY DEF Validates
<1>3. for \in SUBSET Voter /\ for \ equivocators \in SUBSET Voter
      /\ equivocators \in SUBSET Voter /\ (for \ equivocators) \cup equivocators = for
      /\ (for \ equivocators) \cap equivocators = {}
  OBVIOUS
<1>4. ~(for \subseteq Byzantine)
  <2> HIDE DEF for, equivocators
  <2>1. WeightOf(for) + WeightOf({}) = WeightOf(for \ equivocators) + WeightOf(equivocators)
    BY <1>3, WeightFacts
  <2>2. /\ WeightOf(for) \in Nat /\ WeightOf({}) = 0 /\ WeightOf(for \ equivocators) \in Nat
        /\ WeightOf(equivocators) \in Nat /\ WeightOf(Byzantine) \in Nat
        /\ for \subseteq Byzantine => WeightOf(for) <= WeightOf(Byzantine)
    BY <1>3, WeightFacts, ThresholdFacts, VoterAssumption, Zenon DEF WeightOf
  <2>3. QED
    BY <1>2, <2>1, <2>2, ThresholdFacts
<1>5. PICK v \in for : v \notin Byzantine
  BY <1>4
<1>6. v \in Voter \ Byzantine /\ items[v] # <<>> /\ HasAncestry(target, items[v][1])
      /\ items[v][1] \in Block
  BY <1>5, BallotFacts
<1>7. HasAncestry(LastFinalized, items[v][1])
  BY <1>1, <1>6, AncestryFacts
<1>8. rd.precommits[v] # <<>> /\ rd.precommits[v][1] = items[v][1]
  BY <1>6, <1>7
<1>9. items[v][1] \in Nodes(rd)
  BY <1>6, <1>8 DEF Nodes, Voted
<1>10. QED
  BY <1>1, <1>6, <1>9, GraphFacts DEF Graph

\* The end of applyJustification: the block it finds is there, as its
\* assertion says, and the target is handed on if it is at or below it.
LEMMA FinalizeTargetKeeps ==
  ASSUME NEW rd, Sound(rd), Between(rd), NEW target \in Block, target \in Graph(rd),
         NEW s, s = FinalizeTarget(rd, target)
  PROVE  Follows(s, rd) /\ s.stage = rd.stage /\ Between(s) /\ (Ghostly(rd) => Ghostly(s))
<1> DEFINE f == JustifiedBlock(rd, target)
           h == rd.handed \cup {target}
           S == Supermajority(rd.precommits)
<1>1. rd \in Rounds /\ HonestTracker(rd.precommits) /\ HonestTracker(rd.prevotes)
  BY DEF Sound
<1>2. CASE s = rd
  BY <1>2, KeepsItself DEF Keeps
<1>3. CASE ~(rd.finalized = None /\ GetTotalWeight(rd.precommits) < Threshold)
  <2>1. f \in S /\ f \in Block /\ f # None /\ (rd.finalized # None => f = rd.finalized)
    <3>1. CASE rd.finalized # None
      BY <3>1, ChainAssumption DEF JustifiedBlock, Sound, Supermajority
    <3>2. CASE rd.finalized = None
      <4>1. GetTotalWeight(rd.precommits) >= Threshold
        <5>1. Voted(rd.precommits) \in SUBSET Voter
          BY DEF Voted
        <5>2. GetTotalWeight(rd.precommits) \in Nat
          BY <5>1, WeightFacts DEF GetTotalWeight
        <5>3. QED
          BY <1>3, <3>2, <5>2, ThresholdFacts
      <4>2. LastFinalized \in S
        BY <1>1, <4>1, BaseHasSupermajority
      <4>3. f = AncestorIn(LastFinalized, Nodes(rd), target, S)
        BY <3>2 DEF JustifiedBlock, FindAncestor
      <4>4. LastFinalized \in Block /\ Nodes(rd) \in SUBSET Block
        BY <1>1, NodeFacts
      <4> HIDE DEF f, S
      <4>5. f # None
        BY <4>2, <4>3, <4>4, AncestorFacts, SMTT(60) DEF Graph
      <4>6. QED
        BY <3>2, <4>3, <4>4, <4>5, AncestorFacts, SMTT(60)
    <3>3. QED
      BY <3>1, <3>2
  <2>2. \/ s = [rd EXCEPT !.finalized = f]
        \/ s = [rd EXCEPT !.finalized = f, !.handed = h, !.next_round = TRUE]
             /\ HasAncestry(target, f)
    BY <1>3, Zenon DEF FinalizeTarget, FinalizeJustified
  <2>3. HasAncestry(target, f) => h \subseteq S
    BY <1>1, <2>1, SupermajorityDown DEF Sound
  <2>4. TRUE \in BOOLEAN /\ h \in SUBSET Block /\ f \in Opt
    BY <1>1, <2>1 DEF Rounds, Opt
  <2> HIDE DEF f, h
  <2>5. s \in Rounds
    <3>1. CASE s = [rd EXCEPT !.finalized = f]
      BY <1>1, <2>4, <3>1, ZenonT(60) DEF Rounds
    <3>2. CASE s = [rd EXCEPT !.finalized = f, !.handed = h, !.next_round = TRUE]
      BY <1>1, <2>4, <3>2, ZenonT(60) DEF Rounds
    <3>3. QED
      BY <2>2, <3>1, <3>2
  <2>6. /\ SameVotes(s, rd) /\ s.stage = rd.stage /\ s.finalized = f
        /\ s.estimate = rd.estimate
        /\ s.handed # rd.handed => s.handed = h /\ HasAncestry(target, f)
    <3>1. CASE s = [rd EXCEPT !.finalized = f]
      BY <1>1, <3>1, ZenonT(60) DEF Rounds, SameVotes
    <3>2. CASE s = [rd EXCEPT !.finalized = f, !.handed = h, !.next_round = TRUE]
               /\ HasAncestry(target, f)
      BY <1>1, <3>2, ZenonT(60) DEF Rounds, SameVotes
    <3>3. QED
      BY <2>2, <3>1, <3>2
  <2>7. /\ Graph(s) = Graph(rd) /\ PrevBestFinalCandidate(s) = PrevBestFinalCandidate(rd)
        /\ NewPrevoteGhost(s) = NewPrevoteGhost(rd)
    BY <2>6, SameResults DEF SameVotes
  <2>8. OwnVotes(s, "prevotes") /\ OwnVotes(s, "precommits")
    BY <2>6, Zenon DEF Sound, OwnVotes, OwnVote, SameVotes
  <2>9. s.handed \subseteq Supermajority(s.precommits)
    BY <2>3, <2>6 DEF Sound, SameVotes
  <2>10. Sound(s)
    BY <2>1, <2>5, <2>6, <2>7, <2>8, <2>9, Zenon DEF Sound, SameVotes
  <2>11. Between(s)
    BY <2>1, <2>6, Zenon DEF Between, EstimateUpdated, EstimateKnown, SameVotes
  <2>12. Ghostly(rd) => Ghostly(s)
    BY <2>6, <2>7, Zenon DEF Ghostly, SameVotes
  <2>13. QED
    BY <2>6, <2>10, <2>11, <2>12, GrowsIsOrder, Zenon DEF Follows, SameVotes
<1>4. QED
  BY <1>2, <1>3, Zenon DEF FinalizeTarget, FinalizeJustified

-----------------------------------------------------------------------------
(* The round as a state machine                                            *)

\* What holds between handlers.
Good(rd) ==
  /\ Sound(rd) /\ rd.stage \in Stage
  /\ Between(rd)
  /\ ~rd.untold => Ghostly(rd)

LEMMA GoodKeeps ==
  ASSUME NEW rd, Good(rd), NEW s, Keeps(s, rd), s.stage \in Stage
  PROVE  Good(s)
BY Zenon DEF Good, Keeps, Follows

LEMMA GoodFollows ==
  ASSUME NEW rd, Good(rd), NEW s, Follows(s, rd), s.stage \in Stage, Between(s),
         Ghostly(rd) => Ghostly(s)
  PROVE  Good(s)
BY Zenon DEF Good, Follows

LEMMA BestChainsAreBlocks ==
  ASSUME NEW rd, NEW b \in BestChains(rd)
  PROVE  b \in Block
<1>1. LastFinalized \in Block
  BY SetupAssumption
<1>2. QED
  BY <1>1, SubtreeFacts DEF BestChains

LEMMA CandidateIsBlock ==
  ASSUME NEW rd, Sound(rd)
  PROVE  PrevBestFinalCandidate(rd) \in Block
<1>1. LastFinalized \in Block
  BY SetupAssumption
<1>2. rd.setup \in Setup /\ rd.previous_round \in rd.setup.prevs
  BY DEF Sound, Rounds
<1>3. rd.previous_round # None => rd.previous_round.candidate \in Block
  BY <1>2, SetupAssumption
<1>4. QED
  BY <1>1, <1>3 DEF PrevBestFinalCandidate

\* The primary's proposal
LEMMA PrimaryVoteKeeps ==
  ASSUME NEW rd, Sound(rd), NEW b \in Block, NEW s, s = [rd EXCEPT !.primary_vote = b]
  PROVE  Keeps(s, rd) /\ s.stage = rd.stage
<1>1. rd \in Rounds
  BY DEF Sound
<1>2. s \in Rounds
  BY <1>1 DEF Rounds, Opt
<1>3. /\ SameVotes(s, rd) /\ s.stage = rd.stage /\ s.finalized = rd.finalized
      /\ s.estimate = rd.estimate /\ s.handed = rd.handed
  BY <1>1 DEF Rounds, SameVotes
<1>4. QED
  BY <1>2, <1>3, FrameKeeps, Zenon

LEMMA PlayGood ==
  ASSUME Good(round), Play
  PROVE  Good(round')
<1>1. Sound(round)
  BY DEF Good
<1> DEFINE Proposed == {[round EXCEPT !.primary_vote = b] : b \in Block}
<1>2. PICK best_chain \in BestChains(round), r \in {round} \cup Proposed :
        round' = StartPrevoteStage(r, best_chain)
  <2>1. PrevBestFinalCandidate(round) \in Block
    BY <1>1, CandidateIsBlock
  <2>2. round.primary_vote # None => round.primary_vote \in Block
    BY <1>1 DEF Sound, Rounds, Opt
  <2>3. QED
    BY <2>1, <2>2, Zenon DEF Play
<1>3. best_chain \in Block
  BY BestChainsAreBlocks
<1>4. Keeps(r, round)
  BY <1>1, <1>2, KeepsItself, PrimaryVoteKeeps
<1>5. Plays(round', r)
  BY <1>2, <1>3, <1>4, StartPrevoteStagePlays DEF Keeps, Follows
<1>6. QED
  BY <1>4, <1>5, PlaysTrans, GoodKeeps DEF Plays

LEMMA TimeoutsGood ==
  ASSUME Good(round), PrevoteTimeout \/ PrecommitTimeout
  PROVE  Good(round')
<1>1. Sound(round)
  BY DEF Good
<1>2. CASE PrevoteTimeout
  <2>1. PICK best_chain \in BestChains(round) : round' = EndPrevoteStage(round, best_chain)
    BY <1>2 DEF PrevoteTimeout
  <2>2. best_chain \in Block
    BY BestChainsAreBlocks
  <2>3. QED
    BY <1>1, <2>1, <2>2, EndPrevoteStagePlays, GoodKeeps DEF Plays
<1>3. CASE PrecommitTimeout
  BY <1>1, <1>3, EndPrecommitStagePlays, GoodKeeps DEF Plays, PrecommitTimeout
<1>4. QED
  BY <1>2, <1>3

LEMMA WakeGood ==
  ASSUME Good(round), Wake
  PROVE  Good(round')
<1> DEFINE r == [round EXCEPT !.wake = FALSE]
<1>1. Sound(round) /\ round \in Rounds
  BY DEF Good, Sound
<1>2. FALSE \in BOOLEAN
  OBVIOUS
<1>3. r \in Rounds
  BY <1>1, <1>2, Zenon DEF Rounds
<1>4. /\ SameVotes(r, round) /\ r.stage = round.stage /\ r.finalized = round.finalized
      /\ r.estimate = round.estimate /\ r.handed = round.handed
  BY <1>1, Zenon DEF Rounds, SameVotes
<1>5. round' = r \/ round' = EndPrecommitStage(r)
  BY Zenon DEF Wake
<1> HIDE DEF r
<1>6. Keeps(r, round)
  BY <1>1, <1>3, <1>4, FrameKeeps
<1>7. Good(r)
  BY <1>4, <1>6, GoodKeeps DEF Good
<1>8. CASE round' = EndPrecommitStage(r)
  <2>1. Plays(round', r)
    BY <1>7, <1>8, EndPrecommitStagePlays DEF Good
  <2>2. QED
    BY <1>7, <2>1, GoodKeeps DEF Plays
<1>9. QED
  BY <1>5, <1>7, <1>8

LEMMA AbandonGood ==
  ASSUME Good(round), Abandon
  PROVE  Good(round')
<1>1. "COMPLETED" \in AnyStage \ {"INIT"} /\ "COMPLETED" \in Stage
  BY StageNames
<1>2. Keeps(round', round) /\ round'.stage = "COMPLETED"
  BY <1>1, StageKeeps DEF Good, Abandon, End
<1>3. QED
  BY <1>1, <1>2, GoodKeeps

LEMMA OnProposalGood ==
  ASSUME Good(round), NEW b \in Proposal, OnProposal(b)
  PROVE  Good(round')
<1>1. b \in Block
  BY SetupAssumption
<1>2. Keeps(round', round) /\ round'.stage = round.stage
  BY <1>1, PrimaryVoteKeeps DEF Good, OnProposal
<1>3. QED
  BY <1>2, GoodKeeps DEF Good

LEMMA BallotsOfSetup ==
  ASSUME Good(round), NEW ballot \in round.setup.ballots
  PROVE  ballot[1] \in Kinds /\ ballot[2] \in Voter /\ ballot[3] \in Block
<1>1. round.setup \in Setup
  BY DEF Good, Sound, Rounds
<1>2. ballot \in {"prevotes", "precommits"} \X Voter \X Block
  BY <1>1, SetupAssumption
<1>3. QED
  BY <1>2 DEF Kinds

LEMMA OnVoteMessageGood ==
  ASSUME Good(round), NEW type \in Kinds, NEW v \in Voter, NEW b \in Block,
         OnVoteMessage(type, v, b)
  PROVE  Good(round')
<1> DEFINE accepted == Accepts(round, type, v, b)
           signed == OnSigned(round, type, v, b)
<1>1. Sound(round) /\ round.stage \in Stage
  BY DEF Good
<1>2. PICK best_chain \in Block :
        round' = Update(CASE ~accepted -> round
                          [] accepted /\ type = "prevotes" -> OnPrevote(round, v, b)
                          [] OTHER -> signed,
                        accepted /\ type = "prevotes", accepted /\ type = "precommits",
                        best_chain)
  <2>1. PICK best_chain \in BestChains(round) :
          round' = Update(CASE ~accepted -> round
                            [] accepted /\ type = "prevotes" -> OnPrevote(round, v, b)
                            [] OTHER -> signed,
                          accepted /\ type = "prevotes", accepted /\ type = "precommits",
                          best_chain)
    BY DEF OnVoteMessage
  <2>2. QED
    BY <2>1, BestChainsAreBlocks
<1>3. CASE ~accepted
  <2>1. round' = Update(round, FALSE, FALSE, best_chain)
    <3>1. (accepted /\ type = "prevotes") = FALSE /\ (accepted /\ type = "precommits") = FALSE
      BY <1>3
    <3>2. QED
      BY <1>2, <1>3, <3>1, Zenon
  <2>2. Keeps(round', round) /\ round'.stage \in Stage
    BY <1>1, <2>1, UpdateKeeps, Zenon
  <2>3. QED
    BY <2>2, GoodKeeps
<1>4. ASSUME accepted PROVE round[type][v] = <<>> \/ v \in Byzantine
  <2>1. round[type][v] = <<b>> => FALSE
    <3>1. <<b>> # <<>> /\ <<b>>[1] = b
      OBVIOUS
    <3>2. QED
      BY <1>4, <3>1 DEF Accepts
  <2>2. round[type][v] \in {<<>>, <<b>>} \/ v \in Byzantine
    BY DEF OnVoteMessage
  <2>3. QED
    BY <2>1, <2>2
<1>5. ASSUME accepted
      PROVE  /\ Follows(signed, round) /\ signed.stage = round.stage
             /\ type = "precommits" /\ Ghostly(round) => Ghostly(signed)
  <2>1. v # Me
    BY DEF OnVoteMessage
  <2>2. QED
    BY <1>1, <1>4, <1>5, <2>1, OnSignedFollows, SMTT(60)
<1>6. CASE accepted /\ type = "prevotes"
  <2> DEFINE after == OnPrevote(round, v, b)
  <2>1. round' = Update(after, TRUE, FALSE, best_chain)
    <3>1. (accepted /\ type = "prevotes") = TRUE /\ (accepted /\ type = "precommits") = FALSE
      BY <1>6
    <3>2. QED
      BY <1>2, <1>6, <3>1, Zenon
  <2>2. after = AfterPrevote(signed, NewPrevoteGhost(signed))
    BY <1>6 DEF OnPrevote
  <2> HIDE DEF after, signed
  <2>3. Sound(signed) /\ signed.stage \in Stage
    BY <1>1, <1>5, <1>6 DEF Follows
  <2>4. Follows(after, signed) /\ after.stage \in Stage
    BY <2>2, <2>3, AfterPrevoteFollows
  <2>5. Sound(after)
    BY <2>4 DEF Follows
  <2>6. Keeps(round', after) /\ round'.stage \in Stage /\ Between(round') /\ Ghostly(round')
    BY <2>1, <2>4, <2>5, UpdateKeeps, Zenon
  <2>7. QED
    BY <2>6, Zenon DEF Good, Keeps, Follows
<1>7. CASE accepted /\ type = "precommits"
  <2>1. round' = Update(signed, FALSE, TRUE, best_chain)
    <3>1. (accepted /\ type = "prevotes") = FALSE /\ (accepted /\ type = "precommits") = TRUE
          /\ type # "prevotes"
      BY <1>7
    <3>2. QED
      BY <1>2, <1>7, <3>1, Zenon
  <2> HIDE DEF signed
  <2>2. Sound(signed) /\ signed.stage \in Stage
    BY <1>1, <1>5, <1>7 DEF Follows
  <2>3. Keeps(round', signed) /\ round'.stage \in Stage /\ Between(round')
    BY <2>1, <2>2, UpdateKeeps, Zenon
  <2>4. Follows(round', round) /\ (Ghostly(round) => Ghostly(round'))
    BY <1>5, <1>7, <2>3, FollowsTrans DEF Keeps
  <2>5. QED
    BY <2>3, <2>4, GoodFollows
<1>8. QED
  BY <1>3, <1>6, <1>7 DEF Kinds

LEMMA ApplyHistoricalVoteGood ==
  ASSUME Good(round), NEW type \in Kinds, NEW b \in Block, ApplyHistoricalVote(type, b)
  PROVE  Good(round')
<1> DEFINE signed == OnSigned(round, type, Me, b)
           seen == [signed EXCEPT !.sent = signed.sent \cup {<<type, b>>}]
           ghost == type = "prevotes"
           precommit == type = "precommits"
<1>1. /\ Sound(round) /\ round.stage \in Stage /\ round.stage = "INIT"
      /\ round[type][Me] = <<>> /\ Accepts(round, type, Me, b)
  BY DEF Good, ApplyHistoricalVote
<1>2. Me \in Voter /\ OwnVote(round, type) = None
  <2>1. OwnVotes(round, type)
    BY <1>1 DEF Sound, Kinds
  <2>2. QED
    BY <1>1, <2>1, VoterAssumption DEF OwnVotes
<1>3. /\ Follows(signed, round) /\ signed.stage = round.stage /\ OwnVote(signed, type) = b
      /\ precommit /\ Ghostly(round) => Ghostly(signed)
  BY <1>1, <1>2, OnSignedFollows, SMTT(60)
<1>4. round' = UpdateQuietly(seen, ghost, precommit)
  BY Zenon DEF ApplyHistoricalVote
<1> HIDE DEF signed
<1>5. Keeps(seen, signed) /\ seen.stage = signed.stage
  BY <1>3, SentKeeps DEF Follows
<1> HIDE DEF seen
<1>6. Sound(seen) /\ ghost \in BOOLEAN /\ precommit \in BOOLEAN /\ (ghost \/ precommit)
  BY <1>5 DEF Keeps, Follows, Kinds
<1> HIDE DEF ghost, precommit
<1>7. Counts(round', seen, ghost, ghost \/ precommit)
  BY <1>4, <1>6, UpdateQuietlyCounts
<1>8. Follows(round', round)
  BY <1>3, <1>5, <1>7, FollowsTrans, Zenon DEF Counts, Keeps
<1>9. /\ round'.stage = round.stage /\ Between(round')
      /\ Ghostly(round) => Ghostly(round')
  BY <1>3, <1>5, <1>6, <1>7, Zenon DEF Counts, Keeps
<1>10. QED
  BY <1>1, <1>8, <1>9, GoodFollows

LEMMA OnJustificationGood ==
  ASSUME Good(round), NEW justification \in round.setup.commits,
         OnJustification(justification)
  PROVE  Good(round')
<1> DEFINE items == justification.items
           target == justification.target
           imported == ImportPrecommits(round, items)
           changed == imported # round
<1>1. Sound(round) /\ round.stage \in Stage /\ Between(round)
  BY DEF Good
<1>2. /\ items \in [Voter -> Ballots] /\ target \in Subtree(LastFinalized)
      /\ \A v \in Voter \ Byzantine : Len(items[v]) <= 1
  BY <1>1, SetupAssumption DEF Sound, Rounds
<1>3. PICK best_chain \in Block :
        round' = FinalizeTarget(Update(imported, FALSE, changed, best_chain), target)
  <2>1. PICK best_chain \in BestChains(round) :
          round' = FinalizeTarget(Update(imported, FALSE, changed, best_chain), target)
    BY Zenon DEF OnJustification, ApplyJustification
  <2>2. QED
    BY <2>1, BestChainsAreBlocks, Zenon
<1>4. Validates(Equivocators(round.precommits), items, target)
  BY DEF OnJustification
<1>5. /\ \A v \in Voter \ Byzantine :
           round.precommits[v] \in {<<>>, items[v]} \/ items[v] = <<>>
      /\ items[Me] \in {<<>>, round.precommits[Me]}
  BY VoterAssumption DEF OnJustification
<1> HIDE DEF items, target
<1>6. /\ Follows(imported, round) /\ imported.stage = round.stage
      /\ Ghostly(round) => Ghostly(imported)
      /\ \A v \in Voter \ Byzantine :
           items[v] # <<>> /\ HasAncestry(LastFinalized, items[v][1]) =>
             imported.precommits[v] = items[v]
  BY <1>1, <1>2, <1>5, ImportFollows, SMTT(60)
<1>7. Between(round) /\ ~changed => Between(imported)
  OBVIOUS
<1>8. changed \in BOOLEAN
  OBVIOUS
<1> DEFINE updated == Update(imported, FALSE, changed, best_chain)
<1> HIDE DEF imported, changed
<1>9. /\ Keeps(updated, imported) /\ updated.stage \in Stage
      /\ changed => Between(updated)
  <2>1. Sound(imported) /\ imported.stage \in Stage
    BY <1>1, <1>6 DEF Follows
  <2>2. FALSE \in BOOLEAN
    OBVIOUS
  <2>3. QED
    BY <1>8, <2>1, <2>2, UpdateKeeps, Zenon
<1> HIDE DEF updated
<1>10. Sound(updated) /\ Between(updated)
  BY <1>1, <1>7, <1>9, Zenon DEF Keeps, Follows
<1>11. target \in Block /\ target \in Graph(updated)
  <2>1. ASSUME NEW v \in Voter \ Byzantine, items[v] # <<>>,
               HasAncestry(LastFinalized, items[v][1])
        PROVE  updated.precommits[v] # <<>> /\ updated.precommits[v][1] = items[v][1]
    <3>1. imported.precommits[v] = items[v]
      BY <1>6, <2>1
    <3>2. Grows(updated.precommits, imported.precommits)
      BY <1>9 DEF Keeps, Follows
    <3>3. QED
      BY <2>1, <3>1, <3>2 DEF Grows
  <2>2. QED
    BY <1>2, <1>4, <2>1, JustifiedInGraph, SMTT(60)
<1>12. /\ Follows(round', updated) /\ round'.stage = updated.stage /\ Between(round')
       /\ Ghostly(updated) => Ghostly(round')
  <2>1. round' = FinalizeTarget(updated, target)
    BY <1>3 DEF updated
  <2>2. QED
    BY <1>10, <1>11, <2>1, FinalizeTargetKeeps
<1>13. Follows(round', round) /\ (Ghostly(round) => Ghostly(round'))
  BY <1>6, <1>9, <1>12, FollowsTrans DEF Keeps
<1>14. QED
  BY <1>9, <1>12, <1>13, GoodFollows

LEMMA PreviousRoundChangedGood ==
  ASSUME Good(round), PreviousRoundChanged
  PROVE  Good(round')
<1>1. Sound(round) /\ round \in Rounds /\ round.stage \in Stage /\ Between(round)
  BY DEF Good, Sound
<1>2. PICK prev \in round.setup.prevs :
        LET changed == [round EXCEPT !.previous_round = prev]
        IN  \/ \E best_chain \in BestChains(changed) :
                 round' = Update(changed, TRUE, FALSE, best_chain)
            \/ round' = [changed EXCEPT !.untold = TRUE]
  BY Zenon DEF PreviousRoundChanged
<1> DEFINE changed == [round EXCEPT !.previous_round = prev]
           told == [changed EXCEPT !.untold = TRUE]
\* The invariant says nothing of which state the previous round is in.
<1>3. ASSUME NEW s \in Rounds, s.previous_round = prev, s.setup = round.setup,
             s.stage = round.stage, s.prevotes = round.prevotes,
             s.precommits = round.precommits, s.prevote = round.prevote,
             s.precommit = round.precommit, s.sent = round.sent,
             s.prevote_ghost = round.prevote_ghost, s.finalized = round.finalized,
             s.handed = round.handed
      PROVE  Sound(s)
  <2>1. Graph(s) = Graph(round)
    BY <1>3, Zenon DEF Graph, Nodes
  <2>2. OwnVotes(s, "prevotes") /\ OwnVotes(s, "precommits")
    BY <1>1, <1>3, Zenon DEF Sound, OwnVotes, OwnVote
  <2>3. QED
    BY <1>1, <1>2, <1>3, <2>1, <2>2 DEF Sound
<1>4. changed \in Rounds
  <2>1. prev \in UNION {s.prevs : s \in Setup}
    BY <1>1, <1>2 DEF Rounds
  <2>2. QED
    BY <1>1, <2>1, Zenon DEF Rounds
<1>5. /\ changed.previous_round = prev /\ changed.setup = round.setup
      /\ changed.stage = round.stage /\ changed.prevotes = round.prevotes
      /\ changed.precommits = round.precommits /\ changed.prevote = round.prevote
      /\ changed.precommit = round.precommit /\ changed.sent = round.sent
      /\ changed.prevote_ghost = round.prevote_ghost /\ changed.finalized = round.finalized
      /\ changed.handed = round.handed /\ changed.estimate = round.estimate
  BY <1>1, Zenon DEF Rounds
<1>6. (\E best_chain \in Block : round' = Update(changed, TRUE, FALSE, best_chain))
        \/ round' = told
  BY <1>2, BestChainsAreBlocks, Zenon
<1>7. Sound(changed)
  BY <1>3, <1>4, <1>5, Zenon
<1> HIDE DEF changed
<1>8. CASE \E best_chain \in Block : round' = Update(changed, TRUE, FALSE, best_chain)
  <2>1. PICK best_chain \in Block : round' = Update(changed, TRUE, FALSE, best_chain)
    BY <1>8, Zenon
  <2>2. Keeps(round', changed) /\ round'.stage \in Stage /\ Between(round') /\ Ghostly(round')
    BY <1>1, <1>5, <1>7, <2>1, UpdateKeeps, Zenon
  <2>3. QED
    BY <2>2, Zenon DEF Good, Keeps, Follows
<1>9. CASE round' = told
  <2>1. TRUE \in BOOLEAN
    OBVIOUS
  <2>2. told \in Rounds
    BY <1>4, <2>1, Zenon DEF Rounds
  <2>3. /\ told.previous_round = prev /\ told.setup = round.setup
        /\ told.stage = round.stage /\ told.prevotes = round.prevotes
        /\ told.precommits = round.precommits /\ told.prevote = round.prevote
        /\ told.precommit = round.precommit /\ told.sent = round.sent
        /\ told.prevote_ghost = round.prevote_ghost /\ told.finalized = round.finalized
        /\ told.handed = round.handed /\ told.estimate = round.estimate /\ told.untold = TRUE
    BY <1>4, <1>5, Zenon DEF Rounds
  <2> HIDE DEF told
  <2>4. Sound(told)
    BY <1>3, <2>2, <2>3
  <2>5. Between(told)
    BY <1>1, <2>3, BetweenFrame
  <2>6. QED
    BY <1>1, <1>9, <2>3, <2>4, <2>5, Zenon DEF Good
<1>10. QED
  BY <1>6, <1>8, <1>9, Zenon

LEMMA InitGood ==
  ASSUME Init
  PROVE  Good(round)
<1>1. PICK setup \in Setup : \E prev \in setup.prevs :
        round = [setup |-> setup, stage |-> "INIT", previous_round |-> prev,
                 prevotes |-> NoVotes, precommits |-> NoVotes,
                 primary_vote |-> None, prevote |-> None, precommit |-> None,
                 prevote_ghost |-> None, estimate |-> None, finalized |-> None,
                 completable |-> FALSE, grandpa |-> TRUE, wake |-> FALSE,
                 next_round |-> FALSE, handed |-> {}, sent |-> {}, saved |-> {},
                 untold |-> FALSE]
  BY Zenon DEF Init
<1>2. PICK prev \in setup.prevs :
        round = [setup |-> setup, stage |-> "INIT", previous_round |-> prev,
                 prevotes |-> NoVotes, precommits |-> NoVotes,
                 primary_vote |-> None, prevote |-> None, precommit |-> None,
                 prevote_ghost |-> None, estimate |-> None, finalized |-> None,
                 completable |-> FALSE, grandpa |-> TRUE, wake |-> FALSE,
                 next_round |-> FALSE, handed |-> {}, sent |-> {}, saved |-> {},
                 untold |-> FALSE]
  BY <1>1, Zenon
<1>3. HonestTracker(NoVotes) /\ \A v \in Voter : NoVotes[v] = <<>>
  <2>1. <<>> \in Ballots /\ Len(<<>>) = 0
    BY DEF Ballots
  <2>2. QED
    BY <2>1 DEF HonestTracker, NoVotes
<1>4. "INIT" \in AnyStage /\ "INIT" \in Stage /\ None \in Opt /\ TRUE \in BOOLEAN
      /\ FALSE \in BOOLEAN /\ prev \in UNION {s.prevs : s \in Setup}
      /\ {} \in SUBSET Block /\ {} \in SUBSET (Kinds \X Block) /\ {} \in SUBSET Kinds
  BY <1>1, <1>2 DEF AnyStage, Stage, Opt
<1>5. round \in Rounds
  BY <1>1, <1>2, <1>3, <1>4, Zenon DEF Rounds, HonestTracker
<1>6. /\ round.setup = setup /\ round.stage = "INIT" /\ round.previous_round = prev
      /\ round.prevotes = NoVotes /\ round.precommits = NoVotes
      /\ round.prevote = None /\ round.precommit = None /\ round.prevote_ghost = None
      /\ round.finalized = None /\ round.handed = {} /\ round.sent = {}
  BY <1>2, Zenon
<1>7. OwnVotes(round, "prevotes") /\ OwnVotes(round, "precommits")
  <2>1. Me \in Voter
    BY VoterAssumption
  <2>2. QED
    BY <1>3, <1>6, <2>1 DEF OwnVotes, OwnVote
<1>8. Sound(round)
  BY <1>2, <1>3, <1>5, <1>6, <1>7, Zenon DEF Sound
<1>9. Between(round)
  BY <1>6 DEF Between, EstimateUpdated, EstimateKnown
<1>10. Ghostly(round)
  <2>1. Voted(NoVotes) = {}
    BY <1>3 DEF Voted
  <2>2. GetTotalWeight(NoVotes) = 0
    BY <2>1, VoterAssumption DEF GetTotalWeight, WeightOf
  <2>3. 0 < Threshold
    BY ThresholdFacts
  <2>4. NewPrevoteGhost(round) = None
    BY <1>6, <2>2, <2>3 DEF NewPrevoteGhost
  <2>5. QED
    BY <2>4 DEF Ghostly
<1>11. QED
  BY <1>4, <1>6, <1>8, <1>9, <1>10 DEF Good

LEMMA NextGood ==
  ASSUME Good(round), Next
  PROVE  Good(round')
<1>1. CASE Receive
  <2>1. CASE \E b \in Proposal : OnProposal(b)
    BY <2>1, OnProposalGood
  <2>2. CASE \E ballot \in round.setup.ballots : OnVoteMessage(ballot[1], ballot[2], ballot[3])
    BY <2>2, BallotsOfSetup, OnVoteMessageGood
  <2>3. CASE \E ballot \in round.setup.ballots :
               ballot[2] = Me /\ ApplyHistoricalVote(ballot[1], ballot[3])
    BY <2>3, BallotsOfSetup, ApplyHistoricalVoteGood
  <2>4. CASE \E justification \in round.setup.commits : OnJustification(justification)
    BY <2>4, OnJustificationGood
  <2>5. QED
    BY <1>1, <2>1, <2>2, <2>3, <2>4 DEF Receive
<1>2. QED
  BY <1>1, PlayGood, TimeoutsGood, WakeGood, AbandonGood, PreviousRoundChangedGood DEF Next

\* Every handler of the round keeps the invariant.
THEOREM RoundIsGood == Spec => []Good(round)
<1>1. Init => Good(round)
  BY InitGood
<1>2. Good(round) /\ [Next]_round => Good(round)'
  <2>1. ASSUME Good(round), UNCHANGED round PROVE Good(round)'
    BY <2>1
  <2>2. QED
    BY <2>1, NextGood
<1>3. QED
  BY <1>1, <1>2, PTL DEF Spec

-----------------------------------------------------------------------------
(* Theorems                                                                *)

LEMMA GoodIsTyped ==
  ASSUME Good(round)
  PROVE  TypeOK
<1>1. round \in Rounds /\ round.previous_round \in round.setup.prevs /\ round.stage \in Stage
  BY DEF Good, Sound
<1>2. /\ round.setup \in Setup
      /\ round.prevotes \in [Voter -> Ballots] /\ round.precommits \in [Voter -> Ballots]
      /\ round.primary_vote \in Opt /\ round.prevote \in Opt /\ round.precommit \in Opt
      /\ round.prevote_ghost \in Opt /\ round.estimate \in Opt /\ round.finalized \in Opt
      /\ round.handed \subseteq Block /\ round.sent \subseteq Kinds \X Block
      /\ round.saved \subseteq Kinds
  BY <1>1 DEF Rounds
<1>3. {round.completable, round.grandpa, round.wake, round.next_round} \subseteq BOOLEAN
  BY <1>1, Zenon DEF Rounds
<1>4. QED
  BY <1>1, <1>2, <1>3 DEF TypeOK, Opt, Kinds

\* Whatever the order of votes, commits and timers and whatever the previous
\* round does, the finalized block of a round is at or below its estimate and
\* the estimate at or below the prevote ghost, as updateEstimate has it.
THEOREM EstimatesAreBetween == Spec => []EstimateBetween
<1>1. Good(round) => EstimateBetween
  <2> SUFFICES ASSUME Good(round) PROVE EstimateBetween
    OBVIOUS
  <2>1. TypeOK
    BY GoodIsTyped
  <2>2. Between(round)
    BY DEF Good
  <2>3. QED
    BY <2>1, <2>2, Zenon DEF EstimateBetween, Between
<1>2. QED
  BY <1>1, RoundIsGood, PTL

\* The blocks that doFinalize and applyJustification hand on are on one chain,
\* while the voters that equivocate are within the tolerated weight.
THEOREM HandedAreOnOneChain == Spec => []HandedOnOneChain
<1>1. Good(round) => HandedOnOneChain
  <2> SUFFICES ASSUME Good(round), NEW x \in round.handed, NEW y \in round.handed
               PROVE  Comparable(x, y)
    BY DEF HandedOnOneChain
  <2>1. /\ x \in Supermajority(round.precommits) /\ y \in Supermajority(round.precommits)
        /\ HonestTracker(round.precommits)
    BY DEF Good, Sound
  <2>2. QED
    BY <2>1, SupermajorityComparable
<1>2. QED
  BY <1>1, RoundIsGood, PTL

\* The voter sends one prevote and one precommit in a round, restored votes
\* included.
THEOREM VoterNeverEquivocates == Spec => []NoEquivocation
<1>1. Good(round) => NoEquivocation
  <2> SUFFICES ASSUME Good(round), NEW s \in round.sent, NEW t \in round.sent, s[1] = t[1]
               PROVE  s = t
    BY DEF NoEquivocation
  <2>1. round.sent \subseteq Kinds \X Block
    BY DEF Good, Sound, Rounds
  <2>2. PICK x \in Kinds, b \in Block, c \in Block : s = <<x, b>> /\ t = <<x, c>>
    BY <2>1
  <2>3. OwnVotes(round, x)
    BY DEF Good, Sound, Kinds
  <2>4. b = OwnVote(round, x) /\ c = OwnVote(round, x)
    BY <2>2, <2>3 DEF OwnVotes
  <2>5. QED
    BY <2>2, <2>4
<1>2. QED
  BY <1>1, RoundIsGood, PTL

\* While the round is told of every change of the previous one, its ghost is
\* the one of its prevotes and of the previous round's estimate.
THEOREM GhostIsUpToDate == Spec => []GhostUpToDate
<1>1. Good(round) => GhostUpToDate
  <2> SUFFICES ASSUME Good(round), ~round.untold,
                      PrevBestFinalCandidate(round) \in Supermajority(round.prevotes)
               PROVE  NewPrevoteGhost(round) \in {None, round.prevote_ghost}
    BY DEF GhostUpToDate
  <2>1. Ghostly(round)
    BY DEF Good
  <2>2. QED
    BY <2>1 DEF Ghostly
<1>2. QED
  BY <1>1, RoundIsGood, PTL
=============================================================================
