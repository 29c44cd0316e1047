------------------------------- MODULE Beefy -------------------------------
(***************************************************************************)
(* The BEEFY voter of one node (core/consensus/beefy/impl/beefy_impl.cpp): *)
(* it follows the blocks GRANDPA finalizes, learns the validator sets from *)
(* their digests, counts and casts votes, and keeps the justifications of  *)
(* the blocks finalized by BEEFY.                                          *)
(*                                                                         *)
(* BEEFY looks only at the chain GRANDPA finalizes, so that a block is its *)
(* number.  Every handler runs on the one thread of BEEFY and is one       *)
(* action; only update() is two, since GRANDPA may finalize on another     *)
(* thread between its loops and vote(), which asks for the finalized block *)
(* again.  A signature is the validator that made it, and the MMR root of  *)
(* a commitment is right or wrong.  The rebroadcast timer only sends       *)
(* last_vote_ again, and what is sent has no effect here.                  *)
(***************************************************************************)
EXTENDS Integers, SequencesExt

CONSTANTS
  Top,          \* bound: the highest block GRANDPA finalizes
  Digest,       \* the validator set each block with such a digest announces
  Genesis,      \* BeefyApi::genesis at each block, or Nothing
  Mmr,          \* the blocks with an MMR root in their digest
  Validator,    \* the validators of each set, set 0 being that of the start
  Self,         \* this node's validator
  Wrong,        \* validators that also sign wrong MMR roots
  MinDelta,     \* min_delta_
  Starts,       \* the blocks the node may start at: 0, or that of a warp sync
  VotedFor,     \* bound: blocks whose votes and justifications are received
  MaxMessages,  \* bound: votes received, and justifications not asked for
  MaxFaults     \* bound: restarts and requests that fail

VARIABLES
  chain,        \* block tree: the last finalized block, the lowest blocks with
                \* a header and with a state; and Timeline::wasSynchronized
  node,         \* BeefyImpl: its members, the justifications it has stored
                \* (db), whether an update is queued, `voting` between
                \* the two steps of update(), the requests in progress
                \* (asked, back) and `late`, a history: an older block has
                \* been justified since the last one was finalized
  signed,       \* history: the votes of this node
  used          \* counters for the bounds

vars == <<chain, node, signed, used>>

Nothing == -1
Missing == -2
Block == 0 .. Top
Payload == {"mmr", "wrong"}

ASSUME BeefyAssumption ==
  /\ Top \in Nat /\ DOMAIN Digest \subseteq 1 .. Top
  /\ \A b \in Block : Genesis[b] \in Block \cup {Nothing}
  /\ \A d \in DOMAIN Digest : Digest[d] \in DOMAIN Validator
  /\ 0 \in DOMAIN Validator /\ Starts \subseteq Block

\* The set in force at `b`, as the runtime has it (BeefyApi::validatorSet).
SetAt(b) ==
  LET past == {d \in DOMAIN Digest : d <= b}
  IN  IF past = {} THEN 0 ELSE Digest[Max(past)]

Threshold(n) == IF n = 0 THEN 0 ELSE n - (n - 1) \div 3

Verified(j, set) ==
  /\ j.set = set
  /\ Cardinality(j.signers \cap Validator[set]) >= Threshold(Cardinality(Validator[set]))

-----------------------------------------------------------------------------
(* The members. sessions maps the first block of a session to its set and  *)
(* the rounds of its blocks: who voted for which root, and who has been    *)
(* reported.                                                               *)

Empty == [b \in {} |-> Nothing]

Started(stored) ==
  [genesis |-> Nothing, next |-> 0, lastVoted |-> 0, sessions |-> Empty, pending |-> Empty,
   finalized |-> IF DOMAIN stored = {} THEN 0 ELSE Max(DOMAIN stored), db |-> stored,
   queued |-> TRUE, voting |-> FALSE, fetching |-> Nothing, asked |-> Nothing,
   back |-> FALSE, late |-> FALSE]

Init ==
  /\ \E b \in Starts : chain = [final |-> b, headers |-> b, states |-> b, synced |-> FALSE]
  /\ node = Started(Empty)
  /\ signed = {}
  /\ used = [messages |-> 0, faults |-> 0]

From(f, b) == Restrict(f, {x \in DOMAIN f : x >= b})

\* std::prev(sessions_.upper_bound(b)), and the session after it.
SessionOf(s, b) ==
  LET upTo == {f \in DOMAIN s.sessions : f <= b}
  IN  IF upTo = {} THEN Nothing ELSE Max(upTo)

SessionAfter(s, b) ==
  LET after == {f \in DOMAIN s.sessions : f > b}
  IN  IF after = {} THEN Nothing ELSE Min(after)

\* findValidators goes back from `high` to the first block that tells a set,
\* not beyond `low`. The set of the genesis is asked from the runtime.
FoundAt(s, at) ==
  IF at <= s.genesis THEN IF at < chain.states THEN Missing ELSE at
  ELSE IF at < chain.headers THEN Missing
  ELSE IF at \in DOMAIN Digest THEN at ELSE Nothing

FindValidators(s, high, low) ==
  FoundAt(s, Max({b \in 0 .. high : b <= s.genesis \/ b \in DOMAIN Digest \/ b <= low}))

\* sessions_.emplace
NewSession(first, sessions) ==
  sessions @@ (first :> [set |-> SetAt(first), rounds |-> Empty])

Ask(s, b) == IF s.asked = Nothing THEN [s EXCEPT !.asked = b] ELSE s

-----------------------------------------------------------------------------
(* apply                                                                   *)

Without(f, b) == Restrict(f, DOMAIN f \ {b})

\* Not the genesis and not mandatory, as far as the headers tell.
Superseded(s, b) ==
  /\ b > s.genesis /\ b \notin DOMAIN s.sessions
  /\ b >= chain.headers /\ b \notin DOMAIN Digest

\* Mutant: mandatory justifications go as well.
StoreLastOnly(s, j) == Without(s.db, s.finalized) @@ (j.block :> j)

\* The justification is stored; that of the last finalized block goes, unless
\* it is mandatory.
Store(s, j) ==
  IF Superseded(s, s.finalized) THEN Without(s.db, s.finalized) @@ (j.block :> j)
  ELSE s.db @@ (j.block :> j)

\* Mutant: a session that is found is not added.
SessionsFromKept(s, b, found, first) == From(s.sessions, SessionOf(s, b))

\* The sessions once block `b` is finalized: those up to the one of `b` are
\* dropped, or all of them for a session that is found now.
SessionsFrom(s, b, found, first) ==
  IF found # Nothing THEN NewSession(first, Empty)
  ELSE [From(s.sessions, first) EXCEPT ![first].rounds = From(@, b + 1)]

ApplyIn(s, j, found, first, set) ==
  IF ~Verified(j, set) THEN s
  ELSE IF j.block <= s.finalized THEN [s EXCEPT !.db = Store(s, j), !.late = TRUE]
  ELSE [s EXCEPT !.db = Store(s, j), !.late = FALSE, !.fetching = Nothing,
                 !.sessions = SessionsFrom(s, j.block, found, first),
                 !.finalized = j.block, !.next = Max({@, j.block + 1}), !.queued = TRUE]

ApplyFound(s, j, found) ==
  LET first == SessionOf(s, j.block)
  IN  CASE found \in Block -> ApplyIn(s, j, found, found, SetAt(found))
        [] found = Nothing /\ j.block > s.finalized /\ first # Nothing ->
             ApplyIn(s, j, Nothing, first, s.sessions[first].set)
        [] OTHER -> s

\* Mutant: blocks that are not indexed are taken to be in the last session.
LookUpOld(s, b) == IF b <= s.finalized THEN FindValidators(s, b, b) ELSE Nothing

\* Of an old block only a mandatory one counts; blocks from next_digest_ on
\* may start a session that is not known yet.
LookUp(s, b) ==
  IF b <= s.finalized THEN FindValidators(s, b, b)
  ELSE IF b >= s.next THEN FindValidators(s, b, s.next)
  ELSE Nothing

Apply(s, j) ==
  IF j.block = s.finalized \/ j.block \in DOMAIN s.db THEN s
  ELSE ApplyFound(s, j, LookUp(s, j.block))

-----------------------------------------------------------------------------
(* onVote                                                                  *)

RoundOf(s, first, b) ==
  IF b \in DOMAIN s.sessions[first].rounds THEN s.sessions[first].rounds[b]
  ELSE [votes |-> Empty, reported |-> {}]

\* Mutant: one vote more than the threshold.
CountMore(s, v, first, round) ==
  LET signers == {i \in DOMAIN round.votes : round.votes[i] = v.payload}
  IN  IF Cardinality(signers) > Threshold(Cardinality(Validator[v.set]))
      THEN Apply([s EXCEPT !.sessions[first].rounds = Without(@, v.block)],
                 [block |-> v.block, set |-> v.set, payload |-> v.payload, signers |-> signers])
      ELSE [s EXCEPT !.sessions[first].rounds = (v.block :> round) @@ @]

\* A new vote: a quorum for its commitment ends the round and is applied.
Count(s, v, first, round) ==
  LET signers == {i \in DOMAIN round.votes : round.votes[i] = v.payload}
  IN  IF Cardinality(signers) >= Threshold(Cardinality(Validator[v.set]))
      THEN Apply([s EXCEPT !.sessions[first].rounds = Without(@, v.block)],
                 [block |-> v.block, set |-> v.set, payload |-> v.payload, signers |-> signers])
      ELSE [s EXCEPT !.sessions[first].rounds = (v.block :> round) @@ @]

\* Another vote of the same validator: the same again, or reported once.
Repeated(s, v, first, round) ==
  IF round.votes[v.id] = v.payload THEN s
  ELSE [s EXCEPT !.sessions[first].rounds =
          (v.block :> [round EXCEPT !.reported = @ \cup {v.id}]) @@ @]

VoteIn(s, v, first, round) ==
  IF v.id \in DOMAIN round.votes THEN Repeated(s, v, first, round)
  ELSE Count(s, v, first, [round EXCEPT !.votes = @ @@ (v.id :> v.payload)])

OnVote(s, v) ==
  LET first == SessionOf(s, v.block)
  IN  IF \/ v.block < s.genesis \/ v.block <= s.finalized \/ v.block >= s.next
         \/ first = Nothing
      THEN s
      ELSE IF v.set # s.sessions[first].set \/ v.id \notin Validator[v.set] THEN s
      ELSE VoteIn(s, v, first, RoundOf(s, first, v.block))

-----------------------------------------------------------------------------
(* fetchHeaders and update                                                 *)

\* From fetching_header_ down, the justification of each block with a digest
\* is asked for (one request at a time goes out, the others are dropped);
\* headers are fetched from the first block without one.
FetchHeaders(s, headers) ==
  LET seen == {b \in DOMAIN Digest : headers <= b /\ b <= s.fetching /\ b > s.genesis}
      rest == Min({s.fetching, headers - 1})
      asking == IF seen = {} THEN s ELSE Ask(s, Max(seen))
  IN  IF s.fetching = Nothing \/ s.genesis = Nothing THEN s
      ELSE IF rest <= s.genesis THEN [asking EXCEPT !.fetching = Nothing]
      ELSE [asking EXCEPT !.fetching = rest, !.back = TRUE]

\* "reset state when genesis changes"
WithGenesis(s, g) ==
  LET finalized == IF s.finalized < g THEN 0 ELSE s.finalized
  IN  CASE g = s.genesis -> s
        [] g = Nothing /\ g # s.genesis ->
             [s EXCEPT !.genesis = g, !.sessions = Empty, !.pending = Empty]
        [] OTHER ->
             [s EXCEPT !.genesis = g, !.finalized = finalized,
                       !.sessions = From(@, g), !.pending = From(@, g),
                       !.next = Max({finalized, g})]

\* The pending justifications of finalized blocks, from the lowest.
Due(s) == {b \in DOMAIN s.pending : b <= chain.final}

RECURSIVE ApplyPending(_)
ApplyPending(s) ==
  IF Due(s) = {} THEN s
  ELSE ApplyPending(Apply([s EXCEPT !.pending = Without(@, Min(Due(s)))],
                          s.pending[Min(Due(s))]))

\* Mutant: the first session stays.
StopNone(s) == s

\* "stop voting on first finalized session when there are more sessions"
StopFirst(s) ==
  IF Cardinality(DOMAIN s.sessions) > 1 /\ Min(DOMAIN s.sessions) <= s.finalized
  THEN [s EXCEPT !.sessions = From(@, SessionAfter(s, Min(DOMAIN @)))]
  ELSE s

\* The digests of finalized blocks, from next_digest_; the loop and update()
\* end early when a header or the state of the genesis is not there.
RECURSIVE Index(_)
Indexed(s, found) ==
  IF found = Missing THEN s
  ELSE Index([s EXCEPT !.next = @ + 1,
                       !.sessions = IF found = Nothing THEN @ ELSE NewSession(found, @)])

Index(s) ==
  IF s.next > chain.final THEN [StopFirst(s) EXCEPT !.voting = TRUE]
  ELSE IF 0 < s.next /\ s.next < chain.headers
  THEN FetchHeaders([s EXCEPT !.fetching = chain.final], chain.headers)
  ELSE Indexed(s, FindValidators(s, s.next,
                                 IF DOMAIN s.sessions = {} THEN s.genesis ELSE s.next))

Known(s) ==
  IF s.genesis = Nothing \/ chain.final < s.genesis THEN s ELSE Index(ApplyPending(s))

Update(s) == Known(WithGenesis(s, Genesis[chain.final]))

-----------------------------------------------------------------------------
(* vote, and the end of update                                             *)

\* nextHighPowerOf2
PowerOf2(k) == CHOOSE p \in {2 ^ i : i \in 0 .. Top} :
                 p >= k /\ \A i \in 0 .. Top : 2 ^ i >= k => p <= 2 ^ i

Target(s, first, after) ==
  LET near == s.finalized + Max({MinDelta, PowerOf2((chain.final - s.finalized + 1) \div 2)})
  IN  IF first > s.finalized THEN first
      ELSE IF after # Nothing /\ (chain.final >= after \/ near >= after) THEN after
      ELSE near

\* The session of the next block to finalize, or the first one.
Voting(s) ==
  IF SessionOf(s, s.finalized + 1) # Nothing THEN SessionOf(s, s.finalized + 1)
  ELSE Min(DOMAIN s.sessions)

VoteFor(s, first, target) ==
  [block |-> target, payload |-> "mmr", id |-> Self,
   set |-> s.sessions[IF target = SessionAfter(s, first) THEN target ELSE first].set]

MayVote(s, v) ==
  /\ v.block <= chain.final /\ v.block > s.lastVoted
  /\ Self \in Validator[v.set]
  /\ v.block >= chain.headers /\ v.block \in Mmr

\* The first session, unless finalized or pending, is asked for.
AskFirst(s) ==
  IF DOMAIN s.sessions = {} THEN s
  ELSE IF Min(DOMAIN s.sessions) > s.finalized /\ Min(DOMAIN s.sessions) \notin DOMAIN s.pending
  THEN Ask(s, Min(DOMAIN s.sessions))
  ELSE s

Silent == node' = AskFirst([node EXCEPT !.voting = FALSE]) /\ UNCHANGED signed

Cast(v) ==
  /\ node' = AskFirst([OnVote(node, v) EXCEPT !.lastVoted = v.block, !.voting = FALSE])
  /\ signed' = signed \cup {[block |-> v.block, set |-> v.set, indexed |-> v.block < node.next]}

VoteOr(v) == IF MayVote(node, v) THEN Cast(v) ELSE Silent

Vote ==
  /\ node.voting
  /\ IF ~chain.synced \/ DOMAIN node.sessions = {} THEN Silent
     ELSE VoteOr(VoteFor(node, Voting(node),
                         Target(node, Voting(node), SessionAfter(node, Voting(node)))))
  /\ UNCHANGED <<chain, used>>

-----------------------------------------------------------------------------
(* Handlers. Peers send what validators sign: the MMR root of a block with *)
(* the set in force there, or an older set if they have not yet seen the   *)
(* digest that changes it; some sign wrong roots too.                      *)

\* The sets that a validator may take to be in force at `b`.
SetsTo(b) == {SetAt(c) : c \in 0 .. b}

PeerVotes ==
  {v \in [block : VotedFor, set : DOMAIN Validator, payload : Payload,
          id : UNION {Validator[set] : set \in DOMAIN Validator}] :
     /\ v.set \in SetsTo(v.block)
     /\ v.payload = "wrong" => v.id \in Wrong
     /\ v.id = Self => \E own \in signed : own.block = v.block /\ own.set = v.set}

Justified(b, set, signers) == [block |-> b, set |-> set, payload |-> "mmr", signers |-> signers]

PeerJustifications ==
  {Justified(b, set, Validator[set]) : b \in VotedFor, set \in DOMAIN Validator}
    \cup {Justified(b, SetAt(b), {}) : b \in VotedFor}

\* An update queued by a finalized block or by apply; updates queued together
\* are one. Blocks above Top go on being finalized, and bring updates.
UpdateTask ==
  /\ ~node.voting /\ (node.queued \/ chain.final = Top)
  /\ node' = Update([node EXCEPT !.queued = FALSE])
  /\ UNCHANGED <<chain, signed, used>>

ReceiveVote ==
  /\ ~node.voting /\ node.genesis # Nothing /\ used.messages < MaxMessages
  /\ \E v \in PeerVotes : node' = OnVote(node, v)
  /\ used' = [used EXCEPT !.messages = @ + 1]
  /\ UNCHANGED <<chain, signed>>

\* onJustification, from a message, an answer or an imported block
OnJustification(s, j) ==
  IF s.genesis = Nothing \/ j.block = s.finalized \/ j.block < s.genesis THEN s
  ELSE Update([s EXCEPT !.pending = @ @@ (j.block :> j)])

ReceiveJustification ==
  /\ ~node.voting /\ used.messages < MaxMessages
  /\ \E j \in PeerJustifications :
       j.set \in SetsTo(j.block) /\ node' = OnJustification(node, j)
  /\ used' = [used EXCEPT !.messages = @ + 1]
  /\ UNCHANGED <<chain, signed>>

Answered ==
  /\ ~node.voting /\ node.asked # Nothing
  /\ node' = OnJustification([node EXCEPT !.asked = Nothing],
                             Justified(node.asked, SetAt(node.asked), Validator[SetAt(node.asked)]))
  /\ UNCHANGED <<chain, signed, used>>

Fault == used.faults < MaxFaults /\ used' = [used EXCEPT !.faults = @ + 1]

NotAnswered ==
  /\ node.asked # Nothing /\ Fault
  /\ node' = [node EXCEPT !.asked = Nothing]
  /\ UNCHANGED <<chain, signed>>

HeadersFetched ==
  /\ ~node.voting /\ node.back
  /\ \E b \in 1 .. chain.headers - 1 :
       /\ chain' = [chain EXCEPT !.headers = b]
       /\ node' = FetchHeaders([node EXCEPT !.back = FALSE], b)
  /\ UNCHANGED <<signed, used>>

HeadersNotFetched ==
  /\ ~node.voting /\ node.back /\ Fault
  /\ node' = [node EXCEPT !.back = FALSE, !.fetching = Nothing]
  /\ UNCHANGED <<chain, signed>>

Finalize ==
  /\ \E b \in chain.final + 1 .. Top : chain' = [chain EXCEPT !.final = b]
  /\ node' = [node EXCEPT !.queued = TRUE]
  /\ UNCHANGED <<signed, used>>

Synchronized ==
  /\ ~chain.synced /\ chain' = [chain EXCEPT !.synced = TRUE]
  /\ UNCHANGED <<node, signed, used>>

\* A restart: only the database is left. tryStart reads the last key of it.
Restart ==
  /\ Fault /\ node' = Started(node.db)
  /\ chain' = [chain EXCEPT !.synced = FALSE]
  /\ UNCHANGED signed

Next ==
  \/ UpdateTask \/ Vote \/ ReceiveVote \/ ReceiveJustification
  \/ Answered \/ NotAnswered \/ HeadersFetched \/ HeadersNotFetched
  \/ Finalize \/ Synchronized \/ Restart

Spec == Init /\ [][Next]_vars

(***************************************************************************)
(* Fairness: GRANDPA goes on finalizing, tasks of the thread are run,      *)
(* and a peer that is asked for a mandatory justification or for headers   *)
(* answers, failures being bounded.  The thread takes its tasks in order,   *)
(* so that an answer is handled although updates go on (strong fairness).  *)
(* Where an action changes something is written out.                       *)
(***************************************************************************)
UpdateIsDue ==
  /\ ~node.voting /\ (node.queued \/ chain.final = Top)
  /\ Update([node EXCEPT !.queued = FALSE]) # node

FairSpec ==
  /\ Spec
  /\ []<>(chain.final = Top) \/ []<><<Finalize>>_vars
  /\ []<>(~UpdateIsDue) \/ []<><<UpdateTask>>_vars
  /\ []<>(~node.voting) \/ []<><<Vote>>_vars
  /\ []<>(~node.voting /\ node.asked # Nothing) => []<><<Answered>>_vars
  /\ []<>(~node.voting /\ node.back) => []<><<HeadersFetched>>_vars

-----------------------------------------------------------------------------
(* Properties                                                              *)

\* Sets and payloads are never unknown, blocks are within the chain, and
\* BEEFY never overtakes GRANDPA: finalized and indexed blocks are final.
TypeOK ==
  /\ node.genesis \in Block \cup {Nothing}
  /\ node.finalized \in 0 .. chain.final
  /\ node.next <= Max({chain.final + 1, node.genesis})
  /\ node.lastVoted \in 0 .. chain.final
  /\ DOMAIN node.sessions \subseteq Block /\ DOMAIN node.pending \subseteq Block
  /\ \A f \in DOMAIN node.sessions : node.sessions[f].set \in DOMAIN Validator
  /\ DOMAIN node.db \subseteq 0 .. chain.final
  /\ node.fetching \in Block \cup {Nothing} /\ node.asked \in Block \cup {Nothing}

\* What apply stores is a proof: a quorum of the set in force at the block has
\* signed its MMR root, whatever order digests, votes and justifications came.
\* The block BEEFY tells to be finalized has its justification there, where
\* tryStart finds it, unless that of an older block came after it.
JustificationsProven ==
  /\ TypeOK
  /\ node.finalized # 0 /\ ~node.late => node.finalized \in DOMAIN node.db
  /\ \A b \in DOMAIN node.db :
       LET j == node.db[b] IN
         /\ j.block = b /\ j.payload = "mmr" /\ j.set = SetAt(b)
         /\ Cardinality(j.signers) >= Threshold(Cardinality(Validator[SetAt(b)]))
         /\ j.signers \subseteq Validator[SetAt(b)]

\* The session onVote and apply take for an indexed block that is not yet
\* finalized has the set in force at that block. A vote for a block that is
\* indexed names this set, also after restarts and changes of the genesis.
SessionsExact ==
  /\ \A b \in node.finalized + 1 .. node.next - 1 :
       LET first == SessionOf(node, b) IN
         first # Nothing => node.sessions[first].set = SetAt(b)
  /\ \A v \in signed : v.indexed => v.set = SetAt(v.block)

\* No quorum is left in a round: the vote that completes it is applied.
QuorumIsApplied ==
  \A f \in DOMAIN node.sessions : \A b \in DOMAIN node.sessions[f].rounds :
    \A payload \in Payload :
      LET votes == node.sessions[f].rounds[b].votes IN
        Cardinality({v \in DOMAIN votes : votes[v] = payload})
          < Threshold(Cardinality(Validator[node.sessions[f].set]))

\* The justification of a mandatory block is never removed: peers that start
\* late ask for it. And finalized() goes down only with a new genesis and over a
\* restart.
MandatoryKept ==
  [][/\ \A b \in DOMAIN node.db \cap DOMAIN Digest : b \in DOMAIN node'.db
     /\ node'.finalized >= node.finalized \/ node'.genesis # node.genesis]_vars

\* A node finalizes every mandatory block by BEEFY, by requests alone if need
\* be, from wherever it starts. Once the headers are there, fetchHeaders is not
\* run again: a node without the state of the genesis that has lost its one
\* request has no second.
MandatoryFinalized ==
  \/ <>[](\A d \in DOMAIN Digest : node.finalized >= d)
  \/ <>(chain.states > 0 /\ used.faults > 0)
=============================================================================
