-------------------------- MODULE VotingRoundLemmas --------------------------
(***************************************************************************)
(* What the proofs about VotingRound rest on: weights and supermajorities, *)
(* the searches of the vote graph, the invariant of a round, and that      *)
(* counting votes keeps it.                                                *)
(***************************************************************************)
EXTENDS VotingRound, ChainProof

-----------------------------------------------------------------------------
(* Weights and trackers                                                    *)

LEMMA WeightFacts ==
  /\ \A S \in SUBSET Voter : WeightOf(S) \in Nat
  /\ \A S, T \in SUBSET Voter : S \subseteq T => WeightOf(S) <= WeightOf(T)
  /\ \A S, T \in SUBSET Voter :
       WeightOf(S \cup T) + WeightOf(S \cap T) = WeightOf(S) + WeightOf(T)
<1>1. \A S \in SUBSET Voter : WeightOf(S) \in Nat
  BY VoterAssumption DEF WeightOf
<1>2. \A S, T \in SUBSET Voter :
        WeightOf(S \cup T) + WeightOf(S \cap T) = WeightOf(S) + WeightOf(T)
  BY VoterAssumption, Zenon DEF WeightOf
<1>3. ASSUME NEW S \in SUBSET Voter, NEW T \in SUBSET Voter, S \subseteq T
      PROVE  WeightOf(S) <= WeightOf(T)
  <2>1. S \cup (T \ S) = T /\ S \cap (T \ S) = {} /\ T \ S \in SUBSET Voter
    BY <1>3
  <2>2. WeightOf(T) + WeightOf({}) = WeightOf(S) + WeightOf(T \ S)
    BY <1>2, <2>1
  <2>3. WeightOf({}) = 0
    BY VoterAssumption DEF WeightOf
  <2>4. WeightOf(T) \in Nat /\ WeightOf(S) \in Nat /\ WeightOf(T \ S) \in Nat
    BY <1>1, <2>1
  <2>5. QED
    BY <2>2, <2>3, <2>4
<1>4. QED
  BY <1>1, <1>2, <1>3

LEMMA ThresholdFacts ==
  /\ TotalWeight \in Nat /\ Faulty \in Nat /\ Threshold \in Nat
  /\ 3 * Faulty < TotalWeight /\ Threshold = TotalWeight - Faulty
  /\ Byzantine \in SUBSET Voter /\ WeightOf(Byzantine) <= Faulty
<1>1. TotalWeight \in Nat /\ TotalWeight > 0
  BY WeightFacts, VoterAssumption DEF TotalWeight
<1>2. Faulty \in Nat /\ 3 * Faulty < TotalWeight
  BY <1>1 DEF Faulty
<1>3. QED
  BY <1>1, <1>2, VoterAssumption DEF Threshold

\* A vote can be added to a list that is not full; the first one stays.
LEMMA BallotFacts ==
  ASSUME NEW s \in Ballots
  PROVE  /\ s = <<>> <=> Len(s) = 0
         /\ s # <<>> => s[1] \in Block
         /\ s = <<>> \/ Len(s) = 1 \/ Len(s) = 2
         /\ Len(s) = 1 => s = <<s[1]>>
         /\ \A b \in Block :
              /\ s = <<>> => Append(s, b) = <<b>> /\ <<b>> \in Ballots /\ Len(<<b>>) = 1
                             /\ <<b>> # <<>> /\ <<b>>[1] = b
              /\ Len(s) = 1 => /\ Append(s, b) \in Ballots /\ Len(Append(s, b)) = 2
                               /\ Append(s, b) # <<>> /\ Append(s, b)[1] = s[1]
<1>1. s \in Seq(Block) /\ Len(s) \in Nat /\ Len(s) <= 2
  BY DEF Ballots
<1>2. /\ s = <<>> <=> Len(s) = 0
      /\ s # <<>> => s[1] \in Block
      /\ s = <<>> \/ Len(s) = 1 \/ Len(s) = 2
  <2>1. s = <<>> <=> Len(s) = 0
    BY <1>1
  <2>2. s # <<>> => s[1] \in Block
    BY <1>1
  <2>3. \A n \in Nat : n <= 2 => n = 0 \/ n = 1 \/ n = 2
    OBVIOUS
  <2>4. QED
    BY <1>1, <2>1, <2>2, <2>3, Zenon
<1>3. Len(s) = 1 => s = <<s[1]>>
  BY <1>1
<1>4. ASSUME NEW b \in Block, s = <<>>
      PROVE  /\ Append(s, b) = <<b>> /\ <<b>> \in Ballots /\ Len(<<b>>) = 1
             /\ <<b>> # <<>> /\ <<b>>[1] = b
  BY <1>4 DEF Ballots
<1>5. ASSUME NEW b \in Block, Len(s) = 1
      PROVE  /\ Append(s, b) \in Ballots /\ Len(Append(s, b)) = 2
             /\ Append(s, b) # <<>> /\ Append(s, b)[1] = s[1]
  <2>1. Append(s, b) \in Seq(Block) /\ Len(Append(s, b)) = 2
    BY <1>1, <1>5
  <2>2. \A i \in 1 .. Len(s) : Append(s, b)[i] = s[i]
    BY <1>1
  <2>3. 1 \in 1 .. Len(s)
    BY <1>5
  <2>4. QED
    BY <2>1, <2>2, <2>3 DEF Ballots
<1>6. QED
  BY <1>2, <1>3, <1>4, <1>5

\* What every tracker of the round is: a vote is at or above the base of the
\* graph, and honest voters vote once.
HonestTracker(t) ==
  /\ t \in [Voter -> Ballots]
  /\ \A v \in Voter : t[v] # <<>> => HasAncestry(LastFinalized, t[v][1])
  /\ \A v \in Voter \ Byzantine : Len(t[v]) <= 1

\* Later votes leave first votes and equivocations alone.
Grows(new, old) ==
  \A v \in Voter : /\ old[v] # <<>> => new[v] # <<>> /\ new[v][1] = old[v][1]
                   /\ Len(old[v]) = 2 => Len(new[v]) = 2

\* The voters that count for a block.
For(t, b) == {v \in Voted(t) : HasAncestry(b, t[v][1])} \cup Equivocators(t)

LEMMA ForFacts ==
  ASSUME NEW t, HonestTracker(t), NEW b
  PROVE  /\ For(t, b) \in SUBSET Voter /\ Voted(t) \in SUBSET Voter
         /\ Equivocators(t) \in SUBSET Byzantine /\ For(t, b) \subseteq Voted(t)
         /\ TotalFor(t, b) = WeightOf(For(t, b))
<1>1. Equivocators(t) \subseteq Voted(t) /\ Equivocators(t) \subseteq Byzantine
  <2>1. \A v \in Voter : t[v] = <<>> <=> Len(t[v]) = 0
    BY BallotFacts, Zenon DEF HonestTracker
  <2>2. \A v \in Equivocators(t) : v \in Voter /\ Len(t[v]) = 2
    BY DEF Equivocators
  <2>3. Equivocators(t) \subseteq Byzantine
    <3>1. \A v \in Voter \ Byzantine : Len(t[v]) <= 1
      BY DEF HonestTracker
    <3>2. QED
      BY <2>2, <3>1
  <2>4. QED
    BY <2>1, <2>2, <2>3 DEF Voted
<1>2. Voted(t) \subseteq Voter
  BY DEF Voted
<1>3. TotalFor(t, b) = WeightOf(For(t, b))
  BY DEF TotalFor, For
<1>4. QED
  BY <1>1, <1>2, <1>3 DEF For

LEMMA SupermajorityGrows ==
  ASSUME NEW t, NEW u, HonestTracker(t), HonestTracker(u), Grows(u, t)
  PROVE  /\ Supermajority(t) \subseteq Supermajority(u)
         /\ GetTotalWeight(t) <= GetTotalWeight(u)
<1>1. Voted(t) \subseteq Voted(u) /\ Equivocators(t) \subseteq Equivocators(u)
  BY DEF Grows, Voted, Equivocators
<1>2. ASSUME NEW b \in Supermajority(t) PROVE b \in Supermajority(u)
  <2>1. For(t, b) \subseteq For(u, b)
    BY <1>1 DEF For, Grows, Voted
  <2>2. For(t, b) \in SUBSET Voter /\ For(u, b) \in SUBSET Voter
    BY ForFacts
  <2>3. WeightOf(For(t, b)) <= WeightOf(For(u, b))
    BY <2>1, <2>2, WeightFacts
  <2>4. TotalFor(t, b) = WeightOf(For(t, b)) /\ TotalFor(u, b) = WeightOf(For(u, b))
    BY ForFacts
  <2>5. WeightOf(For(t, b)) \in Nat /\ WeightOf(For(u, b)) \in Nat
    BY <2>2, WeightFacts
  <2>6. QED
    BY <2>3, <2>4, <2>5, ThresholdFacts DEF Supermajority
<1>3. Voted(t) \in SUBSET Voter /\ Voted(u) \in SUBSET Voter
  BY DEF Voted
<1>4. QED
  BY <1>1, <1>2, <1>3, WeightFacts DEF GetTotalWeight

\* Some voter that did not equivocate is for a block with a supermajority.
LEMMA SupermajorityHasVote ==
  ASSUME NEW t, HonestTracker(t), NEW b \in Supermajority(t)
  PROVE  b \in Block /\ \E v \in Voted(t) : HasAncestry(b, t[v][1])
<1>1. For(t, b) \in SUBSET Voter /\ Equivocators(t) \in SUBSET Byzantine
      /\ TotalFor(t, b) = WeightOf(For(t, b))
  BY ForFacts
<1>2. WeightOf(For(t, b)) >= Threshold
  BY <1>1 DEF Supermajority
<1>3. ~(For(t, b) \subseteq Byzantine)
  <2> SUFFICES ASSUME For(t, b) \subseteq Byzantine PROVE FALSE
    OBVIOUS
  <2>1. WeightOf(For(t, b)) <= WeightOf(Byzantine) /\ WeightOf(For(t, b)) \in Nat
        /\ WeightOf(Byzantine) \in Nat
    BY <1>1, WeightFacts, ThresholdFacts
  <2>2. QED
    BY <1>2, <2>1, ThresholdFacts
<1>4. QED
  BY <1>1, <1>3 DEF For, Supermajority

\* A block below one with a supermajority has one.
LEMMA SupermajorityDown ==
  ASSUME NEW t, HonestTracker(t), NEW b \in Supermajority(t), NEW a \in Block, HasAncestry(a, b)
  PROVE  a \in Supermajority(t)
<1>1. b \in Block
  BY DEF Supermajority
<1>2. For(t, b) \subseteq For(t, a)
  <2>1. ASSUME NEW v \in Voted(t), HasAncestry(b, t[v][1]) PROVE HasAncestry(a, t[v][1])
    <3>1. t[v][1] \in Block
      BY BallotFacts DEF Voted, HonestTracker
    <3>2. QED
      BY <1>1, <2>1, <3>1, AncestryFacts
  <2>2. QED
    BY <2>1 DEF For
<1>3. For(t, a) \in SUBSET Voter /\ For(t, b) \in SUBSET Voter
      /\ TotalFor(t, b) = WeightOf(For(t, b)) /\ TotalFor(t, a) = WeightOf(For(t, a))
  BY ForFacts
<1>4. WeightOf(For(t, b)) <= WeightOf(For(t, a)) /\ WeightOf(For(t, b)) \in Nat
      /\ WeightOf(For(t, a)) \in Nat
  BY <1>2, <1>3, WeightFacts
<1>5. QED
  BY <1>3, <1>4, ThresholdFacts DEF Supermajority

\* Two blocks with a supermajority are on one chain: more than the faulty
\* weight counts for both, so an honest voter's only vote is above both.
LEMMA SupermajorityComparable ==
  ASSUME NEW t, HonestTracker(t), NEW a \in Supermajority(t), NEW b \in Supermajority(t)
  PROVE  Comparable(a, b)
<1> DEFINE A == For(t, a)
           B == For(t, b)
<1>1. A \in SUBSET Voter /\ B \in SUBSET Voter /\ Equivocators(t) \in SUBSET Byzantine
      /\ TotalFor(t, a) = WeightOf(A) /\ TotalFor(t, b) = WeightOf(B)
  BY ForFacts
<1>2. WeightOf(A) >= Threshold /\ WeightOf(B) >= Threshold
  BY <1>1 DEF Supermajority
<1>3. ~(A \cap B \subseteq Byzantine)
  <2> HIDE DEF A, B
  <2> SUFFICES ASSUME A \cap B \subseteq Byzantine PROVE FALSE
    OBVIOUS
  <2>1. A \cup B \in SUBSET Voter /\ A \cap B \in SUBSET Voter
    BY <1>1
  <2>2. /\ WeightOf(A) \in Nat /\ WeightOf(B) \in Nat
        /\ WeightOf(A \cup B) \in Nat /\ WeightOf(A \cap B) \in Nat
        /\ WeightOf(Byzantine) \in Nat /\ WeightOf(Voter) \in Nat
        /\ WeightOf(A \cup B) <= WeightOf(Voter) /\ WeightOf(A \cap B) <= WeightOf(Byzantine)
    BY <1>1, <2>1, WeightFacts, ThresholdFacts
  <2>3. WeightOf(A \cup B) + WeightOf(A \cap B) = WeightOf(A) + WeightOf(B)
    BY <1>1, WeightFacts
  <2>4. QED
    BY <1>2, <2>2, <2>3, ThresholdFacts DEF TotalWeight
<1>4. PICK v \in Voted(t) : HasAncestry(a, t[v][1]) /\ HasAncestry(b, t[v][1])
  BY <1>1, <1>3 DEF For
<1>5. t[v][1] \in Block /\ a \in Block /\ b \in Block
  BY BallotFacts DEF Voted, HonestTracker, Supermajority
<1>6. QED
  BY <1>4, <1>5, AncestryFacts DEF Comparable

\* A block with a supermajority may get one.
LEMMA SupermajorityIsPossible ==
  ASSUME NEW t, HonestTracker(t)
  PROVE  Supermajority(t) \subseteq PossibleToPrecommit(t)
<1> SUFFICES ASSUME NEW b \in Supermajority(t) PROVE b \in PossibleToPrecommit(t)
  OBVIOUS
<1>1. /\ For(t, b) \in SUBSET Voter /\ Voted(t) \in SUBSET Voter
      /\ Equivocators(t) \in SUBSET Byzantine /\ For(t, b) \subseteq Voted(t)
      /\ TotalFor(t, b) = WeightOf(For(t, b))
  BY ForFacts
<1>2. Equivocators(t) \in SUBSET Voter
  BY DEF Equivocators
<1>3. /\ WeightOf(For(t, b)) <= WeightOf(Voted(t)) /\ WeightOf(Voted(t)) <= WeightOf(Voter)
      /\ WeightOf(Equivocators(t)) <= WeightOf(Byzantine)
      /\ WeightOf(For(t, b)) \in Nat /\ WeightOf(Voted(t)) \in Nat
      /\ WeightOf(Equivocators(t)) \in Nat /\ WeightOf(Byzantine) \in Nat
  BY <1>1, <1>2, WeightFacts, ThresholdFacts
<1>4. b \in Block /\ WeightOf(For(t, b)) >= Threshold
  BY <1>1 DEF Supermajority
<1>5. QED
  BY <1>1, <1>3, <1>4, ThresholdFacts DEF PossibleToPrecommit, GetTotalWeight, TotalWeight

\* With enough votes the base of the graph has a supermajority.
LEMMA BaseHasSupermajority ==
  ASSUME NEW t, HonestTracker(t), GetTotalWeight(t) >= Threshold
  PROVE  LastFinalized \in Supermajority(t)
<1>1. For(t, LastFinalized) = Voted(t)
  <2>1. For(t, LastFinalized) \subseteq Voted(t)
    BY ForFacts
  <2>2. QED
    BY <2>1 DEF For, HonestTracker, Voted
<1>2. TotalFor(t, LastFinalized) = WeightOf(Voted(t))
  BY <1>1, ForFacts
<1>3. QED
  BY <1>2, SetupAssumption DEF Supermajority, GetTotalWeight

-----------------------------------------------------------------------------
(* The vote graph                                                          *)

LEMMA HighestFacts ==
  ASSUME NEW S \in SUBSET Block, S # {}
  PROVE  Highest(S) \in S /\ \A c \in S : Number[c] <= Number[Highest(S)]
<1> DEFINE N == {Number[c] : c \in S}
<1>1. Number \in [Block -> Nat]
  BY NumberFacts DEF Number
<1>2. PICK n \in Nat : \A c \in Block : Number[c] <= n
  BY <1>1, SetupAssumption, FiniteIsBounded
<1>3. N \in SUBSET Nat /\ N # {}
  BY <1>1
<1>4. \A x \in N : x <= n
  BY <1>2
<1>5. PICK x \in N : \A y \in N : y <= x
  <2> HIDE DEF N
  <2>1. QED
    BY <1>3, <1>4, GreatestExists, Zenon
<1>6. PICK b \in S : x = Number[b]
  BY <1>5
<1>7. \A c \in S : Number[c] <= Number[b]
  BY <1>5, <1>6
<1>8. QED
  BY <1>7, Zenon DEF Highest

LEMMA SubtreeFacts ==
  ASSUME NEW b \in Block, NEW c
  PROVE  c \in Subtree(b) <=> c \in Block /\ HasAncestry(b, c)
BY DEF Subtree, Descendants

\* The graph is above its base and at or below its nodes.
LEMMA GraphFacts ==
  ASSUME NEW base \in Block, NEW nodes
  PROVE  GraphBlocks(base, nodes) =
           {c \in Block : HasAncestry(base, c) /\ \E n \in nodes : HasAncestry(c, n)}
BY SubtreeFacts DEF GraphBlocks

\* findAncestor answers with the highest block of the condition at or below
\* `b`, and there is one if the base is in the condition and `b` in the graph.
LEMMA AncestorFacts ==
  ASSUME NEW base \in Block, NEW nodes \in SUBSET Block, NEW b, NEW S,
         NEW r, r = AncestorIn(base, nodes, b, S)
  PROVE  /\ r # None =>
              /\ r \in Block /\ r \in S /\ HasAncestry(r, b)
              /\ r \in GraphBlocks(base, nodes)
              /\ \A c \in S \cap GraphBlocks(base, nodes) :
                   HasAncestry(c, b) => Number[c] <= Number[r]
         /\ b \in GraphBlocks(base, nodes) /\ base \in S => r # None
<1> DEFINE G == GraphBlocks(base, nodes)
           below == Ancestors[b] \cap G \cap S
<1>1. G \in SUBSET Block /\ below \in SUBSET Block
  BY GraphFacts
<1>2. r = IF b \notin G \/ below = {} THEN None ELSE Highest(below)
  BY DEF AncestorIn
<1>3. ASSUME b \in G, below # {}
      PROVE  r \in below /\ \A c \in below : Number[c] <= Number[r]
  <2> HIDE DEF below, G
  <2>1. r = Highest(below)
    BY <1>2, <1>3
  <2>2. QED
    BY <1>1, <1>3, <2>1, HighestFacts
<1>4. \A c : HasAncestry(c, b) <=> c \in Ancestors[b]
  BY DEF HasAncestry
<1>5. r # None =>
        /\ r \in Block /\ r \in S /\ HasAncestry(r, b) /\ r \in G
        /\ \A c \in S \cap G : HasAncestry(c, b) => Number[c] <= Number[r]
  <2>1. SUFFICES ASSUME r # None
                 PROVE  /\ r \in Block /\ r \in S /\ HasAncestry(r, b) /\ r \in G
                        /\ \A c \in S \cap G : HasAncestry(c, b) => Number[c] <= Number[r]
    OBVIOUS
  <2>2. b \in G /\ below # {}
    BY <1>2, <2>1
  <2>3. r \in below /\ \A c \in below : Number[c] <= Number[r]
    BY <1>3, <2>2
  <2> HIDE DEF G
  <2>4. QED
    BY <1>1, <1>4, <2>3
<1>6. ASSUME b \in G, base \in S PROVE r # None
  <2>1. PICK n \in nodes : HasAncestry(b, n) /\ b \in Block /\ HasAncestry(base, b)
    BY <1>6, GraphFacts
  <2>2. base \in G
    BY <2>1, AncestryFacts, GraphFacts
  <2>3. base \in below
    BY <1>4, <1>6, <2>1, <2>2
  <2>4. r \in below
    BY <1>3, <1>6, <2>3
  <2>5. QED
    BY <1>1, <2>4, ChainAssumption
<1>7. QED
  BY <1>5, <1>6

\* findGhost answers with a block of the graph.
LEMMA GhostFacts ==
  ASSUME NEW base \in Block, NEW nodes \in SUBSET Block, base \in nodes,
         \A n \in nodes : HasAncestry(base, n),
         NEW cb, NEW S, NEW r, r = GhostFrom(base, nodes, cb, S), r # None
  PROVE  r \in Block /\ r \in GraphBlocks(base, nodes)
<1> DEFINE G == GraphBlocks(base, nodes)
<1>1. G \in SUBSET Block
  BY GraphFacts
<1>2. cb \in G /\ cb \in Block /\ HasAncestry(base, cb)
  <2>1. cb \in G
    BY DEF GhostFrom
  <2>2. QED
    BY <2>1, GraphFacts
<1>3. CASE cb \in S
  <2> DEFINE T == G \cap S \cap Subtree(cb)
  <2>1. T \in SUBSET Block
    BY <1>1
  <2>2. cb \in T
    <3>1. cb \in Subtree(cb)
      BY <1>2, SubtreeFacts, AncestryFacts
    <3>2. QED
      BY <1>2, <1>3, <3>1
  <2>3. r = Highest(T)
    BY <1>2, <1>3 DEF GhostFrom
  <2>4. r \in T
    <3> HIDE DEF T
    <3>1. QED
      BY <2>1, <2>2, <2>3, HighestFacts
  <2>5. QED
    BY <1>1, <2>4
<1>4. CASE cb \notin S
  <2> DEFINE below == nodes \cap Ancestors[cb]
             start == Highest(below)
             children == ChildNodes(nodes, start)
             shared == {b \in (Subtree(start) \cap S) \ nodes :
                          Cardinality(Subtree(b) \cap children) > 1}
             T == {start} \cup shared
  <2>1. r = MergePoint(nodes, cb, S)
    BY <1>2, <1>4 DEF GhostFrom
  <2>2. r = Highest(T)
    BY <2>1 DEF MergePoint
  <2>3. start \in nodes /\ start \in Block /\ HasAncestry(base, start)
    <3>1. below \in SUBSET Block /\ base \in below
      BY <1>2 DEF HasAncestry
    <3> HIDE DEF below
    <3>2. start \in below
      BY <3>1, HighestFacts
    <3> USE DEF below
    <3>3. QED
      BY <3>2
  <2>4. start \in G
    BY <2>3, GraphFacts, AncestryFacts
  <2> HIDE DEF start
  <2>5. ASSUME NEW b \in shared PROVE b \in G
    <3>1. b \in Subtree(start) /\ Cardinality(Subtree(b) \cap children) > 1
      OBVIOUS
    <3>2. Subtree(b) \cap children # {}
      <4>1. ~(Cardinality({}) > 1)
        BY EmptyIsFinite
      <4>2. QED
        BY <3>1, <4>1, Zenon
    <3>3. PICK m \in nodes : m \in Subtree(b)
      BY <3>2 DEF ChildNodes
    <3>4. b \in Block /\ HasAncestry(start, b)
      BY <2>3, <3>1, SubtreeFacts
    <3>5. HasAncestry(b, m) /\ HasAncestry(base, b)
      BY <2>3, <3>3, <3>4, SubtreeFacts, AncestryFacts
    <3>6. QED
      BY <3>4, <3>5, GraphFacts
  <2>6. T \in SUBSET G /\ T # {}
    BY <2>4, <2>5
  <2>7. r \in T
    <3> HIDE DEF T, G
    <3>1. QED
      BY <1>1, <2>2, <2>6, HighestFacts
  <2>8. QED
    BY <1>1, <2>6, <2>7
<1>5. QED
  BY <1>3, <1>4

-----------------------------------------------------------------------------
(* The invariant                                                           *)

Opt == Block \cup {None}
Kinds == {"prevotes", "precommits"}
AnyStage == Stage \cup {"END_PREVOTE", "END_PRECOMMIT"}

Rounds ==
  [setup : Setup, stage : AnyStage, previous_round : UNION {s.prevs : s \in Setup},
   prevotes : [Voter -> Ballots], precommits : [Voter -> Ballots],
   primary_vote : Opt, prevote : Opt, precommit : Opt,
   prevote_ghost : Opt, estimate : Opt, finalized : Opt,
   completable : BOOLEAN, grandpa : BOOLEAN, wake : BOOLEAN, next_round : BOOLEAN,
   handed : SUBSET Block, sent : SUBSET (Kinds \X Block), saved : SUBSET Kinds,
   untold : BOOLEAN]

Graph(rd) == GraphBlocks(LastFinalized, Nodes(rd))

\* The own votes.  What is sent is the vote that is decided on, and so is what
\* the tracker has; before the round is played they are there together.
OwnVote(rd, type) == IF type = "prevotes" THEN rd.prevote ELSE rd.precommit
OwnVotes(rd, type) ==
  /\ rd[type][Me] # <<>> => OwnVote(rd, type) # None /\ rd[type][Me] = <<OwnVote(rd, type)>>
  /\ rd.stage = "INIT" /\ rd[type][Me] = <<>> => OwnVote(rd, type) = None
  /\ \A b \in Block : <<type, b>> \in rd.sent => b = OwnVote(rd, type)

\* What holds of the round at every point of a handler.
Sound(rd) ==
  /\ rd \in Rounds
  /\ rd.previous_round \in rd.setup.prevs
  /\ HonestTracker(rd.prevotes) /\ HonestTracker(rd.precommits)
  /\ OwnVotes(rd, "prevotes") /\ OwnVotes(rd, "precommits")
  /\ rd.prevote_ghost # None => rd.prevote_ghost \in Graph(rd)
  /\ rd.finalized # None => rd.finalized \in Supermajority(rd.precommits)
  /\ rd.handed \subseteq Supermajority(rd.precommits)

\* What holds once the votes are counted.
Between(rd) ==
  EstimateUpdated(rd) =>
    /\ rd.finalized # None /\ rd.estimate # None
    /\ HasAncestry(rd.finalized, rd.estimate)
    /\ HasAncestry(rd.estimate, rd.prevote_ghost)

Ghostly(rd) ==
  PrevBestFinalCandidate(rd) \in Supermajority(rd.prevotes) =>
    NewPrevoteGhost(rd) \in {None, rd.prevote_ghost}

\* The parts of the round that the invariant speaks of, the handed blocks and
\* the estimate excepted.
SameVotes(s, rd) ==
  /\ s.setup = rd.setup /\ s.previous_round = rd.previous_round
  /\ s.prevotes = rd.prevotes /\ s.precommits = rd.precommits
  /\ s.prevote = rd.prevote /\ s.precommit = rd.precommit /\ s.sent = rd.sent
  /\ s.prevote_ghost = rd.prevote_ghost /\ s.untold = rd.untold

\* A method goes on from `rd` to `s`: votes are only added.
Follows(s, rd) ==
  /\ Sound(s)
  /\ Grows(s.prevotes, rd.prevotes) /\ Grows(s.precommits, rd.precommits)
  /\ s.setup = rd.setup /\ s.previous_round = rd.previous_round /\ s.untold = rd.untold

\* A method that leaves the votes counted if they are.
Keeps(s, rd) ==
  /\ Follows(s, rd)
  /\ Between(rd) => Between(s)
  /\ Ghostly(rd) => Ghostly(s)

LEMMA GrowsIsOrder ==
  /\ \A t : Grows(t, t)
  /\ \A t, u, w : Grows(u, t) /\ Grows(w, u) => Grows(w, t)
<1>1. \A t : Grows(t, t)
  BY DEF Grows
<1>2. \A t, u, w : Grows(u, t) /\ Grows(w, u) => Grows(w, t)
  BY DEF Grows
<1>3. QED
  BY <1>1, <1>2

LEMMA FollowsTrans ==
  ASSUME NEW q, NEW r, NEW s, Follows(r, q), Follows(s, r)
  PROVE  Follows(s, q)
BY GrowsIsOrder DEF Follows

LEMMA KeepsTrans ==
  ASSUME NEW q, NEW r, NEW s, Keeps(r, q), Keeps(s, r)
  PROVE  Keeps(s, q)
BY FollowsTrans DEF Keeps

LEMMA KeepsItself ==
  ASSUME NEW rd, Sound(rd)
  PROVE  Keeps(rd, rd)
BY GrowsIsOrder DEF Keeps, Follows

\* The results are functions of the votes and of the previous round.
LEMMA SameResults ==
  ASSUME NEW s, NEW rd, s.prevotes = rd.prevotes, s.precommits = rd.precommits,
         s.previous_round = rd.previous_round
  PROVE  /\ Nodes(s) = Nodes(rd) /\ Graph(s) = Graph(rd)
         /\ PrevBestFinalCandidate(s) = PrevBestFinalCandidate(rd)
         /\ NewPrevoteGhost(s) = NewPrevoteGhost(rd)
<1>1. Nodes(s) = Nodes(rd)
  BY Zenon DEF Nodes
<1>2. PrevBestFinalCandidate(s) = PrevBestFinalCandidate(rd)
  BY Zenon DEF PrevBestFinalCandidate
<1>3. NewPrevoteGhost(s) = NewPrevoteGhost(rd)
  BY <1>1, <1>2, Zenon DEF NewPrevoteGhost, FindGhost
<1>4. QED
  BY <1>1, <1>2, <1>3, Zenon DEF Graph

\* A method that touches neither votes nor results, but may hand the
\* finalized block on.
LEMMA FrameKeeps ==
  ASSUME NEW rd, Sound(rd), NEW s \in Rounds, SameVotes(s, rd),
         s.finalized = rd.finalized, s.estimate = rd.estimate,
         s.handed \subseteq rd.handed \cup ({rd.finalized} \ {None}),
         s.stage = "INIT" => rd.stage = "INIT"
  PROVE  Keeps(s, rd)
<1>1. /\ Graph(s) = Graph(rd) /\ PrevBestFinalCandidate(s) = PrevBestFinalCandidate(rd)
      /\ NewPrevoteGhost(s) = NewPrevoteGhost(rd)
  BY SameResults DEF SameVotes
<1>2. OwnVotes(s, "prevotes") /\ OwnVotes(s, "precommits")
  BY Zenon DEF Sound, OwnVotes, OwnVote, SameVotes
<1>3. s.handed \subseteq Supermajority(s.precommits)
  BY DEF Sound, SameVotes
<1>4. Sound(s)
  BY <1>1, <1>2, <1>3, Zenon DEF Sound, SameVotes
<1>5. Between(rd) => Between(s)
  BY Zenon DEF Between, EstimateUpdated, EstimateKnown, SameVotes
<1>6. Ghostly(rd) => Ghostly(s)
  BY <1>1, Zenon DEF Ghostly, SameVotes
<1>7. QED
  BY <1>4, <1>5, <1>6, GrowsIsOrder, Zenon DEF Keeps, Follows, SameVotes

-----------------------------------------------------------------------------
(* Counting the votes                                                      *)

\* The graph of a round is that of a vote graph: its nodes are votes and its
\* base, and it grows with the votes.
LEMMA NodeFacts ==
  ASSUME NEW rd, HonestTracker(rd.prevotes), HonestTracker(rd.precommits)
  PROVE  /\ LastFinalized \in Block /\ Nodes(rd) \in SUBSET Block
         /\ LastFinalized \in Nodes(rd)
         /\ \A n \in Nodes(rd) : HasAncestry(LastFinalized, n)
<1>1. LastFinalized \in Block /\ HasAncestry(LastFinalized, LastFinalized)
  BY SetupAssumption, AncestryFacts
<1>2. ASSUME NEW t, HonestTracker(t), NEW v \in Voted(t)
      PROVE  t[v][1] \in Block /\ HasAncestry(LastFinalized, t[v][1])
  BY <1>2, BallotFacts DEF HonestTracker, Voted
<1>3. QED
  BY <1>1, <1>2 DEF Nodes

LEMMA GraphGrows ==
  ASSUME NEW rd, NEW s,
         Grows(s.prevotes, rd.prevotes), Grows(s.precommits, rd.precommits)
  PROVE  Graph(rd) \subseteq Graph(s)
<1>1. Nodes(rd) \subseteq Nodes(s)
  BY DEF Nodes, Grows, Voted
<1>2. LastFinalized \in Block
  BY SetupAssumption
<1>3. QED
  BY <1>1, <1>2, GraphFacts DEF Graph

\* The new ghost is a block of the graph.
LEMMA NewGhostFacts ==
  ASSUME NEW rd, HonestTracker(rd.prevotes), HonestTracker(rd.precommits),
         NewPrevoteGhost(rd) # None
  PROVE  NewPrevoteGhost(rd) \in Block /\ NewPrevoteGhost(rd) \in Graph(rd)
<1>1. NewPrevoteGhost(rd) = GhostFrom(LastFinalized, Nodes(rd),
        PrevBestFinalCandidate(rd), Supermajority(rd.prevotes))
  BY DEF NewPrevoteGhost, FindGhost
<1>2. QED
  BY <1>1, NodeFacts, GhostFacts DEF Graph

\* When the prevotes reach the previous round's candidate, what findGhost
\* answers depends on the prevotes alone.
LEMMA GhostOfPrevotes ==
  ASSUME NEW rd, NEW s, HonestTracker(rd.prevotes), HonestTracker(rd.precommits),
         HonestTracker(s.precommits), s.prevotes = rd.prevotes,
         s.previous_round = rd.previous_round,
         PrevBestFinalCandidate(rd) \in Supermajority(rd.prevotes)
  PROVE  NewPrevoteGhost(s) = NewPrevoteGhost(rd)
<1> DEFINE C == PrevBestFinalCandidate(rd)
           S == Supermajority(rd.prevotes)
           Ghost(r) == GhostFrom(LastFinalized, Nodes(r), C, S)
<1>1. LastFinalized \in Block
  BY SetupAssumption
<1>2. C \in Block
  BY SupermajorityHasVote
<1>3. PrevBestFinalCandidate(s) = C
  BY Zenon DEF PrevBestFinalCandidate
<1>4. ASSUME NEW r, r.prevotes = rd.prevotes
      PROVE  S \cap Graph(r) = {b \in S : HasAncestry(LastFinalized, b)}
  <2>1. ASSUME NEW b \in S, HasAncestry(LastFinalized, b) PROVE b \in Graph(r)
    <3>1. PICK v \in Voted(rd.prevotes) : b \in Block /\ HasAncestry(b, rd.prevotes[v][1])
      BY SupermajorityHasVote
    <3>2. rd.prevotes[v][1] \in Nodes(r)
      BY <1>4 DEF Nodes
    <3>3. QED
      BY <1>1, <2>1, <3>1, <3>2, GraphFacts DEF Graph
  <2>2. ASSUME NEW b \in Graph(r) PROVE HasAncestry(LastFinalized, b)
    BY <1>1, GraphFacts DEF Graph
  <2>3. QED
    BY <2>1, <2>2
<1>5. ASSUME NEW r, r.prevotes = rd.prevotes
      PROVE  Ghost(r) = IF C \in Graph(r) THEN Highest(S \cap Graph(r) \cap Subtree(C)) ELSE None
  <2>1. S \cap Graph(r) \cap Subtree(C) = GraphBlocks(LastFinalized, Nodes(r)) \cap S \cap Subtree(C)
    BY DEF Graph
  <2>2. QED
    BY <2>1 DEF GhostFrom, Graph
<1>6. Ghost(s) = Ghost(rd)
  <2>1. S \cap Graph(s) = S \cap Graph(rd)
    BY <1>4
  <2>2. C \in Graph(s) <=> C \in Graph(rd)
    BY <2>1
  <2> HIDE DEF S, C, Ghost
  <2>3. Ghost(s) = IF C \in Graph(s) THEN Highest(S \cap Graph(s) \cap Subtree(C)) ELSE None
    BY <1>5
  <2>4. Ghost(rd) = IF C \in Graph(rd) THEN Highest(S \cap Graph(rd) \cap Subtree(C)) ELSE None
    BY <1>5
  <2>5. QED
    BY <2>1, <2>2, <2>3, <2>4
<1>7. NewPrevoteGhost(rd) = IF GetTotalWeight(rd.prevotes) < Threshold THEN None ELSE Ghost(rd)
  BY DEF NewPrevoteGhost, FindGhost
<1>8. NewPrevoteGhost(s) = IF GetTotalWeight(rd.prevotes) < Threshold THEN None ELSE Ghost(s)
  BY <1>3 DEF NewPrevoteGhost, FindGhost
<1>9. QED
  BY <1>6, <1>7, <1>8

\* updateGrandpaGhost
LEMMA SetGhostFollows ==
  ASSUME NEW rd, Sound(rd), NEW s, s = SetGhost(rd, NewPrevoteGhost(rd))
  PROVE  Follows(s, rd) /\ Ghostly(s) /\ s.stage = rd.stage
<1>1. CASE NewPrevoteGhost(rd) = None
  <2>1. s = rd
    BY <1>1 DEF SetGhost
  <2>2. QED
    BY <1>1, <2>1, KeepsItself DEF Keeps, Ghostly
<1>2. CASE NewPrevoteGhost(rd) # None
  <2> DEFINE g == NewPrevoteGhost(rd)
  <2>1. g \in Block /\ g \in Graph(rd)
    BY <1>2, NewGhostFacts DEF Sound
  <2>2. s = [rd EXCEPT !.prevote_ghost = g]
    BY <1>2 DEF SetGhost
  <2> HIDE DEF g
  <2>3. s \in Rounds
    BY <2>1, <2>2 DEF Sound, Rounds, Opt
  <2>4. /\ s.setup = rd.setup /\ s.previous_round = rd.previous_round
        /\ s.prevotes = rd.prevotes /\ s.precommits = rd.precommits
        /\ s.prevote = rd.prevote /\ s.precommit = rd.precommit /\ s.sent = rd.sent
        /\ s.prevote_ghost = g /\ s.untold = rd.untold /\ s.finalized = rd.finalized
        /\ s.handed = rd.handed /\ s.stage = rd.stage
    BY <2>2 DEF Sound, Rounds
  <2>5. Graph(s) = Graph(rd) /\ NewPrevoteGhost(s) = g
    BY <2>4, SameResults DEF g
  <2>6. OwnVotes(s, "prevotes") /\ OwnVotes(s, "precommits")
    BY <2>4, Zenon DEF Sound, OwnVotes, OwnVote
  <2>7. Sound(s)
    BY <2>1, <2>3, <2>4, <2>5, <2>6, Zenon DEF Sound
  <2>8. Ghostly(s)
    BY <2>4, <2>5, Zenon DEF Ghostly
  <2>9. QED
    BY <2>4, <2>7, <2>8, GrowsIsOrder, Zenon DEF Follows
<1>3. QED
  BY <1>1, <1>2

\* The finalized block and the estimate that updateEstimate finds with enough
\* votes: both are there, one below the other and both below the ghost.
LEMMA EstimateFacts ==
  ASSUME NEW rd, Sound(rd), EstimateUpdated(rd),
         NEW f, f = FindAncestor(rd, rd.prevote_ghost, Supermajority(rd.precommits)),
         NEW e, e = FindAncestor(rd, rd.prevote_ghost, PossibleToPrecommit(rd.precommits))
  PROVE  /\ f \in Supermajority(rd.precommits) /\ f \in Block /\ e \in Block
         /\ HasAncestry(f, e) /\ HasAncestry(e, rd.prevote_ghost)
<1> DEFINE S == Supermajority(rd.precommits)
           P == PossibleToPrecommit(rd.precommits)
           g == rd.prevote_ghost
<1>1. HonestTracker(rd.prevotes) /\ HonestTracker(rd.precommits) /\ g \in Graph(rd)
  BY DEF Sound, EstimateUpdated, EstimateKnown
<1>2. LastFinalized \in S /\ S \subseteq P
  <2>1. GetTotalWeight(rd.precommits) >= Threshold
    BY DEF EstimateUpdated
  <2>2. QED
    BY <1>1, <2>1, BaseHasSupermajority, SupermajorityIsPossible
<1>3. f = AncestorIn(LastFinalized, Nodes(rd), g, S) /\ e = AncestorIn(LastFinalized, Nodes(rd), g, P)
  BY DEF FindAncestor
<1>4. LastFinalized \in Block /\ Nodes(rd) \in SUBSET Block
  BY <1>1, NodeFacts
<1> HIDE DEF S, P, g
<1>5. f # None /\ e # None
  BY <1>1, <1>2, <1>3, <1>4, AncestorFacts DEF Graph
<1>6. f \in Block /\ f \in S /\ HasAncestry(f, g) /\ f \in Graph(rd)
  BY <1>3, <1>4, <1>5, AncestorFacts DEF Graph
<1>7. e \in Block /\ HasAncestry(e, g)
      /\ \A c \in P \cap Graph(rd) : HasAncestry(c, g) => Number[c] <= Number[e]
  <2>1. e \in Block /\ HasAncestry(e, g)
    BY <1>3, <1>4, <1>5, AncestorFacts
  <2>2. ASSUME NEW c \in P \cap Graph(rd), HasAncestry(c, g) PROVE Number[c] <= Number[e]
    <3>1. c \in P \cap GraphBlocks(LastFinalized, Nodes(rd))
      BY DEF Graph
    <3>2. QED
      BY <1>3, <1>4, <1>5, <2>2, <3>1, AncestorFacts
  <2>3. QED
    BY <2>1, <2>2
<1>8. Number[f] <= Number[e] /\ g \in Block
  BY <1>1, <1>2, <1>4, <1>6, <1>7, GraphFacts DEF Graph
<1>9. HasAncestry(f, e)
  <2>1. HasAncestry(f, e) \/ HasAncestry(e, f)
    BY <1>6, <1>7, <1>8, AncestryFacts
  <2>2. HasAncestry(e, f) => f = e
    BY <1>6, <1>7, <1>8, NumberFacts
  <2>3. QED
    BY <1>6, <2>1, <2>2, AncestryFacts
<1>10. QED
  BY <1>6, <1>7, <1>9 DEF S, g

\* updateEstimate
LEMMA UpdateEstimateFollows ==
  ASSUME NEW rd, Sound(rd), NEW s, s = UpdateEstimate(rd)
  PROVE  /\ Follows(s, rd) /\ Between(s) /\ (Ghostly(rd) => Ghostly(s))
         /\ s.stage = rd.stage
<1> DEFINE f == FindAncestor(rd, rd.prevote_ghost, Supermajority(rd.precommits))
           e == FindAncestor(rd, rd.prevote_ghost, PossibleToPrecommit(rd.precommits))
           c == /\ e # None
                /\ e # rd.prevote_ghost
                     \/ FindGhost(rd, e, PossibleToPrecommit(rd.precommits)) \in {None, e}
<1>1. CASE ~EstimateKnown(rd)
  <2>1. s = rd
    BY <1>1 DEF UpdateEstimate, EstimateUpdated
  <2>2. QED
    BY <1>1, <2>1, KeepsItself DEF Keeps, Between, EstimateUpdated
<1>2. ASSUME s \in Rounds, s.finalized # None => s.finalized \in Supermajority(rd.precommits),
             SameVotes(s, rd), s.handed = rd.handed, s.stage = rd.stage
      PROVE  Follows(s, rd) /\ (Ghostly(rd) => Ghostly(s))
  <2>1. /\ Graph(s) = Graph(rd) /\ PrevBestFinalCandidate(s) = PrevBestFinalCandidate(rd)
        /\ NewPrevoteGhost(s) = NewPrevoteGhost(rd)
    BY <1>2, SameResults DEF SameVotes
  <2>2. OwnVotes(s, "prevotes") /\ OwnVotes(s, "precommits")
    BY <1>2, Zenon DEF Sound, OwnVotes, OwnVote, SameVotes
  <2>3. Sound(s)
    BY <1>2, <2>1, <2>2, Zenon DEF Sound, SameVotes
  <2>4. Ghostly(rd) => Ghostly(s)
    BY <1>2, <2>1, Zenon DEF Ghostly, SameVotes
  <2>5. QED
    BY <1>2, <2>3, <2>4, GrowsIsOrder, Zenon DEF Follows, SameVotes
<1>3. CASE EstimateUpdated(rd)
  <2>1. s = [rd EXCEPT !.finalized = f, !.estimate = e, !.completable = c]
    BY <1>3, Zenon DEF UpdateEstimate, EstimateUpdated, SetEstimate
  <2>2. /\ f \in Supermajority(rd.precommits) /\ f \in Block /\ e \in Block
        /\ HasAncestry(f, e) /\ HasAncestry(e, rd.prevote_ghost)
    BY <1>3, EstimateFacts
  <2>3. c \in BOOLEAN
    OBVIOUS
  <2> HIDE DEF f, e, c
  <2>4. s \in Rounds
    BY <2>1, <2>2, <2>3, ZenonT(60) DEF Sound, Rounds, Opt
  <2>5. /\ SameVotes(s, rd) /\ s.handed = rd.handed /\ s.stage = rd.stage
        /\ s.finalized = f /\ s.estimate = e
    BY <2>1, Zenon DEF Sound, Rounds, SameVotes
  <2>6. f # None /\ e # None
    BY <2>2, ChainAssumption
  <2>7. Between(s)
    BY <2>2, <2>5, <2>6, Zenon DEF Between, SameVotes
  <2>8. QED
    BY <1>2, <2>2, <2>4, <2>5, <2>7
<1>4. CASE EstimateKnown(rd) /\ ~EstimateUpdated(rd)
  <2>1. s = [rd EXCEPT !.estimate = rd.prevote_ghost]
    BY <1>4, Zenon DEF UpdateEstimate
  <2>2. s \in Rounds
    BY <2>1 DEF Sound, Rounds
  <2>3. /\ SameVotes(s, rd) /\ s.handed = rd.handed /\ s.stage = rd.stage
        /\ s.finalized = rd.finalized
    BY <2>1 DEF Sound, Rounds, SameVotes
  <2>4. Between(s)
    BY <1>4, <2>3, Zenon DEF Between, EstimateUpdated, EstimateKnown, SameVotes
  <2>5. s.finalized # None => s.finalized \in Supermajority(rd.precommits)
    BY <2>3, Zenon DEF Sound
  <2>6. QED
    BY <1>2, <2>2, <2>3, <2>4, <2>5
<1>5. QED
  BY <1>1, <1>3, <1>4

\* What a method does that counts: with `counts` it restores Between, and with
\* `ghost` Ghostly, whatever the votes were before it.
Counts(s, rd, ghost, counts) ==
  /\ Keeps(s, rd) /\ s.stage = rd.stage
  /\ counts => Between(s)
  /\ ghost => Ghostly(s)

LEMMA FinalizeEstimatedKeeps ==
  ASSUME NEW rd, Sound(rd), NEW s, s = FinalizeEstimated(rd)
  PROVE  Keeps(s, rd) /\ s.stage = rd.stage
<1>1. CASE s = rd
  BY <1>1, KeepsItself
<1>2. CASE s = DoFinalize(rd) /\ rd.finalized # None
  <2>1. s = [rd EXCEPT !.handed = rd.handed \cup {rd.finalized}]
    BY <1>2 DEF DoFinalize
  <2>2. rd.finalized \in Block
    BY <1>2 DEF Sound, Supermajority
  <2>3. s \in Rounds
    BY <2>1, <2>2 DEF Sound, Rounds
  <2>4. /\ SameVotes(s, rd) /\ s.stage = rd.stage /\ s.finalized = rd.finalized
        /\ s.estimate = rd.estimate /\ s.handed = rd.handed \cup {rd.finalized}
    BY <2>1 DEF Sound, Rounds, SameVotes
  <2>5. QED
    BY <1>2, <2>3, <2>4, FrameKeeps
<1>3. QED
  BY <1>1, <1>2 DEF FinalizeEstimated

LEMMA ScheduleWakeKeeps ==
  ASSUME NEW rd, Sound(rd), NEW s, s = ScheduleWake(rd)
  PROVE  Keeps(s, rd) /\ s.stage = rd.stage
<1> DEFINE w == rd.wake \/ rd.prevote_ghost # None
<1>1. s = [rd EXCEPT !.wake = w]
  BY DEF ScheduleWake
<1>2. w \in BOOLEAN
  OBVIOUS
<1> HIDE DEF w
<1>3. s \in Rounds
  BY <1>1, <1>2, ZenonT(60) DEF Sound, Rounds
<1>4. /\ SameVotes(s, rd) /\ s.stage = rd.stage /\ s.finalized = rd.finalized
      /\ s.estimate = rd.estimate /\ s.handed = rd.handed
  BY <1>1, Zenon DEF Sound, Rounds, SameVotes
<1>5. QED
  BY <1>3, <1>4, FrameKeeps

LEMMA TryStartNextRoundKeeps ==
  ASSUME NEW rd, Sound(rd), NEW s, s = TryStartNextRound(rd)
  PROVE  Keeps(s, rd) /\ s.stage = rd.stage
<1> DEFINE n == rd.next_round \/ rd.grandpa
<1>1. CASE s = rd
  BY <1>1, KeepsItself
<1>2. CASE s = [rd EXCEPT !.next_round = n, !.grandpa = FALSE]
  <2>1. n \in BOOLEAN /\ FALSE \in BOOLEAN
    OBVIOUS
  <2> HIDE DEF n
  <2>2. s \in Rounds
    BY <1>2, <2>1, ZenonT(60) DEF Sound, Rounds
  <2>3. /\ SameVotes(s, rd) /\ s.stage = rd.stage /\ s.finalized = rd.finalized
        /\ s.estimate = rd.estimate /\ s.handed = rd.handed
    BY <1>2, Zenon DEF Sound, Rounds, SameVotes
  <2>4. QED
    BY <2>2, <2>3, FrameKeeps
<1>3. QED
  BY <1>1, <1>2, Zenon DEF TryStartNextRound

LEMMA RecountCounts ==
  ASSUME NEW rd, Sound(rd), NEW ghost \in BOOLEAN, NEW precommits \in BOOLEAN,
         NEW s, s = Recount(rd, ghost, precommits)
  PROVE  Counts(s, rd, ghost, ghost \/ precommits)
<1> DEFINE g == IF ghost THEN ScheduleWake(UpdateGrandpaGhost(rd)) ELSE rd
           e == UpdateEstimate(g)
<1>1. CASE ~ghost /\ ~precommits
  <2>1. s = rd
    BY <1>1, Zenon DEF Recount
  <2>2. QED
    BY <1>1, <2>1, KeepsItself, Zenon DEF Counts
<1>2. CASE ghost \/ precommits
  <2>1. s = FinalizeEstimated(e)
    BY <1>2, Zenon DEF Recount
  <2>2. Follows(g, rd) /\ g.stage = rd.stage /\ (ghost \/ Ghostly(rd) => Ghostly(g))
    <3>1. CASE ghost
      <4> DEFINE u == UpdateGrandpaGhost(rd)
      <4>1. u = SetGhost(rd, NewPrevoteGhost(rd)) /\ g = ScheduleWake(u)
        BY <3>1, Zenon DEF UpdateGrandpaGhost
      <4> HIDE DEF u, g
      <4>2. Follows(u, rd) /\ Ghostly(u) /\ u.stage = rd.stage
        BY <4>1, SetGhostFollows
      <4>3. Keeps(g, u) /\ g.stage = u.stage
        BY <4>1, <4>2, ScheduleWakeKeeps DEF Follows
      <4>4. QED
        BY <4>2, <4>3, FollowsTrans, Zenon DEF Keeps
    <3>2. CASE ~ghost
      BY <3>2, KeepsItself, Zenon DEF Keeps
    <3>3. QED
      BY <3>1, <3>2
  <2> HIDE DEF g
  <2>3. Follows(e, g) /\ Between(e) /\ (Ghostly(g) => Ghostly(e)) /\ e.stage = g.stage
    BY <2>2, UpdateEstimateFollows DEF Follows
  <2> HIDE DEF e
  <2>4. Keeps(s, e) /\ s.stage = e.stage
    BY <2>1, <2>3, FinalizeEstimatedKeeps DEF Follows
  <2>5. Follows(s, rd)
    BY <2>2, <2>3, <2>4, FollowsTrans DEF Keeps
  <2>6. QED
    BY <2>2, <2>3, <2>4, <2>5, Zenon DEF Counts, Keeps
<1>3. QED
  BY <1>1, <1>2, Zenon

LEMMA UpdateQuietlyCounts ==
  ASSUME NEW rd, Sound(rd), NEW ghost \in BOOLEAN, NEW precommits \in BOOLEAN,
         NEW s, s = UpdateQuietly(rd, ghost, precommits)
  PROVE  Counts(s, rd, ghost, ghost \/ precommits)
<1> DEFINE r == Recount(rd, ghost, precommits)
<1>1. Counts(r, rd, ghost, ghost \/ precommits)
  BY RecountCounts
<1>2. s = TryStartNextRound(r)
  BY DEF UpdateQuietly
<1> HIDE DEF r
<1>3. Keeps(s, r) /\ s.stage = r.stage
  BY <1>1, <1>2, TryStartNextRoundKeeps, Zenon DEF Counts, Keeps, Follows
<1>4. Keeps(s, rd)
  BY <1>1, <1>3, KeepsTrans, Zenon DEF Counts
<1>5. QED
  BY <1>1, <1>3, <1>4, Zenon DEF Counts, Keeps

-----------------------------------------------------------------------------
(* Votes                                                                   *)

\* A vote that onSigned accepts leaves a tracker honest.
LEMMA TrackerTakes ==
  ASSUME NEW t, HonestTracker(t), NEW v \in Voter, NEW b \in Block,
         t[v] = <<>> => HasAncestry(LastFinalized, b),
         t[v] # <<>> => Len(t[v]) = 1 /\ v \in Byzantine
  PROVE  LET u == [t EXCEPT ![v] = Append(t[v], b)]
         IN  /\ HonestTracker(u) /\ Grows(u, t)
             /\ t[v] = <<>> => u[v] = <<b>>
             /\ \A w \in Voter \ {v} : u[w] = t[w]
<1> DEFINE n == Append(t[v], b)
           u == [t EXCEPT ![v] = n]
<1>1. t \in [Voter -> Ballots] /\ t[v] \in Ballots
  BY DEF HonestTracker
<1>2. /\ n \in Ballots /\ n # <<>>
      /\ t[v] = <<>> => n = <<b>> /\ n[1] = b /\ Len(n) = 1
      /\ t[v] # <<>> => n[1] = t[v][1] /\ v \in Byzantine
      /\ Len(t[v]) # 2
  <2>1. CASE t[v] = <<>>
    <3>1. n = <<b>> /\ <<b>> \in Ballots /\ Len(<<b>>) = 1 /\ <<b>> # <<>> /\ <<b>>[1] = b
          /\ Len(t[v]) = 0
      BY <1>1, <2>1, BallotFacts
    <3>2. QED
      BY <2>1, <3>1
  <2>2. CASE t[v] # <<>>
    <3>1. n \in Ballots /\ n # <<>> /\ n[1] = t[v][1] /\ Len(t[v]) = 1
      BY <1>1, <2>2, BallotFacts, Zenon
    <3>2. QED
      BY <2>2, <3>1
  <2>3. QED
    BY <2>1, <2>2
<1> HIDE DEF n
<1>3. u \in [Voter -> Ballots] /\ u[v] = n /\ \A w \in Voter \ {v} : u[w] = t[w]
  BY <1>1, <1>2
<1> HIDE DEF u
<1>4. HonestTracker(u)
  <2>1. ASSUME NEW w \in Voter, u[w] # <<>> PROVE HasAncestry(LastFinalized, u[w][1])
    BY <1>2, <1>3, <2>1 DEF HonestTracker
  <2>2. ASSUME NEW w \in Voter \ Byzantine PROVE Len(u[w]) <= 1
    <3>1. CASE w = v
      BY <1>2, <1>3, <3>1
    <3>2. CASE w # v
      BY <1>3, <3>2 DEF HonestTracker
    <3>3. QED
      BY <3>1, <3>2
  <2>3. QED
    BY <1>3, <2>1, <2>2 DEF HonestTracker
<1>5. Grows(u, t)
  BY <1>2, <1>3 DEF Grows
<1>6. QED
  BY <1>2, <1>3, <1>4, <1>5 DEF u, n

\* More votes and the own vote, and nothing else that the invariant is about.
LEMMA MoreVotesFollows ==
  ASSUME NEW rd, Sound(rd), NEW s \in Rounds,
         HonestTracker(s.prevotes), HonestTracker(s.precommits),
         Grows(s.prevotes, rd.prevotes), Grows(s.precommits, rd.precommits),
         OwnVotes(s, "prevotes"), OwnVotes(s, "precommits"),
         s.setup = rd.setup, s.previous_round = rd.previous_round,
         s.untold = rd.untold, s.prevote_ghost = rd.prevote_ghost,
         s.finalized = rd.finalized, s.handed = rd.handed
  PROVE  Follows(s, rd) /\ (s.prevotes = rd.prevotes /\ Ghostly(rd) => Ghostly(s))
<1>1. Graph(rd) \subseteq Graph(s)
  BY GraphGrows
<1>2. Supermajority(rd.precommits) \subseteq Supermajority(s.precommits)
  BY SupermajorityGrows DEF Sound
<1>3. Sound(s)
  BY <1>1, <1>2 DEF Sound
<1>4. ASSUME s.prevotes = rd.prevotes, Ghostly(rd) PROVE Ghostly(s)
  <2>1. PrevBestFinalCandidate(s) = PrevBestFinalCandidate(rd)
    BY Zenon DEF PrevBestFinalCandidate
  <2>2. SUFFICES ASSUME PrevBestFinalCandidate(s) \in Supermajority(s.prevotes)
                 PROVE  NewPrevoteGhost(s) \in {None, s.prevote_ghost}
    BY DEF Ghostly
  <2>3. PrevBestFinalCandidate(rd) \in Supermajority(rd.prevotes)
    BY <1>4, <2>1, <2>2
  <2>4. NewPrevoteGhost(s) = NewPrevoteGhost(rd)
    BY <1>4, <2>3, GhostOfPrevotes DEF Sound
  <2>5. QED
    BY <1>4, <2>3, <2>4 DEF Ghostly
<1>5. QED
  BY <1>3, <1>4 DEF Follows

\* onSigned of an accepted vote.  It does not count the votes.
LEMMA OnSignedFollows ==
  ASSUME NEW rd, Sound(rd), NEW type \in Kinds, NEW v \in Voter, NEW b \in Block,
         Accepts(rd, type, v, b), rd[type][v] = <<>> \/ v \in Byzantine,
         v = Me => OwnVote(rd, type) \in {None, b},
         NEW s, s = OnSigned(rd, type, v, b)
  PROVE  /\ Follows(s, rd) /\ s.stage = rd.stage
         /\ type = "precommits" /\ Ghostly(rd) => Ghostly(s)
         /\ v = Me => OwnVote(s, type) = b
<1> DEFINE u == [rd[type] EXCEPT ![v] = Append(rd[type][v], b)]
           o == IF v = Me /\ OwnVote(rd, type) = None THEN b ELSE OwnVote(rd, type)
           sv == IF v = Me /\ rd.grandpa THEN rd.saved \cup {type} ELSE rd.saved
<1>1. HonestTracker(rd[type]) /\ rd \in Rounds
  BY DEF Sound, Kinds
<1>2. /\ HonestTracker(u) /\ Grows(u, rd[type])
      /\ rd[type][v] = <<>> => u[v] = <<b>>
      /\ \A w \in Voter \ {v} : u[w] = rd[type][w]
  <2>1. rd[type][v] \in Ballots
    BY <1>1 DEF HonestTracker
  <2>2. /\ rd[type][v] = <<>> => HasAncestry(LastFinalized, b)
        /\ rd[type][v] # <<>> => Len(rd[type][v]) = 1 /\ v \in Byzantine
    <3>1. rd[type][v] = <<>> <=> Len(rd[type][v]) = 0
      BY <2>1, BallotFacts, Zenon
    <3>2. QED
      BY <3>1 DEF Accepts
  <2>3. QED
    BY <1>1, <2>2, TrackerTakes
<1>3. o \in Opt /\ sv \in SUBSET Kinds
  <2>1. OwnVote(rd, type) \in Opt
    BY <1>1 DEF Rounds, OwnVote
  <2>2. rd.saved \in SUBSET Kinds
    BY <1>1 DEF Rounds
  <2>3. QED
    BY <2>1, <2>2 DEF Opt
\* The own votes of the type.
<1>4. /\ u[Me] # <<>> => o # None /\ u[Me] = <<o>>
      /\ rd.stage = "INIT" /\ u[Me] = <<>> => o = None
      /\ \A c \in Block : <<type, c>> \in rd.sent => c = o
      /\ v = Me => o = b
  <2>1. OwnVotes(rd, type)
    BY DEF Sound, Kinds
  <2>2. Me \in Voter /\ Me \notin Byzantine /\ None \notin Block
    BY VoterAssumption, ChainAssumption
  <2> HIDE DEF u
  <2>3. CASE v = Me
    <3>1. u[Me] = <<b>> /\ o = b
      BY <1>2, <2>2, <2>3
    <3>2. \A c \in Block : <<type, c>> \in rd.sent => c = b
      BY <2>1, <2>2, <2>3 DEF OwnVotes
    <3>3. <<b>> # <<>> /\ b # None
      BY <2>2
    <3>4. QED
      BY <3>1, <3>2, <3>3
  <2>4. CASE v # Me
    <3>1. u[Me] = rd[type][Me] /\ o = OwnVote(rd, type)
      BY <1>2, <2>2, <2>4
    <3>2. QED
      BY <2>1, <2>4, <3>1 DEF OwnVotes
  <2>5. QED
    BY <2>3, <2>4
<1>5. CASE type = "prevotes"
  <2>1. s = [rd EXCEPT !.prevotes = u, !.saved = sv, !.prevote = o]
    BY <1>1, <1>5, Zenon DEF OnSigned, OwnVote, Rounds
  <2> HIDE DEF u, sv, o
  <2>2. s \in Rounds
    BY <1>1, <1>2, <1>3, <2>1, ZenonT(60) DEF Rounds, HonestTracker
  <2>3. /\ s.setup = rd.setup /\ s.previous_round = rd.previous_round
        /\ s.prevotes = u /\ s.precommits = rd.precommits
        /\ s.prevote = o /\ s.precommit = rd.precommit /\ s.sent = rd.sent
        /\ s.prevote_ghost = rd.prevote_ghost /\ s.untold = rd.untold
        /\ s.finalized = rd.finalized /\ s.handed = rd.handed /\ s.stage = rd.stage
    BY <1>1, <2>1, Zenon DEF Rounds
  <2>4. OwnVotes(s, "prevotes")
    BY <1>4, <1>5, <2>3, Zenon DEF OwnVotes, OwnVote
  <2>5. OwnVotes(s, "precommits")
    BY <2>3, Zenon DEF Sound, OwnVotes, OwnVote
  <2>6. Grows(s.prevotes, rd.prevotes) /\ Grows(s.precommits, rd.precommits)
    BY <1>2, <1>5, <2>3, GrowsIsOrder
  <2>7. HonestTracker(s.prevotes) /\ HonestTracker(s.precommits)
    BY <1>2, <2>3 DEF Sound
  <2>8. v = Me => OwnVote(s, type) = b
    BY <1>4, <1>5, <2>3, Zenon DEF OwnVote
  <2>9. QED
    BY <1>5, <2>2, <2>3, <2>4, <2>5, <2>6, <2>7, <2>8, MoreVotesFollows
<1>6. CASE type = "precommits"
  <2>1. s = [rd EXCEPT !.precommits = u, !.saved = sv, !.precommit = o]
    BY <1>1, <1>6, Zenon DEF OnSigned, OwnVote, Rounds
  <2> HIDE DEF u, sv, o
  <2>2. s \in Rounds
    BY <1>1, <1>2, <1>3, <2>1, ZenonT(60) DEF Rounds, HonestTracker
  <2>3. /\ s.setup = rd.setup /\ s.previous_round = rd.previous_round
        /\ s.prevotes = rd.prevotes /\ s.precommits = u
        /\ s.prevote = rd.prevote /\ s.precommit = o /\ s.sent = rd.sent
        /\ s.prevote_ghost = rd.prevote_ghost /\ s.untold = rd.untold
        /\ s.finalized = rd.finalized /\ s.handed = rd.handed /\ s.stage = rd.stage
    BY <1>1, <2>1, Zenon DEF Rounds
  <2>4. OwnVotes(s, "precommits")
    BY <1>4, <1>6, <2>3, Zenon DEF OwnVotes, OwnVote
  <2>5. OwnVotes(s, "prevotes")
    BY <2>3, Zenon DEF Sound, OwnVotes, OwnVote
  <2>6. Grows(s.prevotes, rd.prevotes) /\ Grows(s.precommits, rd.precommits)
    BY <1>2, <1>6, <2>3, GrowsIsOrder
  <2>7. HonestTracker(s.prevotes) /\ HonestTracker(s.precommits)
    BY <1>2, <2>3 DEF Sound
  <2>8. v = Me => OwnVote(s, type) = b
    BY <1>4, <1>6, <2>3, Zenon DEF OwnVote
  <2>9. QED
    BY <2>2, <2>3, <2>4, <2>5, <2>6, <2>7, <2>8, MoreVotesFollows
<1>7. QED
  BY <1>5, <1>6 DEF Kinds
=============================================================================
