------------------------------ MODULE VoteGraph ------------------------------
(***************************************************************************)
(* The vote graph of a GRANDPA round                                       *)
(* (core/consensus/grandpa/vote_graph/vote_graph_impl.cpp): a compressed   *)
(* tree with a node for every block that was voted for.  A node keeps the  *)
(* blocks between it and its parent node (`ancestors`), its child nodes    *)
(* (`descendants`) and the voters of each vote type that voted for it or   *)
(* above it (`cumulative_vote`).                                           *)
(*                                                                         *)
(* A VoteWeight's bit vector is the set of voters whose bit is set; its    *)
(* `sum` is the weight of that set.  The condition closures of the round   *)
(* compare the weight of that set, joined with the equivocators, with a    *)
(* limit: a condition is such a limit.                                     *)
(***************************************************************************)
EXTENDS VoteGraphSpec, SequencesExt

CONSTANTS
  Voter,
  Weight,     \* weight of every voter
  InitBase,   \* the block the graph starts from
  Ballot,     \* the <<vote type, voter>> pairs that may be cast
  MaxEquivocations  \* bound: how many votes of a type are withdrawn

VARIABLES
  base,          \* base_
  entries,       \* entries_
  heads,         \* heads_
  equivocators,  \* the round's equivocators of each vote type
  votes          \* history: the vote of each voter the graph holds

vars == <<base, entries, heads, equivocators, votes>>

VoteType == {"prevote", "precommit"}

-----------------------------------------------------------------------------
(* VoteWeight                                                              *)

\* The weight of every set of voters.
SetWeight == [S \in SUBSET Voter |-> SumFunctionOnSet(Weight, S)]

WeightOf(S) == SetWeight[S]

\* VoteWeight::total: equivocators count everywhere.
Total(flags, type) == WeightOf(flags[type] \cup equivocators[type])

\* VoteWeight::merge
Merge(w1, w2) == [type \in VoteType |-> w1[type] \cup w2[type]]

NoVotes == [type \in VoteType |-> {}]

-----------------------------------------------------------------------------
(* Entries                                                                 *)

\* Entry::getAncestorBlockBy
GetAncestorBlockBy(entry, n) ==
  LET offset == entry.number - n
  IN  IF n >= entry.number \/ offset > Len(entry.ancestors)
        THEN None
        ELSE entry.ancestors[offset]

InDirectAncestry(entry, b) == GetAncestorBlockBy(entry, Number[b]) = b

\* One walk of findContainingNodes from a head towards the base.
RECURSIVE WalkFrom(_, _)
WalkFrom(h, b) ==
  LET e == entries[h]
      found == GetAncestorBlockBy(e, Number[b])
  IN  CASE found = b -> {h}
        [] found = None /\ e.ancestors # <<>> -> WalkFrom(Last(e.ancestors), b)
        [] OTHER -> {}

\* VoteGraphImpl::findContainingNodes for a block that is not a node: the
\* nodes with `b` in their edge, in the order of the unordered set of heads.
ContainingNodes(b) == UNION {WalkFrom(h, b) : h \in heads}

IsNode(b) == b \in DOMAIN entries

-----------------------------------------------------------------------------
(* insert, remove, adjustBase                                              *)

\* The node and its parent nodes down to the base of the graph `es`.
RECURSIVE NodesBelow(_, _)
NodesBelow(es, b) ==
  IF es[b].ancestors = <<>>
    THEN {b}
    ELSE {b} \cup NodesBelow(es, Last(es[b].ancestors))

\* insert's last loop: the voter's bit is set from the node to the base.
SetVotes(es, type, b, v) ==
  LET below == NodesBelow(es, b)
  IN  [n \in DOMAIN es |->
         IF n \in below
           THEN [es[n] EXCEPT !.cumulative_vote[type] = @ \cup {v}]
           ELSE es[n]]

\* VoteGraphImpl::append: `b` becomes a head above its highest ancestor node.
AppendNode(b) ==
  LET ancestry == GetAncestry(base, b)
      k == CHOOSE i \in 2 .. Len(ancestry) :
             /\ IsNode(ancestry[i])
             /\ \A j \in 2 .. (i - 1) : ~IsNode(ancestry[j])
      new == [number |-> Number[b], ancestors |-> SubSeq(ancestry, 2, k),
              descendants |-> <<>>, cumulative_vote |-> NoVotes]
  IN  [n \in DOMAIN entries \cup {b} |->
         CASE n = b -> new
           [] n = ancestry[k] ->
                [entries[n] EXCEPT !.descendants = Append(@, b)]
           [] OTHER -> entries[n]]

\* Mutant: the parent node keeps the descendants that moved above `b`.
IntroduceBranchBeside(containing, b) ==
  LET Offset(n) == entries[n].number - Number[b]
      first == entries[containing[1]]
      new == [number |-> Number[b],
              ancestors |-> SubSeq(first.ancestors, Offset(containing[1]) + 1,
                                   Len(first.ancestors)),
              descendants |-> containing,
              cumulative_vote |->
                FoldLeft(LAMBDA w, n : Merge(w, entries[n].cumulative_vote),
                         NoVotes, containing)]
  IN  [n \in DOMAIN entries \cup {b} |->
         CASE n = b -> new
           [] n \in ToSet(containing) ->
                [entries[n] EXCEPT !.ancestors = SubSeq(@, 1, Offset(n))]
           [] n = Last(first.ancestors) ->
                [entries[n] EXCEPT !.descendants = Append(@, b)]
           [] OTHER -> entries[n]]

\* VoteGraphImpl::introduceBranch: `b` becomes a node between the nodes
\* `containing` (a sequence) and their parent node.
IntroduceBranch(containing, b) ==
  LET Offset(n) == entries[n].number - Number[b]
      first == entries[containing[1]]
      prev == Last(first.ancestors)
      new == [number |-> Number[b],
              ancestors |-> SubSeq(first.ancestors, Offset(containing[1]) + 1,
                                   Len(first.ancestors)),
              descendants |-> containing,
              cumulative_vote |->
                FoldLeft(LAMBDA w, n : Merge(w, entries[n].cumulative_vote),
                         NoVotes, containing)]
  IN  [n \in DOMAIN entries \cup {b} |->
         CASE n = b -> new
           [] n \in ToSet(containing) ->
                [entries[n] EXCEPT !.ancestors = SubSeq(@, 1, Offset(n))]
           [] n = prev ->
                [entries[n] EXCEPT !.descendants =
                   Append(SelectSeq(@, LAMBDA d : d \notin ToSet(containing)),
                          b)]
           [] OTHER -> entries[n]]

\* VoteGraphImpl::insert of a vote for a block above the base.
Insert(type, b, v) ==
  /\ HasAncestry(base, b)
  /\ \/ /\ IsNode(b)
        /\ entries' = SetVotes(entries, type, b, v)
        /\ UNCHANGED heads
     \/ /\ ~IsNode(b) /\ ContainingNodes(b) = {}
        /\ entries' = SetVotes(AppendNode(b), type, b, v)
        /\ heads' = (heads \ {Last(entries'[b].ancestors)}) \cup {b}
     \/ /\ ~IsNode(b)
        /\ \E containing \in SetToSeqs(ContainingNodes(b)) :
             /\ containing # <<>>
             /\ entries' = SetVotes(IntroduceBranch(containing, b), type, b, v)
        /\ UNCHANGED heads
  /\ votes' = [votes EXCEPT ![type][v] = b]
  /\ UNCHANGED <<base, equivocators>>

\* insert of a vote that append refuses (the block is below the base, unknown
\* or on another branch): the graph stays as it is.
InsertRefused(type, b, v) ==
  /\ ~HasAncestry(base, b)
  /\ UNCHANGED vars

\* VoteGraphImpl::remove, when the round has found `v` equivocating.
RemoveVote(type, v) ==
  /\ entries' = [n \in DOMAIN entries |->
                   [entries[n] EXCEPT !.cumulative_vote[type] = @ \ {v}]]
  /\ votes' = [votes EXCEPT ![type][v] = None]
  /\ equivocators' = [equivocators EXCEPT ![type] = @ \cup {v}]
  /\ UNCHANGED <<base, heads>>

\* VoteGraphImpl::adjustBase with the ancestry proof from the base's parent
\* down to `b`.
AdjustBase(b) ==
  /\ b # base /\ HasAncestry(b, base)
  /\ LET proof == Tail(GetAncestry(b, base))
         new == [number |-> Number[base] - Len(proof), ancestors |-> <<>>,
                 descendants |-> <<base>>,
                 cumulative_vote |-> entries[base].cumulative_vote]
     IN  entries' = [n \in DOMAIN entries \cup {b} |->
                       CASE n = b -> new
                         [] n = base -> [entries[n] EXCEPT !.ancestors = @ \o proof]
                         [] OTHER -> entries[n]]
  /\ base' = b
  /\ UNCHANGED <<heads, equivocators, votes>>

-----------------------------------------------------------------------------
(* findAncestor, findGhost                                                 *)

\* The condition "the weight, equivocators included, reaches `limit`".
Holds(flags, type, limit) == Total(flags, type) >= limit

\* VoteGraphImpl::findAncestor
RECURSIVE FindAncestor(_, _, _)
FindAncestor(type, b, limit) ==
  IF IsNode(b)
    THEN LET node == entries[b]
         IN  CASE Holds(node.cumulative_vote, type, limit) -> b
               [] node.ancestors = <<>> -> None
               [] OTHER -> FindAncestor(type, node.ancestors[1], limit)
    ELSE LET children == ContainingNodes(b)
             all == [t \in VoteType |->
                       UNION {entries[n].cumulative_vote[t] : n \in children}]
             child == entries[CHOOSE n \in children : TRUE]
             offset == child.number - Number[b]
         IN  CASE children = {} -> None
               [] Holds(all, type, limit) -> b
               [] offset < Len(child.ancestors) ->
                    FindAncestor(type, child.ancestors[offset + 1], limit)
               [] OTHER -> None

\* findGhost's scan of one node's descendants, `s`, from index `i` on.  `st`
\* is the local state: `key` (node_key), `node` (active_node, a copy of an
\* entry) and the stack `todo`.  The first node scanned is active_node
\* itself (`own`): assigning active_node rewrites the vector under the loop.
\* The copy is in place while the new descendants fit, and otherwise leaves
\* the loop on the old, released buffer, whose bytes are still there.
RECURSIVE Scan(_, _, _, _, _, _, _)
Scan(type, limit, constraint, s, i, own, st) ==
  IF i > Len(s) THEN st
  ELSE LET e == entries[s[i]]
           better == \/ e.number > st.node.number
                     \/ /\ e.number = st.node.number
                        /\ WeightOf(st.node.cumulative_vote[type])
                             < WeightOf(e.cumulative_vote[type])
           fits == own /\ Len(e.descendants) <= Len(s)
           rest == SubSeq(s, Len(e.descendants) + 1, Len(s))
       IN  IF /\ constraint # None => InDirectAncestry(e, constraint)
              /\ Holds(e.cumulative_vote, type, limit)
              /\ better
             THEN Scan(type, limit, constraint,
                       IF fits THEN e.descendants \o rest ELSE s, i + 1, fits,
                       [key |-> s[i], node |-> e, todo |-> Append(st.todo, s[i])])
             ELSE Scan(type, limit, constraint, s, i + 1, own, st)

\* The rest of findGhost's loop: nodes are taken from the top of the stack.
RECURSIVE Drain(_, _, _)
Drain(type, limit, st) ==
  IF st.todo = <<>> THEN st
  ELSE Drain(type, limit,
             Scan(type, limit, None, entries[Last(st.todo)].descendants, 1, FALSE,
                  [st EXCEPT !.todo = Front(@)]))

\* Mutant: edges are not searched.
GhostAtNode(type, limit, best, ds) == best

\* VoteGraphImpl::ghostFindMergePoint, unconstrained as findGhost calls it:
\* from `best` the highest block at which at least two of the child nodes
\* `ds` of the active node still meet, with enough weight between them.
RECURSIVE GhostFindMergePoint(_, _, _, _)
GhostFindMergePoint(type, limit, best, ds) ==
  LET At(d) == GetAncestorBlockBy(entries[d], Number[best] + 1)
      Meeting(b) == {d \in ds : At(d) = b}
      Votes(b) == [t \in VoteType |->
                     UNION {entries[d].cumulative_vote[t] : d \in Meeting(b)}]
      merged == {b \in {At(d) : d \in ds} \ {None} :
                   /\ Cardinality(Meeting(b)) > 1
                   /\ Holds(Votes(b), type, limit)}
      heaviest == CHOOSE b \in merged : \A c \in merged :
                    WeightOf(Votes(c)[type]) <= WeightOf(Votes(b)[type])
  IN  IF merged = {} THEN best
      ELSE GhostFindMergePoint(type, limit, heaviest, Meeting(heaviest))

\* VoteGraphImpl::findGhost.  `force_constrain` is reset after the first node
\* and so never constrains the merge point.
FindGhost(type, current_best, limit) ==
  LET contained == current_best # None /\ ~IsNode(current_best)
      containing == ContainingNodes(current_best)
      start == CASE current_best = None -> base
                 [] contained ->
                      Last(entries[CHOOSE n \in containing : TRUE].ancestors)
                 [] OTHER -> current_best
      found == Drain(type, limit,
                 Scan(type, limit, IF contained THEN current_best ELSE None,
                      entries[start].descendants, 1, TRUE,
                      [key |-> start, node |-> entries[start], todo |-> <<>>]))
  IN  CASE contained /\ containing = {} -> None
        [] ~Holds(entries[start].cumulative_vote, type, limit) -> None
        [] OTHER -> GhostFindMergePoint(type, limit, found.key,
                                        ToSet(found.node.descendants))

-----------------------------------------------------------------------------
Init ==
  /\ base = InitBase
  /\ entries = [b \in {InitBase} |->
                  [number |-> Number[b], ancestors |-> <<>>,
                   descendants |-> <<>>, cumulative_vote |-> NoVotes]]
  /\ heads = {InitBase}
  /\ equivocators = [type \in VoteType |-> {}]
  /\ votes = [type \in VoteType |-> [v \in Voter |-> None]]

\* The round inserts a voter's first vote and removes it at the second,
\* different one (VotingRoundImpl::onSigned).
Next ==
  \/ \E ballot \in Ballot, b \in Block :
       LET type == ballot[1]
           v == ballot[2]
       IN  \/ /\ votes[type][v] = None /\ v \notin equivocators[type]
              /\ Insert(type, b, v) \/ InsertRefused(type, b, v)
           \/ /\ votes[type][v] \notin {None, b}
              /\ Cardinality(equivocators[type]) < MaxEquivocations
              /\ RemoveVote(type, v)
  \/ \E b \in Block : AdjustBase(b)

Spec == Init /\ [][Next]_vars

-----------------------------------------------------------------------------
(* Reference definitions                                                   *)

\* The voters of `type` that voted for `b` or above it.
Supporters(type, b) == {v \in Voter : votes[type][v] \in Subtree(b)}

Supported(type, b, limit) ==
  WeightOf(Supporters(type, b) \cup equivocators[type]) >= limit

SupportedBlocks(type, limit) == {b \in Block : Supported(type, b, limit)}

TotalWeight == WeightOf(Voter)
Faulty == (TotalWeight - 1) \div 3
Threshold == TotalWeight - Faulty

\* The blocks the graph knows.
InGraph == GraphBlocks(base, DOMAIN entries)

-----------------------------------------------------------------------------
(* Properties                                                              *)

\* The members of VoteGraphImpl hold what their types say, and the nodes are
\* blocks.
TypeOK ==
  /\ base \in Block
  /\ heads \subseteq DOMAIN entries /\ DOMAIN entries \subseteq Block
  /\ \A n \in DOMAIN entries :
       entries[n] \in [number : Nat, ancestors : Seq(Block),
                       descendants : Seq(Block),
                       cumulative_vote : [VoteType -> SUBSET Voter]]
  /\ equivocators \in [VoteType -> SUBSET Voter]
  /\ votes \in [VoteType -> [Voter -> Block \cup {None}]]

\* The compressed tree stays the block tree: after any sequence of append,
\* introduceBranch and adjustBase, a node's edge is the path of headers to
\* the nearest node below it, that node lists it exactly once as a
\* descendant, and the heads are the nodes with no descendant.  A node's
\* cumulative vote names exactly the voters whose vote is for the node or above
\* it, whatever the order in which insert split edges and remove withdrew votes.
GraphShape ==
  /\ TypeOK
  /\ entries[base].ancestors = <<>>
  /\ \A n \in DOMAIN entries \ {base} :
       LET below == (Ancestors[n] \ {n}) \cap DOMAIN entries
       IN  entries[n].ancestors = Tail(GetAncestry(Highest(below), n))
  /\ \A n, m \in DOMAIN entries :
       Cardinality({i \in DOMAIN entries[n].descendants :
                      entries[n].descendants[i] = m})
         = (IF m # base /\ Last(entries[m].ancestors) = n THEN 1 ELSE 0)
  /\ heads = {n \in DOMAIN entries : entries[n].descendants = <<>>}
  /\ \A n \in DOMAIN entries, type \in VoteType :
       entries[n].cumulative_vote[type] = Supporters(type, n)

\* The searches answer as their specifications say, whatever the shape of the
\* graph: findAncestor for every block and every weight a caller may ask for;
\* findGhost for a supermajority, while the equivocators are within the
\* tolerated weight, although it visits the descendants in any order and
\* rewrites the vector it iterates over; and, for updateEstimate's question
\* "could a block above the estimate still get a supermajority of precommits",
\* findGhost stays at a supported block exactly when none above it is
\* supported, whatever the limit.
SearchesAsSpecified ==
  /\ \A type \in VoteType, b \in InGraph, limit \in 1 .. TotalWeight :
       FindAncestor(type, b, limit)
         = AncestorIn(base, DOMAIN entries, b, SupportedBlocks(type, limit))
  /\ \A type \in VoteType, cb \in InGraph :
       WeightOf(equivocators[type]) <= Faulty
       => FindGhost(type, cb, Threshold)
            = GhostFrom(base, DOMAIN entries, cb, SupportedBlocks(type, Threshold))
  /\ \A limit \in 1 .. TotalWeight :
       LET S == SupportedBlocks("precommit", limit)
       IN  \A cb \in InGraph \cap S :
             (FindGhost("precommit", cb, limit) = cb)
               <=> (GhostFrom(base, DOMAIN entries, cb, S) = cb)
=============================================================================
