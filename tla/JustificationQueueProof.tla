----------------------- MODULE JustificationQueueProof -----------------------
(***************************************************************************)
(* Proofs about JustificationQueue.  Sound holds at every point of a       *)
(* callback.  The sets that authorities are counted by rise at every       *)
(* scheduled change, so that a justification of the expected set, or of a  *)
(* change whose parent is of the set before it, skips no change.  Waiting  *)
(* says for what a held justification waits; verifiedLoop lets go of those *)
(* whose parent has just been finalized.                                   *)
(***************************************************************************)
EXTENDS JustificationQueue, DataLemmas

-----------------------------------------------------------------------------
(* The invariant                                                           *)

\* scheduledParent: the last scheduled change before `b`.
IsParent(p, b) ==
  p \in Scheduled /\ p < b /\ \A c \in Scheduled : c < b => c <= p

Fetches == [kind : {"required", "possible", "range"}, block : 1 .. Top, applied : BOOLEAN]

States ==
  [expected : 0 .. Top, verified : SUBSET [block : Scheduled, expected : 1 .. Top],
   last : {Idle} \cup (1 .. Top \ Scheduled), required : SUBSET Scheduled,
   possible : Seq(1 .. Top), range : 0 .. Top, fetching : {Idle} \cup Fetches,
   finalized : Blocks, justified : SUBSET (1 .. Top), base : Blocks, best : Blocks]

\* expected_ is in step with the finalized block, and no change is skipped.
InStep(st) ==
  /\ st.base <= st.finalized /\ st.finalized <= st.best
  /\ \A c \in st.justified : c <= st.finalized
  /\ st.expected <= NextAuthorities(st.finalized)
  /\ \A c \in Scheduled : c <= st.finalized =>
       c \in st.justified /\ NextAuthorities(c) <= st.expected

\* What is held expects the set that its parent brings in, and what is required
\* is missing.
Sound(st) ==
  /\ st \in States /\ InStep(st)
  /\ \A v \in st.verified : \E p \in Scheduled :
       IsParent(p, v.block) /\ v.expected = NextAuthorities(p)
  /\ \A c \in st.required : c > st.finalized /\ c \notin Held(st)

\* The parents of the held blocks are required or held themselves; verifiedLoop
\* at block `n` has yet to come to those whose parent is finalized.
HeldWaits(st, n) ==
  \A v \in st.verified :
    /\ st.finalized < v.block /\ v.block <= st.best
    /\ \E p \in Scheduled :
         /\ IsParent(p, v.block)
         /\ \/ p \in st.required \cup Held(st)
            \/ n < v.block /\ p = st.finalized /\ st.expected = NextAuthorities(p)

LastWaits(st) ==
  st.last # Idle /\ Forced \cap 1 .. st.last = {} =>
    \E p \in Scheduled : IsParent(p, st.last) /\ p \in st.required \cup Held(st)

\* The block that is fetched because it is required leaves the queue finalized
\* or held; `b` is the block whose justification is being added.
FetchWaits(st, b) ==
  st.fetching # Idle /\ st.fetching.kind = "required" =>
    \/ st.fetching.block <= st.finalized
    \/ st.fetching.block \in Held(st)
    \/ st.fetching.block \in st.required /\ ~st.fetching.applied
    \/ st.fetching.block = b /\ b \in Scheduled

Regular(st) == st.base = 0 /\ ForcedApart

Waiting(st, b) == HeldWaits(st, Top) /\ LastWaits(st) /\ FetchWaits(st, b)

Inv ==
  /\ Sound(node) /\ sync \in {"headers", "blocks", "done"}
  /\ Regular(node) => Waiting(node, 0)

-----------------------------------------------------------------------------
(* The ids of the authority sets                                           *)

\* The changes of a kind at or before a block can be counted.
LEMMA ChangesAreFinite ==
  ASSUME NEW C \in SUBSET (1 .. Top)
  PROVE  IsFiniteSet(C) /\ Cardinality(C) \in Nat
<1>1. Top \in Nat /\ IsFiniteSet(1 .. Top)
  BY ChangeAssumption, FS_Interval
<1>2. IsFiniteSet(C)
  BY <1>1, SubsetIsFinite
<1>3. QED
  BY <1>2, CardinalityFacts

LEMMA MoreChanges ==
  ASSUME NEW C \in SUBSET (1 .. Top), NEW D \in SUBSET C
  PROVE  /\ Cardinality(D) <= Cardinality(C)
         /\ \A c \in C \ D : Cardinality(D) < Cardinality(C)
<1>1. IsFiniteSet(C) /\ IsFiniteSet(D) /\ Cardinality(C) \in Nat /\ Cardinality(D) \in Nat
  BY ChangesAreFinite
<1>2. Cardinality(D) <= Cardinality(C)
  BY <1>1, SubsetIsFinite
<1>3. ASSUME NEW c \in C \ D PROVE Cardinality(D) < Cardinality(C)
  <2>1. Cardinality(D \cup {c}) = Cardinality(D) + 1
    BY <1>1, OneMore
  <2>2. D \cup {c} \in SUBSET C
    OBVIOUS
  <2>3. Cardinality(D \cup {c}) <= Cardinality(C)
    BY <1>1, <2>2, SubsetIsFinite
  <2>4. QED
    BY <1>1, <2>1, <2>3
<1>4. QED
  BY <1>2, <1>3

\* What the ids count.
ChangesBelow(b) == {c \in Scheduled : c < b}
ChangesUpTo(b) == {c \in Scheduled : c <= b}
ForcedUpTo(b) == {f \in Forced : f <= b}

\* The ids rise with the blocks, and past every scheduled change.
LEMMA AuthorityFacts ==
  /\ \A b \in Blocks : Authorities(b) \in Nat /\ NextAuthorities(b) \in 0 .. Top
  /\ \A b \in Blocks : Authorities(b) <= NextAuthorities(b)
  /\ \A b, d \in Blocks : b <= d => NextAuthorities(b) <= NextAuthorities(d)
  /\ \A b, d \in Blocks : b < d => NextAuthorities(b) <= Authorities(d)
  /\ \A b \in Blocks, c \in Scheduled : b < c => NextAuthorities(b) < NextAuthorities(c)
  /\ \A c \in Scheduled : NextAuthorities(c) = Authorities(c) + 1
  /\ Scheduled \in SUBSET Blocks /\ \A c \in Scheduled : c > 0
<1>1. /\ Top \in Nat /\ Scheduled \in SUBSET (1 .. Top) /\ Forced \in SUBSET (1 .. Top)
      /\ Scheduled \cap Forced = {} /\ Blocks = 0 .. Top
  BY ChangeAssumption DEF Blocks
<1>0. /\ \A c \in Scheduled : c \in Int
      /\ \A f \in Forced : f \in Int
      /\ \A b \in Blocks : b \in Int
  BY <1>1
<1>2. \A b : ChangesBelow(b) \in SUBSET (1 .. Top) /\ ChangesUpTo(b) \in SUBSET (1 .. Top) /\ ForcedUpTo(b) \in SUBSET (1 .. Top)
  BY <1>1 DEF ChangesBelow, ChangesUpTo, ForcedUpTo
<1>3. \A b : /\ Cardinality(ChangesBelow(b)) \in Nat /\ Cardinality(ChangesUpTo(b)) \in Nat
             /\ Cardinality(ForcedUpTo(b)) \in Nat
             /\ IsFiniteSet(ChangesBelow(b)) /\ IsFiniteSet(ChangesUpTo(b)) /\ IsFiniteSet(ForcedUpTo(b))
  BY <1>2, ChangesAreFinite, Zenon
<1>4. \A b : /\ Authorities(b) = Cardinality(ChangesBelow(b)) + Cardinality(ForcedUpTo(b))
             /\ NextAuthorities(b) = Cardinality(ChangesUpTo(b)) + Cardinality(ForcedUpTo(b))
  BY DEF Authorities, NextAuthorities, ChangesBelow, ChangesUpTo, ForcedUpTo
<1>5. ASSUME NEW b \in Blocks PROVE Cardinality(ChangesUpTo(b)) + Cardinality(ForcedUpTo(b)) <= Top
  <2>1. ChangesUpTo(b) \cap ForcedUpTo(b) = {} /\ ChangesUpTo(b) \cup ForcedUpTo(b) \in SUBSET (1 .. Top)
    BY <1>1 DEF ChangesUpTo, ForcedUpTo
  <2>2. Cardinality(ChangesUpTo(b) \cup ForcedUpTo(b)) =
          Cardinality(ChangesUpTo(b)) + Cardinality(ForcedUpTo(b)) - Cardinality(ChangesUpTo(b) \cap ForcedUpTo(b))
    BY <1>3, FS_Union
  <2>3. IsFiniteSet(1 .. Top) /\ Cardinality(1 .. Top) = Top
    BY <1>1, FS_Interval
  <2>4. Cardinality(ChangesUpTo(b) \cup ForcedUpTo(b)) <= Top
    BY <2>1, <2>3, SubsetIsFinite
  <2>5. QED
    <3> DEFINE m == Cardinality(ChangesUpTo(b))
               n == Cardinality(ForcedUpTo(b))
               k == Cardinality(ChangesUpTo(b) \cup ForcedUpTo(b))
    <3>1. m \in Nat /\ n \in Nat
      BY <1>3
    <3>2. k = m + n - 0
      BY <2>1, <2>2, EmptyIsFinite
    <3>3. k <= Top
      BY <2>4
    <3> HIDE DEF m, n, k
    <3>4. m + n <= Top
      BY <3>1, <3>2, <3>3
    <3>5. QED
      BY <3>4 DEF m, n
<1>6. ASSUME NEW b \in Blocks, NEW d \in Blocks
      PROVE  /\ Cardinality(ChangesBelow(b)) <= Cardinality(ChangesUpTo(b))
             /\ b <= d => /\ Cardinality(ChangesUpTo(b)) <= Cardinality(ChangesUpTo(d))
                          /\ Cardinality(ForcedUpTo(b)) <= Cardinality(ForcedUpTo(d))
             /\ b < d => Cardinality(ChangesUpTo(b)) <= Cardinality(ChangesBelow(d))
  <2>1. /\ ChangesBelow(b) \in SUBSET ChangesUpTo(b)
        /\ b <= d => ChangesUpTo(b) \in SUBSET ChangesUpTo(d) /\ ForcedUpTo(b) \in SUBSET ForcedUpTo(d)
        /\ b < d => ChangesUpTo(b) \in SUBSET ChangesBelow(d)
    BY <1>0 DEF ChangesBelow, ChangesUpTo, ForcedUpTo
  <2>2. QED
    BY <1>2, <2>1, MoreChanges
<1>7. ASSUME NEW b \in Blocks, NEW c \in Scheduled, b < c
      PROVE  Cardinality(ChangesUpTo(b)) < Cardinality(ChangesUpTo(c))
  <2>1. ChangesUpTo(b) \in SUBSET ChangesUpTo(c) /\ c \in ChangesUpTo(c) \ ChangesUpTo(b)
    BY <1>0, <1>7 DEF ChangesUpTo
  <2>2. QED
    BY <1>2, <2>1, MoreChanges
<1>8. ASSUME NEW c \in Scheduled PROVE Cardinality(ChangesUpTo(c)) = Cardinality(ChangesBelow(c)) + 1
  <2>1. ChangesUpTo(c) = ChangesBelow(c) \cup {c} /\ c \notin ChangesBelow(c)
    BY <1>0 DEF ChangesBelow, ChangesUpTo
  <2>2. QED
    BY <1>3, <2>1, OneMore
<1>9. Scheduled \in SUBSET Blocks /\ \A c \in Scheduled : c > 0
  BY <1>1
<1>10. \A b \in Blocks : Authorities(b) \in Nat /\ NextAuthorities(b) \in 0 .. Top
  BY <1>3, <1>4, <1>5
<1>11. /\ \A b \in Blocks : Authorities(b) <= NextAuthorities(b)
       /\ \A b, d \in Blocks : b <= d => NextAuthorities(b) <= NextAuthorities(d)
       /\ \A b, d \in Blocks : b < d => NextAuthorities(b) <= Authorities(d)
  <2>1. ASSUME NEW b \in Blocks, NEW d \in Blocks
        PROVE  /\ Authorities(b) <= NextAuthorities(b)
               /\ b <= d => NextAuthorities(b) <= NextAuthorities(d)
               /\ b < d => NextAuthorities(b) <= Authorities(d)
    BY <1>0, <1>3, <1>4, <1>6
  <2>2. QED
    BY <2>1
<1>12. \A b \in Blocks, c \in Scheduled : b < c => NextAuthorities(b) < NextAuthorities(c)
  BY <1>0, <1>3, <1>4, <1>6, <1>7, <1>9
<1>13. \A c \in Scheduled : NextAuthorities(c) = Authorities(c) + 1
  BY <1>3, <1>4, <1>8
<1>14. QED
  BY <1>9, <1>10, <1>11, <1>12, <1>13

LEMMA BlockFacts ==
  /\ Top \in Nat /\ \A b \in Blocks : b \in Nat /\ b <= Top
  /\ \A c \in Scheduled : c \in Blocks /\ c \in Nat /\ 0 < c /\ c <= Top
BY ChangeAssumption DEF Blocks

LEMMA StateFacts ==
  ASSUME NEW st, Sound(st)
  PROVE  /\ st \in States /\ InStep(st)
         /\ st.expected \in Nat /\ st.expected <= NextAuthorities(st.finalized)
         /\ st.finalized \in Blocks /\ st.base \in Blocks /\ st.best \in Blocks
         /\ st.base <= st.finalized /\ st.finalized <= st.best
<1>1. st \in States /\ InStep(st)
  BY DEF Sound
<1>2. /\ st.expected \in 0 .. Top /\ st.finalized \in Blocks /\ st.base \in Blocks
      /\ st.best \in Blocks
  BY <1>1 DEF States
<1>3. QED
  BY <1>1, <1>2, BlockFacts DEF InStep

\* No scheduled change comes between the finalized block and one of the set
\* that is expected, or one whose parent is of the set before.
LEMMA NothingBetween ==
  ASSUME NEW st, Sound(st), NEW b \in Blocks,
         \/ Authorities(b) = st.expected
         \/ \E p \in Scheduled : IsParent(p, b) /\ NextAuthorities(p) = st.expected
  PROVE  \A c \in Scheduled : c <= st.finalized \/ b <= c
<1> SUFFICES ASSUME NEW c \in Scheduled, st.finalized < c, c < b PROVE FALSE
  BY StateFacts, BlockFacts
<1>1. st.finalized \in Blocks /\ st.expected \in Nat /\ st.expected <= NextAuthorities(st.finalized)
  BY StateFacts
<1>2. NextAuthorities(st.finalized) < NextAuthorities(c) /\ c \in Blocks
  BY <1>1, AuthorityFacts
<1>3. CASE Authorities(b) = st.expected
  <2>1. NextAuthorities(c) <= Authorities(b)
    BY <1>2, AuthorityFacts
  <2>2. QED
    BY <1>1, <1>2, <1>3, <2>1, AuthorityFacts
<1>4. ASSUME NEW p \in Scheduled, IsParent(p, b), NextAuthorities(p) = st.expected PROVE FALSE
  <2>1. c <= p /\ p \in Blocks
    BY <1>4, AuthorityFacts DEF IsParent
  <2>2. NextAuthorities(c) <= NextAuthorities(p)
    BY <1>2, <2>1, AuthorityFacts
  <2>3. QED
    BY <1>1, <1>2, <1>4, <2>1, <2>2, AuthorityFacts
<1>5. QED
  BY <1>3, <1>4

\* The parent of a block, as scheduledParent finds it in an index from `base`.
LEMMA ParentFacts ==
  ASSUME NEW st, Sound(st), NEW b \in Blocks, ScheduledBefore(st, b) # {}
  PROVE  /\ Max(ScheduledBefore(st, b)) \in Scheduled
         /\ IsParent(Max(ScheduledBefore(st, b)), b)
<1> DEFINE S == ScheduledBefore(st, b)
<1>1. Top \in Nat /\ S \in SUBSET Nat /\ \A c \in S : c <= Top
  BY BlockFacts DEF ScheduledBefore
<1>2. Max(S) \in S /\ \A c \in S : c <= Max(S)
  BY <1>1, MaxIsGreatest
<1>3. Max(S) \in Scheduled /\ st.base <= Max(S) /\ Max(S) < b
  BY <1>2 DEF ScheduledBefore
<1>4. ASSUME NEW c \in Scheduled, c < b PROVE c <= Max(S)
  <2>1. c \in Int /\ Max(S) \in Int /\ st.base \in Int
    BY <1>3, BlockFacts, StateFacts
  <2>2. CASE st.base <= c
    BY <1>2, <1>4, <2>2 DEF ScheduledBefore
  <2>3. CASE ~(st.base <= c)
    BY <1>3, <2>1, <2>3
  <2>4. QED
    BY <2>2, <2>3
<1>5. QED
  BY <1>3, <1>4 DEF IsParent

-----------------------------------------------------------------------------
(* finalize                                                                *)

\* The justification of `b` skips nothing.
Due(st, b) ==
  \/ Authorities(b) = st.expected
  \/ \E p \in Scheduled : IsParent(p, b) /\ NextAuthorities(p) = st.expected

\* What the queue holds and asks for stays.
SameQueue(s, st) ==
  /\ s.verified = st.verified /\ s.last = st.last /\ s.required = st.required
  /\ s.range = st.range /\ s.fetching = st.fetching /\ s.base = st.base /\ s.best = st.best

LEMMA FinalizeSound ==
  ASSUME NEW st, Sound(st), NEW b \in Blocks, 0 < b, Due(st, b),
         b \notin st.required, NEW s, s = Finalize(st, b)
  PROVE  /\ Sound(s) /\ SameQueue(s, st) /\ st.expected <= s.expected
         /\ \/ s = st /\ ~(st.finalized <= b /\ b <= st.best)
            \/ /\ s.finalized = b /\ st.finalized <= b /\ b <= st.best
               /\ b \in Scheduled => s.expected = NextAuthorities(b)
               /\ b \notin Scheduled => s.expected = st.expected
<1> DEFINE e == IF b \in Scheduled THEN Authorities(b) + 1 ELSE st.expected
           j == st.justified \cup {b}
<1>1. CASE ~(st.finalized <= b /\ b <= st.best)
  <2>1. s = st
    BY <1>1, StateFacts, BlockFacts DEF Finalize
  <2>2. QED
    BY <1>1, <2>1, StateFacts DEF SameQueue
<1>2. CASE st.finalized <= b /\ b <= st.best
  <2>1. s = [st EXCEPT !.finalized = b, !.justified = j, !.expected = e, !.possible = <<>>]
    BY <1>2, StateFacts, BlockFacts DEF Finalize
  <2>2. /\ e \in 0 .. Top /\ j \in SUBSET (1 .. Top) /\ <<>> \in Seq(1 .. Top)
        /\ b \in Scheduled => e = NextAuthorities(b)
        /\ b \notin Scheduled => e = st.expected
    <3>1. st.justified \in SUBSET (1 .. Top) /\ st.expected \in 0 .. Top /\ b \in 1 .. Top
      BY StateFacts, BlockFacts DEF States
    <3>2. QED
      BY <3>1, AuthorityFacts
  <2>3. st.expected <= e /\ e <= NextAuthorities(b)
    <3>1. /\ st.finalized \in Blocks /\ st.expected \in Nat
          /\ st.expected <= NextAuthorities(st.finalized)
      BY StateFacts
    <3>2. /\ NextAuthorities(st.finalized) <= NextAuthorities(b)
          /\ NextAuthorities(st.finalized) \in 0 .. Top /\ NextAuthorities(b) \in 0 .. Top
      BY <1>2, <3>1, AuthorityFacts
    <3> HIDE DEF e
    <3>3. QED
      BY <2>2, <3>1, <3>2
  <2> HIDE DEF e, j
  <2>4. s \in States
    <3>1. st \in States
      BY StateFacts
    <3>2. /\ e \in 0 .. Top /\ j \in SUBSET (1 .. Top) /\ <<>> \in Seq(1 .. Top)
      BY <2>2
    <3>3. QED
      BY <2>1, <3>1, <3>2, ZenonT(60) DEF States
  <2>5. /\ SameQueue(s, st) /\ s.finalized = b /\ s.justified = j /\ s.expected = e
    BY <2>1, StateFacts DEF States, SameQueue
  <2>6. \A c \in Scheduled : c <= st.finalized \/ b <= c
    BY NothingBetween DEF Due
  <2>7. InStep(s)
    <3>1. s.base <= s.finalized /\ s.finalized <= s.best
      <4>1. st.base <= st.finalized /\ st.base \in Nat /\ st.finalized \in Nat /\ b \in Nat
        BY StateFacts, BlockFacts
      <4>2. QED
        BY <1>2, <2>5, <4>1 DEF SameQueue
    <3>2. \A c \in s.justified : c <= s.finalized
      <4>1. \A c \in st.justified : c <= st.finalized /\ c \in Nat
        BY StateFacts, BlockFacts DEF InStep, States
      <4>2. QED
        BY <1>2, <2>5, <4>1, StateFacts, BlockFacts DEF j
    <3>3. ASSUME NEW c \in Scheduled, c <= b
          PROVE  c \in j /\ NextAuthorities(c) <= e
      <4>1. CASE c <= st.finalized
        <5>1. c \in st.justified /\ NextAuthorities(c) <= st.expected
          BY <4>1, StateFacts DEF InStep
        <5>2. NextAuthorities(c) \in Int /\ e \in Int
          BY <2>2, BlockFacts, AuthorityFacts
        <5>3. QED
          BY <2>3, <5>1, <5>2, StateFacts DEF j
      <4>2. CASE c = b
        <5>1. NextAuthorities(b) \in Int /\ e = NextAuthorities(b)
          BY <2>2, <4>2, AuthorityFacts
        <5>2. QED
          BY <4>2, <5>1 DEF j
      <4>3. QED
        BY <2>6, <3>3, <4>1, <4>2, BlockFacts
    <3>4. QED
      BY <2>3, <2>5, <3>1, <3>2, <3>3 DEF InStep
  <2>8. \A c \in s.required : c > s.finalized /\ c \notin Held(s)
    <3>1. ASSUME NEW c \in st.required PROVE c > b /\ c \notin Held(st)
      <4>1. c > st.finalized /\ c \notin Held(st) /\ c \in Scheduled
        BY DEF Sound, States
      <4>2. QED
        BY <2>6, <4>1, StateFacts, BlockFacts
    <3>2. QED
      BY <2>5, <3>1 DEF SameQueue, Held
  <2>9. QED
    BY <1>2, <2>2, <2>3, <2>4, <2>5, <2>7, <2>8 DEF Sound, SameQueue
<1>3. QED
  BY <1>1, <1>2

-----------------------------------------------------------------------------
(* verifiedLoop                                                            *)

\* The iteration at block `b` of the loop that started in `st`.
Iteration(st, before, b) ==
  IF b \notin Held(st) THEN before
  ELSE ApplyVerified(before, CHOOSE v \in st.verified : v.block = b)

\* The iterations are what the recursion says: a function for a part of the
\* blocks has one block more.
LEMMA AppliedExists ==
  ASSUME NEW st
  PROVE  \E f : f = [b \in Blocks |-> Iteration(st, IF b = 0 THEN st ELSE f[b - 1], b)]
<1> DEFINE Until(n) ==
             \E f : f = [b \in 0 .. n |-> Iteration(st, IF b = 0 THEN st ELSE f[b - 1], b)]
           Bad == {n \in Nat : ~Until(n)}
<1>1. Until(0)
  <2> DEFINE g == [b \in 0 .. 0 |-> Iteration(st, st, b)]
  <2>1. g = [b \in 0 .. 0 |-> Iteration(st, IF b = 0 THEN st ELSE g[b - 1], b)]
    <3>1. \A b \in 0 .. 0 : b = 0
      OBVIOUS
    <3> HIDE DEF g
    <3>2. \A b \in 0 .. 0 : (IF b = 0 THEN st ELSE g[b - 1]) = st
      BY <3>1
    <3>3. QED
      BY <3>2, Zenon DEF g
  <2>2. QED
    BY <2>1, Zenon
<1>2. ASSUME NEW n \in Nat, Until(n) PROVE Until(n + 1)
  <2>1. PICK f : f = [b \in 0 .. n |-> Iteration(st, IF b = 0 THEN st ELSE f[b - 1], b)]
    BY <1>2
  <2> DEFINE g == [b \in 0 .. n + 1 |-> IF b = n + 1 THEN Iteration(st, f[n], b) ELSE f[b]]
  <2>2. ASSUME NEW b \in 0 .. n + 1
        PROVE  g[b] = Iteration(st, IF b = 0 THEN st ELSE g[b - 1], b)
    <3>1. CASE b = n + 1
      <4>1. b # 0 /\ b - 1 = n /\ n \in 0 .. n + 1 /\ n # n + 1
        BY <3>1
      <4>2. g[b] = Iteration(st, f[n], b)
        BY <3>1
      <4>3. g[n] = f[n]
        BY <4>1
      <4> HIDE DEF g
      <4>4. QED
        BY <4>1, <4>2, <4>3
    <3>2. CASE b # n + 1
      <4>1. b \in 0 .. n /\ (b # 0 => b - 1 \in 0 .. n + 1 /\ b - 1 # n + 1)
        BY <3>2
      <4>2. g[b] = f[b] /\ (b # 0 => g[b - 1] = f[b - 1])
        BY <3>2, <4>1
      <4>3. f[b] = Iteration(st, IF b = 0 THEN st ELSE f[b - 1], b)
        BY <2>1, <4>1
      <4> HIDE DEF g
      <4>4. QED
        BY <4>2, <4>3
    <3>3. QED
      BY <3>1, <3>2
  <2>3. g = [b \in 0 .. n + 1 |-> Iteration(st, IF b = 0 THEN st ELSE g[b - 1], b)]
    <3>1. g = [b \in 0 .. n + 1 |-> g[b]]
      OBVIOUS
    <3> HIDE DEF g
    <3>2. QED
      BY <2>2, <3>1, Zenon
  <2>4. QED
    BY <2>3, Zenon
<1> HIDE DEF Until
<1>3. Bad = {}
  <2> SUFFICES ASSUME Bad # {} PROVE FALSE
    OBVIOUS
  <2>1. PICK n \in Bad : \A m \in Bad : n <= m
    BY LeastExists
  <2>2. n # 0
    BY <1>1, <2>1
  <2>3. n - 1 \in Nat /\ n - 1 \notin Bad /\ (n - 1) + 1 = n
    BY <2>1, <2>2
  <2>4. QED
    BY <1>2, <2>1, <2>3
<1>4. Until(Top)
  BY <1>3, BlockFacts
<1>5. QED
  BY <1>4 DEF Until, Blocks

LEMMA AppliedFacts ==
  ASSUME NEW st
  PROVE  \A b \in Blocks : Applied(st)[b] =
           Iteration(st, IF b = 0 THEN st ELSE Applied(st)[b - 1], b)
<1> DEFINE f == Applied(st)
<1>1. f = [b \in Blocks |-> Iteration(st, IF b = 0 THEN st ELSE f[b - 1], b)]
  <2>1. Applied(st) =
          CHOOSE g : g = [b \in Blocks |-> Iteration(st, IF b = 0 THEN st ELSE g[b - 1], b)]
    BY DEF Applied, Iteration
  <2>2. QED
    BY <2>1, AppliedExists, Zenon
<1> HIDE DEF f
<1>2. \A b \in Blocks : f[b] = Iteration(st, IF b = 0 THEN st ELSE f[b - 1], b)
  BY <1>1, Zenon
<1>3. QED
  BY <1>2 DEF f

\* What is held is known by its block.
LEMMA HeldFacts ==
  ASSUME NEW st, Sound(st), NEW v \in st.verified
  PROVE  /\ v.block \in Scheduled /\ v.block \in Blocks /\ v.block \in Nat /\ 0 < v.block
         /\ v.expected \in Nat
         /\ \E p \in Scheduled : IsParent(p, v.block)
         /\ \A p \in Scheduled : IsParent(p, v.block) => v.expected = NextAuthorities(p)
         /\ \A w \in st.verified : w.block = v.block => w = v
<1>1. \A w \in st.verified : w \in [block : Scheduled, expected : 1 .. Top]
  BY DEF Sound, States
<1>2. v.block \in Scheduled /\ v.block \in Blocks /\ v.block \in Nat /\ 0 < v.block
  BY <1>1, BlockFacts
<1>3. PICK p \in Scheduled : IsParent(p, v.block) /\ v.expected = NextAuthorities(p)
  BY DEF Sound
<1>4. ASSUME NEW q \in Scheduled, IsParent(q, v.block) PROVE q = p
  BY <1>3, <1>4, BlockFacts DEF IsParent
<1>5. ASSUME NEW w \in st.verified, w.block = v.block PROVE w = v
  <2>1. PICK q \in Scheduled : IsParent(q, w.block) /\ w.expected = NextAuthorities(q)
    BY DEF Sound
  <2>2. w.expected = v.expected
    BY <1>3, <1>4, <1>5, <2>1
  <2>3. v = [block |-> v.block, expected |-> v.expected]
        /\ w = [block |-> w.block, expected |-> w.expected]
    BY <1>1
  <2>4. QED
    BY <1>5, <2>2, <2>3, Zenon
<1>6. v.expected \in Nat
  BY <1>1
<1>7. QED
  BY <1>2, <1>3, <1>4, <1>5, <1>6

\* verified_.erase.
LEMMA EraseSound ==
  ASSUME NEW st, Sound(st), NEW v \in st.verified,
         NEW s, s = [st EXCEPT !.verified = @ \ {v}]
  PROVE  /\ Sound(s) /\ s.verified = st.verified \ {v} /\ Held(s) = Held(st) \ {v.block}
         /\ s.finalized = st.finalized /\ s.expected = st.expected
         /\ s.last = st.last /\ s.required = st.required /\ s.fetching = st.fetching
         /\ s.base = st.base /\ s.best = st.best
<1> DEFINE h == st.verified \ {v}
<1>1. st \in States /\ s = [st EXCEPT !.verified = h]
  BY StateFacts
<1>2. h \in SUBSET [block : Scheduled, expected : 1 .. Top]
  BY <1>1 DEF States
<1>3. s.verified = h
  BY <1>1 DEF States
<1>4. /\ s.finalized = st.finalized /\ s.expected = st.expected
      /\ s.last = st.last /\ s.required = st.required /\ s.fetching = st.fetching
      /\ s.base = st.base /\ s.best = st.best /\ s.justified = st.justified
  <2> HIDE DEF h
  <2>1. QED
    BY <1>1 DEF States
<1>5. s \in States
  <2> HIDE DEF h
  <2>1. QED
    BY <1>1, <1>2, ZenonT(60) DEF States
<1>6. Held(s) = Held(st) \ {v.block}
  <2>1. \A w \in st.verified : w.block = v.block => w = v
    BY HeldFacts
  <2>2. QED
    BY <1>3, <2>1 DEF Held
<1>7. InStep(s)
  BY <1>4, StateFacts DEF InStep
<1>8. QED
  BY <1>3, <1>4, <1>5, <1>6, <1>7 DEF Sound

\* What verifiedLoop leaves alone.
Kept(s, st) ==
  /\ s.last = st.last /\ s.required = st.required /\ s.fetching = st.fetching
  /\ s.base = st.base /\ s.best = st.best

\* The justification that is last waits for its parent, or waits no more.
LastWaited(st) ==
  st.last # Idle /\ Forced \cap 1 .. st.last = {} =>
    \/ \E p \in Scheduled : IsParent(p, st.last) /\ p \in st.required \cup Held(st)
    \/ Authorities(st.last) <= st.expected

\* Where no forced change comes before it, its set is the one that its parent
\* brings in.
LEMMA LastParent ==
  ASSUME NEW l \in Blocks, Forced \cap 1 .. l = {}, NEW p \in Scheduled, IsParent(p, l)
  PROVE  Authorities(l) = NextAuthorities(p)
<1>1. /\ p \in Nat /\ l \in Nat /\ p < l /\ Forced \subseteq 1 .. Top
      /\ \A c \in Scheduled : c \in Nat
  BY BlockFacts, ChangeAssumption DEF IsParent
<1>2. {c \in Scheduled : c < l} = {c \in Scheduled : c <= p}
  <2>1. \A c \in Scheduled : c < l <=> c <= p
    BY <1>1 DEF IsParent
  <2>2. QED
    BY <2>1, Zenon
<1>3. {f \in Forced : f <= l} = {f \in Forced : f <= p}
  <2>1. \A f \in Forced : ~(f <= l) /\ ~(f <= p)
    BY <1>1
  <2>2. QED
    BY <2>1
<1>4. QED
  BY <1>2, <1>3, Zenon DEF Authorities, NextAuthorities

\* The loop that started in `st` at block `n`, with the answer for `b` handled.
LoopInv(st, u, n, b) ==
  /\ Sound(u) /\ Kept(u, st) /\ st.expected <= u.expected
  /\ u.verified \subseteq st.verified
  /\ \A w \in st.verified : n < w.block => w \in u.verified
  /\ Regular(st) => HeldWaits(u, n) /\ LastWaited(u) /\ FetchWaits(u, b)

\* The iteration at `n` when nothing is held for `n`, or what is expects more.
LEMMA IterationStops ==
  ASSUME NEW st, NEW n \in Blocks, NEW b, NEW u, NEW m \in Nat, m <= n, n <= m + 1,
         Sound(st), LoopInv(st, u, m, b),
         \A v \in st.verified : v.block = n => v.expected > u.expected
  PROVE  LoopInv(st, u, n, b)
<1>1. Sound(u) /\ u.expected \in Nat /\ n \in Nat
  BY StateFacts, BlockFacts DEF LoopInv
<1>2. ASSUME NEW w \in st.verified, n < w.block PROVE w \in u.verified
  <2>1. m < w.block
    BY <1>1, <1>2, HeldFacts
  <2>2. QED
    BY <2>1 DEF LoopInv
<1>3. ASSUME Regular(st) PROVE HeldWaits(u, n)
  <2>1. HeldWaits(u, m)
    BY <1>3 DEF LoopInv
  <2>2. ASSUME NEW v \in u.verified, NEW p \in Scheduled, IsParent(p, v.block),
               m < v.block, u.expected = NextAuthorities(p)
        PROVE  n < v.block
    <3>1. v.block \in Nat /\ v.expected = NextAuthorities(p) /\ v \in st.verified
      BY <1>1, <2>2, HeldFacts DEF LoopInv
    <3>2. v.block # n
      BY <1>1, <2>2, <3>1
    <3>3. QED
      BY <1>1, <2>2, <3>1, <3>2
  <2>3. QED
    BY <2>1, <2>2 DEF HeldWaits
<1>4. QED
  BY <1>2, <1>3 DEF LoopInv

\* The iteration at `n` that finalizes.
LEMMA IterationFinalizes ==
  ASSUME NEW st, NEW n \in Blocks, NEW b, NEW u, NEW m \in Nat, n = m + 1,
         Sound(st), LoopInv(st, u, m, b), NEW v \in st.verified, v.block = n,
         v.expected = u.expected,
         NEW s, s = Finalize([u EXCEPT !.verified = @ \ {v}], n)
  PROVE  LoopInv(st, s, n, b)
<1> DEFINE e == [u EXCEPT !.verified = @ \ {v}]
<1>1. Sound(u) /\ u.expected \in Nat /\ u.finalized \in Nat /\ n \in Nat /\ v \in u.verified
  <2>1. m < v.block
    OBVIOUS
  <2>2. QED
    BY <2>1, StateFacts, BlockFacts DEF LoopInv
<1>2. /\ Sound(e) /\ e.verified = u.verified \ {v} /\ Held(e) = Held(u) \ {n}
      /\ e.finalized = u.finalized /\ e.expected = u.expected /\ Kept(e, u)
  BY <1>1, EraseSound DEF Kept
<1>0. s = Finalize(e, n)
  OBVIOUS
<1> HIDE DEF e
<1>3. PICK p \in Scheduled : IsParent(p, n) /\ NextAuthorities(p) = u.expected
  BY <1>1, HeldFacts
<1>4. n \notin e.required /\ n \in Scheduled /\ 0 < n /\ Due(e, n)
  <2>1. n \in Held(u) /\ n \in Scheduled
    BY <1>1, HeldFacts DEF Held
  <2>2. n \notin u.required
    BY <1>1, <2>1 DEF Sound
  <2>3. QED
    BY <1>2, <1>3, <2>1, <2>2, BlockFacts DEF Kept, Due
<1>5. /\ Sound(s) /\ SameQueue(s, e) /\ e.expected <= s.expected
      /\ \/ s = e /\ ~(e.finalized <= n /\ n <= e.best)
         \/ s.finalized = n /\ s.expected = NextAuthorities(n)
  BY <1>0, <1>2, <1>4, FinalizeSound
<1>6. /\ Kept(s, u) /\ s.verified = u.verified \ {v} /\ Held(s) = Held(u) \ {n}
      /\ u.expected <= s.expected
  BY <1>2, <1>5 DEF Kept, SameQueue, Held
<1>7. /\ s.expected \in Nat /\ s.finalized \in Nat /\ st.expected \in Nat
      /\ st.expected <= s.expected
  <2>1. s.expected \in Nat /\ s.finalized \in Nat /\ st.expected \in Nat
    BY <1>5, StateFacts, BlockFacts, Zenon
  <2>2. QED
    BY <1>1, <1>6, <2>1 DEF LoopInv
<1>8. ASSUME NEW w \in st.verified, n < w.block PROVE w \in s.verified
  <2>1. m < w.block /\ w # v
    BY <1>1, <1>8, HeldFacts
  <2>2. QED
    BY <1>6, <2>1 DEF LoopInv
<1>9. ASSUME Regular(st) PROVE HeldWaits(s, n) /\ LastWaited(s) /\ FetchWaits(s, b)
  <2>1. HeldWaits(u, m) /\ LastWaited(u) /\ FetchWaits(u, b)
    BY <1>9 DEF LoopInv
  <2>2. u.finalized < n /\ n <= u.best
    BY <1>1, <2>1 DEF HeldWaits
  <2>3. s.finalized = n /\ s.expected = NextAuthorities(n)
    BY <1>1, <1>2, <1>5, <2>2 DEF Kept
  <2>4. \A c \in Scheduled : c <= u.finalized \/ n <= c
    BY <1>2, <1>4, NothingBetween DEF Due
  <2>5. ASSUME NEW w \in s.verified
        PROVE  /\ n < w.block /\ w.block <= s.best
               /\ \E q \in Scheduled :
                    /\ IsParent(q, w.block)
                    /\ \/ q \in s.required \cup Held(s)
                       \/ n < w.block /\ q = s.finalized /\ s.expected = NextAuthorities(q)
    <3>1. w \in u.verified /\ w # v
      BY <1>6
    <3>2. /\ w.block \in Scheduled /\ w.block \in Nat /\ w.block # n
          /\ u.finalized < w.block /\ w.block <= s.best
      BY <1>1, <1>6, <2>1, <3>1, HeldFacts DEF HeldWaits, Kept
    <3>3. n < w.block
      BY <1>1, <2>4, <3>2
    <3>4. PICK q \in Scheduled :
            /\ IsParent(q, w.block)
            /\ q \in u.required \cup Held(u) \/ q = u.finalized
      BY <2>1, <3>1 DEF HeldWaits
    <3>5. q # u.finalized
      BY <1>1, <1>4, <2>2, <3>3, <3>4, BlockFacts DEF IsParent
    <3>6. CASE q = n
      BY <2>3, <3>2, <3>3, <3>4, <3>6
    <3>7. CASE q # n
      BY <1>6, <3>2, <3>3, <3>4, <3>5, <3>7 DEF Kept
    <3>8. QED
      BY <3>6, <3>7
  <2>6. HeldWaits(s, n)
    BY <2>3, <2>5 DEF HeldWaits
  <2>7. LastWaited(s)
    <3> SUFFICES ASSUME s.last # Idle, Forced \cap 1 .. s.last = {}
                 PROVE  \/ \E q \in Scheduled :
                             IsParent(q, s.last) /\ q \in s.required \cup Held(s)
                        \/ Authorities(s.last) <= s.expected
      BY DEF LastWaited
    <3>1. s.last = u.last /\ s.required = u.required
      BY <1>6 DEF Kept
    <3>2. s.last \in Blocks
      <4>1. s.last \in 1 .. Top
        BY <1>5, Zenon DEF Sound, States
      <4>2. QED
        BY <4>1, BlockFacts DEF Blocks
    <3>3. CASE Authorities(u.last) <= u.expected
      <4>1. Authorities(s.last) \in Nat
        BY <3>2, AuthorityFacts
      <4>2. QED
        BY <1>1, <1>6, <1>7, <3>1, <3>3, <4>1
    <3>4. ASSUME NEW q \in Scheduled, IsParent(q, u.last), q \in u.required \cup Held(u)
          PROVE  \/ q \in s.required \cup Held(s)
                 \/ Authorities(s.last) <= s.expected
      <4>1. CASE q = n
        <5>1. Authorities(s.last) = NextAuthorities(n)
          BY <3>1, <3>2, <3>4, <4>1, LastParent
        <5>2. QED
          BY <1>7, <2>3, <5>1
      <4>2. CASE q # n
        BY <1>6, <3>1, <3>4, <4>2
      <4>3. QED
        BY <4>1, <4>2
    <3>5. QED
      BY <2>1, <3>1, <3>3, <3>4 DEF LastWaited
  <2>8. FetchWaits(s, b)
    <3> SUFFICES ASSUME s.fetching # Idle, s.fetching.kind = "required"
                 PROVE  \/ s.fetching.block <= s.finalized
                        \/ s.fetching.block \in Held(s)
                        \/ s.fetching.block \in s.required /\ ~s.fetching.applied
                        \/ s.fetching.block = b /\ b \in Scheduled
      BY DEF FetchWaits
    <3>1. s.fetching = u.fetching /\ s.required = u.required
      BY <1>6 DEF Kept
    <3>2. s.fetching.block \in Nat
      BY <1>5, StateFacts DEF States, Fetches
    <3>3. u.fetching.block <= u.finalized => s.fetching.block <= s.finalized
      BY <1>1, <2>2, <2>3, <3>1, <3>2
    <3>4. u.fetching.block \in Held(u) =>
            s.fetching.block <= s.finalized \/ s.fetching.block \in Held(s)
      <4>1. n <= s.finalized
        BY <1>1, <2>3
      <4>2. QED
        BY <1>6, <3>1, <4>1, Zenon
    <3>5. QED
      BY <2>1, <3>1, <3>3, <3>4, Zenon DEF FetchWaits
  <2>9. QED
    BY <2>6, <2>7, <2>8
<1>10. QED
  BY <1>5, <1>6, <1>7, <1>8, <1>9 DEF LoopInv, Kept

\* The iteration at `n` that only erases: not in a regular state.
LEMMA IterationErases ==
  ASSUME NEW st, NEW n \in Blocks, NEW b, NEW u, NEW m \in Nat, n = m + 1,
         Sound(st), LoopInv(st, u, m, b), NEW v \in st.verified, v.block = n,
         v.expected < u.expected,
         NEW s, s = [u EXCEPT !.verified = @ \ {v}]
  PROVE  LoopInv(st, s, n, b)
<1>1. Sound(u) /\ u.expected \in Nat /\ u.finalized \in Blocks /\ n \in Nat /\ v \in u.verified
  <2>1. m < v.block
    OBVIOUS
  <2>2. QED
    BY <2>1, StateFacts, BlockFacts DEF LoopInv
<1>2. /\ Sound(s) /\ s.verified = u.verified \ {v} /\ s.expected = u.expected /\ Kept(s, u)
  BY <1>1, EraseSound DEF Kept
<1>3. ASSUME NEW w \in st.verified, n < w.block PROVE w \in s.verified
  <2>1. m < w.block /\ w # v
    BY <1>1, <1>3, HeldFacts
  <2>2. QED
    BY <1>2, <2>1 DEF LoopInv
<1>4. ~Regular(st)
  <2> SUFFICES ASSUME Regular(st) PROVE FALSE
    OBVIOUS
  <2>1. HeldWaits(u, m)
    BY DEF LoopInv
  <2>2. PICK p \in Scheduled :
          /\ IsParent(p, n)
          /\ p \in u.required \cup Held(u) \/ u.expected = NextAuthorities(p)
    BY <1>1, <2>1 DEF HeldWaits
  <2>3. v.expected = NextAuthorities(p) /\ v.expected \in Nat
    BY <1>1, <2>2, HeldFacts
  <2>4. p \in u.required \cup Held(u)
    BY <1>1, <2>2, <2>3
  <2>5. u.finalized < p
    BY <1>1, <2>1, <2>4 DEF Held, HeldWaits, Sound
  <2>6. NextAuthorities(u.finalized) < NextAuthorities(p) /\ NextAuthorities(u.finalized) \in Nat
    BY <1>1, <2>5, AuthorityFacts
  <2>7. u.expected <= NextAuthorities(u.finalized)
    BY <1>1, StateFacts
  <2>8. QED
    BY <1>1, <2>3, <2>6, <2>7
<1>5. QED
  BY <1>2, <1>3, <1>4 DEF LoopInv, Kept

\* All of the iterations.
LEMMA AppliedSound ==
  ASSUME NEW st, NEW b, Sound(st),
         Regular(st) => HeldWaits(st, 0) /\ LastWaited(st) /\ FetchWaits(st, b)
  PROVE  LoopInv(st, Applied(st)[Top], Top, b)
<1> DEFINE u == Applied(st)
           Bad == {n \in Blocks : ~LoopInv(st, u[n], n, b)}
<1>1. \A n \in Blocks : u[n] = Iteration(st, IF n = 0 THEN st ELSE u[n - 1], n)
  BY AppliedFacts
<1> HIDE DEF u
<1>2. LoopInv(st, st, 0, b)
  BY StateFacts DEF LoopInv, Kept
<1>3. LoopInv(st, u[0], 0, b)
  <2>1. 0 \in Blocks /\ 0 \notin Held(st)
    BY HeldFacts, BlockFacts DEF Held, Blocks
  <2>2. u[0] = st
    BY <1>1, <2>1 DEF Iteration
  <2>3. QED
    BY <1>2, <2>2
<1>4. ASSUME NEW n \in Blocks, n # 0, LoopInv(st, u[n - 1], n - 1, b)
      PROVE  LoopInv(st, u[n], n, b)
  <2> DEFINE w == u[n - 1]
             m == n - 1
             v == CHOOSE v \in st.verified : v.block = n
  <2>1. m \in Nat /\ n = m + 1 /\ m <= n /\ n <= m + 1 /\ LoopInv(st, w, m, b)
    BY <1>4, BlockFacts
  <2>2. u[n] = Iteration(st, w, n)
    BY <1>1, <1>4
  <2> HIDE DEF w, m
  <2>3. CASE n \notin Held(st)
    <3>1. u[n] = w /\ \A x \in st.verified : x.block # n
      BY <2>2, <2>3 DEF Iteration, Held
    <3>2. QED
      BY <2>1, <3>1, IterationStops
  <2>4. CASE n \in Held(st)
    <3>1. v \in st.verified /\ v.block = n
      BY <2>4, Zenon DEF Held
    <3>2. u[n] = ApplyVerified(w, v)
      BY <2>2, <2>4, Zenon DEF Iteration
    <3> HIDE DEF v
    <3>3. v.expected \in Nat /\ w.expected \in Nat
      BY <2>1, <3>1, HeldFacts, StateFacts DEF LoopInv
    <3>4. CASE v.expected > w.expected
      <4>1. u[n] = w
        BY <3>2, <3>4, Zenon DEF ApplyVerified
      <4>2. \A x \in st.verified : x.block = n => x.expected > w.expected
        BY <3>1, <3>4, HeldFacts
      <4>3. QED
        BY <2>1, <4>1, <4>2, IterationStops
    <3>5. CASE v.expected = w.expected
      <4>1. u[n] = Finalize([w EXCEPT !.verified = @ \ {v}], n)
        BY <3>1, <3>2, <3>3, <3>5 DEF ApplyVerified
      <4>2. QED
        BY <2>1, <3>1, <3>5, <4>1, IterationFinalizes
    <3>6. CASE v.expected < w.expected
      <4>1. u[n] = [w EXCEPT !.verified = @ \ {v}]
        BY <3>1, <3>2, <3>3, <3>6 DEF ApplyVerified
      <4>2. QED
        BY <2>1, <3>1, <3>6, <4>1, IterationErases
    <3>7. QED
      BY <3>3, <3>4, <3>5, <3>6
  <2>5. QED
    BY <2>3, <2>4
<1>5. Bad = {}
  <2> SUFFICES ASSUME Bad # {} PROVE FALSE
    OBVIOUS
  <2>1. PICK n \in Bad : \A k \in Bad : n <= k
    <3>1. Bad \in SUBSET Nat
      BY BlockFacts
    <3>2. QED
      BY <3>1, LeastExists
  <2>2. n \in Blocks /\ ~LoopInv(st, u[n], n, b) /\ n # 0
    BY <1>3, <2>1
  <2>3. n - 1 \in Blocks /\ ~(n <= n - 1)
    BY <2>2, BlockFacts DEF Blocks
  <2>4. LoopInv(st, u[n - 1], n - 1, b)
    BY <2>1, <2>3
  <2>5. QED
    BY <1>4, <2>2, <2>4
<1>6. Top \in Blocks
  BY BlockFacts DEF Blocks
<1>7. QED
  BY <1>5, <1>6 DEF u

-----------------------------------------------------------------------------
(* The justification held for last, and the fetch loops                    *)

\* What Sound and HeldWaits are about.
Like(s, st) ==
  /\ s.verified = st.verified /\ s.required = st.required /\ s.base = st.base
  /\ s.best = st.best /\ s.finalized = st.finalized /\ s.justified = st.justified
  /\ s.expected = st.expected

LEMMA LikeSound ==
  ASSUME NEW st, Sound(st), NEW s \in States, Like(s, st)
  PROVE  /\ Sound(s) /\ Held(s) = Held(st) /\ Regular(s) = Regular(st)
         /\ HeldWaits(st, Top) => HeldWaits(s, Top)
         /\ LastWaits(st) /\ s.last = st.last => LastWaits(s)
         /\ \A b : FetchWaits(st, b) /\ s.fetching = st.fetching => FetchWaits(s, b)
<1>1. Held(s) = Held(st) /\ Regular(s) = Regular(st)
  BY DEF Like, Held, Regular
<1>2. InStep(s)
  BY StateFacts DEF Like, InStep
<1>3. Sound(s)
  BY <1>1, <1>2 DEF Sound, Like
<1>4. HeldWaits(st, Top) => HeldWaits(s, Top)
  BY <1>1 DEF HeldWaits, Like
<1>5. LastWaits(st) /\ s.last = st.last => LastWaits(s)
  BY <1>1 DEF LastWaits, Like
<1>6. \A b : FetchWaits(st, b) /\ s.fetching = st.fetching => FetchWaits(s, b)
  BY <1>1, Zenon DEF FetchWaits, Like
<1>7. QED
  BY <1>1, <1>3, <1>4, <1>5, <1>6

\* A block without a scheduled change is finalized: nothing waits for it.
LEMMA FinalizeOther ==
  ASSUME NEW st, Sound(st), NEW b \in Blocks, 0 < b, Due(st, b), b \notin Scheduled,
         NEW s, s = Finalize(st, b), NEW x
  PROVE  /\ Sound(s) /\ SameQueue(s, st) /\ Held(s) = Held(st) /\ s.expected = st.expected
         /\ st.finalized <= s.finalized
         /\ HeldWaits(st, Top) => HeldWaits(s, Top)
         /\ FetchWaits(st, x) => FetchWaits(s, x)
<1>1. b \notin st.required
  BY StateFacts DEF States
<1>2. /\ Sound(s) /\ SameQueue(s, st)
      /\ \/ s = st
         \/ s.finalized = b /\ st.finalized <= b /\ s.expected = st.expected
  BY <1>1, FinalizeSound
<1>3. Held(s) = Held(st) /\ s.expected = st.expected
  BY <1>2 DEF SameQueue, Held
<1>4. st.finalized \in Nat /\ s.finalized \in Nat /\ st.finalized <= s.finalized /\ b \in Nat
  BY <1>2, StateFacts, BlockFacts
<1>5. ASSUME HeldWaits(st, Top) PROVE HeldWaits(s, Top)
  <2>1. \A c \in Scheduled : c <= st.finalized \/ b <= c
    BY NothingBetween DEF Due
  <2>2. ASSUME NEW v \in s.verified
        PROVE  /\ s.finalized < v.block /\ v.block <= s.best
               /\ \E p \in Scheduled :
                    IsParent(p, v.block) /\ p \in s.required \cup Held(s)
    <3>1. /\ v \in st.verified /\ s.best = st.best /\ s.required = st.required
      BY <1>2 DEF SameQueue
    <3>2. /\ v.block \in Scheduled /\ v.block \in Nat /\ v.block <= Top
      BY <3>1, HeldFacts, BlockFacts
    <3>3. /\ st.finalized < v.block /\ v.block <= st.best
          /\ \E p \in Scheduled :
               IsParent(p, v.block) /\ p \in st.required \cup Held(st)
      BY <1>5, <3>1, <3>2, BlockFacts DEF HeldWaits
    <3>4. s.finalized < v.block
      BY <1>2, <1>4, <2>1, <3>2, <3>3
    <3>5. QED
      BY <1>3, <3>1, <3>3, <3>4
  <2>3. QED
    BY <2>2 DEF HeldWaits
<1>6. ASSUME FetchWaits(st, x) PROVE FetchWaits(s, x)
  <2>1. s.fetching = st.fetching /\ s.required = st.required
    BY <1>2 DEF SameQueue
  <2>2. st.fetching # Idle /\ st.fetching.block <= st.finalized =>
          s.fetching.block <= s.finalized
    <3>1. st.fetching # Idle => st.fetching.block \in Nat
      BY StateFacts DEF States, Fetches
    <3>2. QED
      BY <1>4, <2>1, <3>1
  <2>3. QED
    BY <1>3, <1>6, <2>1, <2>2, Zenon DEF FetchWaits
<1>7. QED
  BY <1>2, <1>3, <1>4, <1>5, <1>6

LEMMA ApplyLastSound ==
  ASSUME NEW st, Sound(st), NEW x,
         Regular(st) => HeldWaits(st, Top) /\ LastWaited(st) /\ FetchWaits(st, x),
         NEW s, s = ApplyLast(st)
  PROVE  /\ Sound(s) /\ s.base = st.base /\ st.finalized <= s.finalized
         /\ Regular(s) => Waiting(s, x)
<1>1. CASE st.last = Idle \/ Authorities(st.last) > st.expected
  <2>1. s = st
    BY <1>1 DEF ApplyLast
  <2>2. LastWaited(st) => LastWaits(st)
    <3>1. st.last # Idle => st.last \in Blocks
      BY StateFacts, BlockFacts DEF States, Blocks
    <3>2. st.last # Idle => Authorities(st.last) \in Nat /\ st.expected \in Nat
      BY <3>1, AuthorityFacts, StateFacts
    <3>3. QED
      BY <1>1, <3>2 DEF LastWaited, LastWaits
  <2>3. QED
    BY <2>1, <2>2, StateFacts, BlockFacts DEF Waiting
<1>2. CASE st.last # Idle /\ ~(Authorities(st.last) > st.expected)
  <2> DEFINE l == st.last
             f == IF Authorities(l) < st.expected THEN st ELSE Finalize(st, l)
  <2>1. s = [f EXCEPT !.last = Idle]
    BY <1>2 DEF ApplyLast
  <2>2. l \in Blocks /\ 0 < l /\ l \notin Scheduled
    BY <1>2, StateFacts, BlockFacts DEF States, Blocks
  <2>3. Authorities(l) \in Nat /\ st.expected \in Nat
    BY <2>2, AuthorityFacts, StateFacts
  <2>4. ~(Authorities(l) < st.expected) => Due(st, l)
    BY <1>2, <2>3 DEF Due
  <2>5. /\ Sound(f) /\ f.base = st.base /\ st.finalized <= f.finalized
        /\ Regular(st) => HeldWaits(f, Top) /\ FetchWaits(f, x)
    <3>1. CASE Authorities(l) < st.expected
      BY <3>1, StateFacts, BlockFacts
    <3>2. CASE ~(Authorities(l) < st.expected)
      <4>1. f = Finalize(st, l)
        BY <3>2
      <4> HIDE DEF f
      <4>2. QED
        BY <2>2, <2>4, <3>2, <4>1, FinalizeOther DEF SameQueue
    <3>3. QED
      BY <3>1, <3>2
  <2> HIDE DEF f
  <2>6. f \in States
    BY <2>5, StateFacts
  <2>7. s \in States
    BY <2>1, <2>6, ZenonT(60) DEF States
  <2>8. Like(s, f) /\ s.last = Idle /\ s.fetching = f.fetching
    BY <2>1, <2>6 DEF States, Like
  <2>9. LastWaits(s)
    BY <2>8 DEF LastWaits
  <2>10. /\ Sound(s) /\ Regular(s) = Regular(f)
         /\ HeldWaits(f, Top) => HeldWaits(s, Top)
         /\ FetchWaits(f, x) => FetchWaits(s, x)
    BY <2>5, <2>7, <2>8, LikeSound
  <2>11. Regular(f) = Regular(st) /\ s.base = f.base /\ s.finalized = f.finalized
    BY <2>5, <2>8 DEF Regular, Like
  <2>12. QED
    BY <2>5, <2>9, <2>10, <2>11 DEF Waiting
<1>3. QED
  BY <1>1, <1>2

LEMMA VerifiedLoopSound ==
  ASSUME NEW st, Sound(st), NEW x,
         Regular(st) => HeldWaits(st, 0) /\ LastWaited(st) /\ FetchWaits(st, x),
         NEW s, s = VerifiedLoop(st)
  PROVE  /\ Sound(s) /\ s.base = st.base
         /\ Regular(s) => Waiting(s, x)
<1> DEFINE u == Applied(st)[Top]
<1>1. LoopInv(st, u, Top, x) /\ s = ApplyLast(u)
  BY AppliedSound DEF VerifiedLoop
<1> HIDE DEF u
<1>2. /\ Sound(u) /\ u.base = st.base
      /\ Regular(u) => HeldWaits(u, Top) /\ LastWaited(u) /\ FetchWaits(u, x)
  BY <1>1 DEF LoopInv, Kept, Regular
<1>3. QED
  BY <1>1, <1>2, ApplyLastSound

\* A fetch loop has run: what is asked for is required, if that was the reason.
Asks(s, st) ==
  /\ Like(s, st) /\ s.last = st.last
  /\ \A x : FetchWaits(st, x) => FetchWaits(s, x)

LEMMA AsksWaiting ==
  ASSUME NEW st, Sound(st), NEW s, Sound(s), Asks(s, st), NEW x,
         Regular(st) => Waiting(st, x)
  PROVE  Regular(s) => Waiting(s, x)
<1>1. s \in States /\ Like(s, st) /\ s.last = st.last /\ (FetchWaits(st, x) => FetchWaits(s, x))
  BY StateFacts DEF Asks
<1>2. QED
  BY <1>1, LikeSound DEF Waiting

\* A peer is asked.
LEMMA FetchSound ==
  ASSUME NEW st, Sound(st), NEW peer,
         NEW kind \in {"required", "possible", "range"}, NEW c \in 1 .. Top,
         kind = "required" => c \in st.required,
         NEW s, s = Fetch(st, peer, kind, c)
  PROVE  Sound(s) /\ Asks(s, st)
<1>1. CASE ~peer
  BY <1>1 DEF Fetch, Like, Asks
<1>2. CASE peer
  <2> DEFINE f == [kind |-> kind, block |-> c, applied |-> FALSE]
  <2>1. st \in States /\ s = [st EXCEPT !.fetching = f]
    BY <1>2, StateFacts DEF Fetch
  <2>2. f \in {Idle} \cup Fetches
    BY DEF Fetches
  <2>3. f.kind = kind /\ f.block = c /\ ~f.applied
    OBVIOUS
  <2> HIDE DEF f
  <2>4. s \in States
    BY <2>1, <2>2, ZenonT(60) DEF States
  <2>5. Like(s, st) /\ s.fetching = f /\ s.last = st.last
    BY <2>1 DEF States, Like
  <2>6. \A x : FetchWaits(s, x)
    <3>1. s.required = st.required
      BY <2>5 DEF Like
    <3>2. QED
      BY <2>3, <2>5, <3>1, Zenon DEF FetchWaits
  <2>7. QED
    BY <2>4, <2>5, <2>6, LikeSound DEF Asks
<1>3. QED
  BY <1>1, <1>2

LEMMA RequiredLoopSound ==
  ASSUME NEW st, Sound(st), NEW peer,
         NEW s, s = RequiredLoop(st, peer)
  PROVE  Sound(s) /\ Asks(s, st)
<1>1. CASE st.fetching # Idle \/ st.required = {}
  BY <1>1 DEF RequiredLoop, Like, Asks
<1>2. CASE ~(st.fetching # Idle \/ st.required = {})
  <2>1. s = Fetch(st, peer, "required", Min(st.required))
    BY <1>2 DEF RequiredLoop
  <2>2. st.required \in SUBSET Nat /\ \A c \in st.required : c \in 1 .. Top
    BY StateFacts, BlockFacts DEF States
  <2>3. Min(st.required) \in st.required
    BY <1>2, <2>2, MinIsLeast
  <2>4. QED
    BY <2>1, <2>2, <2>3, FetchSound
<1>3. QED
  BY <1>1, <1>2

\* Members that nothing depends on.
LEMMA FreeFields ==
  ASSUME NEW st, Sound(st),
         NEW possible \in Seq(1 .. Top), NEW range \in 0 .. Top,
         NEW s, s \in {[st EXCEPT !.possible = possible], [st EXCEPT !.range = range]}
  PROVE  Sound(s) /\ Asks(s, st)
<1>1. st \in States
  BY StateFacts
<1>2. s \in States
  BY <1>1, ZenonT(60) DEF States
<1>3. Like(s, st) /\ s.last = st.last /\ s.fetching = st.fetching
  BY <1>1 DEF States, Like
<1>4. QED
  BY <1>2, <1>3, LikeSound DEF Asks

LEMMA RangeLoopSound ==
  ASSUME NEW st, Sound(st), NEW peer,
         NEW s, s = RangeLoop(st, peer)
  PROVE  Sound(s) /\ Asks(s, st)
<1> DEFINE range == Max({st.range, st.finalized + 1})
           t == [st EXCEPT !.range = range]
<1>1. CASE sync # "done" \/ st.best - st.finalized < RangeStart
  BY <1>1 DEF RangeLoop, Like, Asks
<1>2. CASE ~(sync # "done" \/ st.best - st.finalized < RangeStart) /\ range > st.best
  <2> DEFINE none == <<>>
             zero == 0
  <2>1. s = [st EXCEPT !.range = zero]
    BY <1>2 DEF RangeLoop
  <2>2. none \in Seq(1 .. Top) /\ zero \in 0 .. Top
    BY BlockFacts
  <2> HIDE DEF none, zero
  <2>3. s \in {[st EXCEPT !.possible = none], [st EXCEPT !.range = zero]}
    BY <2>1
  <2>4. QED
    BY <2>2, <2>3, FreeFields
<1>3. CASE ~(sync # "done" \/ st.best - st.finalized < RangeStart) /\ ~(range > st.best)
  <2>1. s = Fetch(t, peer, "range", range)
    BY <1>3 DEF RangeLoop
  <2>2. st.range \in Nat /\ st.finalized \in Nat /\ st.best \in Nat /\ st.best <= Top
    BY StateFacts, BlockFacts DEF States
  <2>3. range \in {st.range, st.finalized + 1} /\ st.finalized + 1 <= range
    <3> DEFINE S == {st.range, st.finalized + 1}
               n == st.range + st.finalized + 1
    <3>1. S \in SUBSET Nat /\ S # {} /\ n \in Nat /\ \A y \in S : y <= n
      BY <2>2
    <3> HIDE DEF n
    <3>2. Max(S) \in S /\ \A y \in S : y <= Max(S)
      BY <3>1, MaxIsGreatest
    <3>3. QED
      BY <3>2
  <2> HIDE DEF range
  <2>4. range \in 1 .. Top /\ range \in 0 .. Top /\ <<>> \in Seq(1 .. Top)
    BY <1>3, <2>2, <2>3, BlockFacts
  <2>5. Sound(t) /\ Asks(t, st)
    BY <2>4, FreeFields
  <2> HIDE DEF t
  <2>6. Sound(s) /\ Asks(s, t)
    BY <2>1, <2>4, <2>5, FetchSound
  <2>7. QED
    BY <2>5, <2>6, Zenon DEF Like, Asks
<1>4. QED
  BY <1>1, <1>2, <1>3

LEMMA PossibleLoopSound ==
  ASSUME NEW st, Sound(st), NEW peer,
         NEW s, s = PossibleLoop(st, peer)
  PROVE  Sound(s) /\ Asks(s, st)
<1> DEFINE possible == IF st.possible = <<>> THEN PossibleScheduled(st) ELSE st.possible
           busy == \/ st.fetching # Idle \/ st.required # {}
                   \/ st.verified # {} \/ st.last # Idle
           rest == SubSeq(possible, 1, Len(possible) - 1)
           t == [st EXCEPT !.possible = rest]
<1>1. CASE busy
  BY <1>1 DEF PossibleLoop, Like, Asks
<1>2. CASE ~busy /\ possible = <<>>
  <2>1. s = RangeLoop(st, peer)
    BY <1>2 DEF PossibleLoop
  <2>2. QED
    BY <2>1, RangeLoopSound
<1>3. CASE ~busy /\ possible # <<>>
  <2>1. s = Fetch(t, peer, "possible", possible[Len(possible)])
    BY <1>3 DEF PossibleLoop
  <2>2. possible \in Seq(1 .. Top)
    <3> DEFINE above == {c \in Scheduled \cup Forced : st.finalized < c /\ c <= st.best}
    <3>1. above \in SUBSET Nat /\ \A c \in above : c \in 1 .. Top
      <4>1. \A c \in Scheduled \cup Forced : c \in 1 .. Top
        BY ChangeAssumption
      <4>2. \A c \in above : c \in 1 .. Top
        BY <4>1, Zenon
      <4>3. QED
        BY <4>2
    <3>2. above # {} => Min(above) \in 1 .. Top
      BY <3>1, MinIsLeast
    <3> HIDE DEF above
    <3>3. (IF above = {} THEN <<>> ELSE <<Min(above)>>) \in Seq(1 .. Top)
      <4> DEFINE m == Min(above)
      <4> HIDE DEF m
      <4>1. CASE above = {}
        BY <4>1
      <4>2. CASE above # {}
        <5>1. m \in 1 .. Top
          BY <3>2, <4>2 DEF m
        <5>2. <<m>> \in Seq(1 .. Top)
          BY <5>1
        <5>3. QED
          BY <4>2, <5>2, Zenon DEF m
      <4>3. QED
        BY <4>1, <4>2
    <3>4. PossibleScheduled(st) \in Seq(1 .. Top)
      BY <3>3 DEF PossibleScheduled, above
    <3>5. st.possible \in Seq(1 .. Top)
      BY StateFacts DEF States
    <3>6. QED
      BY <3>4, <3>5
  <2> HIDE DEF possible
  <2>3. rest \in Seq(1 .. Top) /\ possible[Len(possible)] \in 1 .. Top /\ 0 \in 0 .. Top
    BY <1>3, <2>2, BlockFacts
  <2> HIDE DEF rest
  <2>4. Sound(t) /\ Asks(t, st)
    BY <2>3, FreeFields
  <2> HIDE DEF t
  <2>5. Sound(s) /\ Asks(s, t)
    BY <2>1, <2>3, <2>4, FetchSound
  <2>6. QED
    BY <2>4, <2>5, Zenon DEF Like, Asks
<1>4. QED
  BY <1>1, <1>2, <1>3

-----------------------------------------------------------------------------
(* addVerified                                                             *)

\* required_.erase.
LEMMA RequiredErased ==
  ASSUME NEW st, Sound(st), NEW b, NEW e, e = [st EXCEPT !.required = @ \ {b}]
  PROVE  /\ Sound(e) /\ e.required = st.required \ {b} /\ Held(e) = Held(st)
         /\ e.verified = st.verified /\ e.finalized = st.finalized /\ e.expected = st.expected
         /\ e.last = st.last /\ e.fetching = st.fetching
         /\ e.base = st.base /\ e.best = st.best /\ e.justified = st.justified
<1> DEFINE r == st.required \ {b}
<1>1. st \in States /\ e = [st EXCEPT !.required = r]
  BY StateFacts
<1>2. r \in SUBSET Scheduled
  BY <1>1 DEF States
<1>3. /\ e.required = r
      /\ e.verified = st.verified /\ e.finalized = st.finalized /\ e.expected = st.expected
      /\ e.last = st.last /\ e.fetching = st.fetching
      /\ e.base = st.base /\ e.best = st.best /\ e.justified = st.justified
  <2> HIDE DEF r
  <2>1. QED
    BY <1>1 DEF States
<1>4. e \in States
  <2> HIDE DEF r
  <2>1. QED
    BY <1>1, <1>2, ZenonT(60) DEF States
<1>5. InStep(e)
  BY <1>3, StateFacts DEF InStep
<1>6. Held(e) = Held(st)
  BY <1>3 DEF Held
<1>7. QED
  BY <1>3, <1>4, <1>5, <1>6 DEF Sound

\* A justification that is ready.
LEMMA ReadySound ==
  ASSUME NEW st, Sound(st), NEW b \in Blocks, 0 < b, Regular(st) => Waiting(st, b),
         st.finalized < b, b <= st.best, Due(st, b), NEW peer,
         NEW s, s = Ready([st EXCEPT !.required = @ \ {b}], b, peer)
  PROVE  Sound(s) /\ (Regular(s) => Waiting(s, 0))
<1> DEFINE e == [st EXCEPT !.required = @ \ {b}]
           f == Finalize(e, b)
<1>0. s = Ready(e, b, peer)
  OBVIOUS
<1>1. /\ Sound(e) /\ e.required = st.required \ {b} /\ Held(e) = Held(st)
      /\ e.verified = st.verified /\ e.finalized = st.finalized /\ e.expected = st.expected
      /\ e.last = st.last /\ e.fetching = st.fetching
      /\ e.base = st.base /\ e.best = st.best /\ e.justified = st.justified
  BY RequiredErased
<1> HIDE DEF e
<1>2. Due(e, b) /\ b \notin e.required
  BY <1>1 DEF Due
<1>3. CASE b \notin Scheduled
  <2>1. s = f
    BY <1>0, <1>3 DEF Ready
  <2>2. e.required = st.required
    BY <1>1, <1>3, StateFacts DEF States
  <2>3. /\ Regular(e) = Regular(st)
        /\ Regular(e) => Waiting(e, b)
    <3>1. Like(e, st) /\ e \in States
      BY <1>1, <2>2, StateFacts DEF Like
    <3>2. QED
      BY <1>1, <3>1, LikeSound DEF Waiting
  <2>4. /\ Sound(s) /\ SameQueue(s, e) /\ Held(s) = Held(e)
        /\ HeldWaits(e, Top) => HeldWaits(s, Top)
        /\ FetchWaits(e, b) => FetchWaits(s, b)
    BY <1>1, <1>2, <1>3, <2>1, FinalizeOther
  <2>5. LastWaits(e) => LastWaits(s)
    BY <2>4 DEF LastWaits, SameQueue
  <2>6. FetchWaits(s, b) => FetchWaits(s, 0)
    BY <1>3, Zenon DEF FetchWaits
  <2>7. Regular(s) = Regular(e)
    BY <2>4 DEF Regular, SameQueue
  <2>8. QED
    BY <2>3, <2>4, <2>5, <2>6, <2>7 DEF Waiting
<1>4. CASE b \in Scheduled
  <2>1. /\ Sound(f) /\ SameQueue(f, e) /\ f.finalized = b /\ f.expected = NextAuthorities(b)
    <3>1. e.finalized <= b /\ b <= e.best
      BY <1>1, StateFacts, BlockFacts
    <3>2. QED
      BY <1>1, <1>2, <1>4, <3>1, FinalizeSound
  <2> DEFINE v == VerifiedLoop(f)
             r == RequiredLoop(v, peer)
  <2>2. s = PossibleLoop(r, peer)
    BY <1>0, <1>4 DEF Ready
  <2> HIDE DEF f
  <2>3. /\ Held(f) = Held(st) /\ f.verified = st.verified /\ f.required = st.required \ {b}
        /\ f.last = st.last /\ f.fetching = st.fetching /\ f.best = st.best
        /\ Regular(f) = Regular(st)
    BY <1>1, <2>1 DEF SameQueue, Held, Regular
  <2>4. \A c \in Scheduled : c <= st.finalized \/ b <= c
    BY NothingBetween DEF Due
  <2>5. b \in Nat /\ st.finalized \in Nat
    BY StateFacts, BlockFacts
  <2>6. ASSUME Regular(st) PROVE HeldWaits(f, 0)
    <3>1. HeldWaits(st, Top)
      BY <2>6 DEF Waiting
    <3>2. ASSUME NEW w \in st.verified
          PROVE  /\ b < w.block /\ w.block <= st.best
                 /\ \E p \in Scheduled :
                      /\ IsParent(p, w.block)
                      /\ p \in f.required \cup Held(f) \/ (0 < w.block /\ p = b)
      <4>1. w.block \in Scheduled /\ w.block \in Nat /\ 0 < w.block /\ w.block <= Top
        BY HeldFacts, BlockFacts
      <4>2. /\ st.finalized < w.block /\ w.block <= st.best
        BY <3>1 DEF HeldWaits
      <4>3. PICK p \in Scheduled : IsParent(p, w.block) /\ p \in st.required \cup Held(st)
        BY <3>1, <4>1, BlockFacts DEF HeldWaits
      <4>4. p \in Nat /\ st.finalized < p /\ p < w.block
        <5>1. p \in Held(st) => st.finalized < p
          BY <3>1 DEF Held, HeldWaits
        <5>2. p \in st.required => st.finalized < p
          BY BlockFacts, StateFacts DEF Sound
        <5>3. QED
          BY <4>3, <5>1, <5>2, BlockFacts DEF IsParent
      <4>5. b <= p
        BY <2>4, <2>5, <4>3, <4>4
      <4>6. b < w.block
        BY <2>5, <4>1, <4>4, <4>5
      <4>7. p # b => p \in f.required \cup Held(f)
        BY <2>3, <4>3
      <4>8. QED
        BY <4>1, <4>2, <4>3, <4>6, <4>7
    <3>3. QED
      BY <2>1, <2>3, <3>2 DEF HeldWaits
  <2>7. ASSUME Regular(st) PROVE LastWaited(f)
    <3> SUFFICES ASSUME f.last # Idle, Forced \cap 1 .. f.last = {}
                 PROVE  \/ \E p \in Scheduled :
                             IsParent(p, f.last) /\ p \in f.required \cup Held(f)
                        \/ Authorities(f.last) <= f.expected
      BY DEF LastWaited
    <3>1. PICK p \in Scheduled : IsParent(p, f.last) /\ p \in st.required \cup Held(st)
      BY <2>3, <2>7 DEF Waiting, LastWaits
    <3>2. CASE p = b
      <4>1. f.last \in Blocks
        BY <2>1, StateFacts, BlockFacts DEF States, Blocks
      <4>2. Authorities(f.last) = f.expected /\ f.expected \in Nat
        BY <2>1, <3>1, <3>2, <4>1, LastParent, StateFacts
      <4>3. QED
        BY <4>2
    <3>3. CASE p # b
      BY <2>3, <3>1, <3>3
    <3>4. QED
      BY <3>2, <3>3
  <2>8. ASSUME Regular(st) PROVE FetchWaits(f, 0)
    <3>1. FetchWaits(st, b)
      BY <2>8 DEF Waiting
    <3>2. st.fetching # Idle => st.fetching.block \in Nat
      BY StateFacts DEF States, Fetches
    <3>3. /\ st.fetching # Idle /\ st.fetching.block <= st.finalized =>
               st.fetching.block <= b
          /\ st.fetching.block = b => st.fetching.block <= b
      BY <2>5, <3>2
    <3>4. st.fetching.block \in st.required =>
            st.fetching.block = b \/ st.fetching.block \in f.required
      BY <2>3
    <3>5. QED
      BY <2>1, <2>3, <3>1, <3>3, <3>4, Zenon DEF FetchWaits
  <2>9. Sound(v) /\ (Regular(v) => Waiting(v, 0))
    BY <2>1, <2>3, <2>6, <2>7, <2>8, VerifiedLoopSound
  <2> HIDE DEF v
  <2>10. Sound(r) /\ (Regular(r) => Waiting(r, 0))
    BY <2>9, RequiredLoopSound, AsksWaiting
  <2> HIDE DEF r
  <2>11. QED
    BY <2>2, <2>10, PossibleLoopSound, AsksWaiting
<1>5. QED
  BY <1>3, <1>4

\* Between two scheduled changes there is at most one forced change.
LEMMA OneForced ==
  ASSUME ForcedApart, NEW b \in Blocks, NEW p \in Scheduled, IsParent(p, b)
  PROVE  Authorities(b) <= NextAuthorities(p) + 1
<1>1. /\ p \in Nat /\ b \in Nat /\ p < b /\ Forced \in SUBSET (1 .. Top)
      /\ \A c \in Scheduled : c \in Nat
      /\ \A f \in Forced : f \in Nat
  BY BlockFacts, ChangeAssumption DEF IsParent
<1>2. ChangesBelow(b) = ChangesUpTo(p)
  <2>1. \A c \in Scheduled : c < b <=> c <= p
    BY <1>1 DEF IsParent
  <2>2. QED
    BY <2>1, Zenon DEF ChangesBelow, ChangesUpTo
<1>3. /\ Authorities(b) = Cardinality(ChangesBelow(b)) + Cardinality(ForcedUpTo(b))
      /\ NextAuthorities(p) = Cardinality(ChangesUpTo(p)) + Cardinality(ForcedUpTo(p))
  BY DEF Authorities, NextAuthorities, ChangesBelow, ChangesUpTo, ForcedUpTo
<1>4. /\ ForcedUpTo(p) \in SUBSET (1 .. Top) /\ ForcedUpTo(b) \in SUBSET (1 .. Top)
      /\ ChangesUpTo(p) \in SUBSET (1 .. Top)
  BY <1>1, ChangeAssumption DEF ForcedUpTo, ChangesUpTo
<1>5. /\ IsFiniteSet(ForcedUpTo(p)) /\ Cardinality(ForcedUpTo(p)) \in Nat
      /\ Cardinality(ForcedUpTo(b)) \in Nat /\ Cardinality(ChangesUpTo(p)) \in Nat
  BY <1>4, ChangesAreFinite
<1>6. ASSUME NEW f \in Forced, NEW g \in Forced, p < f, f < g PROVE ~(g <= b)
  <2> SUFFICES ASSUME g <= b PROVE FALSE
    OBVIOUS
  <2>1. PICK c \in Scheduled : c < g /\ \A d \in Forced : d <= c \/ g <= d
    BY DEF ForcedApart
  <2>2. f \in Nat /\ g \in Nat /\ c \in Nat /\ f <= c /\ c < b
    <3>1. f \in Nat /\ g \in Nat /\ c \in Nat
      BY <1>1
    <3>2. f <= c
      BY <1>6, <2>1, <3>1
    <3>3. QED
      BY <1>1, <2>1, <3>1, <3>2
  <2>3. c <= p
    BY <2>2 DEF IsParent
  <2>4. QED
    BY <1>1, <1>6, <2>2, <2>3
<1>7. Cardinality(ForcedUpTo(b)) <= Cardinality(ForcedUpTo(p)) + 1
  <2>1. CASE \A f \in Forced : f <= b => f <= p
    <3>1. ForcedUpTo(b) \in SUBSET ForcedUpTo(p)
      BY <2>1, Zenon DEF ForcedUpTo
    <3>2. QED
      BY <1>4, <1>5, <3>1, MoreChanges
  <2>2. ASSUME NEW f \in Forced, f <= b, ~(f <= p)
        PROVE  Cardinality(ForcedUpTo(b)) <= Cardinality(ForcedUpTo(p)) + 1
    <3> DEFINE T == ForcedUpTo(p) \cup {f}
    <3>1. f \notin ForcedUpTo(p) /\ f \in 1 .. Top
      BY <1>1, <2>2 DEF ForcedUpTo
    <3>2. Cardinality(T) = Cardinality(ForcedUpTo(p)) + 1
      BY <1>5, <3>1, OneMore
    <3>3. T \in SUBSET (1 .. Top)
      BY <1>4, <3>1
    <3>4. ASSUME NEW g \in Forced, g <= b PROVE g <= p \/ g = f
      BY <1>1, <1>6, <2>2, <3>4
    <3>5. ForcedUpTo(b) \in SUBSET T
      BY <3>4, Zenon DEF ForcedUpTo
    <3> HIDE DEF T
    <3>6. Cardinality(ForcedUpTo(b)) <= Cardinality(T)
      BY <3>3, <3>5, MoreChanges
    <3>7. QED
      BY <1>5, <3>2, <3>6
  <2>3. QED
    BY <2>1, <2>2
<1>8. QED
  BY <1>2, <1>3, <1>5, <1>7

\* What is not ready has a parent above the finalized block.
LEMMA NotReadyParent ==
  ASSUME NEW st, Sound(st), Regular(st), NEW b \in Blocks, st.finalized < b,
         ~(Authorities(b) < st.expected), ~IsReady(st, b)
  PROVE  ScheduledBefore(st, b) # {} /\ st.finalized < Max(ScheduledBefore(st, b))
<1> DEFINE parents == ScheduledBefore(st, b)
           p == Max(parents)
<1>1. /\ Authorities(b) \in Nat /\ st.expected \in Nat /\ b \in Nat
      /\ st.finalized \in Nat /\ st.base = 0
      /\ Authorities(b) # st.expected
  BY AuthorityFacts, StateFacts, BlockFacts DEF IsReady, Regular
<1>2. ASSUME parents = {} PROVE FALSE
  <2>1. \A c \in Scheduled : ~(c < b)
    BY <1>1, <1>2, BlockFacts DEF ScheduledBefore
  <2>2. \A f \in Forced : ~(f <= b)
    <3> SUFFICES ASSUME NEW f \in Forced, f <= b PROVE FALSE
      OBVIOUS
    <3>1. PICK c \in Scheduled : c < f
      BY DEF Regular, ForcedApart
    <3>2. c \in Nat /\ f \in Nat
      BY BlockFacts, ChangeAssumption
    <3>3. QED
      BY <1>1, <2>1, <3>1, <3>2
  <2>3. {c \in Scheduled : c < b} = {} /\ {f \in Forced : f <= b} = {}
    BY <2>1, <2>2, Zenon
  <2>4. Authorities(b) = 0
    BY <2>3, EmptyIsFinite DEF Authorities
  <2>5. QED
    BY <1>1, <2>4
<1>3. p \in Scheduled /\ IsParent(p, b) /\ Authorities(p) + 1 # st.expected
  BY <1>2, ParentFacts DEF IsReady
<1> HIDE DEF p
<1>4. ASSUME p <= st.finalized PROVE FALSE
  <2>1. NextAuthorities(p) = Authorities(p) + 1 /\ NextAuthorities(p) \in Nat
    BY <1>3, AuthorityFacts
  <2>2. NextAuthorities(p) <= st.expected
    BY <1>3, <1>4, StateFacts DEF InStep
  <2>3. Authorities(b) <= NextAuthorities(p) + 1
    BY <1>3, OneForced DEF Regular
  <2>4. QED
    BY <1>1, <1>3, <2>1, <2>2, <2>3
<1>5. QED
  BY <1>1, <1>2, <1>3, <1>4, BlockFacts DEF p

\* A justification that is not ready is held.
LEMMA HoldSound ==
  ASSUME NEW st, Sound(st), NEW b \in Blocks, 0 < b, Regular(st) => Waiting(st, b),
         st.finalized < b, b <= st.best, ~(Authorities(b) < st.expected), ~IsReady(st, b),
         ScheduledBefore(st, b) # {}, NEW peer,
         NEW s, s = Hold([st EXCEPT !.required = @ \ {b}], b, ScheduledBefore(st, b), peer)
  PROVE  Sound(s) /\ (Regular(s) => Waiting(s, 0))
<1> DEFINE e == [st EXCEPT !.required = @ \ {b}]
           parents == ScheduledBefore(st, b)
           p == Max(parents)
           missing == {c \in parents : Authorities(c) >= e.expected} \ Held(e)
           r == e.required \cup missing
           g == [e EXCEPT !.required = r]
           a == RequiredLoop(g, peer)
           new == [block |-> b, expected |-> Authorities(p) + 1]
           h == IF b \in Held(e) THEN a.verified ELSE a.verified \cup {new}
           l == IF a.last = Idle \/ b > a.last THEN b ELSE a.last
<1>1. s = IF b \in Scheduled THEN [a EXCEPT !.verified = h] ELSE [a EXCEPT !.last = l]
  BY Zenon DEF Hold
<1>2. /\ Sound(e) /\ e.required = st.required \ {b} /\ Held(e) = Held(st)
      /\ e.verified = st.verified /\ e.finalized = st.finalized /\ e.expected = st.expected
      /\ e.last = st.last /\ e.fetching = st.fetching
      /\ e.base = st.base /\ e.best = st.best /\ e.justified = st.justified
  BY RequiredErased
<1> HIDE DEF e
<1>3. /\ p \in Scheduled /\ IsParent(p, b) /\ p \in Nat /\ Authorities(p) \in Nat
      /\ NextAuthorities(p) = Authorities(p) + 1 /\ Authorities(p) + 1 \in 1 .. Top
  <2>1. p \in Scheduled /\ IsParent(p, b)
    BY ParentFacts
  <2> HIDE DEF p
  <2>2. QED
    BY <2>1, BlockFacts, AuthorityFacts
<1>4. /\ st.finalized \in Nat /\ st.expected \in Nat /\ b \in Nat /\ Top \in Nat
      /\ b \in 1 .. Top
  BY StateFacts, BlockFacts
<1>5. ASSUME NEW c \in missing
      PROVE  c \in Scheduled /\ st.finalized < c /\ c \notin Held(st) /\ c < b
  <2>1. c \in Scheduled /\ c < b /\ Authorities(c) >= st.expected /\ c \notin Held(st)
    BY <1>2 DEF ScheduledBefore
  <2>2. c \in Nat /\ Authorities(c) \in Nat /\ NextAuthorities(c) = Authorities(c) + 1
    BY <2>1, AuthorityFacts, BlockFacts
  <2>3. c <= st.finalized => NextAuthorities(c) <= st.expected
    BY <2>1, StateFacts DEF InStep
  <2>4. QED
    BY <1>4, <2>1, <2>2, <2>3
<1>6. st.finalized < p => p \in missing \cup Held(st)
  <2> SUFFICES ASSUME st.finalized < p PROVE p \in missing \cup Held(st)
    OBVIOUS
  <2>1. p \in parents
    <3>1. st.base <= p
      BY <1>3, <1>4, StateFacts, BlockFacts
    <3>2. p < b
      BY <1>3 DEF IsParent
    <3> HIDE DEF p
    <3>3. QED
      BY <1>3, <3>1, <3>2 DEF ScheduledBefore
  <2>2. Authorities(p) >= st.expected
    <3> HIDE DEF p
    <3>1. NextAuthorities(st.finalized) < NextAuthorities(p)
          /\ NextAuthorities(st.finalized) \in Nat
      BY <1>3, StateFacts, AuthorityFacts
    <3>2. st.expected <= NextAuthorities(st.finalized)
      BY StateFacts
    <3>3. QED
      BY <1>3, <1>4, <3>1, <3>2
  <2>3. QED
    BY <1>2, <2>1, <2>2
<1> HIDE DEF p, missing
<1>7. r \in SUBSET Scheduled /\ \A c \in r : c > st.finalized /\ c \notin Held(st) /\ c # b
  <2>1. ASSUME NEW c \in e.required
        PROVE  c \in Scheduled /\ c > st.finalized /\ c \notin Held(st) /\ c # b
    BY <1>2 DEF Sound, States
  <2>2. ASSUME NEW c \in missing
        PROVE  c \in Scheduled /\ c > st.finalized /\ c \notin Held(st) /\ c # b
    BY <1>4, <1>5, BlockFacts
  <2>3. QED
    BY <2>1, <2>2
<1>8. st.required \ {b} \subseteq r /\ missing \subseteq r
  BY <1>2
<1> HIDE DEF r
<1>9. /\ Sound(g) /\ g.required = r /\ g.verified = st.verified /\ Held(g) = Held(st)
      /\ g.finalized = st.finalized /\ g.expected = st.expected /\ g.last = st.last
      /\ g.fetching = st.fetching /\ g.base = st.base /\ g.best = st.best
  <2>1. e \in States
    BY <1>2, StateFacts
  <2>2. g \in States
    BY <1>7, <2>1, ZenonT(60) DEF States
  <2>3. /\ g.required = r /\ g.verified = e.verified
        /\ g.finalized = e.finalized /\ g.expected = e.expected /\ g.last = e.last
        /\ g.fetching = e.fetching /\ g.base = e.base /\ g.best = e.best
        /\ g.justified = e.justified
    BY <2>1 DEF States
  <2>4. InStep(g) /\ Held(g) = Held(e)
    BY <1>2, <2>3, StateFacts DEF InStep, Held
  <2> HIDE DEF g
  <2>5. QED
    BY <1>2, <1>7, <2>2, <2>3, <2>4 DEF Sound
<1> HIDE DEF g
<1>10. /\ Sound(a) /\ a.required = r /\ a.verified = st.verified /\ Held(a) = Held(st)
       /\ a.finalized = st.finalized /\ a.expected = st.expected /\ a.last = st.last
       /\ a.base = st.base /\ a.best = st.best
       /\ \A x : FetchWaits(g, x) => FetchWaits(a, x)
  <2>1. Sound(a) /\ Asks(a, g)
    BY <1>9, RequiredLoopSound
  <2>2. QED
    BY <1>9, <2>1, Zenon DEF Asks, Like, Held
<1> HIDE DEF a
<1>11. ASSUME Regular(st) PROVE FetchWaits(a, b) /\ p \in r \cup Held(st)
  <2>1. p \in r \cup Held(st)
    BY <1>6, <1>8, <1>11, NotReadyParent DEF p
  <2>2. FetchWaits(st, b)
    BY <1>11 DEF Waiting
  <2>3. FetchWaits(g, b)
    <3>1. st.fetching.block \in st.required =>
            st.fetching.block \in r \/ (st.fetching.block = b /\ b \in Scheduled)
      BY <1>8, StateFacts DEF States
    <3>2. QED
      BY <1>9, <2>2, <3>1, Zenon DEF FetchWaits
  <2>4. QED
    BY <1>10, <2>1, <2>3
<1>12. a \in States
  BY <1>10, StateFacts
<1>13. CASE b \in Scheduled
  <2>1. s = [a EXCEPT !.verified = h]
    BY <1>1, <1>13
  <2>2. h = IF b \in Held(st) THEN st.verified ELSE st.verified \cup {new}
    BY <1>2, <1>10
  <2>3. new \in [block : Scheduled, expected : 1 .. Top] /\ new.block = b /\ new.expected = NextAuthorities(p)
    BY <1>3, <1>13
  <2> HIDE DEF new
  <2>4. /\ h \in SUBSET [block : Scheduled, expected : 1 .. Top]
        /\ \A v \in h : v \in st.verified \/ v = new
        /\ {v.block : v \in h} = Held(st) \cup {b}
    <3>1. st.verified \in SUBSET [block : Scheduled, expected : 1 .. Top]
      BY StateFacts DEF States
    <3>2. QED
      BY <2>2, <2>3, <3>1 DEF Held
  <2> HIDE DEF h
  <2>5. s \in States
    BY <1>12, <2>1, <2>4, ZenonT(60) DEF States
  <2>6. /\ s.verified = h /\ s.required = r /\ s.finalized = st.finalized
        /\ s.expected = st.expected /\ s.last = st.last /\ s.base = st.base
        /\ s.best = st.best /\ s.fetching = a.fetching /\ s.justified = a.justified
    BY <1>10, <1>12, <2>1 DEF States
  <2>7. Held(s) = Held(st) \cup {b}
    BY <2>4, <2>6 DEF Held
  <2>8. Sound(s)
    <3>1. InStep(s)
      BY <1>10, <2>6, StateFacts DEF InStep
    <3>2. ASSUME NEW v \in s.verified
          PROVE  \E q \in Scheduled : IsParent(q, v.block) /\ v.expected = NextAuthorities(q)
      BY <1>3, <2>3, <2>4, <2>6 DEF Sound
    <3>3. \A c \in s.required : c > s.finalized /\ c \notin Held(s)
      BY <1>7, <2>6, <2>7
    <3>4. QED
      BY <2>5, <3>1, <3>2, <3>3 DEF Sound
  <2>9. ASSUME Regular(s) PROVE Waiting(s, 0)
    <3>1. Regular(st)
      BY <2>6, <2>9 DEF Regular
    <3>2. st.required \cup Held(st) \subseteq s.required \cup Held(s)
      BY <1>8, <2>6, <2>7
    <3>3. HeldWaits(s, Top)
      <4>1. HeldWaits(st, Top)
        BY <3>1 DEF Waiting
      <4>2. ASSUME NEW v \in s.verified
            PROVE  /\ s.finalized < v.block /\ v.block <= s.best
                   /\ \E q \in Scheduled :
                        IsParent(q, v.block) /\ q \in s.required \cup Held(s)
        <5>1. CASE v = new
          BY <1>3, <1>11, <2>3, <2>6, <2>7, <3>1, <5>1
        <5>2. CASE v \in st.verified
          <6>1. v.block \in Nat /\ v.block <= Top
            BY <5>2, HeldFacts, BlockFacts
          <6>2. /\ st.finalized < v.block /\ v.block <= st.best
                /\ \E q \in Scheduled :
                     IsParent(q, v.block) /\ q \in st.required \cup Held(st)
            BY <1>4, <4>1, <5>2, <6>1 DEF HeldWaits
          <6>3. QED
            BY <2>6, <3>2, <6>2
        <5>3. QED
          BY <2>4, <2>6, <5>1, <5>2
      <4>3. QED
        BY <4>2 DEF HeldWaits
    <3>4. LastWaits(s)
      BY <2>6, <3>1, <3>2 DEF Waiting, LastWaits
    <3>5. FetchWaits(s, 0)
      <4>1. FetchWaits(a, b)
        BY <1>11, <3>1
      <4>2. QED
        BY <1>10, <2>6, <2>7, <4>1, Zenon DEF FetchWaits
    <3>6. QED
      BY <3>3, <3>4, <3>5 DEF Waiting
  <2>10. QED
    BY <2>8, <2>9
<1>14. CASE b \notin Scheduled
  <2>1. s = [a EXCEPT !.last = l]
    BY <1>1, <1>14
  <2>2. l \in {Idle} \cup (1 .. Top \ Scheduled) /\ (l = b \/ l = st.last)
    BY <1>4, <1>10, <1>12, <1>14 DEF States
  <2> HIDE DEF l
  <2>3. s \in States
    BY <1>12, <2>1, <2>2, ZenonT(60) DEF States
  <2>4. Like(s, a) /\ s.fetching = a.fetching /\ s.last = l
    BY <1>12, <2>1 DEF States, Like
  <2>5. /\ Sound(s) /\ Held(s) = Held(a)
        /\ HeldWaits(a, Top) => HeldWaits(s, Top)
        /\ \A x : FetchWaits(a, x) => FetchWaits(s, x)
    BY <1>10, <2>3, <2>4, LikeSound
  <2>6. ASSUME Regular(s) PROVE Waiting(s, 0)
    <3>1. Regular(st)
      BY <1>10, <2>4, <2>6 DEF Regular, Like
    <3>2. st.required \cup Held(st) \subseteq a.required \cup Held(a)
      BY <1>8, <1>10, <1>14, StateFacts DEF States
    <3>3. HeldWaits(a, Top)
      BY <1>4, <1>10, <3>1, <3>2 DEF Waiting, HeldWaits
    <3>4. LastWaits(s)
      <4> SUFFICES ASSUME l # Idle, Forced \cap 1 .. l = {}
                   PROVE  \E q \in Scheduled :
                            IsParent(q, l) /\ q \in a.required \cup Held(a)
        BY <2>4, <2>5 DEF LastWaits, Like
      <4>1. CASE l = b
        BY <1>3, <1>10, <1>11, <3>1, <4>1
      <4>2. CASE l = st.last
        BY <3>1, <3>2, <4>2 DEF Waiting, LastWaits
      <4>3. QED
        BY <2>2, <4>1, <4>2
    <3>5. FetchWaits(s, 0)
      <4>1. FetchWaits(s, b)
        BY <1>11, <2>5, <3>1
      <4>2. QED
        BY <1>14, <4>1, Zenon DEF FetchWaits
    <3>6. QED
      BY <2>5, <3>3, <3>4, <3>5 DEF Waiting
  <2>7. QED
    BY <2>5, <2>6
<1>15. QED
  BY <1>13, <1>14

LEMMA AddVerifiedSound ==
  ASSUME NEW st, Sound(st), NEW b \in Blocks, 0 < b, b <= st.best,
         Regular(st) => Waiting(st, b), NEW peer, NEW s, s = AddVerified(st, b, peer)
  PROVE  Sound(s) /\ (Regular(s) => Waiting(s, 0))
<1> DEFINE e == [st EXCEPT !.required = @ \ {b}]
           parents == ScheduledBefore(st, b)
<1>1. /\ st.finalized \in Blocks /\ st.finalized \in Nat /\ b \in Nat
      /\ st.expected \in Nat /\ Authorities(b) \in Nat
  BY StateFacts, BlockFacts, AuthorityFacts
<1>2. CASE Authorities(b) < st.expected \/ b <= st.finalized
  <2>1. s = st
    BY <1>2 DEF AddVerified
  <2>2. b <= st.finalized
    <3>1. st.finalized < b =>
            NextAuthorities(st.finalized) <= Authorities(b) /\ NextAuthorities(st.finalized) \in Nat
      BY <1>1, AuthorityFacts
    <3>2. st.expected <= NextAuthorities(st.finalized)
      BY StateFacts
    <3>3. QED
      BY <1>1, <1>2, <3>1, <3>2
  <2>3. FetchWaits(st, b) => FetchWaits(st, 0)
    BY <2>2, Zenon DEF FetchWaits
  <2>4. QED
    BY <2>1, <2>3 DEF Waiting
<1>3. CASE ~(Authorities(b) < st.expected \/ b <= st.finalized)
  <2>1. st.finalized < b
    BY <1>1, <1>3
  <2>2. CASE IsReady(st, b)
    <3>1. s = Ready(e, b, peer)
      BY <1>3, <2>2 DEF AddVerified
    <3>2. Due(st, b)
      <4>1. parents # {} => Max(parents) \in Scheduled /\ IsParent(Max(parents), b)
        BY ParentFacts
      <4>2. parents # {} => NextAuthorities(Max(parents)) = Authorities(Max(parents)) + 1
        BY <4>1, AuthorityFacts
      <4>3. QED
        BY <2>2, <4>1, <4>2, Zenon DEF Due, IsReady
    <3>3. QED
      BY <2>1, <3>1, <3>2, ReadySound
  <2>3. CASE ~IsReady(st, b) /\ parents = {}
    <3>1. s = e
      BY <1>3, <2>3 DEF AddVerified
    <3>2. Sound(s) /\ Regular(s) = Regular(st)
      BY <3>1, RequiredErased DEF Regular
    <3>3. ~Regular(st)
      BY <1>3, <2>1, <2>3, NotReadyParent
    <3>4. QED
      BY <3>2, <3>3
  <2>4. CASE ~IsReady(st, b) /\ parents # {}
    <3>1. s = Hold(e, b, parents, peer)
      BY <1>3, <2>4 DEF AddVerified
    <3>2. QED
      BY <1>3, <2>1, <2>4, <3>1, HoldSound
  <2>5. QED
    BY <2>2, <2>3, <2>4
<1>4. QED
  BY <1>2, <1>3

-----------------------------------------------------------------------------
(* The actions                                                             *)

Good(st) == Sound(st) /\ (Regular(st) => Waiting(st, 0))

\* The process starts on a block tree whose changes are justified.
LEMMA StartedGood ==
  ASSUME NEW finalized \in Blocks, NEW justified \in SUBSET (1 .. Top), NEW base \in Blocks,
         NEW best \in Blocks, base <= finalized, finalized <= best,
         \A c \in justified : c <= finalized,
         \A c \in Scheduled : c <= finalized => c \in justified,
         NEW s, s = Started(finalized, justified, base, best)
  PROVE  Good(s)
<1>1. NextAuthorities(finalized) \in 0 .. Top
  BY AuthorityFacts
<1>2. s \in States
  <2>1. 0 \in 0 .. Top /\ <<>> \in Seq(1 .. Top)
    BY BlockFacts
  <2>2. QED
    BY <1>1, <2>1, ZenonT(60) DEF Started, States
<1>3. /\ s.finalized = finalized /\ s.justified = justified /\ s.base = base /\ s.best = best
      /\ s.verified = {} /\ s.required = {} /\ s.last = Idle /\ s.fetching = Idle
      /\ s.expected = NextAuthorities(finalized)
  BY DEF Started
<1>4. \A c \in Scheduled : c <= finalized => NextAuthorities(c) <= NextAuthorities(finalized)
  BY AuthorityFacts, BlockFacts
<1>5. InStep(s)
  <2>1. NextAuthorities(finalized) <= NextAuthorities(finalized)
    BY <1>1, BlockFacts
  <2>2. QED
    BY <1>3, <1>4, <2>1, Zenon DEF InStep
<1>6. Sound(s)
  BY <1>2, <1>3, <1>5 DEF Sound
<1>7. Waiting(s, 0)
  BY <1>3 DEF Waiting, HeldWaits, LastWaits, FetchWaits
<1>8. QED
  BY <1>6, <1>7 DEF Good

\* fetching_ is reset, and the block may not be required any more.
LEMMA FetchingReset ==
  ASSUME NEW st, Good(st), NEW R \in SUBSET st.required,
         Regular(st) => R = st.required,
         NEW s, s = [st EXCEPT !.fetching = Idle, !.required = R]
  PROVE  Good(s)
<1>1. st \in States /\ Sound(st)
  BY StateFacts DEF Good
<1>2. R \in SUBSET Scheduled
  BY <1>1 DEF States
<1>3. s \in States
  BY <1>1, <1>2, ZenonT(60) DEF States
<1>4. /\ s.finalized = st.finalized /\ s.justified = st.justified /\ s.base = st.base
      /\ s.best = st.best /\ s.verified = st.verified /\ s.required = R
      /\ s.last = st.last /\ s.fetching = Idle /\ s.expected = st.expected
  BY <1>1 DEF States
<1>5. InStep(s) /\ Held(s) = Held(st) /\ Regular(s) = Regular(st)
  BY <1>1, <1>4, StateFacts DEF InStep, Held, Regular
<1>6. Sound(s)
  BY <1>1, <1>3, <1>4, <1>5 DEF Sound
<1>7. ASSUME Regular(s) PROVE Waiting(s, 0)
  <2>1. HeldWaits(st, Top) /\ LastWaits(st) /\ s.required = st.required
    BY <1>4, <1>5, <1>7 DEF Good, Waiting
  <2>2. QED
    BY <1>4, <1>5, <2>1 DEF Waiting, HeldWaits, LastWaits, FetchWaits
<1>8. QED
  BY <1>6, <1>7 DEF Good

\* The fetch loops, from a good state.
LEMMA LoopsGood ==
  ASSUME NEW st, Good(st), NEW peer
  PROVE  Good(RequiredLoop(st, peer)) /\ Good(PossibleLoop(st, peer))
<1>1. Sound(st) /\ (Regular(st) => Waiting(st, 0))
  BY DEF Good
<1>2. Good(RequiredLoop(st, peer))
  <2> DEFINE s == RequiredLoop(st, peer)
  <2>1. Sound(s) /\ Asks(s, st)
    BY <1>1, RequiredLoopSound
  <2> HIDE DEF s
  <2>2. Good(s)
    BY <1>1, <2>1, AsksWaiting DEF Good
  <2>3. QED
    BY <2>2 DEF s
<1>3. Good(PossibleLoop(st, peer))
  <2> DEFINE s == PossibleLoop(st, peer)
  <2>1. Sound(s) /\ Asks(s, st)
    BY <1>1, PossibleLoopSound
  <2> HIDE DEF s
  <2>2. Good(s)
    BY <1>1, <2>1, AsksWaiting DEF Good
  <2>3. QED
    BY <2>2 DEF s
<1>4. QED
  BY <1>2, <1>3

LEMMA NewHeadGood ==
  ASSUME Good(node), NEW peer, NewHead(peer)
  PROVE  Good(node')
<1> DEFINE best == node.best + 1
           t == [node EXCEPT !.best = best]
<1>1. node \in States /\ Sound(node) /\ node' = PossibleLoop(t, peer) /\ node.best \in Nat
  BY StateFacts, BlockFacts DEF Good, NewHead
<1>2. best \in Blocks /\ node.best <= best
  BY <1>1, BlockFacts DEF NewHead, Blocks
<1> HIDE DEF best
<1>3. t \in States
  BY <1>1, <1>2, ZenonT(60) DEF States
<1>4. /\ t.finalized = node.finalized /\ t.justified = node.justified /\ t.base = node.base
      /\ t.best = best /\ t.verified = node.verified /\ t.required = node.required
      /\ t.last = node.last /\ t.fetching = node.fetching /\ t.expected = node.expected
  BY <1>1 DEF States
<1> HIDE DEF t
<1>5. InStep(t) /\ Held(t) = Held(node) /\ Regular(t) = Regular(node)
  <2>1. node.finalized <= best
    BY <1>1, <1>2, StateFacts, BlockFacts
  <2>2. QED
    BY <1>1, <1>4, <2>1, StateFacts DEF InStep, Held, Regular
<1>6. Sound(t)
  BY <1>1, <1>3, <1>4, <1>5 DEF Sound
<1>7. ASSUME Regular(t) PROVE Waiting(t, 0)
  <2>1. HeldWaits(node, Top) /\ LastWaits(node) /\ FetchWaits(node, 0)
    BY <1>5, <1>7 DEF Good, Waiting
  <2>2. ASSUME NEW v \in node.verified PROVE v.block <= best
    <3>1. v.block \in Nat /\ v.block <= node.best
      BY <1>1, <2>1, HeldFacts DEF HeldWaits
    <3>2. QED
      BY <1>1, <1>2, <3>1, BlockFacts
  <2>3. HeldWaits(t, Top)
    BY <1>4, <1>5, <2>1, <2>2 DEF HeldWaits
  <2>4. LastWaits(t)
    BY <1>4, <1>5, <2>1 DEF LastWaits
  <2>5. FetchWaits(t, 0)
    BY <1>4, <1>5, <2>1, Zenon DEF FetchWaits
  <2>6. QED
    BY <2>3, <2>4, <2>5 DEF Waiting
<1>8. QED
  BY <1>1, <1>6, <1>7, LoopsGood DEF Good

LEMMA VerifiedGood ==
  ASSUME Good(node), NEW peer, NEW b \in Blocks, Verified(b, peer)
  PROVE  Good(node')
<1>1. /\ Sound(node) /\ node' = AddVerified(node, b, peer)
      /\ 0 < b /\ b <= node.best
  BY StateFacts, BlockFacts DEF Good, Verified
<1>2. FetchWaits(node, 0) => FetchWaits(node, b)
  <2>1. 0 \notin Scheduled
    BY BlockFacts
  <2>2. QED
    BY <2>1, Zenon DEF FetchWaits
<1>3. Regular(node) => Waiting(node, b)
  BY <1>2 DEF Good, Waiting
<1>4. QED
  BY <1>1, <1>3, AddVerifiedSound DEF Good

LEMMA FetchFailsGood ==
  ASSUME Good(node), NEW peer, FetchFails(peer)
  PROVE  Good(node')
<1> DEFINE t == [node EXCEPT !.fetching = Idle]
           r == RequiredLoop(t, peer)
<1>1. node \in States
  BY StateFacts DEF Good
<1>2. t = [node EXCEPT !.fetching = Idle, !.required = node.required]
  BY <1>1 DEF States
<1>3. node' \in {r, PossibleLoop(r, peer)}
  BY DEF FetchFails, Continue
<1>4. Good(t)
  BY <1>2, FetchingReset
<1> HIDE DEF t
<1>5. Good(r)
  BY <1>4, LoopsGood
<1> HIDE DEF r
<1>6. QED
  BY <1>3, <1>5, LoopsGood

LEMMA FetchVerifiedGood ==
  ASSUME Good(node), NEW peer, NEW b \in Blocks, FetchVerified(b, peer)
  PROVE  Good(node')
<1> DEFINE f == [node.fetching EXCEPT !.applied = TRUE]
           t == [node EXCEPT !.fetching = f]
<1>1. /\ node \in States /\ Sound(node) /\ node.fetching \in Fetches
      /\ 0 < b /\ b <= node.best
      /\ node.fetching.kind = "range" \/ b = node.fetching.block
  BY StateFacts, BlockFacts DEF Good, FetchVerified, States
<1>2. node' = AddVerified(t, b, peer)
  BY DEF FetchVerified
<1>3. f \in Fetches /\ f.kind = node.fetching.kind /\ f.block = node.fetching.block
  BY <1>1, Zenon DEF Fetches
<1> HIDE DEF f
<1>4. t \in States
  BY <1>1, <1>3, ZenonT(60) DEF States
<1>5. Like(t, node) /\ t.last = node.last /\ t.fetching = f
  BY <1>1 DEF States, Like
<1>6. /\ Sound(t) /\ Held(t) = Held(node) /\ Regular(t) = Regular(node)
      /\ HeldWaits(node, Top) => HeldWaits(t, Top)
      /\ LastWaits(node) => LastWaits(t)
  BY <1>1, <1>4, <1>5, LikeSound
<1>7. ASSUME Regular(t) PROVE Waiting(t, b)
  <2>1. HeldWaits(t, Top) /\ LastWaits(t) /\ FetchWaits(node, 0)
    BY <1>6, <1>7 DEF Good, Waiting
  <2>2. ASSUME f.kind = "required"
        PROVE  f.block <= t.finalized \/ f.block \in Held(t) \/ (f.block = b /\ b \in Scheduled)
    <3>1. f.block = b /\ node.fetching # Idle
      <4>1. f.block = b
        BY <1>1, <1>3, <2>2
      <4>2. QED
        BY <4>1 DEF FetchVerified
    <3>2. \/ node.fetching.block <= node.finalized
          \/ node.fetching.block \in Held(node)
          \/ node.fetching.block \in Scheduled
      <4>1. node.required \in SUBSET Scheduled /\ 0 \notin Scheduled
        BY <1>1, BlockFacts DEF States
      <4>2. QED
        BY <1>3, <2>1, <2>2, <3>1, <4>1, Zenon DEF FetchWaits
    <3>3. QED
      BY <1>3, <1>5, <1>6, <3>1, <3>2 DEF Like
  <2>3. FetchWaits(t, b)
    BY <1>5, <2>2, Zenon DEF FetchWaits
  <2>4. QED
    BY <2>1, <2>3 DEF Waiting
<1>8. b <= t.best
  BY <1>1, <1>5 DEF Like
<1> HIDE DEF t
<1>9. QED
  BY <1>1, <1>2, <1>6, <1>7, <1>8, AddVerifiedSound DEF Good

LEMMA FetchDoneGood ==
  ASSUME Good(node), NEW peer, FetchDone(peer)
  PROVE  Good(node')
<1> DEFINE st == [node EXCEPT !.fetching = Idle]
           R == node.required \ {node.fetching.block}
           t == [st EXCEPT !.required = @ \ {node.fetching.block}]
           r == RequiredLoop(st, peer)
<1>1. /\ node \in States /\ Sound(node) /\ node.fetching \in Fetches
      /\ node.fetching # Idle /\ node.fetching.applied
  BY StateFacts DEF Good, FetchDone, States
<1>2. st = [node EXCEPT !.fetching = Idle, !.required = node.required]
  BY <1>1 DEF States
<1>3. Good(st)
  BY <1>2, FetchingReset
<1>4. CASE node.fetching.kind = "required"
  <2>1. t = [node EXCEPT !.fetching = Idle, !.required = R]
    BY <1>1 DEF States
  <2>2. Regular(node) => R = node.required
    <3> SUFFICES ASSUME Regular(node) PROVE node.fetching.block \notin node.required
      OBVIOUS
    <3>1. FetchWaits(node, 0)
      BY DEF Good, Waiting
    <3>2. 0 \notin Scheduled
      BY BlockFacts
    <3>3. node.fetching.block <= node.finalized \/ node.fetching.block \in Held(node)
      BY <1>1, <1>4, <3>1, <3>2, Zenon DEF FetchWaits
    <3>4. node.fetching.block \in Nat /\ node.finalized \in Nat
      BY <1>1, StateFacts, BlockFacts DEF Fetches
    <3>5. QED
      BY <1>1, <3>3, <3>4 DEF Sound
  <2>3. R \in SUBSET node.required
    OBVIOUS
  <2> HIDE DEF R
  <2>4. Good(t)
    BY <2>1, <2>2, <2>3, FetchingReset
  <2>5. node' = RequiredLoop(t, peer)
    BY <1>4 DEF FetchDone
  <2> HIDE DEF t
  <2>6. QED
    BY <2>4, <2>5, LoopsGood
<1>5. CASE node.fetching.kind \in {"possible", "range"}
  <2>1. node' \in {r, PossibleLoop(r, peer)}
    BY <1>5 DEF FetchDone, Continue
  <2> HIDE DEF st
  <2>2. Good(r)
    BY <1>3, LoopsGood
  <2> HIDE DEF r
  <2>3. QED
    BY <2>1, <2>2, LoopsGood
<1>6. QED
  BY <1>1, <1>4, <1>5 DEF Fetches

LEMMA WarpGood ==
  ASSUME Good(node), NEW b \in Blocks, Warp(b)
  PROVE  Good(node')
<1> DEFINE j == node.justified \cup {b}
           e == NextAuthorities(b)
           none == {}
<1>1. /\ node \in States /\ Sound(node) /\ node.finalized \in Nat /\ node.finalized \in Blocks
      /\ b \in Nat /\ node.finalized < b /\ Authorities(b) = NextAuthorities(node.finalized)
  <2>1. /\ node \in States /\ Sound(node) /\ node.finalized \in Nat
        /\ node.finalized \in Blocks /\ b \in Nat
    BY StateFacts, BlockFacts DEF Good
  <2>2. QED
    BY <2>1 DEF Warp
<1>2. /\ j \in SUBSET (1 .. Top) /\ e \in 0 .. Top /\ e \in Nat /\ e <= e
      /\ none \in SUBSET Scheduled
  <2>1. node.justified \in SUBSET (1 .. Top) /\ b \in 1 .. Top
    BY <1>1, BlockFacts DEF States
  <2>2. e \in 0 .. Top
    BY AuthorityFacts
  <2>3. QED
    BY <2>1, <2>2, BlockFacts
<1>3. node' = [node EXCEPT !.finalized = b, !.justified = j, !.base = b, !.best = b,
                           !.expected = e, !.required = none]
  BY DEF Warp
<1>4. ASSUME NEW c \in Scheduled, c <= b PROVE c \in j /\ NextAuthorities(c) <= e
  <2>1. c \in Blocks /\ c \in Nat
    BY BlockFacts
  <2>2. NextAuthorities(c) <= e
    BY <1>4, <2>1, AuthorityFacts
  <2>3. CASE c <= node.finalized
    BY <1>1, <2>2, <2>3, StateFacts DEF InStep
  <2>4. CASE node.finalized < c /\ c < b
    <3>1. /\ NextAuthorities(node.finalized) < NextAuthorities(c)
          /\ NextAuthorities(c) <= Authorities(b)
          /\ NextAuthorities(c) \in Nat /\ Authorities(b) \in Nat
      BY <1>1, <2>1, <2>4, AuthorityFacts
    <3>2. QED
      BY <1>1, <3>1
  <2>5. QED
    BY <1>1, <1>4, <2>1, <2>2, <2>3, <2>4
<1>5. \A c \in j : c <= b
  <2>1. \A c \in node.justified : c <= node.finalized /\ c \in Nat
    <3>1. node.justified \in SUBSET (1 .. Top)
      BY <1>1 DEF States
    <3>2. \A c \in node.justified : c <= node.finalized
      BY <1>1, Zenon DEF Sound, InStep
    <3>3. QED
      BY <3>1, <3>2
  <2>2. QED
    BY <1>1, <2>1
<1> HIDE DEF j, e, none
<1>6. node' \in States
  BY <1>1, <1>2, <1>3, ZenonT(60) DEF States
<1>7. /\ node'.finalized = b /\ node'.justified = j /\ node'.base = b /\ node'.best = b
      /\ node'.expected = e /\ node'.required = none /\ node'.verified = node.verified
  BY <1>1, <1>3 DEF States
<1>8. InStep(node')
  <2>1. b <= b /\ e <= NextAuthorities(b)
    BY <1>1, <1>2 DEF e
  <2>2. QED
    BY <1>4, <1>5, <1>7, <2>1 DEF InStep
<1>9. Sound(node')
  BY <1>1, <1>6, <1>7, <1>8 DEF Sound, none
<1>10. ~Regular(node')
  BY <1>1, <1>7 DEF Regular
<1>11. QED
  BY <1>9, <1>10 DEF Good

LEMMA RestartGood ==
  ASSUME Good(node), Restart
  PROVE  Good(node')
<1>1. Sound(node)
  BY DEF Good
<1>2. /\ node.finalized \in Blocks /\ node.base \in Blocks /\ node.best \in Blocks
      /\ node.base <= node.finalized /\ node.finalized <= node.best
      /\ node.justified \in SUBSET (1 .. Top) /\ InStep(node)
  BY <1>1, StateFacts DEF States
<1>3. QED
  BY <1>2, StartedGood DEF InStep, Restart

-----------------------------------------------------------------------------
(* The theorems                                                            *)

\* The invariant is inductive: every callback of the queue, every import, warp
\* sync and restart leads from one such state to another.
THEOREM QueueIsSound == Spec => []Inv
<1>1. Init => Inv
  <2> SUFFICES ASSUME Init PROVE Inv
    OBVIOUS
  <2>1. 0 \in Blocks /\ {} \in SUBSET (1 .. Top) /\ \A c \in Scheduled : ~(c <= 0)
    BY BlockFacts DEF Blocks
  <2>2. Good(node)
    BY <2>1, StartedGood DEF Init
  <2>3. QED
    BY <2>2 DEF Init, Inv, Good
<1>2. Inv /\ [Next]_vars => Inv'
  <2> SUFFICES ASSUME Inv, [Next]_vars PROVE Inv'
    OBVIOUS
  <2>0. Good(node) /\ sync \in {"headers", "blocks", "done"}
    BY DEF Inv, Good
  <2>1. CASE UNCHANGED vars
    BY <2>1 DEF vars, Inv, Sound, InStep, Held, Regular, Waiting, HeldWaits, LastWaits, FetchWaits
  <2>2. ASSUME NEW peer \in BOOLEAN, NewHead(peer) PROVE Inv'
    <3>1. sync' \in {"headers", "blocks", "done"}
      BY <2>0, <2>2 DEF NewHead
    <3>2. QED
      BY <2>0, <2>2, <3>1, NewHeadGood DEF Inv, Good
  <2>3. ASSUME NEW peer \in BOOLEAN, FetchFails(peer) PROVE Inv'
    BY <2>0, <2>3, FetchFailsGood DEF Inv, Good, FetchFails
  <2>4. ASSUME NEW peer \in BOOLEAN, FetchDone(peer) PROVE Inv'
    BY <2>0, <2>4, FetchDoneGood DEF Inv, Good, FetchDone
  <2>5. ASSUME NEW peer \in BOOLEAN, NEW b \in Blocks, Verified(b, peer) PROVE Inv'
    BY <2>0, <2>5, VerifiedGood DEF Inv, Good, Verified
  <2>6. ASSUME NEW peer \in BOOLEAN, NEW b \in Blocks, FetchVerified(b, peer) PROVE Inv'
    BY <2>0, <2>6, FetchVerifiedGood DEF Inv, Good, FetchVerified
  <2>7. CASE Synchronized
    <3>1. node' = node /\ sync' \in {"headers", "blocks", "done"}
      BY <2>7 DEF Synchronized
    <3>2. Good(node')
      BY <2>0, <3>1
    <3>3. QED
      BY <3>1, <3>2 DEF Inv, Good
  <2>8. CASE Restart
    <3>1. sync' \in {"headers", "blocks", "done"}
      BY <2>8 DEF Restart
    <3>2. QED
      BY <2>0, <2>8, <3>1, RestartGood DEF Inv, Good
  <2>9. ASSUME NEW b \in Blocks, Warp(b) PROVE Inv'
    BY <2>0, <2>9, WarpGood DEF Inv, Good, Warp
  <2>10. QED
    BY <2>1, <2>2, <2>3, <2>4, <2>5, <2>6, <2>7, <2>8, <2>9 DEF Next
<1>3. QED
  BY <1>1, <1>2, PTL DEF Spec

\* NoChangeSkipped: whatever the order in which justifications come, finalize
\* stores the justification of every scheduled change up to the block that it
\* finalizes, and expected_ stays in step with the block tree.
THEOREM ChangesAreNotSkipped == Spec => []NoChangeSkipped
<1>1. Inv => NoChangeSkipped
  <2> SUFFICES ASSUME Inv PROVE NoChangeSkipped
    OBVIOUS
  <2> DEFINE changes == {c \in Scheduled : c <= node.finalized}
  <2>1. Sound(node) /\ node \in States /\ InStep(node)
    BY StateFacts DEF Inv
  <2>2. /\ node.finalized \in Nat /\ node.base \in Nat /\ node.best \in Nat
        /\ node.base <= node.finalized /\ node.finalized <= node.best /\ node.best <= Top
        /\ node.expected \in Nat /\ node.expected <= NextAuthorities(node.finalized)
        /\ Top \in Nat
    BY <2>1, StateFacts, BlockFacts
  <2>3. TypeOK
    <3>1. node.justified \subseteq 1 .. node.finalized
      BY <2>1, <2>2 DEF States, InStep
    <3>2. node.best \in node.finalized .. Top /\ node.base \in 0 .. node.finalized
      BY <2>2
    <3>3. QED
      BY <2>1, <3>1, <3>2 DEF TypeOK, States, Fetches, Inv
  <2>4. changes \subseteq node.justified
    BY <2>1 DEF InStep
  <2>5. changes # {} => node.expected >= NextAuthorities(Max(changes))
    <3> SUFFICES ASSUME changes # {} PROVE node.expected >= NextAuthorities(Max(changes))
      OBVIOUS
    <3>1. changes \in SUBSET Nat /\ \A c \in changes : c <= node.finalized
      BY BlockFacts
    <3>2. Max(changes) \in changes
      BY <2>2, <3>1, MaxIsGreatest
    <3>3. Max(changes) \in Scheduled /\ Max(changes) <= node.finalized
      BY <3>2
    <3> HIDE DEF changes
    <3>4. NextAuthorities(Max(changes)) \in Nat
      BY <3>3, AuthorityFacts
    <3>5. NextAuthorities(Max(changes)) <= node.expected
      BY <2>1, <3>3 DEF InStep
    <3>6. QED
      BY <2>2, <3>4, <3>5
  <2>6. QED
    BY <2>2, <2>3, <2>4, <2>5 DEF NoChangeSkipped
<1>2. QED
  BY <1>1, QueueIsSound, PTL

\* HeldIsAwaited: requiredLoop fetches what is missing, and while a
\* justification is held in verified_ something that it waits for is required.
THEOREM WhatIsHeldIsAwaited == Spec => []HeldIsAwaited
<1>1. Inv => HeldIsAwaited
  <2> SUFFICES ASSUME Inv PROVE HeldIsAwaited
    OBVIOUS
  <2>1. Sound(node)
    BY DEF Inv
  <2>2. \A c \in node.required : c > node.finalized /\ c \notin Held(node)
    BY <2>1 DEF Sound
  <2>3. ASSUME node.base = 0, ForcedApart, node.required = {}
        PROVE  node.verified = {} /\ (node.last # Idle => Forced \cap 1 .. node.last # {})
    <3>1. HeldWaits(node, Top) /\ LastWaits(node)
      BY <2>3 DEF Inv, Regular, Waiting
    <3>2. Held(node) = {}
      <4> SUFFICES ASSUME Held(node) # {} PROVE FALSE
        OBVIOUS
      <4>1. Held(node) \in SUBSET Nat
        BY <2>1, HeldFacts DEF Held
      <4>2. PICK b \in Held(node) : \A c \in Held(node) : b <= c
        BY <4>1, LeastExists
      <4>3. PICK v \in node.verified : v.block = b
        BY <4>2 DEF Held
      <4>4. b \in Nat /\ b <= Top
        BY <2>1, <4>3, HeldFacts, BlockFacts
      <4>5. PICK p \in Scheduled : IsParent(p, b) /\ p \in Held(node)
        BY <2>3, <3>1, <4>3, <4>4, BlockFacts DEF HeldWaits
      <4>6. QED
        BY <4>2, <4>4, <4>5, BlockFacts DEF IsParent
    <3>3. node.verified = {}
      BY <3>2 DEF Held
    <3>4. QED
      BY <2>3, <3>1, <3>2, <3>3 DEF LastWaits
  <2>4. QED
    BY <2>2, <2>3 DEF HeldIsAwaited
<1>2. QED
  BY <1>1, QueueIsSound, PTL
=============================================================================
