------------------------------ MODULE ChainProof ------------------------------
(***************************************************************************)
(* What parent links that lead to the genesis give (Chain.tla): ancestry   *)
(* is a partial order in which the ancestors of a block are on one chain,  *)
(* and block numbers grow along it.                                        *)
(***************************************************************************)
EXTENDS Chain, DataLemmas

\* The path of a block starts with it and goes on with its parent's.
LEMMA PathFacts ==
  ASSUME NEW b \in Block
  PROVE  /\ Path[b] \in Seq(Block) /\ Len(Path[b]) \in Nat \ {0} /\ Path[b][1] = b
         /\ b = Genesis => Len(Path[b]) = 1
         /\ b # Genesis =>
              /\ Parent[b] \in Block
              /\ Len(Path[b]) = Len(Path[Parent[b]]) + 1
              /\ \A i \in 2 .. Len(Path[b]) : Path[b][i] = Path[Parent[b]][i - 1]
<1>1. Path[b] \in Seq(Block)
  BY ChainAssumption
<1>2. CASE b = Genesis
  <2>1. Path[b] = <<b>>
    BY <1>2, ChainAssumption
  <2>2. QED
    BY <1>1, <1>2, <2>1
<1>3. CASE b # Genesis
  <2>1. Parent[b] \in Block /\ Path[Parent[b]] \in Seq(Block)
    BY <1>3, ChainAssumption
  <2>2. Path[b] = <<b>> \o Path[Parent[b]]
    BY <1>3, ChainAssumption
  <2> DEFINE q == Path[Parent[b]]
  <2>3. /\ Len(<<b>> \o q) = Len(q) + 1 /\ (<<b>> \o q)[1] = b /\ Len(q) \in Nat
        /\ \A i \in 2 .. Len(q) + 1 : (<<b>> \o q)[i] = q[i - 1]
    <3>1. q \in Seq(Block)
      BY <2>1
    <3> HIDE DEF q
    <3>2. QED
      BY <3>1
  <2>4. QED
    BY <1>1, <1>3, <2>1, <2>2, <2>3
<1>4. QED
  BY <1>2, <1>3

\* From the i-th block on, the path is that block's path.
PathSuffix(b, i) ==
  /\ Len(Path[Path[b][i]]) = Len(Path[b]) - i + 1
  /\ \A k \in 1 .. Len(Path[b]) - i + 1 : Path[Path[b][i]][k] = Path[b][i + k - 1]

LEMMA PathSuffixes ==
  ASSUME NEW b \in Block, NEW i \in 1 .. Len(Path[b])
  PROVE  PathSuffix(b, i)
<1> DEFINE Bad == {n \in Nat : \E c \in Block : n \in 1 .. Len(Path[c]) /\ ~PathSuffix(c, n)}
<1> SUFFICES ASSUME Bad # {} PROVE FALSE
  <2>1. i \in Nat
    BY PathFacts
  <2>2. QED
    BY <2>1
<1>1. PICK n \in Bad : \A m \in Bad : n <= m
  BY LeastExists
<1>2. PICK c \in Block : n \in 1 .. Len(Path[c]) /\ ~PathSuffix(c, n)
  BY <1>1
<1>3. CASE n = 1
  <2>1. Path[c][1] = c /\ Len(Path[c]) \in Nat
    BY PathFacts
  <2>2. QED
    BY <1>2, <1>3, <2>1 DEF PathSuffix
<1>4. CASE n # 1
  <2> DEFINE p == Parent[c]
  <2>1. c # Genesis
    <3> SUFFICES ASSUME c = Genesis PROVE FALSE
      OBVIOUS
    <3>1. Len(Path[c]) = 1
      BY PathFacts
    <3>2. n \in 1 .. 1
      BY <1>2, <3>1
    <3>3. QED
      BY <1>4, <3>2
  <2>2. /\ p \in Block /\ Len(Path[c]) = Len(Path[p]) + 1 /\ Len(Path[p]) \in Nat
        /\ \A h \in 2 .. Len(Path[c]) : Path[c][h] = Path[p][h - 1]
    BY <2>1, PathFacts
  <2> HIDE DEF p
  <2>3. n - 1 \in 1 .. Len(Path[p]) /\ n - 1 \in Nat /\ n \in Nat
    BY <1>2, <1>4, <2>2
  <2>4. n - 1 \notin Bad
    BY <1>1, <2>3
  <2>5. PathSuffix(p, n - 1)
    BY <2>2, <2>3, <2>4
  <2>6. Path[c][n] = Path[p][n - 1]
    BY <1>2, <1>4, <2>2, <2>3
  <2>7. PathSuffix(c, n)
    <3>1. Len(Path[Path[c][n]]) = Len(Path[c]) - n + 1
      BY <2>2, <2>3, <2>5, <2>6 DEF PathSuffix
    <3>2. ASSUME NEW k \in 1 .. Len(Path[c]) - n + 1
          PROVE  Path[Path[c][n]][k] = Path[c][n + k - 1]
      <4>1. k \in 1 .. Len(Path[p]) - (n - 1) + 1
        BY <2>2, <2>3
      <4>2. Path[Path[p][n - 1]][k] = Path[p][n - 1 + k - 1]
        BY <2>5, <4>1 DEF PathSuffix
      <4>3. n + k - 1 \in 2 .. Len(Path[c]) /\ n + k - 1 - 1 = n - 1 + k - 1
        BY <1>4, <2>2, <2>3
      <4>4. Path[c][n + k - 1] = Path[p][n - 1 + k - 1]
        BY <2>2, <4>3
      <4>5. QED
        BY <2>6, <4>2, <4>4
    <3>3. QED
      BY <3>1, <3>2 DEF PathSuffix
  <2>8. QED
    BY <1>2, <2>7
<1>5. QED
  BY <1>3, <1>4

\* The path ends at the genesis.
LEMMA PathEnds ==
  ASSUME NEW b \in Block
  PROVE  Path[b][Len(Path[b])] = Genesis
<1> DEFINE Bad == {n \in Nat : \E c \in Block : n = Len(Path[c]) /\ Path[c][n] # Genesis}
<1> SUFFICES ASSUME Bad # {} PROVE FALSE
  <2>1. Len(Path[b]) \in Nat
    BY PathFacts
  <2>2. QED
    BY <2>1
<1>1. PICK n \in Bad : \A m \in Bad : n <= m
  BY LeastExists
<1>2. PICK c \in Block : n = Len(Path[c]) /\ Path[c][n] # Genesis
  BY <1>1
<1>3. c # Genesis
  BY <1>2, PathFacts
<1> DEFINE p == Parent[c]
<1>4. /\ p \in Block /\ n = Len(Path[p]) + 1 /\ Len(Path[p]) \in Nat \ {0}
      /\ Path[c][n] = Path[p][n - 1]
  <2>1. /\ p \in Block /\ Len(Path[c]) = Len(Path[p]) + 1
        /\ \A i \in 2 .. Len(Path[c]) : Path[c][i] = Path[p][i - 1]
    BY <1>3, PathFacts
  <2>2. Len(Path[p]) \in Nat \ {0}
    BY <2>1, PathFacts
  <2> HIDE DEF p
  <2>3. n = Len(Path[p]) + 1 /\ n \in 2 .. Len(Path[c])
    BY <1>2, <2>1, <2>2
  <2>4. QED
    BY <2>1, <2>2, <2>3
<1> HIDE DEF p
<1>5. Len(Path[p]) \notin Bad
  BY <1>1, <1>4
<1>6. QED
  BY <1>2, <1>4, <1>5

LEMMA HasAncestryIndex ==
  ASSUME NEW a \in Block, NEW b \in Block
  PROVE  HasAncestry(a, b) <=> \E i \in 1 .. Len(Path[b]) : a = Path[b][i]
BY DEF HasAncestry, Ancestors

\* Ancestry is a partial order with the genesis below all, the ancestors of a
\* block are on one chain, and numbers tell them apart.
LEMMA AncestryFacts ==
  /\ \A b \in Block : HasAncestry(b, b) /\ HasAncestry(Genesis, b)
  /\ \A a, b, c \in Block : HasAncestry(a, b) /\ HasAncestry(b, c) => HasAncestry(a, c)
  /\ \A a, b \in Block : HasAncestry(a, b) /\ HasAncestry(b, a) => a = b
  /\ \A a, b, c \in Block :
       HasAncestry(a, c) /\ HasAncestry(b, c) => HasAncestry(a, b) \/ HasAncestry(b, a)
<1>1. ASSUME NEW b \in Block PROVE HasAncestry(b, b) /\ HasAncestry(Genesis, b)
  <2>1. 1 \in 1 .. Len(Path[b]) /\ Len(Path[b]) \in 1 .. Len(Path[b]) /\ Path[b][1] = b
    BY PathFacts
  <2>2. QED
    BY <2>1, PathEnds, HasAncestryIndex, ChainAssumption
<1>2. ASSUME NEW a \in Block, NEW b \in Block, NEW c \in Block,
             HasAncestry(a, b), HasAncestry(b, c)
      PROVE  HasAncestry(a, c)
  <2>1. PICK i \in 1 .. Len(Path[b]) : a = Path[b][i]
    BY <1>2, HasAncestryIndex
  <2>2. PICK j \in 1 .. Len(Path[c]) : b = Path[c][j]
    BY <1>2, HasAncestryIndex
  <2>3. Len(Path[b]) = Len(Path[c]) - j + 1 /\ a = Path[c][j + i - 1]
    BY <2>1, <2>2, PathSuffixes DEF PathSuffix
  <2>4. j + i - 1 \in 1 .. Len(Path[c])
    BY <2>3, PathFacts
  <2>5. QED
    BY <2>3, <2>4, HasAncestryIndex
<1>3. ASSUME NEW a \in Block, NEW b \in Block, HasAncestry(a, b), HasAncestry(b, a)
      PROVE  a = b
  <2>1. PICK i \in 1 .. Len(Path[b]) : a = Path[b][i]
    BY <1>3, HasAncestryIndex
  <2>2. PICK j \in 1 .. Len(Path[a]) : b = Path[a][j]
    BY <1>3, HasAncestryIndex
  <2>3. Len(Path[a]) = Len(Path[b]) - i + 1 /\ Len(Path[b]) = Len(Path[a]) - j + 1
    BY <2>1, <2>2, PathSuffixes DEF PathSuffix
  <2>4. i = 1
    BY <2>3, PathFacts
  <2>5. QED
    BY <2>1, <2>4, PathFacts
<1>4. ASSUME NEW a \in Block, NEW b \in Block, NEW c \in Block,
             HasAncestry(a, c), HasAncestry(b, c)
      PROVE  HasAncestry(a, b) \/ HasAncestry(b, a)
  <2>1. PICK i \in 1 .. Len(Path[c]) : a = Path[c][i]
    BY <1>4, HasAncestryIndex
  <2>2. PICK j \in 1 .. Len(Path[c]) : b = Path[c][j]
    BY <1>4, HasAncestryIndex
  <2>3. Len(Path[c]) \in Nat /\ Len(Path[a]) \in Nat /\ Len(Path[b]) \in Nat
    BY PathFacts
  <2>4. CASE i <= j
    <3>1. j - i + 1 \in 1 .. Len(Path[c]) - i + 1
      BY <2>3, <2>4
    <3>2. Path[a][j - i + 1] = Path[c][i + (j - i + 1) - 1] /\ Len(Path[a]) = Len(Path[c]) - i + 1
      BY <2>1, <3>1, PathSuffixes DEF PathSuffix
    <3>3. i + (j - i + 1) - 1 = j
      OBVIOUS
    <3>4. QED
      BY <2>2, <3>1, <3>2, <3>3, HasAncestryIndex
  <2>5. CASE j <= i
    <3>1. i - j + 1 \in 1 .. Len(Path[c]) - j + 1
      BY <2>3, <2>5
    <3>2. Path[b][i - j + 1] = Path[c][j + (i - j + 1) - 1] /\ Len(Path[b]) = Len(Path[c]) - j + 1
      BY <2>2, <3>1, PathSuffixes DEF PathSuffix
    <3>3. j + (i - j + 1) - 1 = i
      OBVIOUS
    <3>4. QED
      BY <2>1, <3>1, <3>2, <3>3, HasAncestryIndex
  <2>6. QED
    BY <2>4, <2>5
<1>5. QED
  BY <1>1, <1>2, <1>3, <1>4

\* Block numbers are naturals that grow along a chain, by one from a parent to
\* its child.
LEMMA NumberFacts ==
  /\ \A b \in Block : Number[b] \in Nat
  /\ \A a, b \in Block : HasAncestry(a, b) => Number[a] <= Number[b]
  /\ \A a, b \in Block : HasAncestry(a, b) /\ Number[a] = Number[b] => a = b
<1>1. \A b \in Block : Number[b] = Len(Path[b]) - 1 /\ Len(Path[b]) \in Nat \ {0}
  BY PathFacts DEF Number
<1>2. ASSUME NEW a \in Block, NEW b \in Block, HasAncestry(a, b)
      PROVE  Number[a] <= Number[b] /\ (Number[a] = Number[b] => a = b)
  <2>1. PICK i \in 1 .. Len(Path[b]) : a = Path[b][i]
    BY <1>2, HasAncestryIndex
  <2>2. Len(Path[a]) = Len(Path[b]) - i + 1
    BY <2>1, PathSuffixes DEF PathSuffix
  <2>a. Number[a] = Len(Path[a]) - 1 /\ Number[b] = Len(Path[b]) - 1
    BY <1>1
  <2>b. Len(Path[a]) \in Nat \ {0} /\ Len(Path[b]) \in Nat \ {0}
    BY <1>1
  <2>3. Number[a] = Number[b] - i + 1 /\ Number[b] \in Nat
    BY <2>2, <2>a, <2>b
  <2>4. i = 1 => a = b
    BY <2>1, PathFacts
  <2>5. QED
    BY <2>1, <2>3, <2>4
<1>3. QED
  BY <1>1, <1>2

LEMMA ParentFacts ==
  ASSUME NEW b \in Block \ {Genesis}
  PROVE  Parent[b] \in Block /\ HasAncestry(Parent[b], b) /\ Number[b] = Number[Parent[b]] + 1
<1>1. /\ Parent[b] \in Block /\ Len(Path[b]) = Len(Path[Parent[b]]) + 1
      /\ Path[b][2] = Path[Parent[b]][1] /\ Path[Parent[b]][1] = Parent[b]
      /\ Len(Path[Parent[b]]) \in Nat \ {0}
  BY PathFacts
<1>2. 2 \in 1 .. Len(Path[b])
  BY <1>1
<1>3. QED
  BY <1>1, <1>2, HasAncestryIndex DEF Number
=============================================================================
