--------------------------- MODULE PvfWorkersProof ---------------------------
(***************************************************************************)
(* The bound on the processes and the single answer of PvfWorkers.tla, for *)
(* every set of jobs and every max_.                                       *)
(***************************************************************************)
EXTENDS PvfWorkers, DataLemmas

States ==
  [free : Seq(Codes), used : Nat, queues : [Kinds -> Seq(Job)],
   jobs : [Job -> [at : Stages, code : Codes]],
   answers : [Job -> Nat], late : SUBSET Job, undefined : BOOLEAN]

\* What findFree makes of the job when no worker is free.
NoWorker == [at |-> "code", code |-> None]

\* used_ counts the jobs in progress, but not one for which there was no
\* worker; that one has no code.  `spare` is the worker that is free again while
\* its job is not answered yet.
Counted(st, spare) ==
  /\ IsFiniteSet(Busy(st))
  /\ st.used + (IF st.undefined THEN 1 ELSE 0) = Cardinality(Busy(st))
  /\ ~st.undefined => st.used + Len(st.free) <= MaxWorkers + spare
  /\ st.undefined => \E i \in Job : st.jobs[i] = NoWorker

Waits(st, j, k, i) == i \in DOMAIN st.queues[k] /\ st.queues[k][i] = j

\* What AnsweredOnce says of one job; the code that is being written to its
\* worker is its own, which keeps that true.
OneWay(st, j) ==
  /\ \A k \in Kinds : \A i \in DOMAIN st.queues[k] :
       Waits(st, j, k, i) =>
         /\ st.jobs[j].at = "queued" /\ k = Kind[j]
         /\ \A h \in DOMAIN st.queues[k] : Waits(st, j, k, h) => h = i
  /\ st.jobs[j].at = "queued" =>
       \E i \in DOMAIN st.queues[Kind[j]] : Waits(st, j, Kind[j], i)
  /\ st.jobs[j].at = "call" => st.jobs[j].code = Code[j]
  /\ st.jobs[j].at = "code" /\ ~st.undefined => st.jobs[j].code = Code[j]
  /\ st.answers[j] = IF st.jobs[j].at = "done" THEN 1 ELSE 0

Sound(st, spare) ==
  st \in States /\ Counted(st, spare) /\ \A j \in Job : OneWay(st, j)

InProgress == {"accept", "config", "code", "call"}

-----------------------------------------------------------------------------
(* Busy                                                                    *)

\* A job that gets a Used is one more.
LEMMA BusyMore ==
  ASSUME NEW st \in States, NEW new \in States, NEW j \in Job,
         IsFiniteSet(Busy(st)),
         st.jobs[j].at \notin InProgress, new.jobs[j].at \in InProgress,
         \A i \in Job \ {j} : new.jobs[i] = st.jobs[i]
  PROVE  IsFiniteSet(Busy(new)) /\ Cardinality(Busy(new)) = Cardinality(Busy(st)) + 1
<1>1. Busy(new) = Busy(st) \cup {j} /\ j \notin Busy(st)
  BY DEF Busy, InProgress
<1>2. QED
  BY <1>1, OneMore

\* A job whose Used is destroyed is one less, and it was counted.
LEMMA BusyLess ==
  ASSUME NEW st \in States, NEW new \in States, NEW j \in Job,
         IsFiniteSet(Busy(st)),
         st.jobs[j].at \in InProgress, new.jobs[j].at \notin InProgress,
         \A i \in Job \ {j} : new.jobs[i] = st.jobs[i]
  PROVE  /\ IsFiniteSet(Busy(new))
         /\ Cardinality(Busy(new)) = Cardinality(Busy(st)) - 1
         /\ Cardinality(Busy(new)) \in Nat
<1>1. Busy(new) = Busy(st) \ {j} /\ j \in Busy(st)
  BY DEF Busy, InProgress
<1>2. QED
  BY <1>1, OneLess, CardinalityFacts

\* A job that moves on with its Used is counted as before.
LEMMA BusySame ==
  ASSUME NEW st \in States, NEW new \in States, NEW j \in Job,
         st.jobs[j].at \in InProgress <=> new.jobs[j].at \in InProgress,
         \A i \in Job \ {j} : new.jobs[i] = st.jobs[i]
  PROVE  Busy(new) = Busy(st)
BY DEF Busy, InProgress

\* The other jobs' places, stages and answers are as they were.
LEMMA OneWayKept ==
  ASSUME NEW st \in States, NEW new \in States, NEW i \in Job,
         OneWay(st, i), new.queues = st.queues, new.jobs[i] = st.jobs[i],
         new.answers[i] = st.answers[i], st.undefined => new.undefined
  PROVE  OneWay(new, i)
BY DEF OneWay, Waits

\* A job that does not wait is in no queue.
LEMMA NotQueued ==
  ASSUME NEW st \in States, NEW j \in Job, OneWay(st, j), st.jobs[j].at # "queued"
  PROVE  \A k \in Kinds : \A i \in DOMAIN st.queues[k] : ~Waits(st, j, k, i)
BY DEF OneWay

\* What is left to show of a job that is in no queue.
LEMMA OneWayAlone ==
  ASSUME NEW st \in States, NEW new \in States, NEW j \in Job,
         \A k \in Kinds : \A i \in DOMAIN st.queues[k] : ~Waits(st, j, k, i),
         new.queues = st.queues, new.jobs[j].at # "queued",
         new.jobs[j].at = "code" /\ ~new.undefined => new.jobs[j].code = Code[j],
         new.jobs[j].at = "call" => new.jobs[j].code = Code[j],
         new.answers[j] = IF new.jobs[j].at = "done" THEN 1 ELSE 0
  PROVE  OneWay(new, j)
<1>1. \A k \in Kinds : \A i \in DOMAIN new.queues[k] : ~Waits(new, j, k, i)
  BY DEF Waits
<1>2. QED
  BY <1>1, Zenon DEF OneWay

-----------------------------------------------------------------------------
(* Taking a worker                                                         *)

\* erase: one worker less.
LEMMA EraseFacts ==
  ASSUME NEW S, NEW s \in Seq(S), NEW i \in 1 .. Len(s)
  PROVE  Erase(s, i) \in Seq(S) /\ Len(Erase(s, i)) = Len(s) - 1
<1> DEFINE left == SubSeq(s, 1, i - 1)
           right == SubSeq(s, i + 1, Len(s))
<1>1. left \in Seq(S) /\ Len(left) = i - 1
  OBVIOUS
<1>2. right \in Seq(S) /\ Len(right) = Len(s) - i
  OBVIOUS
<1>3. Erase(s, i) = left \o right /\ Len(s) \in Nat
  BY DEF Erase
<1> HIDE DEF left, right
<1>4. left \o right \in Seq(S) /\ Len(left \o right) = Len(left) + Len(right)
  BY <1>1, <1>2
<1>5. QED
  BY <1>1, <1>2, <1>3, <1>4

\* What a job needs to be given a worker: it is not in progress, in no queue
\* (it is new, or was taken from the front) and not answered.
MayTake(st, j) ==
  /\ st.jobs[j].at \in {"new", "queued"}
  /\ \A k \in Kinds : \A i \in DOMAIN st.queues[k] : ~Waits(st, j, k, i)
  /\ st.answers[j] = 0

\* writeCode for a job that waits for it: the job goes on to "code", or to
\* "call" with its own code.
LEMMA WriteCodeFacts ==
  ASSUME NEW st \in States, NEW j \in Job, NEW code \in Codes
  PROVE  LET new == WriteCode(st, j, code)
         IN  /\ new \in States
             /\ new.jobs[j].at \in {"code", "call"} /\ new.jobs[j].code = Code[j]
             /\ \A i \in Job \ {j} : new.jobs[i] = st.jobs[i]
             /\ new.free = st.free /\ new.used = st.used /\ new.queues = st.queues
             /\ new.answers = st.answers /\ new.undefined = st.undefined
<1>1. Code[j] \in Codes
  BY DEF Codes
<1>2. CASE code = Code[j]
  BY <1>1, <1>2, Zenon DEF WriteCode, States, Stages
<1>3. CASE code # Code[j]
  BY <1>1, <1>3, Zenon DEF WriteCode, States, Stages
<1>4. QED
  BY <1>2, <1>3

\* findFree takes one worker for the job, and keeps the sum of the free and
\* the used ones; with no free worker the process is undefined, and the job is
\* the one that used_ does not count.
LEMMA FindFreeFacts ==
  ASSUME NEW st \in States, NEW j \in Job, NEW spare \in Nat,
         ~st.undefined, Counted(st, spare), MayTake(st, j),
         \A i \in Job \ {j} : OneWay(st, i)
  PROVE  LET new == FindFree(st, j)
         IN  Sound(new, spare) /\ \A i \in Job \ {j} : new.jobs[i] = st.jobs[i]
<1> DEFINE new == FindFree(st, j)
<1>1. CASE st.free = <<>>
  <2>1. new = [st EXCEPT !.undefined = TRUE, !.jobs[j] = [at |-> "code", code |-> None]]
    BY <1>1 DEF FindFree
  <2>2. new \in States
    <3>1. [at |-> "code", code |-> None] \in [at : Stages, code : Codes]
      BY DEF Stages, Codes
    <3>2. [st.jobs EXCEPT ![j] = [at |-> "code", code |-> None]]
            \in [Job -> [at : Stages, code : Codes]]
      BY <3>1 DEF States
    <3>3. QED
      BY <2>1, <3>2, Zenon DEF States
  <2>3. /\ new.undefined /\ new.used = st.used /\ new.queues = st.queues
        /\ new.answers = st.answers /\ new.jobs[j] = NoWorker /\ new.jobs[j].at = "code"
        /\ \A i \in Job \ {j} : new.jobs[i] = st.jobs[i]
    BY <2>1 DEF States, NoWorker
  <2>4. Counted(new, spare)
    <3>1. IsFiniteSet(Busy(new)) /\ Cardinality(Busy(new)) = Cardinality(Busy(st)) + 1
      BY <2>2, <2>3, BusyMore DEF Counted, MayTake, InProgress
    <3>2. st.used = Cardinality(Busy(st)) /\ st.used \in Nat
      BY DEF Counted, States
    <3>3. QED
      BY <2>3, <3>1, <3>2 DEF Counted
  <2>5. \A i \in Job \ {j} : OneWay(new, i)
    BY <2>2, <2>3, OneWayKept
  <2>6. OneWay(new, j)
    BY <2>2, <2>3, OneWayAlone DEF MayTake
  <2>7. QED
    BY <2>2, <2>3, <2>4, <2>5, <2>6 DEF Sound
<1>2. CASE st.free # <<>>
  <2> DEFINE same == {i \in DOMAIN st.free : st.free[i] = Code[j]}
             at == IF same # {} THEN Min(same) ELSE 1
             taken == [st EXCEPT !.free = Erase(@, at), !.used = @ + 1]
  <2>1. at \in 1 .. Len(st.free)
    <3>1. same \in SUBSET Nat /\ DOMAIN st.free = 1 .. Len(st.free) /\ Len(st.free) > 0
      BY <1>2 DEF States
    <3>2. CASE same = {}
      BY <3>1, <3>2
    <3>3. CASE same # {}
      <4>1. Min(same) \in same
        BY <3>1, <3>3, MinIsLeast, Zenon
      <4>2. QED
        BY <3>1, <3>3, <4>1
    <3>4. QED
      BY <3>2, <3>3
  <2>2. st.free[at] \in Codes
    BY <2>1 DEF States
  <2>3. /\ taken \in States /\ Len(taken.free) = Len(st.free) - 1
        /\ taken.used = st.used + 1
        /\ taken.jobs = st.jobs /\ taken.queues = st.queues
        /\ taken.answers = st.answers /\ taken.undefined = st.undefined
    <3> DEFINE rest == Erase(st.free, at)
    <3>1. rest \in Seq(Codes) /\ Len(rest) = Len(st.free) - 1
      <4> HIDE DEF at
      <4>1. QED
        BY <2>1, EraseFacts DEF States
    <3>2. taken = [st EXCEPT !.free = rest, !.used = st.used + 1]
      OBVIOUS
    <3> HIDE DEF rest, taken
    <3>3. st.used + 1 \in Nat
      BY DEF States
    <3>4. taken \in States
      BY <3>1, <3>2, <3>3, Zenon DEF States
    <3>5. taken.free = rest /\ taken.used = st.used + 1
      BY <3>2 DEF States
    <3>6. /\ taken.jobs = st.jobs /\ taken.queues = st.queues
          /\ taken.answers = st.answers /\ taken.undefined = st.undefined
      BY <3>2 DEF States
    <3>7. QED
      BY <3>1, <3>4, <3>5, <3>6
  <2>4. new = WriteCode(taken, j, st.free[at])
    BY <1>2 DEF FindFree
  <2> HIDE DEF at, taken
  <2>5. /\ new \in States
        /\ new.jobs[j].at \in {"code", "call"} /\ new.jobs[j].code = Code[j]
        /\ \A i \in Job \ {j} : new.jobs[i] = st.jobs[i]
        /\ Len(new.free) = Len(st.free) - 1 /\ new.used = st.used + 1
        /\ new.queues = st.queues /\ new.answers = st.answers /\ ~new.undefined
    BY <2>2, <2>3, <2>4, WriteCodeFacts
  <2>6. Counted(new, spare)
    <3>1. IsFiniteSet(Busy(new)) /\ Cardinality(Busy(new)) = Cardinality(Busy(st)) + 1
      BY <2>5, BusyMore DEF Counted, MayTake, InProgress
    <3>2. st.used = Cardinality(Busy(st)) /\ st.used + Len(st.free) <= MaxWorkers + spare
      BY DEF Counted, States
    <3>3. st.used \in Nat /\ Len(st.free) \in Nat /\ MaxWorkers \in Nat
      BY JobAssumption DEF States
    <3>4. QED
      BY <2>5, <3>1, <3>2, <3>3 DEF Counted
  <2>7. \A i \in Job \ {j} : OneWay(new, i)
    BY <2>5, OneWayKept
  <2>8. OneWay(new, j)
    BY <2>5, OneWayAlone DEF MayTake
  <2>9. QED
    BY <2>5, <2>6, <2>7, <2>8 DEF Sound
<1>3. QED
  BY <1>1, <1>2

\* dequeue of one kind: the front of the queue gets a worker, no other job's
\* stage changes, and a job in progress stays where it is.
LEMMA DequeueKindFacts ==
  ASSUME NEW st, NEW spare \in Nat, NEW kind \in Kinds, Sound(st, spare)
  PROVE  LET new == DequeueKind(st, kind)
         IN  /\ Sound(new, spare)
             /\ \A i \in Job : st.jobs[i].at # "queued" => new.jobs[i] = st.jobs[i]
<1>1. CASE st.undefined \/ st.queues[kind] = <<>>
  BY <1>1 DEF DequeueKind
<1>2. CASE ~st.undefined /\ st.queues[kind] # <<>>
  <2> DEFINE q == st.queues[kind]
             j == Head(q)
             shorter == [st EXCEPT !.queues[kind] = Tail(@)]
  <2>1. /\ st \in States /\ Counted(st, spare)
        /\ \A i \in Job : OneWay(st, i)
    BY DEF Sound
  <2>2. /\ q \in Seq(Job) /\ Len(q) > 0 /\ 1 \in DOMAIN q /\ j = q[1] /\ j \in Job
        /\ Tail(q) \in Seq(Job) /\ Len(Tail(q)) = Len(q) - 1
        /\ \A i \in DOMAIN Tail(q) : i + 1 \in DOMAIN q /\ Tail(q)[i] = q[i + 1]
        /\ \A i \in DOMAIN q : i # 1 => i - 1 \in DOMAIN Tail(q)
        /\ DOMAIN q \subseteq Nat /\ DOMAIN Tail(q) \subseteq Nat \ {0}
    BY <1>2, <2>1 DEF States
  <2>3. /\ shorter \in States
        /\ shorter.queues[kind] = Tail(q)
        /\ \A k \in Kinds \ {kind} : shorter.queues[k] = st.queues[k]
        /\ shorter.jobs = st.jobs /\ shorter.used = st.used /\ shorter.free = st.free
        /\ shorter.answers = st.answers /\ shorter.undefined = st.undefined
    BY <2>1, <2>2, Zenon DEF States
  <2> HIDE DEF shorter, q, j
  <2>4. Counted(shorter, spare)
    BY <2>1, <2>3 DEF Counted, Busy
  <2>5. /\ st.jobs[j].at = "queued" /\ kind = Kind[j]
        /\ \A h \in DOMAIN q : q[h] = j => h = 1
        /\ st.answers[j] = 0
    <3>1. OneWay(st, j) /\ Waits(st, j, kind, 1)
      BY <2>1, <2>2 DEF Waits, q
    <3>2. /\ st.jobs[j].at = "queued" /\ kind = Kind[j]
          /\ \A h \in DOMAIN q : Waits(st, j, kind, h) => h = 1
      BY <2>2, <3>1 DEF OneWay, q
    <3>3. st.answers[j] = 0
      BY <3>1, <3>2 DEF OneWay
    <3>4. QED
      BY <3>2, <3>3 DEF Waits, q
  <2>6. MayTake(shorter, j)
    <3>1. ASSUME NEW k \in Kinds, NEW i \in DOMAIN shorter.queues[k], Waits(shorter, j, k, i)
          PROVE  FALSE
      <4>1. CASE k = kind
        <5>1. i \in DOMAIN Tail(q) /\ q[i + 1] = j
          BY <2>2, <2>3, <3>1, <4>1 DEF Waits
        <5>2. QED
          BY <2>2, <2>5, <5>1
      <4>2. CASE k # kind
        <5>1. Waits(st, j, k, i) /\ i \in DOMAIN st.queues[k]
          BY <2>3, <3>1, <4>2 DEF Waits
        <5>2. QED
          BY <2>1, <2>2, <2>5, <4>2, <5>1 DEF OneWay
      <4>3. QED
        BY <4>1, <4>2
    <3>2. QED
      BY <2>3, <2>5, <3>1 DEF MayTake
  <2>7. ASSUME NEW i \in Job \ {j}
        PROVE  OneWay(shorter, i)
    <3>1. OneWay(st, i)
      BY <2>1
    <3>2. ASSUME NEW k \in Kinds, NEW p \in DOMAIN shorter.queues[k], Waits(shorter, i, k, p)
          PROVE  /\ st.jobs[i].at = "queued" /\ k = Kind[i]
                 /\ \A h \in DOMAIN shorter.queues[k] : Waits(shorter, i, k, h) => h = p
      <4>1. CASE k = kind
        <5>1. Waits(st, i, k, p + 1)
          BY <2>2, <2>3, <3>2, <4>1, Zenon DEF Waits, q
        <5>2. ASSUME NEW h \in DOMAIN shorter.queues[k], Waits(shorter, i, k, h)
              PROVE  h = p
          <6>1. Waits(st, i, k, h + 1)
            BY <2>2, <2>3, <5>2, <4>1, Zenon DEF Waits, q
          <6>2. h + 1 = p + 1
            BY <3>1, <5>1, <6>1 DEF OneWay, Waits
          <6>3. QED
            BY <6>2, <2>2, <2>3, <4>1
        <5>3. QED
          BY <3>1, <5>1, <5>2 DEF OneWay, Waits
      <4>2. CASE k # kind
        BY <2>3, <3>1, <3>2, <4>2 DEF OneWay, Waits
      <4>3. QED
        BY <4>1, <4>2
    <3>3. ASSUME st.jobs[i].at = "queued"
          PROVE  \E p \in DOMAIN shorter.queues[Kind[i]] : Waits(shorter, i, Kind[i], p)
      <4>0. Kind[i] \in Kinds
        BY JobAssumption
      <4>1. PICK p \in DOMAIN st.queues[Kind[i]] : Waits(st, i, Kind[i], p)
        BY <3>1, <3>3 DEF OneWay
      <4>2. CASE Kind[i] = kind
        <5>1. p \in DOMAIN q /\ q[p] = i /\ p # 1
          BY <4>1, <4>2, <2>2 DEF Waits, q
        <5>2. p - 1 \in DOMAIN Tail(q) /\ Tail(q)[p - 1] = q[p]
          BY <5>1, <2>2
        <5>3. QED
          BY <5>1, <5>2, <2>3, <4>2, Zenon DEF Waits
      <4>3. CASE Kind[i] # kind
        BY <4>0, <4>1, <4>3, <2>3 DEF Waits
      <4>4. QED
        BY <4>2, <4>3
    <3>4. QED
      BY <2>3, <3>1, <3>2, <3>3 DEF OneWay
  <2>8. DequeueKind(st, kind) = FindFree(shorter, j)
    BY <1>2 DEF DequeueKind, shorter, j, q
  <2>9. /\ Sound(FindFree(shorter, j), spare)
        /\ \A i \in Job \ {j} : FindFree(shorter, j).jobs[i] = shorter.jobs[i]
    BY <1>2, <2>2, <2>3, <2>4, <2>6, <2>7, FindFreeFacts
  <2>10. QED
    BY <2>3, <2>5, <2>8, <2>9
<1>3. QED
  BY <1>1, <1>2

-----------------------------------------------------------------------------
(* Answering                                                               *)

\* A job in progress is answered and its Used destroyed: used_ goes down by
\* one and stays a natural number, and one process less is allowed for.
LEMMA AnswerFacts ==
  ASSUME NEW st, NEW spare \in Nat, NEW fewer \in Nat, NEW j \in Job,
         Sound(st, spare), st.jobs[j].at \in InProgress,
         st.undefined => st.jobs[j] # NoWorker,
         spare <= fewer + 1
  PROVE  Sound(Answer(st, j), fewer)
<1> DEFINE new == Answer(st, j)
<1>1. /\ st \in States /\ Counted(st, spare) /\ \A i \in Job : OneWay(st, i)
  BY DEF Sound
<1>2. st.answers[j] = 0 /\ st.jobs[j].at \notin {"done", "queued"}
  BY <1>1 DEF OneWay, InProgress
<1>3. st.used - 1 \in Nat
  <2>1. j \in Busy(st) /\ IsFiniteSet(Busy(st)) /\ st.used \in Nat
    BY <1>1 DEF Busy, InProgress, Counted, States
  <2>2. CASE ~st.undefined
    <3>1. Cardinality(Busy(st)) \in Nat /\ Cardinality(Busy(st)) # 0
      BY <2>1, CardinalityFacts
    <3>2. st.used = Cardinality(Busy(st))
      BY <1>1, <2>1, <2>2 DEF Counted
    <3>3. QED
      BY <3>1, <3>2
  <2>3. CASE st.undefined
    <3>1. PICK i \in Job : st.jobs[i] = NoWorker
      BY <1>1, <2>3 DEF Counted
    <3>a. i \in Busy(st) /\ i # j
      BY <2>3, <3>1 DEF Busy, NoWorker
    <3>2. /\ IsFiniteSet(Busy(st) \ {j})
          /\ Cardinality(Busy(st) \ {j}) = Cardinality(Busy(st)) - 1
      BY <2>1, OneLess, Zenon
    <3>b. Busy(st) \ {j} # {}
      BY <3>a
    <3>3. Cardinality(Busy(st) \ {j}) \in Nat /\ Cardinality(Busy(st) \ {j}) # 0
      <4> DEFINE T == Busy(st) \ {j}
      <4>1. IsFiniteSet(T) /\ T # {}
        BY <3>2, <3>b
      <4> HIDE DEF T
      <4>2. Cardinality(T) \in Nat /\ Cardinality(T) # 0
        BY <4>1, CardinalityFacts
      <4>3. QED
        BY <4>2 DEF T
    <3>4. st.used + 1 = Cardinality(Busy(st)) /\ Cardinality(Busy(st)) \in Nat
      BY <1>1, <2>1, <2>3, CardinalityFacts DEF Counted
    <3>5. QED
      BY <2>1, <3>2, <3>3, <3>4
  <2>4. QED
    BY <2>2, <2>3
<1>4. new \in States
  <2>1. [at |-> "done", code |-> None] \in [at : Stages, code : Codes]
    BY DEF Stages, Codes
  <2>2. [st.jobs EXCEPT ![j] = [at |-> "done", code |-> None]]
          \in [Job -> [at : Stages, code : Codes]]
    BY <1>1, <2>1 DEF States
  <2>3. [st.answers EXCEPT ![j] = st.answers[j] + 1] \in [Job -> Nat]
    BY <1>1 DEF States
  <2>4. QED
    BY <1>1, <1>3, <2>2, <2>3, Zenon DEF Answer, States
<1>5. /\ new.jobs[j].at = "done" /\ new.answers[j] = 1
      /\ new.used = st.used - 1
  BY <1>1, <1>2 DEF Answer, States
<1>6. /\ \A i \in Job \ {j} : new.jobs[i] = st.jobs[i] /\ new.answers[i] = st.answers[i]
      /\ new.queues = st.queues /\ new.free = st.free
  BY <1>1 DEF Answer, States
<1>7. new.undefined = st.undefined
  BY <1>1 DEF Answer, States
<1> HIDE DEF new
<1>8. Counted(new, fewer)
  <2>1. /\ IsFiniteSet(Busy(new)) /\ Cardinality(Busy(new)) = Cardinality(Busy(st)) - 1
    BY <1>1, <1>4, <1>5, <1>6, BusyLess DEF Counted, InProgress
  <2>2. /\ st.used \in Nat /\ Len(st.free) \in Nat /\ MaxWorkers \in Nat
        /\ Cardinality(Busy(st)) \in Nat
    BY <1>1, JobAssumption, CardinalityFacts DEF States, Counted
  <2>3. new.undefined => \E i \in Job : new.jobs[i] = NoWorker
    BY <1>1, <1>6, <1>7 DEF Counted
  <2>4. new.used + (IF new.undefined THEN 1 ELSE 0) = Cardinality(Busy(new))
    BY <1>1, <1>5, <1>7, <2>1, <2>2 DEF Counted
  <2>5. ~new.undefined => new.used + Len(new.free) <= MaxWorkers + fewer
    BY <1>1, <1>5, <1>6, <1>7, <2>2 DEF Counted
  <2>6. QED
    BY <2>1, <2>3, <2>4, <2>5 DEF Counted
<1>9. \A i \in Job \ {j} : OneWay(new, i)
  BY <1>1, <1>4, <1>6, <1>7, OneWayKept
<1>10. OneWay(new, j)
  BY <1>1, <1>2, <1>4, <1>5, <1>6, NotQueued, OneWayAlone
<1>11. QED
  BY <1>4, <1>8, <1>9, <1>10 DEF Sound, new

\* The callback of `call`: the worker is free for a moment in which there may
\* be one process too many, jobs are taken from the queues, and the job is
\* answered.
LEMMA SucceedFacts ==
  ASSUME NEW st, NEW j \in Job,
         Sound(st, 0), ~st.undefined, st.jobs[j].at = "call"
  PROVE  Sound(Succeed(st, j), 0)
<1> DEFINE freed == [st EXCEPT !.free = Append(@, st.jobs[j].code)]
           first == DequeueKind(freed, "Approval")
           both == DequeueKind(first, "Backing")
<1>1. /\ st \in States /\ Counted(st, 0) /\ \A i \in Job : OneWay(st, i)
  BY DEF Sound
<1>2. /\ freed \in States /\ Len(freed.free) = Len(st.free) + 1
      /\ freed.jobs = st.jobs /\ freed.queues = st.queues /\ freed.answers = st.answers
      /\ freed.used = st.used /\ ~freed.undefined
  <2>1. st.jobs[j].code \in Codes
    BY <1>1 DEF States
  <2> DEFINE more == Append(st.free, st.jobs[j].code)
  <2>2. more \in Seq(Codes) /\ Len(more) = Len(st.free) + 1
    BY <1>1, <2>1 DEF States
  <2>3. freed = [st EXCEPT !.free = more]
    OBVIOUS
  <2> HIDE DEF more, freed
  <2>4. freed \in States /\ freed.free = more
    BY <1>1, <2>2, <2>3, Zenon DEF States
  <2>5. QED
    BY <1>1, <2>2, <2>3, <2>4, Zenon DEF States
<1> HIDE DEF freed
<1>3. Sound(freed, 1)
  <2>1. Busy(freed) = Busy(st)
    BY <1>2 DEF Busy
  <2>2. st.used \in Nat /\ Len(st.free) \in Nat /\ MaxWorkers \in Nat
    BY <1>1, JobAssumption DEF States
  <2>3. Counted(freed, 1)
    BY <1>1, <1>2, <2>1, <2>2 DEF Counted
  <2>4. QED
    BY <1>1, <1>2, <2>3, OneWayKept DEF Sound
<1>4. Sound(first, 1) /\ first.jobs[j] = st.jobs[j]
  <2>1. "Approval" \in Kinds
    BY DEF Kinds
  <2>2. QED
    BY <1>2, <1>3, <2>1, DequeueKindFacts
<1> HIDE DEF first
<1>5. Sound(both, 1) /\ both.jobs[j] = st.jobs[j]
  <2>1. "Backing" \in Kinds
    BY DEF Kinds
  <2>2. QED
    BY <1>4, <2>1, DequeueKindFacts
<1> HIDE DEF both
<1>6. Sound(Answer(both, j), 0)
  <2>1. both.jobs[j].at \in InProgress /\ both.jobs[j] # NoWorker
    BY <1>5 DEF InProgress, NoWorker
  <2>2. QED
    BY <1>5, <2>1, AnswerFacts
<1>7. QED
  BY <1>6 DEF Succeed, Dequeue, freed, first, both

\* Whether a late answer is still to come is not part of what is counted.
LEMMA LateFacts ==
  ASSUME NEW st, NEW late \in SUBSET Job, Sound(st, 0)
  PROVE  Sound([st EXCEPT !.late = late], 0)
<1> DEFINE new == [st EXCEPT !.late = late]
<1>1. /\ st \in States /\ Counted(st, 0) /\ \A i \in Job : OneWay(st, i)
  BY DEF Sound
<1>2. new \in States
  BY <1>1, Zenon DEF States
<1>3. /\ new.jobs = st.jobs /\ new.queues = st.queues /\ new.answers = st.answers
      /\ new.free = st.free /\ new.used = st.used
  BY <1>1 DEF States
<1>4. new.undefined = st.undefined
  BY <1>1 DEF States
<1> HIDE DEF new
<1>5. Counted(new, 0)
  BY <1>1, <1>3, <1>4 DEF Counted, Busy
<1>6. QED
  BY <1>1, <1>2, <1>3, <1>4, <1>5, OneWayKept, Zenon DEF Sound, new

\* A job that keeps its Used moves on to `entry`.
LEMMA MoveFacts ==
  ASSUME NEW st, NEW j \in Job, NEW entry \in [at : Stages, code : Codes],
         Sound(st, 0), ~st.undefined,
         st.jobs[j].at \in InProgress, entry.at \in InProgress,
         entry.at \in {"code", "call"} => entry.code = Code[j]
  PROVE  Sound([st EXCEPT !.jobs[j] = entry], 0)
<1> DEFINE new == [st EXCEPT !.jobs[j] = entry]
<1>1. /\ st \in States /\ Counted(st, 0) /\ \A i \in Job : OneWay(st, i)
  BY DEF Sound
<1>2. new \in States /\ new.jobs[j] = entry
  BY <1>1, Zenon DEF States
<1>3. /\ \A i \in Job \ {j} : new.jobs[i] = st.jobs[i]
      /\ new.queues = st.queues /\ new.answers = st.answers
      /\ new.free = st.free /\ new.used = st.used /\ ~new.undefined
  BY <1>1 DEF States
<1> HIDE DEF new
<1>4. Busy(new) = Busy(st)
  BY <1>1, <1>2, <1>3, BusySame
<1>5. Counted(new, 0)
  BY <1>1, <1>3, <1>4 DEF Counted
<1>6. \A i \in Job \ {j} : OneWay(new, i)
  BY <1>1, <1>2, <1>3, OneWayKept
<1>7. OneWay(new, j)
  <2>1. st.jobs[j].at # "queued" /\ entry.at # "queued" /\ st.answers[j] = 0 /\ entry.at # "done"
    BY <1>1 DEF OneWay, InProgress
  <2>2. QED
    BY <1>1, <1>2, <1>3, <2>1, NotQueued, OneWayAlone
<1>8. QED
  BY <1>2, <1>5, <1>6, <1>7 DEF Sound, new

-----------------------------------------------------------------------------
(* The actions                                                             *)

Inv == Sound(workers, 0)

LEMMA InitInv == Init => Inv
<1> SUFFICES ASSUME Init PROVE Inv
  OBVIOUS
<1>1. workers \in States
  BY DEF Init, States, Stages, Codes, Kinds
<1>2. Busy(workers) = {}
  BY DEF Init, Busy
<1>3. Counted(workers, 0)
  <2>1. workers.used = 0 /\ Len(workers.free) = 0 /\ workers.undefined = FALSE
    BY DEF Init
  <2>2. IsFiniteSet(Busy(workers)) /\ Cardinality(Busy(workers)) = 0
    BY <1>2, EmptyIsFinite
  <2>3. QED
    BY <2>1, <2>2, JobAssumption DEF Counted
<1>4. \A j \in Job : OneWay(workers, j)
  BY DEF Init, OneWay, Waits
<1>5. QED
  BY <1>1, <1>3, <1>4 DEF Inv, Sound

LEMMA ExecuteInv == ASSUME Inv, NEW j \in Job, Execute(j) PROVE Inv'
<1>1. /\ workers \in States /\ Counted(workers, 0) /\ \A i \in Job : OneWay(workers, i)
      /\ ~workers.undefined /\ workers.jobs[j].at = "new"
  BY DEF Inv, Sound, Execute, At
<1>2. MayTake(workers, j)
  BY <1>1 DEF MayTake, OneWay
<1>3. CASE workers.free # <<>>
  <2>1. workers' = FindFree(workers, j)
    BY <1>3 DEF Execute
  <2>2. Sound(FindFree(workers, j), 0)
    BY <1>1, <1>2, FindFreeFacts
  <2>3. QED
    BY <2>1, <2>2 DEF Inv
<1>4. CASE workers.free = <<>> /\ MayStart(workers)
  <2> DEFINE entry == [at |-> "accept", code |-> None]
  <2>1. workers' = [workers EXCEPT !.used = @ + 1, !.jobs[j] = entry]
    BY <1>4 DEF Execute
  <2>2. /\ [workers.jobs EXCEPT ![j] = entry] \in [Job -> [at : Stages, code : Codes]]
        /\ workers.used + 1 \in Nat
    BY <1>1 DEF States, Stages, Codes
  <2>3. workers' \in States /\ workers'.jobs[j].at = "accept"
    BY <1>1, <2>1, <2>2, Zenon DEF States
  <2>4. /\ \A i \in Job \ {j} : workers'.jobs[i] = workers.jobs[i]
        /\ workers'.queues = workers.queues /\ workers'.answers = workers.answers
        /\ workers'.free = workers.free /\ workers'.used = workers.used + 1
        /\ ~workers'.undefined
    BY <1>1, <2>1 DEF States
  <2>5. Counted(workers', 0)
    <3>1. /\ IsFiniteSet(Busy(workers'))
          /\ Cardinality(Busy(workers')) = Cardinality(Busy(workers)) + 1
      BY <1>1, <2>3, <2>4, BusyMore DEF Counted, InProgress
    <3>2. /\ workers.used = Cardinality(Busy(workers)) /\ workers.used \in Nat
          /\ workers.used < MaxWorkers /\ MaxWorkers \in Nat /\ Len(workers.free) = 0
      BY <1>1, <1>4, JobAssumption DEF Counted, States, MayStart
    <3>3. QED
      BY <2>4, <3>1, <3>2 DEF Counted
  <2>6. \A i \in Job \ {j} : OneWay(workers', i)
    BY <1>1, <2>3, <2>4, OneWayKept
  <2>7. OneWay(workers', j)
    BY <1>1, <1>2, <2>3, <2>4, OneWayAlone DEF MayTake
  <2>8. QED
    BY <2>3, <2>5, <2>6, <2>7 DEF Inv, Sound
<1>5. CASE workers.free = <<>> /\ ~MayStart(workers)
  <2> DEFINE entry == [at |-> "queued", code |-> None]
             q == workers.queues[Kind[j]]
  <2>1. workers' = [workers EXCEPT !.queues[Kind[j]] = Append(@, j), !.jobs[j] = entry]
    BY <1>5 DEF Execute
  <2>2. Kind[j] \in Kinds /\ q \in Seq(Job)
    BY <1>1, JobAssumption DEF States
  <2>3. /\ Append(q, j) \in Seq(Job) /\ Len(q) + 1 \in DOMAIN Append(q, j)
        /\ \A p \in DOMAIN Append(q, j) :
             Append(q, j)[p] = IF p \in DOMAIN q THEN q[p] ELSE j
        /\ \A p \in DOMAIN Append(q, j) : p \notin DOMAIN q => p = Len(q) + 1
        /\ Len(q) + 1 \notin DOMAIN q
        /\ DOMAIN q \subseteq DOMAIN Append(q, j)
    BY <2>2
  <2>4. /\ [workers.jobs EXCEPT ![j] = entry] \in [Job -> [at : Stages, code : Codes]]
        /\ [workers.queues EXCEPT ![Kind[j]] = Append(q, j)] \in [Kinds -> Seq(Job)]
    BY <1>1, <2>3, Zenon DEF States, Stages, Codes
  <2>5. workers' \in States
    BY <1>1, <2>1, <2>4, Zenon DEF States
  <2>6. /\ workers'.jobs[j].at = "queued" /\ workers'.queues[Kind[j]] = Append(q, j)
        /\ \A k \in Kinds \ {Kind[j]} : workers'.queues[k] = workers.queues[k]
        /\ \A i \in Job \ {j} : workers'.jobs[i] = workers.jobs[i]
    BY <1>1, <2>1, <2>2 DEF States
  <2>7. /\ workers'.answers = workers.answers /\ workers'.free = workers.free
        /\ workers'.used = workers.used /\ ~workers'.undefined
    BY <1>1, <2>1 DEF States
  <2> HIDE DEF q
  <2>8. Counted(workers', 0)
    <3>1. Busy(workers') = Busy(workers)
      BY <1>1, <2>5, <2>6, BusySame DEF InProgress
    <3>2. QED
      BY <1>1, <2>7, <3>1 DEF Counted
  <2>9. \A i \in Job \ {j} : OneWay(workers', i)
    <3> SUFFICES ASSUME NEW i \in Job \ {j} PROVE OneWay(workers', i)
      OBVIOUS
    <3>1. ASSUME NEW k \in Kinds, NEW p
          PROVE  Waits(workers', i, k, p) <=> Waits(workers, i, k, p)
      <4>1. CASE k = Kind[j]
        BY <2>3, <2>6, <4>1, Zenon DEF Waits, q
      <4>2. CASE k # Kind[j]
        BY <2>6, <4>2 DEF Waits
      <4>3. QED
        BY <4>1, <4>2
    <3>2. OneWay(workers, i) /\ Kind[i] \in Kinds
      BY <1>1, JobAssumption
    <3>3. QED
      <4>1. /\ workers'.jobs[i] = workers.jobs[i]
            /\ workers'.answers[i] = workers.answers[i]
            /\ ~workers.undefined /\ ~workers'.undefined
        BY <1>1, <2>6, <2>7
      <4>2. \A k \in Kinds : \A p \in DOMAIN workers'.queues[k] :
              Waits(workers', i, k, p) =>
                /\ workers'.jobs[i].at = "queued" /\ k = Kind[i]
                /\ \A h \in DOMAIN workers'.queues[k] : Waits(workers', i, k, h) => h = p
        <5> SUFFICES ASSUME NEW k \in Kinds, NEW p \in DOMAIN workers'.queues[k],
                            Waits(workers', i, k, p)
                     PROVE  /\ workers'.jobs[i].at = "queued" /\ k = Kind[i]
                            /\ \A h \in DOMAIN workers'.queues[k] :
                                 Waits(workers', i, k, h) => h = p
          OBVIOUS
        <5>1. Waits(workers, i, k, p) /\ p \in DOMAIN workers.queues[k]
          BY <3>1 DEF Waits
        <5>2. /\ workers.jobs[i].at = "queued" /\ k = Kind[i]
              /\ \A h \in DOMAIN workers.queues[k] : Waits(workers, i, k, h) => h = p
          BY <3>2, <5>1 DEF OneWay
        <5>3. ASSUME NEW h, Waits(workers', i, k, h) PROVE h = p
          BY <3>1, <5>2, <5>3 DEF Waits
        <5>4. QED
          BY <4>1, <5>2, <5>3
      <4>3. workers'.jobs[i].at = "queued" =>
              \E p \in DOMAIN workers'.queues[Kind[i]] : Waits(workers', i, Kind[i], p)
        BY <3>1, <3>2, <4>1, Zenon DEF OneWay, Waits
      <4>4. QED
        BY <3>2, <4>1, <4>2, <4>3, Zenon DEF OneWay
  <2>10. OneWay(workers', j)
    <3>1. ASSUME NEW k \in Kinds, NEW p, Waits(workers', j, k, p)
          PROVE  k = Kind[j] /\ p = Len(q) + 1
      <4>1. CASE k = Kind[j]
        <5>1. p \in DOMAIN Append(q, j)
          BY <2>6, <3>1, <4>1 DEF Waits
        <5>2. p \notin DOMAIN q
          <6> SUFFICES ASSUME p \in DOMAIN q PROVE FALSE
            OBVIOUS
          <6>1. q[p] = j
            BY <2>3, <2>6, <3>1, <4>1, <5>1 DEF Waits
          <6>2. QED
            BY <1>2, <2>2, <6>1 DEF Waits, q, MayTake
        <5>3. QED
          BY <2>3, <4>1, <5>1, <5>2
      <4>2. CASE k # Kind[j]
        BY <1>2, <2>6, <3>1, <4>2 DEF Waits, MayTake
      <4>3. QED
        BY <4>1, <4>2
    <3>2. Waits(workers', j, Kind[j], Len(q) + 1)
      BY <2>3, <2>6 DEF Waits
    <3>3. workers'.answers[j] = 0
      BY <1>2, <2>7 DEF MayTake
    <3>4. QED
      BY <2>6, <3>1, <3>2, <3>3 DEF OneWay, Waits
  <2>11. QED
    BY <2>5, <2>8, <2>9, <2>10 DEF Inv, Sound
<1>6. QED
  BY <1>3, <1>4, <1>5

LEMMA NextInv == ASSUME Inv, [Next]_workers PROVE Inv'
<1>1. CASE UNCHANGED workers
  BY <1>1 DEF Inv
<1>2. ASSUME NEW j \in Job,
             \/ Execute(j) \/ Accepted(j) \/ Configured(j) \/ CodeWritten(j)
             \/ Fails(j) \/ Succeeds(j) \/ Timeout(j) \/ LateAnswer(j)
      PROVE  Inv'
  <2>0. /\ Sound(workers, 0) /\ workers \in States /\ OneWay(workers, j)
    BY DEF Inv, Sound
  <2>1. CASE Execute(j)
    BY <2>1, ExecuteInv
  <2>2. CASE Accepted(j)
    <3> DEFINE entry == [at |-> "config", code |-> workers.jobs[j].code]
    <3>1. entry \in [at : Stages, code : Codes]
      BY <2>0 DEF States, Stages
    <3>a. [workers.jobs[j] EXCEPT !.at = "config"] = entry
      BY <2>0 DEF States
    <3>2. workers' = [workers EXCEPT !.jobs[j] = entry]
      BY <2>2, <3>a, Zenon DEF Accepted
    <3>3. ~workers.undefined /\ workers.jobs[j].at \in InProgress
      BY <2>2 DEF Accepted, At, InProgress
    <3>4. Sound([workers EXCEPT !.jobs[j] = entry], 0)
      BY <2>0, <3>1, <3>3, MoveFacts, Zenon DEF InProgress
    <3>5. QED
      BY <3>2, <3>4 DEF Inv
  <2>3. CASE Configured(j)
    <3> DEFINE entry == [at |-> "code", code |-> Code[j]]
    <3>1. entry \in [at : Stages, code : Codes]
      BY DEF Stages, Codes
    <3>2. workers' = [workers EXCEPT !.jobs[j] = entry]
      BY <2>3, JobAssumption DEF Configured, WriteCode
    <3>3. ~workers.undefined /\ workers.jobs[j].at \in InProgress
      BY <2>3 DEF Configured, At, InProgress
    <3>4. Sound([workers EXCEPT !.jobs[j] = entry], 0)
      BY <2>0, <3>1, <3>3, MoveFacts, Zenon DEF InProgress
    <3>5. QED
      BY <3>2, <3>4 DEF Inv
  <2>4. CASE CodeWritten(j)
    <3> DEFINE entry == [at |-> "call", code |-> workers.jobs[j].code]
    <3>1. entry \in [at : Stages, code : Codes]
      BY <2>0 DEF States, Stages
    <3>a. [workers.jobs[j] EXCEPT !.at = "call"] = entry
      BY <2>0 DEF States
    <3>2. workers' = [workers EXCEPT !.jobs[j] = entry]
      BY <2>4, <3>a, Zenon DEF CodeWritten
    <3>3. ~workers.undefined /\ workers.jobs[j].at \in InProgress /\ entry.code = Code[j]
      BY <2>0, <2>4 DEF CodeWritten, At, InProgress, OneWay
    <3>4. Sound([workers EXCEPT !.jobs[j] = entry], 0)
      BY <2>0, <3>1, <3>3, MoveFacts, Zenon DEF InProgress
    <3>5. QED
      BY <3>2, <3>4 DEF Inv
  <2>5. CASE Fails(j)
    <3>1. ~workers.undefined /\ workers.jobs[j].at \in InProgress
      BY <2>5 DEF Fails, At, InProgress
    <3>2. Sound(Answer(workers, j), 0)
      BY <2>0, <3>1, AnswerFacts
    <3>3. QED
      BY <2>5, <3>2 DEF Fails, Inv
  <2>6. CASE Succeeds(j)
    <3>1. Sound(Succeed(workers, j), 0)
      BY <2>0, <2>6, SucceedFacts DEF Succeeds, At
    <3>2. QED
      BY <2>6, <3>1 DEF Succeeds, Inv
  <2>7. CASE Timeout(j)
    <3> DEFINE answered == Answer(workers, j)
    <3>1. ~workers.undefined /\ workers.jobs[j].at \in InProgress
      BY <2>7 DEF Timeout, At, InProgress
    <3>2. Sound(answered, 0)
      BY <2>0, <3>1, AnswerFacts
    <3>3. workers' = [answered EXCEPT !.late = answered.late \cup {j}]
      BY <2>7 DEF Timeout
    <3> HIDE DEF answered
    <3>4. answered.late \cup {j} \in SUBSET Job
      BY <3>2 DEF Sound, States
    <3>5. QED
      BY <3>2, <3>3, <3>4, LateFacts DEF Inv
  <2>8. CASE LateAnswer(j)
    <3>1. workers' = [workers EXCEPT !.late = workers.late \ {j}]
      BY <2>8 DEF LateAnswer
    <3>2. workers.late \ {j} \in SUBSET Job
      BY <2>0 DEF States
    <3>3. QED
      BY <2>0, <3>1, <3>2, LateFacts DEF Inv
  <2>9. QED
    BY <1>2, <2>1, <2>2, <2>3, <2>4, <2>5, <2>6, <2>7, <2>8
<1>3. QED
  BY <1>1, <1>2 DEF Next

-----------------------------------------------------------------------------
(* The theorems                                                            *)

\* used_ is the number of jobs in progress and, with the free workers, never
\* more than max_, whatever the interleaving of connections, writes, timers and
\* answers.
THEOREM ProcessesAreBounded == Spec => []ProcessesBound
<1>1. Inv => ProcessesBound
  <2> SUFFICES ASSUME Inv PROVE ProcessesBound
    OBVIOUS
  <2>1. workers \in States /\ Counted(workers, 0)
    BY DEF Inv, Sound
  <2>2. TypeOK
    BY <2>1 DEF TypeOK, States
  <2>3. workers.used \in Nat /\ Len(workers.free) \in Nat /\ MaxWorkers \in Nat
    BY <2>1, JobAssumption DEF States
  <2>4. QED
    BY <2>1, <2>2, <2>3 DEF ProcessesBound, Counted
<1>2. QED
  BY <1>1, InitInv, NextInv, PTL DEF Spec

\* Every job waits at most once, is run by a worker with its code, and its
\* callback is called exactly when it is done, once.
THEOREM JobsAreAnsweredOnce == Spec => []AnsweredOnce
<1>1. Inv => AnsweredOnce
  BY DEF Inv, Sound, AnsweredOnce, OneWay, Waits
<1>2. QED
  BY <1>1, InitInv, NextInv, PTL DEF Spec
=============================================================================
