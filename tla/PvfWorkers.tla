----------------------------- MODULE PvfWorkers -----------------------------
(***************************************************************************)
(* The pool of processes that execute parachain validation functions       *)
(* (core/parachain/pvf/workers.cpp).                                       *)
(*                                                                         *)
(* Everything runs on the main thread; an action is one callback.  A job   *)
(* goes through a new process (accept, config) or a free one, gets its     *)
(* code written if the worker has other code, and is called; the timer and *)
(* the answer race for the callback.                                       *)
(***************************************************************************)
EXTENDS Integers, Sequences, FiniteSetsExt

CONSTANTS
  Job,
  Kind,        \* PvfExecTimeoutKind of every job
  Code,        \* code_params of every job
  MaxWorkers,  \* max_
  None         \* a worker that has no code yet

VARIABLE
  workers

Kinds == {"Approval", "Backing"}

ASSUME JobAssumption ==
  /\ \A j \in Job : Kind[j] \in Kinds /\ Code[j] # None
  /\ MaxWorkers \in Nat

\* Jobs for which a Used is alive.
Busy(st) == {j \in Job : st.jobs[j].at \in {"accept", "config", "code", "call"}}

-----------------------------------------------------------------------------

\* writeCode, to a worker that has `code`.
WriteCode(st, j, code) ==
  IF code = Code[j]
    THEN [st EXCEPT !.jobs[j] = [at |-> "call", code |-> code]]
    ELSE [st EXCEPT !.jobs[j] = [at |-> "code", code |-> Code[j]]]

\* free_.erase
Erase(s, i) == SubSeq(s, 1, i - 1) \o SubSeq(s, i + 1, Len(s))

\* findFree: a worker with the code, or the first one.  With no free worker
\* the end of the list is dereferenced and erased: what the process does then
\* is undefined.
FindFree(st, j) ==
  LET same == {i \in DOMAIN st.free : st.free[i] = Code[j]}
      i == IF same # {} THEN Min(same) ELSE 1
  IN  IF st.free = <<>>
        THEN [st EXCEPT !.undefined = TRUE, !.jobs[j] = [at |-> "code", code |-> None]]
        ELSE WriteCode([st EXCEPT !.free = Erase(@, i), !.used = @ + 1],
                       j, st.free[i])

DequeueKind(st, kind) ==
  IF st.undefined \/ st.queues[kind] = <<>> THEN st
  ELSE FindFree([st EXCEPT !.queues[kind] = Tail(@)], Head(st.queues[kind]))

\* dequeue: one job of each kind.
Dequeue(st) == DequeueKind(DequeueKind(st, "Approval"), "Backing")

\* The job's callback is called, and its Used is destroyed.
Answer(st, j) ==
  [st EXCEPT !.jobs[j] = [at |-> "done", code |-> None],
             !.answers[j] = @ + 1,
             !.used = @ - 1]

\* The callback of `call` with a result: the worker is free again.
Succeed(st, j) ==
  LET freed == [st EXCEPT !.free = Append(@, st.jobs[j].code)]
  IN  Answer(Dequeue(freed), j)

-----------------------------------------------------------------------------
Init ==
  workers = [free |-> <<>>, used |-> 0, queues |-> [k \in Kinds |-> <<>>],
             jobs |-> [j \in Job |-> [at |-> "new", code |-> None]],
             answers |-> [j \in Job |-> 0], late |-> {}, undefined |-> FALSE]

At(j, stage) == ~workers.undefined /\ workers.jobs[j].at = stage

\* Mutant: the number of workers is not compared with the limit.
MayStartAlways(st) == TRUE

MayStart(st) == st.used < MaxWorkers

\* execute
Execute(j) ==
  /\ At(j, "new")
  /\ workers' =
       CASE workers.free # <<>> -> FindFree(workers, j)
         [] workers.free = <<>> /\ MayStart(workers) ->
              [workers EXCEPT !.used = @ + 1,
                              !.jobs[j] = [at |-> "accept", code |-> None]]
         [] OTHER -> [workers EXCEPT !.queues[Kind[j]] = Append(@, j),
                                     !.jobs[j] = [at |-> "queued", code |-> None]]

\* The new process connects.
Accepted(j) ==
  /\ At(j, "accept")
  /\ workers' = [workers EXCEPT !.jobs[j].at = "config"]

\* Its config is written.
Configured(j) ==
  /\ At(j, "config")
  /\ workers' = WriteCode(workers, j, None)

CodeWritten(j) ==
  /\ At(j, "code")
  /\ workers' = [workers EXCEPT !.jobs[j].at = "call"]

\* Removing the socket, accepting or writing fails: the worker is dropped.
Fails(j) ==
  /\ \E stage \in {"accept", "config", "code", "call"} : At(j, stage)
  /\ workers' = Answer(workers, j)

Succeeds(j) ==
  /\ At(j, "call")
  /\ workers' = Succeed(workers, j)

\* The timer fires before the answer is read.
Timeout(j) ==
  /\ At(j, "call")
  /\ workers' = [Answer(workers, j) EXCEPT !.late = @ \cup {j}]

\* Mutant: the callback of the late answer is called.
LateAnswerCounts(j) ==
  /\ ~workers.undefined /\ j \in workers.late
  /\ workers' = [workers EXCEPT !.late = @ \ {j}, !.answers[j] = @ + 1]

\* The read ends after all (the process is gone, so with an error), but
\* cb_shared is taken.
LateAnswer(j) ==
  /\ ~workers.undefined /\ j \in workers.late
  /\ workers' = [workers EXCEPT !.late = @ \ {j}]

Next ==
  \E j \in Job :
    \/ Execute(j) \/ Accepted(j) \/ Configured(j) \/ CodeWritten(j)
    \/ Fails(j) \/ Succeeds(j) \/ Timeout(j) \/ LateAnswer(j)

Spec == Init /\ [][Next]_workers

-----------------------------------------------------------------------------
(* Properties                                                              *)

Stages == {"new", "queued", "accept", "config", "code", "call", "done"}

Codes == {Code[j] : j \in Job} \cup {None}

\* The members of PvfWorkers; used_ never goes below zero.
TypeOK ==
  workers \in [free : Seq(Codes), used : Nat, queues : [Kinds -> Seq(Job)],
               jobs : [Job -> [at : Stages, code : Codes]],
               answers : [Job -> Nat], late : SUBSET Job, undefined : BOOLEAN]

\* used_ counts the jobs in progress, on every path a job may take, and with
\* the free workers there are never more processes than max_.
ProcessesBound ==
  /\ TypeOK
  /\ ~workers.undefined =>
       /\ workers.used = Cardinality(Busy(workers))
       /\ workers.used + Len(workers.free) <= MaxWorkers

\* A job goes one way: it waits at most once, in the queue of its kind; the
\* worker that is called has its code, although workers are reused; and its
\* callback is called once, whichever of the timer, the failed write and the
\* answer comes first.
AnsweredOnce ==
  \A j \in Job :
    LET at == workers.jobs[j].at
        Waits(k, i) == i \in DOMAIN workers.queues[k] /\ workers.queues[k][i] = j
    IN  /\ \A k \in Kinds : \A i \in DOMAIN workers.queues[k] :
             Waits(k, i) => /\ at = "queued" /\ k = Kind[j]
                            /\ \A h \in DOMAIN workers.queues[k] : Waits(k, h) => h = i
        /\ at = "queued" =>
             \E i \in DOMAIN workers.queues[Kind[j]] : Waits(Kind[j], i)
        /\ at = "call" => workers.jobs[j].code = Code[j]
        /\ workers.answers[j] = IF at = "done" THEN 1 ELSE 0

\* pvfMaxWorkers is the "Max PVF execution threads or processes." Does not hold,
\* and no run has it: dequeue takes a job of each kind for one free worker, the
\* step after which `undefined` is set.
ExecutingBound == Cardinality(Busy(workers)) <= MaxWorkers
=============================================================================
