------------------------- MODULE DeliveryWorkerProofs -------------------------
(***************************************************************************)
(* Proofs about DeliveryWorker, for every queue, configuration and bound:  *)
(* type correctness; no job is lost; while the process runs, no row is     *)
(* worked on twice and every goroutine works on a current row; the module  *)
(* implements DurableQueue; and what faults can cost: how often a webhook  *)
(* is called for one message, how often one that has confirmed is called   *)
(* again, and what the log says of it.                                     *)
(***************************************************************************)
EXTENDS DeliveryWorker, FiniteSetTheorems, TLAPS

-----------------------------------------------------------------------------
(***************************************************************************)
(* Lemmas about the operators of the model.                                *)
(***************************************************************************)
\* Allowed is a positive number of attempts, and a goroutine that does not give
\* up has one of them left.
LEMMA AllowedLemma ==
    /\ Allowed \in Nat \ {0}
    /\ \A n \in 1 .. Allowed : GivesUp(n) => n >= Allowed
    /\ \A n \in 1 .. Allowed : ~GivesUp(n) => n \in 0 .. Allowed - 1
BY ConfigAssumption DEF Allowed, GivesUp

\* A backoff is an integer number of ticks.
LEMMA BackoffLemma == \A n \in 1 .. Allowed : Backoff(n) \in Int
<1>1. SUFFICES ASSUME NEW n \in 1 .. Allowed PROVE Backoff(n) \in Int
    OBVIOUS
<1>2. 2^(n - 1) \in Int
    BY AllowedLemma
<1> QED
    BY <1>2, ConfigAssumption DEF Backoff

\* A goroutine at a control point has a task.
LEMMA TaskLemma ==
    ASSUME TypeOK, NEW g \in Goroutines, NEW p, At(g, p)
    PROVE  /\ proc[g] \in Task
           /\ proc[g].pc = p
           /\ Job(g) \in Jobs
           /\ proc[g].attempt \in 1 .. Allowed
           /\ proc[g].out \in {"none", "2xx", "error"}
BY DEF TypeOK, At, Task, Job

\* Goto moves a goroutine to another control point and keeps its task.
LEMMA GotoLemma ==
    ASSUME TypeOK, NEW g \in Goroutines, NEW p, At(g, p),
           NEW q \in {"start", "posting", "log", "settle"},
           NEW out \in {"none", "2xx", "error"}, Goto(g, q, out)
    PROVE  /\ proc' \in [Goroutines -> Task \cup {Idle}]
           /\ proc'[g].pc = q /\ proc'[g].out = out
           /\ proc'[g].job = proc[g].job /\ proc'[g].attempt = proc[g].attempt
           /\ \A h \in Goroutines \ {g} : proc'[h] = proc[h]
<1>1. proc[g] \in Task
    BY TaskLemma
<1>2. [pc |-> q, job |-> proc[g].job, attempt |-> proc[g].attempt, out |-> out] \in Task
    BY <1>1 DEF Task
<1> QED
    BY <1>2 DEF Goto, TypeOK

\* A failed or successful statement keeps the count of failures a number.
LEMMA DbLemma ==
    ASSUME dbErrors \in Nat, NEW ok, DbStatement(ok)
    PROVE  dbErrors' \in Nat
BY DEF DbStatement

-----------------------------------------------------------------------------
(***************************************************************************)
(* Type correctness.                                                       *)
(***************************************************************************)
LEMMA InitTypeOK == Init => TypeOK
<1>1. SUFFICES ASSUME Init PROVE TypeOK
    OBVIOUS
<1>2. 0 \in 0 .. Allowed - 1
    BY AllowedLemma
<1> QED
    BY <1>1, <1>2 DEF Init, TypeOK

LEMMA NextTypeOK == TypeOK /\ [Next]_vars => TypeOK'
<1> SUFFICES ASSUME TypeOK, [Next]_vars PROVE TypeOK'
    OBVIOUS
<1> USE DEF table, process, seen
<1>1. ASSUME NEW j \in Jobs, Enqueue(j) PROVE TypeOK'
  <2>1. 0 \in 0 .. Allowed - 1
    BY AllowedLemma
  <2>2. now \in Int
    BY DEF TypeOK
  <2> QED
    BY <1>1, <2>1, <2>2 DEF TypeOK, Enqueue
<1>2. CASE ClaimDue
  <2>1. batch' \subseteq Snapshot
    <3>1. CASE UNCHANGED batch
      BY <3>1 DEF TypeOK
    <3>2. ASSUME NEW S \in Claims,
                 batch' = {[job |-> j, attempts |-> attempts[j], due |-> nextAt[j]] : j \in S}
          PROVE  batch' \subseteq Snapshot
      <4>1. S \subseteq Jobs
        BY DEF Claims, Due, TypeOK
      <4> QED
        BY <3>2, <4>1 DEF TypeOK, Snapshot
    <3> QED
      BY <1>2, <3>1, <3>2 DEF ClaimDue
  <2>2. sem' \subseteq Goroutines /\ wpc' \in {"select", "launch", "stopped"}
    BY <1>2 DEF ClaimDue, TypeOK
  <2>3. dbErrors' \in Nat
    BY <1>2, DbLemma DEF ClaimDue, TypeOK
  <2> QED
    BY <1>2, <2>1, <2>2, <2>3 DEF ClaimDue, TypeOK
<1>3. ASSUME NEW g \in Goroutines, Launch(g) PROVE TypeOK'
  <2>1. PICK b \in batch :
           /\ batch' = batch \ {b}
           /\ proc' = [proc EXCEPT ![g] =
                         [pc |-> "start", job |-> b.job, attempt |-> b.attempts + 1,
                          out |-> "none"]]
    BY <1>3 DEF Launch
  <2>2. b.job \in Jobs /\ b.attempts + 1 \in 1 .. Allowed
    BY AllowedLemma DEF TypeOK, Snapshot
  <2>3. [pc |-> "start", job |-> b.job, attempt |-> b.attempts + 1, out |-> "none"] \in Task
    BY <2>2 DEF Task
  <2> QED
    BY <1>3, <2>1, <2>3 DEF Launch, TypeOK
<1>4. CASE AbandonBatch
  BY <1>4 DEF AbandonBatch, TypeOK
<1>5. CASE EndDrain
  BY <1>5 DEF EndDrain, TypeOK
<1>6. CASE StopWorker
  BY <1>6 DEF StopWorker, TypeOK
<1>7. ASSUME NEW g \in Goroutines, Process(g) PROVE TypeOK'
  <2>1. CASE DropUnrouted(g)
    <3>1. Job(g) \in Jobs
      BY <2>1, TaskLemma DEF DropUnrouted
    <3>2. rows' \subseteq Jobs /\ dbErrors' \in Nat
      BY <2>1, DbLemma DEF DropUnrouted, CompleteJob, TypeOK
    <3> QED
      BY <2>1, <3>1, <3>2 DEF DropUnrouted, CompleteJob, Return, TypeOK
  <2>2. CASE Post(g)
    <3>1. Job(g) \in Jobs /\ proc' \in [Goroutines -> Task \cup {Idle}]
      BY <2>2, TaskLemma, GotoLemma DEF Post
    <3> QED
      BY <2>2, <3>1 DEF Post, TypeOK
  <2>3. CASE Answer2xx(g)
    <3>1. Job(g) \in Jobs /\ proc' \in [Goroutines -> Task \cup {Idle}]
      BY <2>3, TaskLemma, GotoLemma DEF Answer2xx
    <3> QED
      BY <2>3, <3>1 DEF Answer2xx, TypeOK
  <2>4. CASE AnswerError(g)
    <3>1. Job(g) \in Jobs /\ proc' \in [Goroutines -> Task \cup {Idle}]
      BY <2>4, TaskLemma, GotoLemma DEF AnswerError
    <3> QED
      BY <2>4, <3>1 DEF AnswerError, TypeOK
  <2>5. CASE Cancelled(g)
    <3>1. Job(g) \in Jobs /\ proc' \in [Goroutines -> Task \cup {Idle}]
      BY <2>5, TaskLemma, GotoLemma DEF Cancelled
    <3> QED
      BY <2>5, <3>1 DEF Cancelled, TypeOK
  <2>6. CASE LogDelivery(g)
    <3>1. /\ Job(g) \in Jobs
          /\ proc[g].attempt \in 1 .. Allowed
          /\ proc[g].out \in {"none", "2xx", "error"}
      BY <2>6, TaskLemma DEF LogDelivery
    <3>2. proc' \in [Goroutines -> Task \cup {Idle}]
      BY <2>6, <3>1, GotoLemma DEF LogDelivery
    <3>3. dbErrors' \in Nat
      BY <2>6, DbLemma DEF LogDelivery, TypeOK
    <3>4. deliveries' \subseteq [job : Jobs, attempt : 1 .. Allowed, success : BOOLEAN]
      <4>1. LoggedOutcome(proc[g].out) \in BOOLEAN
        BY DEF LoggedOutcome
      <4> QED
        BY <2>6, <3>1, <4>1 DEF LogDelivery, LoggedCount, TypeOK
    <3> QED
      BY <2>6, <3>2, <3>3, <3>4 DEF LogDelivery, TypeOK
  <2>7. CASE Settle(g)
    <3>1. Job(g) \in Jobs /\ proc[g].attempt \in 1 .. Allowed
      BY <2>7, TaskLemma DEF Settle
    <3>2. rows' \subseteq Jobs /\ dbErrors' \in Nat
      BY <2>7, DbLemma DEF Settle, CompleteJob, RescheduleJob, TypeOK
    <3>3. attempts' \in [Jobs -> 0 .. Allowed - 1] /\ nextAt' \in [Jobs -> Int]
      <4>1. CASE UNCHANGED <<attempts, nextAt>>
        BY <4>1 DEF TypeOK
      <4>2. ASSUME ~GivesUp(proc[g].attempt),
                   RescheduleJob(Job(g), proc[g].attempt, now + Backoff(proc[g].attempt))
            PROVE  attempts' \in [Jobs -> 0 .. Allowed - 1] /\ nextAt' \in [Jobs -> Int]
        <5>1. proc[g].attempt \in 0 .. Allowed - 1
          BY <3>1, <4>2, AllowedLemma
        <5>2. now + Backoff(proc[g].attempt) \in Int
          BY <3>1, BackoffLemma DEF TypeOK
        <5> QED
          BY <4>2, <5>1, <5>2 DEF RescheduleJob, TypeOK
      <4> QED
        BY <2>7, <4>1, <4>2 DEF Settle, CompleteJob
    <3> QED
      BY <2>7, <3>2, <3>3 DEF Settle, Return, TypeOK
  <2> QED
    BY <1>7, <2>1, <2>2, <2>3, <2>4, <2>5, <2>6, <2>7 DEF Process
<1>8. CASE Tick
  BY <1>8 DEF Tick, TypeOK
<1>9. CASE Shutdown
  BY <1>9 DEF Shutdown, TypeOK
<1>10. CASE Exit
  BY <1>10 DEF Exit, Gone, TypeOK
<1>11. CASE Crash
  BY <1>11 DEF Crash, Gone, TypeOK
<1>12. CASE Restart
  BY <1>12 DEF Restart, TypeOK
<1>13. CASE UNCHANGED vars
  BY <1>13 DEF vars, TypeOK
<1> QED
  BY <1>1, <1>2, <1>3, <1>4, <1>5, <1>6, <1>7, <1>8, <1>9, <1>10, <1>11, <1>12, <1>13
     DEF Next

\* Every reachable state is well typed: in particular a row in the queue always
\* has an attempt left, and no goroutine makes one more than max_retries.
THEOREM TypeCorrect == Spec => []TypeOK
BY InitTypeOK, NextTypeOK, PTL DEF Spec

-----------------------------------------------------------------------------
(***************************************************************************)
(* No job is lost. The invariant follows an attempt count from the row to  *)
(* the snapshot, to the goroutine and back: wherever it is, that many      *)
(* attempts have already come to nothing. It needs nothing of the worker's *)
(* scheduling, so it survives goroutines that overlap after a shutdown.    *)
(***************************************************************************)
\* The attempts on job j that came to nothing.
Spent(j) == failed[j] + cancelled[j]

RowCounts == \A j \in Jobs : attempts[j] <= Spent(j)

SnapshotCounts == \A b \in batch : b.attempts <= Spent(b.job)

\* What goroutine g knows of its attempt, once it has a result.
Outcome(g) ==
    /\ proc[g].out = "2xx" => acks[Job(g)] > 0
    /\ proc[g].out # "2xx" => proc[g].attempt <= Spent(Job(g))

TaskCounts ==
    \A g \in Busy :
        /\ proc[g].pc \in {"start", "posting"} => proc[g].attempt - 1 <= Spent(Job(g))
        /\ proc[g].pc \in {"log", "settle"} => Outcome(g)

LossInv == RowCounts /\ SnapshotCounts /\ TaskCounts /\ NoLostJob

LEMMA InitLossInv == Init => LossInv
BY DEF Init, LossInv, RowCounts, SnapshotCounts, TaskCounts, NoLostJob, Spent, Busy

\* A step that leaves the table, the attempts' outcomes and the accepted jobs
\* alone, reads nothing, and at most ends goroutines keeps LossInv.
LEMMA LossStutter ==
    ASSUME TypeOK, LossInv, UNCHANGED <<table, seen>>,
           batch' \subseteq batch, \A g \in Goroutines : proc'[g] \in {proc[g], Idle}
    PROVE  LossInv'
<1> USE DEF table, seen
<1>1. \A j \in Jobs : Spent(j)' = Spent(j)
    BY DEF Spent
<1>2. RowCounts'
    BY DEF LossInv, RowCounts, Spent
<1>3. SnapshotCounts'
    BY DEF LossInv, SnapshotCounts, Spent
<1>4. TaskCounts'
    BY DEF LossInv, TaskCounts, Busy, Outcome, Job, Spent
<1>5. NoLostJob'
    BY DEF LossInv, NoLostJob
<1> QED
    BY <1>2, <1>3, <1>4, <1>5 DEF LossInv

\* Removing job j, or rescheduling it after attempt n, keeps what the rows and
\* their absence say, if the goroutine doing it tells the truth.
LEMMA LossRows ==
    ASSUME TypeOK, LossInv, UNCHANGED <<accepted, failed, cancelled, acks>>,
           unrouted \subseteq unrouted',
           NEW j \in Jobs, NEW n \in 1 .. Allowed, NEW t,
           \/ /\ CompleteJob(j)
              /\ acks[j] > 0 \/ Spent(j) >= Allowed \/ j \in unrouted'
           \/ RescheduleJob(j, n, t) /\ n <= Spent(j)
    PROVE  RowCounts' /\ NoLostJob'
<1>1. CASE /\ CompleteJob(j)
           /\ acks[j] > 0 \/ Spent(j) >= Allowed \/ j \in unrouted'
  <2>1. RowCounts'
    BY <1>1 DEF CompleteJob, LossInv, RowCounts, Spent
  <2>2. NoLostJob'
    BY <1>1 DEF CompleteJob, LossInv, NoLostJob, Spent
  <2> QED
    BY <2>1, <2>2
<1>2. CASE RescheduleJob(j, n, t) /\ n <= Spent(j)
  <2>1. \A i \in Jobs : attempts'[i] = attempts[i] \/ (i = j /\ attempts'[i] = n)
    BY <1>2 DEF RescheduleJob, TypeOK
  <2>2. RowCounts'
    BY <1>2, <2>1 DEF LossInv, RowCounts, Spent
  <2>3. NoLostJob'
    BY <1>2 DEF RescheduleJob, LossInv, NoLostJob
  <2> QED
    BY <2>2, <2>3
<1> QED
  BY <1>1, <1>2

LEMMA NextLossInv == TypeOK /\ LossInv /\ [Next]_vars => LossInv'
<1> SUFFICES ASSUME TypeOK, LossInv, [Next]_vars PROVE LossInv'
    OBVIOUS
<1> USE DEF table, process, seen
<1>1. ASSUME NEW j \in Jobs, Enqueue(j) PROVE LossInv'
  <2>1. RowCounts'
    BY <1>1 DEF Enqueue, LossInv, RowCounts, Spent, TypeOK
  <2>2. SnapshotCounts' /\ TaskCounts'
    BY <1>1 DEF Enqueue, LossInv, SnapshotCounts, TaskCounts, Outcome, Busy, Job, Spent
  <2>3. NoLostJob'
    BY <1>1 DEF Enqueue, LossInv, NoLostJob
  <2> QED
    BY <2>1, <2>2, <2>3 DEF LossInv
<1>2. CASE ClaimDue
  <2>1. SnapshotCounts'
    <3>1. CASE UNCHANGED batch
      BY <1>2, <3>1 DEF ClaimDue, LossInv, SnapshotCounts, Spent
    <3>2. ASSUME NEW S \in Claims,
                 batch' = {[job |-> j, attempts |-> attempts[j], due |-> nextAt[j]] : j \in S}
          PROVE  SnapshotCounts'
      <4>1. S \subseteq Jobs
        BY DEF Claims, Due, TypeOK
      <4> QED
        BY <1>2, <3>2, <4>1 DEF ClaimDue, LossInv, RowCounts, SnapshotCounts, Spent
    <3> QED
      BY <1>2, <3>1, <3>2 DEF ClaimDue
  <2>2. RowCounts' /\ TaskCounts' /\ NoLostJob'
    BY <1>2 DEF ClaimDue, LossInv, RowCounts, TaskCounts, NoLostJob, Outcome, Busy, Job, Spent
  <2> QED
    BY <2>1, <2>2 DEF LossInv
<1>3. ASSUME NEW g \in Goroutines, Launch(g) PROVE LossInv'
  <2>1. PICK b \in batch :
           /\ batch' = batch \ {b}
           /\ proc' = [proc EXCEPT ![g] =
                         [pc |-> "start", job |-> b.job, attempt |-> b.attempts + 1,
                          out |-> "none"]]
    BY <1>3 DEF Launch
  <2>2. b.job \in Jobs /\ b.attempts \in Int /\ b.attempts <= Spent(b.job)
    BY AllowedLemma DEF TypeOK, Snapshot, LossInv, SnapshotCounts
  <2>3. RowCounts' /\ SnapshotCounts' /\ NoLostJob'
    BY <1>3, <2>1 DEF Launch, LossInv, RowCounts, SnapshotCounts, NoLostJob, Spent
  <2>4. TaskCounts'
    <3>1. /\ proc'[g].pc = "start" /\ Job(g)' = b.job
          /\ proc'[g].attempt - 1 = b.attempts
          /\ \A h \in Goroutines \ {g} : proc'[h] = proc[h]
      BY <2>1, <2>2 DEF TypeOK, Job
    <3> QED
      BY <1>3, <2>2, <3>1 DEF Launch, LossInv, TaskCounts, Outcome, Busy, Job, Spent
  <2> QED
    BY <2>3, <2>4 DEF LossInv
<1>4. CASE AbandonBatch
  BY <1>4, LossStutter DEF AbandonBatch
<1>5. CASE EndDrain
  BY <1>5, LossStutter DEF EndDrain
<1>6. CASE StopWorker
  BY <1>6, LossStutter DEF StopWorker
<1>7. ASSUME NEW g \in Goroutines, Process(g) PROVE LossInv'
  <2>1. CASE DropUnrouted(g)
    <3>1. Job(g) \in Jobs /\ proc[g].attempt \in 1 .. Allowed
      BY <2>1, TaskLemma DEF DropUnrouted
    <3>2. RowCounts' /\ NoLostJob'
      BY <2>1, <3>1, LossRows DEF DropUnrouted
    <3>3. SnapshotCounts' /\ TaskCounts'
      BY <2>1 DEF DropUnrouted, Return, LossInv, SnapshotCounts, TaskCounts, Outcome, Busy,
                  Job, Spent, TypeOK
    <3> QED
      BY <3>2, <3>3 DEF LossInv
  <2>2. CASE Post(g)
    <3>1. /\ proc'[g].pc = "posting" /\ proc'[g].job = proc[g].job
          /\ proc'[g].attempt = proc[g].attempt
          /\ \A h \in Goroutines \ {g} : proc'[h] = proc[h]
      BY <2>2, GotoLemma DEF Post
    <3>2. TaskCounts'
      BY <2>2, <3>1 DEF Post, At, LossInv, TaskCounts, Outcome, Busy, Job, Spent
    <3> QED
      BY <2>2, <3>2 DEF Post, LossInv, RowCounts, SnapshotCounts, NoLostJob, Spent
  <2>3. CASE Answer2xx(g)
    <3>1. /\ proc'[g].pc = "log" /\ proc'[g].job = proc[g].job
          /\ proc'[g].out = "2xx"
          /\ \A h \in Goroutines \ {g} : proc'[h] = proc[h]
      BY <2>3, GotoLemma DEF Answer2xx
    <3>2. Job(g) \in Jobs /\ \A j \in Jobs : acks'[j] >= acks[j]
      BY <2>3, TaskLemma DEF Answer2xx, TypeOK
    <3>3. acks'[Job(g)] > 0
      BY <2>3, <3>2 DEF Answer2xx, TypeOK
    <3>4. TaskCounts'
      BY <2>3, <3>1, <3>2, <3>3
         DEF Answer2xx, LossInv, TaskCounts, Outcome, Busy, Job, Spent, TypeOK, Task
    <3>5. NoLostJob'
      BY <2>3, <3>2 DEF Answer2xx, LossInv, NoLostJob, TypeOK
    <3> QED
      BY <2>3, <3>4, <3>5 DEF Answer2xx, LossInv, RowCounts, SnapshotCounts, Spent
  <2>4. CASE AnswerError(g) \/ Cancelled(g)
    <3>1. /\ proc'[g].pc = "log" /\ proc'[g].job = proc[g].job
          /\ proc'[g].attempt = proc[g].attempt /\ proc'[g].out = "error"
          /\ \A h \in Goroutines \ {g} : proc'[h] = proc[h]
      BY <2>4, GotoLemma DEF AnswerError, Cancelled
    <3>2. Job(g) \in Jobs /\ proc[g].attempt \in 1 .. Allowed
      BY <2>4, TaskLemma DEF AnswerError, Cancelled
    <3>3. \A j \in Jobs : /\ Spent(j) \in Nat
                          /\ Spent(j)' = IF j = Job(g) THEN Spent(j) + 1 ELSE Spent(j)
      BY <2>4, <3>2 DEF AnswerError, Cancelled, Spent, TypeOK
    <3>4. proc[g].attempt - 1 <= Spent(Job(g))
      BY <2>4 DEF AnswerError, Cancelled, At, LossInv, TaskCounts, Busy
    <3>5. TaskCounts'
      <4>1. ASSUME NEW h \in Busy' PROVE
              /\ proc'[h].pc \in {"start", "posting"} => proc'[h].attempt - 1 <= Spent(Job(h))'
              /\ proc'[h].pc \in {"log", "settle"} => Outcome(h)'
        <5>1. CASE h = g
          BY <3>1, <3>2, <3>3, <3>4, <5>1, AllowedLemma DEF Outcome, Job
        <5>2. CASE h # g
          <6>1. h \in Busy /\ proc'[h] = proc[h] /\ proc[h] \in Task
            BY <3>1, <4>1, <5>2 DEF Busy, TypeOK
          <6>2. Spent(Job(h))' >= Spent(Job(h)) /\ Spent(Job(h))' \in Nat
            BY <3>3, <6>1 DEF Job, Task
          <6>3. proc[h].attempt \in Int /\ Spent(Job(h)) \in Nat
            BY <3>3, <6>1, AllowedLemma DEF Task, Job
          <6>4. acks' = acks /\ Job(h)' = Job(h)
            BY <2>4, <6>1 DEF AnswerError, Cancelled, Job
          <6> QED
            BY <6>1, <6>2, <6>3, <6>4 DEF LossInv, TaskCounts, Outcome
        <5> QED
          BY <5>1, <5>2
      <4> QED
        BY <4>1 DEF TaskCounts
    <3>6. RowCounts'
      BY <2>4, <3>3, AllowedLemma DEF AnswerError, Cancelled, LossInv, RowCounts, TypeOK
    <3>7. SnapshotCounts'
      <4>1. \A b \in batch : b.job \in Jobs /\ b.attempts \in Int
        BY AllowedLemma DEF TypeOK, Snapshot
      <4> QED
        BY <2>4, <3>3, <4>1 DEF AnswerError, Cancelled, LossInv, SnapshotCounts
    <3>8. NoLostJob'
      BY <2>4, <3>3, AllowedLemma
         DEF AnswerError, Cancelled, LossInv, NoLostJob, Spent, TypeOK
    <3> QED
      BY <3>5, <3>6, <3>7, <3>8 DEF LossInv
  <2>5. CASE LogDelivery(g)
    <3>1. /\ proc'[g].pc = "settle" /\ proc'[g].job = proc[g].job
          /\ proc'[g].attempt = proc[g].attempt /\ proc'[g].out = proc[g].out
          /\ \A h \in Goroutines \ {g} : proc'[h] = proc[h]
      BY <2>5, GotoLemma, TaskLemma DEF LogDelivery
    <3>2. TaskCounts'
      BY <2>5, <3>1 DEF LogDelivery, At, LossInv, TaskCounts, Outcome, Busy, Job, Spent
    <3> QED
      BY <2>5, <3>2 DEF LogDelivery, LossInv, RowCounts, SnapshotCounts, NoLostJob, Spent
  <2>6. CASE Settle(g)
    <3>1. Job(g) \in Jobs /\ proc[g].attempt \in 1 .. Allowed
      BY <2>6, TaskLemma DEF Settle
    <3>2. Outcome(g)
      BY <2>6 DEF Settle, At, LossInv, TaskCounts, Busy
    <3>3. Spent(Job(g)) \in Nat /\ Allowed \in Nat
      BY <3>1, AllowedLemma DEF Spent, TypeOK
    <3>4. RowCounts' /\ NoLostJob'
      <4>1. CASE proc[g].out = "2xx" \/ GivesUp(proc[g].attempt)
        <5>1. acks[Job(g)] > 0 \/ Spent(Job(g)) >= Allowed
          BY <3>1, <3>2, <3>3, <4>1, AllowedLemma DEF Outcome
        <5> QED
          BY <2>6, <3>1, <4>1, <5>1, LossRows DEF Settle
      <4>2. CASE ~(proc[g].out = "2xx" \/ GivesUp(proc[g].attempt))
        <5>1. proc[g].attempt <= Spent(Job(g))
          BY <3>2, <4>2 DEF Outcome
        <5>2. RescheduleJob(Job(g), proc[g].attempt, now + Backoff(proc[g].attempt))
          BY <2>6, <4>2 DEF Settle
        <5> QED
          BY <2>6, <3>1, <5>1, <5>2, LossRows DEF Settle
      <4> QED
        BY <4>1, <4>2
    <3>5. SnapshotCounts' /\ TaskCounts'
      BY <2>6 DEF Settle, Return, LossInv, SnapshotCounts, TaskCounts, Outcome, Busy,
                  Job, Spent, TypeOK
    <3> QED
      BY <3>4, <3>5 DEF LossInv
  <2> QED
    BY <1>7, <2>1, <2>2, <2>3, <2>4, <2>5, <2>6 DEF Process
<1>8. CASE Tick
  BY <1>8, LossStutter DEF Tick
<1>9. CASE Shutdown
  BY <1>9, LossStutter DEF Shutdown
<1>10. CASE Exit
  BY <1>10, LossStutter DEF Exit, Gone
<1>11. CASE Crash
  BY <1>11, LossStutter DEF Crash, Gone
<1>12. CASE Restart
  BY <1>12, LossStutter DEF Restart
<1>13. CASE UNCHANGED vars
  BY <1>13, LossStutter DEF vars
<1> QED
  BY <1>1, <1>2, <1>3, <1>4, <1>5, <1>6, <1>7, <1>8, <1>9, <1>10, <1>11, <1>12, <1>13
     DEF Next

\* A job leaves the queue only delivered, spent or unrouted, whatever crashes,
\* shutdowns and database errors happen.
THEOREM JobsAreNotLost == Spec => []NoLostJob
<1>1. LossInv => NoLostJob
    BY DEF LossInv
<1> QED
    BY InitTypeOK, NextTypeOK, InitLossInv, NextLossInv, <1>1, PTL DEF Spec

-----------------------------------------------------------------------------
(***************************************************************************)
(* No row is worked on twice. While the process runs, the batch and the    *)
(* goroutines share no row, and both agree with the table; between drains  *)
(* there is neither.                                                       *)
(***************************************************************************)
\* Snapshot b is what the row still says.
Current(b) == /\ b.job \in rows
              /\ b.attempts = attempts[b.job]
              /\ nextAt[b.job] <= now

RunningInv ==
    /\ wpc \in {"select", "launch"}
    /\ wpc = "select" => batch = {} /\ Busy = {}
    /\ Busy \subseteq sem
    /\ \A b \in batch : Current(b)
    /\ \A b, c \in batch : b.job = c.job => b = c
    /\ \A b \in batch, g \in Busy : b.job # Job(g)

\* A process that is down has no worker.
DownInv == batch = {} /\ Busy = {} /\ sem = {}

WorkInv ==
    /\ rows \subseteq accepted
    /\ IsFiniteSet(sem) /\ Cardinality(sem) <= Concurrency
    /\ phase = "down" => DownInv
    /\ phase = "running" => RunningInv
    /\ NoDoubleProcessing
    /\ FreshClaim

LEMMA InitWorkInv == Init => WorkInv
<1>1. Cardinality({}) = 0 /\ IsFiniteSet({})
    BY FS_EmptySet
<1> QED
    BY <1>1, ConfigAssumption
       DEF Init, WorkInv, RunningInv, Busy, NoDoubleProcessing, FreshClaim

\* Claiming builds snapshots of distinct due rows.
LEMMA ClaimLemma ==
    ASSUME NEW S \in Claims,
           batch' = {[job |-> j, attempts |-> attempts[j], due |-> nextAt[j]] : j \in S},
           UNCHANGED <<table, now>>
    PROVE  /\ \A b \in batch' : Current(b)'
           /\ \A b, c \in batch' : b.job = c.job => b = c
<1>1. \A j \in S : j \in rows /\ nextAt[j] <= now
    BY DEF Claims, Due
<1> QED
    BY <1>1 DEF Current, table

\* While the process runs, a goroutine that holds the row's job is the only one
\* concerned by a change of that row.
LEMMA OwnRow ==
    ASSUME TypeOK, WorkInv, phase = "running", NEW g \in Busy
    PROVE  /\ \A h \in Busy : h # g => Job(h) # Job(g)
           /\ \A b \in batch : b.job # Job(g)
BY DEF WorkInv, RunningInv, NoDoubleProcessing

\* A goroutine that moves on with its row untouched keeps WorkInv.
LEMMA WorkGoto ==
    ASSUME TypeOK, WorkInv, NEW g \in Goroutines, NEW p, At(g, p),
           NEW q \in {"start", "posting", "log", "settle"},
           NEW out \in {"none", "2xx", "error"}, Goto(g, q, out),
           UNCHANGED <<table, phase, wpc, batch, sem, now, accepted>>
    PROVE  WorkInv'
<1>1. /\ \A h \in Goroutines : /\ proc'[h] = Idle <=> proc[h] = Idle
                               /\ proc[h] # Idle => /\ proc'[h].job = proc[h].job
                                                    /\ proc'[h].attempt = proc[h].attempt
  <2>1. proc[g] # Idle /\ proc'[g] # Idle
    <3>1. proc'[g] = [pc |-> q, job |-> proc[g].job, attempt |-> proc[g].attempt,
                      out |-> out]
      BY DEF Goto, TypeOK
    <3>2. proc'[g].pc # "idle"
      BY <3>1
    <3> QED
      BY <3>2 DEF At, Idle
  <2> QED
    BY <2>1, GotoLemma
<1>2. Busy' = Busy
    BY <1>1 DEF Busy
<1>3. \A h \in Busy : Job(h)' = Job(h) /\ proc'[h].attempt = proc[h].attempt
    BY <1>1 DEF Busy, Job
<1> QED
    BY <1>2, <1>3
       DEF WorkInv, DownInv, RunningInv, Current, NoDoubleProcessing, FreshClaim, table

\* A goroutine that ends, touching no row but its own, keeps WorkInv.
LEMMA WorkReturn ==
    ASSUME TypeOK, WorkInv, phase # "down", NEW g \in Busy, Return(g),
           rows' \subseteq rows,
           \A j \in Jobs : j # Job(g) =>
               /\ j \in rows => j \in rows'
               /\ attempts'[j] = attempts[j] /\ nextAt'[j] = nextAt[j],
           UNCHANGED <<phase, wpc, batch, now, accepted>>
    PROVE  WorkInv'
<1>1. /\ Busy' = Busy \ {g}
      /\ \A h \in Busy' : proc'[h] = proc[h] /\ Job(h)' = Job(h) /\ Job(h) \in Jobs
    BY DEF Busy, Return, Job, TypeOK, Task
<1>2. IsFiniteSet(sem') /\ Cardinality(sem') <= Concurrency
  <2>1. sem' \subseteq sem /\ IsFiniteSet(sem) /\ Cardinality(sem) <= Concurrency
    BY DEF WorkInv, Return
  <2>2. IsFiniteSet(sem') /\ Cardinality(sem') <= Cardinality(sem)
    BY <2>1, FS_Subset
  <2>3. Cardinality(sem') \in Nat /\ Cardinality(sem) \in Nat
    BY <2>1, <2>2, FS_CardinalityType
  <2> QED
    BY <2>1, <2>2, <2>3, ConfigAssumption
<1>3. CASE phase = "running"
  <2>1. /\ \A h \in Busy' : Job(h) # Job(g)
        /\ \A b \in batch : b.job # Job(g) /\ b.job \in Jobs
    BY <1>1, <1>3, OwnRow DEF TypeOK, Snapshot
  <2>2. RunningInv'
    BY <1>1, <1>3, <2>1 DEF WorkInv, RunningInv, Current, Return
  <2>3. NoDoubleProcessing' /\ FreshClaim'
    BY <1>1, <1>3, <2>1 DEF WorkInv, NoDoubleProcessing, FreshClaim
  <2> QED
    BY <1>2, <1>3, <2>2, <2>3 DEF WorkInv
<1>4. CASE phase # "running"
  BY <1>2, <1>4 DEF WorkInv, NoDoubleProcessing, FreshClaim
<1> QED
  BY <1>3, <1>4

LEMMA NextWorkInv == TypeOK /\ WorkInv /\ [Next]_vars => WorkInv'
<1> SUFFICES ASSUME TypeOK, WorkInv, [Next]_vars PROVE WorkInv'
    OBVIOUS
<1> USE DEF table, process, seen
<1>0. Cardinality({}) = 0 /\ IsFiniteSet({})
    BY FS_EmptySet
<1>1. ASSUME NEW j \in Jobs, Enqueue(j) PROVE WorkInv'
  <2>1. j \notin rows
    BY <1>1 DEF Enqueue, WorkInv
  <2>2. \A i \in Jobs \ {j} : attempts'[i] = attempts[i] /\ nextAt'[i] = nextAt[i]
    BY <1>1 DEF Enqueue, TypeOK
  <2>3. \A i \in rows : i \in Jobs \ {j} /\ i \in rows'
    BY <1>1, <2>1 DEF Enqueue, TypeOK
  <2>4. RunningInv => RunningInv'
    BY <1>1, <2>2, <2>3 DEF Enqueue, RunningInv, Current, Busy, Job
  <2>5. NoDoubleProcessing' /\ FreshClaim'
    BY <1>1, <2>2, <2>3 DEF Enqueue, WorkInv, NoDoubleProcessing, FreshClaim, Busy, Job
  <2> QED
    BY <1>1, <2>4, <2>5 DEF Enqueue, WorkInv
<1>2. CASE ClaimDue
  <2>1. Busy' = Busy /\ \A h \in Busy : Job(h)' = Job(h) /\ proc'[h] = proc[h]
    BY <1>2 DEF ClaimDue, Busy, Job
  <2>2. NoDoubleProcessing' /\ FreshClaim'
    BY <1>2, <2>1 DEF ClaimDue, WorkInv, NoDoubleProcessing, FreshClaim
  <2>3. CASE UNCHANGED <<batch, sem, wpc>>
    BY <1>2, <2>1, <2>2, <2>3 DEF ClaimDue, WorkInv, RunningInv, Current
  <2>4. ASSUME NEW S \in Claims,
               batch' = {[job |-> j, attempts |-> attempts[j], due |-> nextAt[j]] : j \in S},
               sem' = {}, wpc' = "launch"
        PROVE  WorkInv'
    <3>1. /\ \A b \in batch' : Current(b)'
          /\ \A b, c \in batch' : b.job = c.job => b = c
      BY <1>2, <2>4, ClaimLemma DEF ClaimDue
    <3>2. phase = "running" => Busy = {}
      BY <1>2 DEF ClaimDue, WorkInv, RunningInv
    <3>3. phase = "running" => RunningInv'
      BY <2>1, <2>4, <3>1, <3>2 DEF RunningInv
    <3> QED
      BY <1>0, <1>2, <2>2, <2>4, <3>3, ConfigAssumption DEF ClaimDue, WorkInv
  <2> QED
    BY <1>2, <2>3, <2>4 DEF ClaimDue
<1>3. ASSUME NEW g \in Goroutines, Launch(g) PROVE WorkInv'
  <2>1. PICK b \in batch :
           /\ batch' = batch \ {b}
           /\ proc' = [proc EXCEPT ![g] =
                         [pc |-> "start", job |-> b.job, attempt |-> b.attempts + 1,
                          out |-> "none"]]
    BY <1>3 DEF Launch
  <2>2. /\ proc'[g].job = b.job /\ proc'[g].attempt = b.attempts + 1
        /\ proc'[g].pc = "start"
        /\ \A h \in Goroutines \ {g} : proc'[h] = proc[h]
    BY <2>1 DEF TypeOK
  <2>3. /\ Busy' = Busy \cup {g} /\ g \notin Busy
        /\ \A h \in Busy : proc'[h] = proc[h] /\ Job(h)' = Job(h)
        /\ Job(g)' = b.job
    BY <1>3, <2>2 DEF Launch, Busy, Job, Idle
  <2>4. IsFiniteSet(sem') /\ Cardinality(sem') <= Concurrency
    <3>1. sem' = sem \cup {g} /\ IsFiniteSet(sem) /\ Cardinality(sem) < Concurrency
      BY <1>3 DEF Launch, SlotFree, WorkInv
    <3>2. /\ IsFiniteSet(sem')
          /\ Cardinality(sem') \in {Cardinality(sem), Cardinality(sem) + 1}
      BY <3>1, FS_AddElement
    <3>3. Cardinality(sem) \in Nat
      BY <3>1, FS_CardinalityType
    <3> QED
      BY <3>1, <3>2, <3>3, ConfigAssumption
  <2>5. CASE phase = "running"
    <3>1. RunningInv
      BY <2>5 DEF WorkInv
    <3>2. RunningInv'
      BY <1>3, <2>1, <2>3, <3>1 DEF Launch, RunningInv, Current
    <3>3. NoDoubleProcessing'
      BY <1>3, <2>1, <2>3, <2>5, <3>1 DEF Launch, WorkInv, RunningInv, NoDoubleProcessing
    <3>4. FreshClaim'
      BY <1>3, <2>1, <2>2, <2>3, <2>5, <3>1 DEF Launch, WorkInv, RunningInv, Current, FreshClaim
    <3> QED
      BY <1>3, <2>4, <2>5, <3>2, <3>3, <3>4 DEF Launch, WorkInv
  <2>6. CASE phase # "running"
    <3>1. phase # "down"
      BY <2>1 DEF WorkInv, DownInv
    <3> QED
      BY <1>3, <2>4, <2>6, <3>1 DEF Launch, WorkInv, NoDoubleProcessing, FreshClaim
  <2> QED
    BY <2>5, <2>6
<1>4. CASE AbandonBatch
  BY <1>4 DEF AbandonBatch, WorkInv, NoDoubleProcessing, FreshClaim
<1>5. CASE EndDrain
  <2>1. Busy' = Busy /\ \A h \in Busy : Job(h)' = Job(h)
    BY <1>5 DEF EndDrain, Busy, Job
  <2>2. RunningInv => RunningInv'
    BY <1>5, <2>1 DEF EndDrain, Settled, RunningInv, Current
  <2> QED
    BY <1>5, <2>1, <2>2 DEF EndDrain, WorkInv, DownInv, NoDoubleProcessing, FreshClaim
<1>6. CASE StopWorker
  BY <1>6 DEF StopWorker, WorkInv, NoDoubleProcessing, FreshClaim
<1>7. ASSUME NEW g \in Goroutines, Process(g) PROVE WorkInv'
  <2>1. CASE DropUnrouted(g) \/ Settle(g)
    <3>1. g \in Busy /\ phase # "down"
      BY <2>1 DEF DropUnrouted, Settle, At, Busy, WorkInv, DownInv
    <3>2. CompleteJob(Job(g)) \/ \E n, t : RescheduleJob(Job(g), n, t)
      BY <2>1 DEF DropUnrouted, Settle
    <3>3. /\ rows' \subseteq rows
          /\ \A j \in Jobs : j # Job(g) =>
                /\ j \in rows => j \in rows'
                /\ attempts'[j] = attempts[j] /\ nextAt'[j] = nextAt[j]
      BY <3>2 DEF CompleteJob, RescheduleJob, TypeOK
    <3> QED
      BY <2>1, <3>1, <3>3, WorkReturn DEF DropUnrouted, Settle
  <2>2. CASE Post(g)
    BY <2>2, WorkGoto DEF Post
  <2>3. CASE Answer2xx(g)
    BY <2>3, WorkGoto DEF Answer2xx
  <2>4. CASE AnswerError(g)
    BY <2>4, WorkGoto DEF AnswerError
  <2>5. CASE Cancelled(g)
    BY <2>5, WorkGoto DEF Cancelled
  <2>6. CASE LogDelivery(g)
    BY <2>6, WorkGoto, TaskLemma DEF LogDelivery
  <2> QED
    BY <1>7, <2>1, <2>2, <2>3, <2>4, <2>5, <2>6 DEF Process
<1>8. CASE Tick
  <2>1. Busy' = Busy /\ \A h \in Busy : Job(h)' = Job(h) /\ Job(h) \in Jobs
    BY <1>8 DEF Tick, Busy, Job, TypeOK, Task
  <2>2. \A j \in Jobs : nextAt[j] <= now => nextAt'[j] <= now'
    BY <1>8 DEF Tick, TypeOK
  <2>3. RunningInv => RunningInv'
    BY <1>8, <2>1, <2>2 DEF Tick, RunningInv, Current, TypeOK, Snapshot
  <2> QED
    BY <1>8, <2>1, <2>2, <2>3 DEF Tick, WorkInv, DownInv, NoDoubleProcessing, FreshClaim
<1>9. CASE Shutdown
  BY <1>9 DEF Shutdown, WorkInv, NoDoubleProcessing, FreshClaim
<1>10. CASE Exit \/ Crash
  <2>1. Gone
    BY <1>10 DEF Exit, Crash
  <2>2. Busy' = {}
    BY <2>1 DEF Gone, Busy
  <2> QED
    BY <1>0, <2>1, <2>2, ConfigAssumption
       DEF Gone, WorkInv, DownInv, NoDoubleProcessing, FreshClaim
<1>11. CASE Restart
  <2>1. DownInv /\ Busy' = Busy
    BY <1>11 DEF Restart, WorkInv, Busy
  <2>2. RunningInv'
    BY <1>11, <2>1 DEF Restart, DownInv, RunningInv
  <2> QED
    BY <1>11, <2>1, <2>2 DEF Restart, DownInv, WorkInv, NoDoubleProcessing, FreshClaim
<1>12. CASE UNCHANGED vars
  BY <1>12 DEF vars, WorkInv, DownInv, RunningInv, Current, NoDoubleProcessing, FreshClaim,
               Busy, Job
<1> QED
  BY <1>1, <1>2, <1>3, <1>4, <1>5, <1>6, <1>7, <1>8, <1>9, <1>10, <1>11, <1>12
     DEF Next

\* WorkInv holds in every reachable state.
LEMMA WorkInvariant == Spec => []WorkInv
BY InitTypeOK, NextTypeOK, InitWorkInv, NextWorkInv, PTL DEF Spec

\* While the process runs, no two goroutines deliver the same row.
THEOREM RowsAreNotSharedWhileRunning == Spec => []NoDoubleProcessing
<1>1. WorkInv => NoDoubleProcessing
    BY DEF WorkInv
<1> QED
    BY <1>1, WorkInvariant, PTL

\* While the process runs, every goroutine works on a row that still exists, is
\* due, and counts the attempts the goroutine believes it does.
THEOREM ClaimsStayFresh == Spec => []FreshClaim
<1>1. WorkInv => FreshClaim
    BY DEF WorkInv
<1> QED
    BY <1>1, WorkInvariant, PTL

\* While the process runs, deliveries in flight never exceed concurrency.
THEOREM ConcurrencyIsBounded == Spec => []ConcurrencyBound
<1>1. WorkInv => ConcurrencyBound
  <2>1. SUFFICES ASSUME WorkInv, phase = "running" PROVE Cardinality(Busy) <= Concurrency
    BY DEF ConcurrencyBound
  <2>2. Busy \subseteq sem /\ IsFiniteSet(sem) /\ Cardinality(sem) <= Concurrency
    BY <2>1 DEF WorkInv, RunningInv
  <2>3. Cardinality(Busy) <= Cardinality(sem) /\ IsFiniteSet(Busy)
    BY <2>2, FS_Subset
  <2>4. Cardinality(Busy) \in Nat /\ Cardinality(sem) \in Nat
    BY <2>2, <2>3, FS_CardinalityType
  <2> QED
    BY <2>2, <2>3, <2>4, ConfigAssumption
<1> QED
    BY <1>1, WorkInvariant, PTL

-----------------------------------------------------------------------------
(***************************************************************************)
(* The refinement: DeliveryWorker implements DurableQueue. The step of the *)
(* table, the goroutines and the process that changes how a job stands is  *)
(* a step of the abstract queue, every other one a stutter.                *)
(*                                                                         *)
(* What the worker may still hold of a job. A goroutine can outlive the    *)
(* row it was started for; if the job's route is configured, the row then  *)
(* went because the job was delivered or spent, never because it was       *)
(* dropped: whether a route is configured changes only while the process   *)
(* is down, when there is no goroutine.                                    *)
(***************************************************************************)
Held(j) ==
    /\ j \in accepted
    /\ RouteOf[j] \in live => j \in rows \/ acks[j] > 0 \/ Spent(j) >= Allowed

HeldInv ==
    /\ \A b \in batch : Held(b.job)
    /\ \A g \in Busy : Held(Job(g)) /\ (proc[g].pc # "start" => RouteOf[Job(g)] \in live)

LEMMA InitHeldInv == Init => HeldInv
BY DEF Init, HeldInv, Busy

\* A job stays held while the process lives, if the step that removes its row is
\* entitled to.
LEMMA HeldStays ==
    ASSUME TypeOK, NEW j \in Jobs, Held(j),
           UNCHANGED live, accepted \subseteq accepted',
           acks'[j] \in Nat, acks[j] <= acks'[j],
           Spent(j)' \in Nat, Spent(j) <= Spent(j)',
           j \in rows => \/ j \in rows'
                         \/ acks'[j] > 0
                         \/ Spent(j)' >= Allowed
                         \/ RouteOf[j] \notin live
    PROVE  Held(j)'
<1>1. Spent(j) \in Nat /\ acks[j] \in Nat /\ Allowed \in Nat
    BY AllowedLemma DEF Spent, TypeOK
<1> QED
    BY <1>1 DEF Held

\* A step that leaves rows, jobs and outcomes alone, starts nothing and reads
\* nothing keeps HeldInv, whatever goroutines it ends.
LEMMA HeldStutter ==
    ASSUME TypeOK, HeldInv, UNCHANGED <<rows, accepted, acks, failed, cancelled, live>>,
           batch' \subseteq batch, \A g \in Goroutines : proc'[g] \in {proc[g], Idle}
    PROVE  HeldInv'
BY DEF HeldInv, Held, Busy, Job, Spent

\* A goroutine that moves on past its start, with its route configured, keeps
\* HeldInv if no job loses anything.
LEMMA HeldGoto ==
    ASSUME TypeOK, HeldInv, NEW g \in Goroutines, NEW p, At(g, p),
           NEW q \in {"posting", "log", "settle"},
           NEW out \in {"none", "2xx", "error"}, Goto(g, q, out),
           RouteOf[Job(g)] \in live,
           UNCHANGED <<rows, accepted, live, batch>>,
           \A j \in Jobs : /\ acks'[j] \in Nat /\ acks[j] <= acks'[j]
                           /\ Spent(j)' \in Nat /\ Spent(j) <= Spent(j)'
    PROVE  HeldInv'
<1>1. /\ proc'[g].pc = q /\ Job(g)' = Job(g)
      /\ \A h \in Goroutines \ {g} : proc'[h] = proc[h] /\ Job(h)' = Job(h)
    BY GotoLemma DEF Job
<1>2. g \in Busy /\ Busy' \subseteq Busy
    BY <1>1 DEF At, Busy
<1>3. \A j \in Jobs : Held(j) => Held(j)'
    BY HeldStays
<1>4. /\ \A b \in batch : b.job \in Jobs
      /\ \A h \in Busy : Job(h) \in Jobs
    BY DEF TypeOK, Snapshot, Busy, Task, Job
<1>5. \A b \in batch' : Held(b.job)'
    BY <1>3, <1>4 DEF HeldInv
<1>6. ASSUME NEW h \in Busy'
      PROVE  Held(Job(h))' /\ (proc'[h].pc # "start" => RouteOf[Job(h)'] \in live')
  <2>1. h \in Busy /\ Job(h)' = Job(h) /\ Held(Job(h)) /\ h \in Goroutines
    BY <1>1, <1>2, <1>6 DEF HeldInv, Busy
  <2>2. Held(Job(h))'
    BY <1>3, <1>4, <2>1 DEF Job
  <2>3. proc'[h].pc # "start" => RouteOf[Job(h)] \in live
    BY <1>1, <2>1 DEF HeldInv
  <2> QED
    BY <2>1, <2>2, <2>3
<1> QED
    BY <1>5, <1>6 DEF HeldInv

LEMMA NextHeldInv == TypeOK /\ LossInv /\ WorkInv /\ HeldInv /\ [Next]_vars => HeldInv'
<1> SUFFICES ASSUME TypeOK, LossInv, WorkInv, HeldInv, [Next]_vars PROVE HeldInv'
    OBVIOUS
<1> USE DEF table, process, seen
<1>0. /\ \A b \in batch : b.job \in Jobs
      /\ \A h \in Busy : Job(h) \in Jobs
      /\ \A j \in Jobs : acks[j] \in Nat /\ Spent(j) \in Nat
    BY DEF TypeOK, Snapshot, Busy, Task, Job, Spent
<1>1. ASSUME NEW j \in Jobs, Enqueue(j) PROVE HeldInv'
  <2>1. \A i \in Jobs : Held(i) => Held(i)'
    BY <1>1 DEF Enqueue, Held, Spent
  <2> QED
    BY <1>0, <1>1, <2>1 DEF Enqueue, HeldInv, Busy, Job
<1>2. CASE ClaimDue
  <2>1. \A i \in Jobs : Held(i) => Held(i)'
    BY <1>2 DEF ClaimDue, Held, Spent
  <2>2. \A i \in rows : Held(i)'
    BY <1>2 DEF ClaimDue, WorkInv, Held, Spent
  <2>3. \A b \in batch' : b \in batch \/ b.job \in rows
    <3>1. ASSUME NEW S \in Claims,
                 batch' = {[job |-> j, attempts |-> attempts[j], due |-> nextAt[j]] : j \in S}
          PROVE  \A b \in batch' : b.job \in rows
      BY <3>1 DEF Claims, Due
    <3> QED
      BY <1>2, <3>1 DEF ClaimDue
  <2>4. \A b \in batch' : Held(b.job)'
    BY <1>0, <2>1, <2>2, <2>3 DEF HeldInv
  <2>5. \A g \in Busy' : Held(Job(g))' /\ (proc'[g].pc # "start" => RouteOf[Job(g)'] \in live')
    BY <1>0, <1>2, <2>1 DEF ClaimDue, HeldInv, Busy, Job
  <2> QED
    BY <2>4, <2>5 DEF HeldInv
<1>3. ASSUME NEW g \in Goroutines, Launch(g) PROVE HeldInv'
  <2>1. PICK b \in batch :
           /\ batch' = batch \ {b}
           /\ proc' = [proc EXCEPT ![g] =
                         [pc |-> "start", job |-> b.job, attempt |-> b.attempts + 1,
                          out |-> "none"]]
    BY <1>3 DEF Launch
  <2>2. /\ proc'[g].pc = "start" /\ Job(g)' = b.job
        /\ \A h \in Goroutines \ {g} : proc'[h] = proc[h] /\ Job(h)' = Job(h)
    BY <2>1 DEF TypeOK, Job
  <2>3. \A i \in Jobs : Held(i) => Held(i)'
    BY <1>3 DEF Launch, Held, Spent
  <2> QED
    BY <1>0, <1>3, <2>1, <2>2, <2>3 DEF Launch, HeldInv, Busy
<1>4. CASE AbandonBatch
  BY <1>4, HeldStutter DEF AbandonBatch
<1>5. CASE EndDrain
  BY <1>5, HeldStutter DEF EndDrain
<1>6. CASE StopWorker
  BY <1>6, HeldStutter DEF StopWorker
<1>7. ASSUME NEW g \in Goroutines, Process(g) PROVE HeldInv'
  <2>0. Job(g) \in Jobs /\ g \in Busy
    BY <1>0, <1>7 DEF Process, DropUnrouted, Post, Answer2xx, AnswerError, Cancelled,
                      LogDelivery, Settle, At, Busy
  <2>1. CASE DropUnrouted(g) \/ Settle(g)
    <3>1. /\ Busy' \subseteq Busy /\ batch' = batch
          /\ \A h \in Busy' : proc'[h] = proc[h] /\ Job(h)' = Job(h)
      BY <2>1 DEF DropUnrouted, Settle, Return, Busy, Job, TypeOK
    <3>2. /\ UNCHANGED <<live, accepted, acks, failed, cancelled>>
          /\ \A j \in Jobs : Spent(j)' = Spent(j)
      BY <2>1 DEF DropUnrouted, Settle, Spent
    <3>3. CompleteJob(Job(g)) \/ rows' = rows
      BY <2>1 DEF DropUnrouted, Settle, RescheduleJob
    <3>4. CompleteJob(Job(g)) => \/ rows' = rows
                                 \/ acks[Job(g)] > 0
                                 \/ Spent(Job(g)) >= Allowed
                                 \/ RouteOf[Job(g)] \notin live
      <4>1. CASE DropUnrouted(g)
        BY <4>1 DEF DropUnrouted
      <4>2. CASE Settle(g)
        <5>1. Outcome(g) /\ proc[g].attempt \in 1 .. Allowed /\ Allowed \in Nat
          BY <2>0, <4>2, TaskLemma, AllowedLemma DEF Settle, At, LossInv, TaskCounts
        <5>2. CASE proc[g].out = "2xx" \/ GivesUp(proc[g].attempt)
          BY <1>0, <2>0, <5>1, <5>2, AllowedLemma DEF Outcome
        <5>3. CASE ~(proc[g].out = "2xx" \/ GivesUp(proc[g].attempt))
          BY <4>2, <5>3 DEF Settle, RescheduleJob
        <5> QED
          BY <5>2, <5>3
      <4> QED
        BY <2>1, <4>1, <4>2
    <3>5. \A j \in rows : j \in rows' \/ (j = Job(g) /\ CompleteJob(Job(g)))
      BY <3>3 DEF CompleteJob
    <3>6. \A j \in Jobs : Held(j) => Held(j)'
      <4>1. SUFFICES ASSUME NEW j \in Jobs, Held(j) PROVE Held(j)'
        OBVIOUS
      <4>2. j \in rows => \/ j \in rows'
                          \/ acks'[j] > 0
                          \/ Spent(j)' >= Allowed
                          \/ RouteOf[j] \notin live
        BY <3>2, <3>4, <3>5
      <4> QED
        BY <1>0, <3>2, <4>1, <4>2, HeldStays
    <3> QED
      BY <1>0, <3>1, <3>2, <3>6 DEF HeldInv
  <2>2. CASE Post(g) \/ LogDelivery(g)
    <3>1. /\ UNCHANGED <<rows, accepted, live, batch, acks, failed, cancelled>>
          /\ \A j \in Jobs : Spent(j)' = Spent(j)
      BY <2>2 DEF Post, LogDelivery, Spent
    <3>2. CASE Post(g)
      BY <1>0, <3>1, <3>2, HeldGoto DEF Post
    <3>3. CASE LogDelivery(g)
      <4>1. RouteOf[Job(g)] \in live /\ proc[g].out \in {"none", "2xx", "error"}
        BY <2>0, <3>3, TaskLemma DEF LogDelivery, At, HeldInv
      <4> QED
        BY <1>0, <3>1, <3>3, <4>1, HeldGoto DEF LogDelivery
    <3> QED
      BY <2>2, <3>2, <3>3
  <2>3. CASE Answer2xx(g) \/ AnswerError(g) \/ Cancelled(g)
    <3>1. RouteOf[Job(g)] \in live
      BY <2>0, <2>3 DEF Answer2xx, AnswerError, Cancelled, At, HeldInv
    <3>2. \A j \in Jobs : /\ acks'[j] \in Nat /\ acks[j] <= acks'[j]
                          /\ Spent(j)' \in Nat /\ Spent(j) <= Spent(j)'
      BY <2>0, <2>3 DEF Answer2xx, AnswerError, Cancelled, Spent, TypeOK
    <3> QED
      BY <2>3, <3>1, <3>2, HeldGoto DEF Answer2xx, AnswerError, Cancelled
  <2> QED
    BY <1>7, <2>1, <2>2, <2>3 DEF Process
<1>8. CASE Tick
  BY <1>8, HeldStutter DEF Tick
<1>9. CASE Shutdown
  BY <1>9, HeldStutter DEF Shutdown
<1>10. CASE Exit \/ Crash
  BY <1>10, HeldStutter DEF Exit, Crash, Gone
<1>11. CASE Restart
  BY <1>11 DEF Restart, WorkInv, DownInv, HeldInv, Busy
<1>12. CASE UNCHANGED vars
  BY <1>12, HeldStutter DEF vars
<1> QED
  BY <1>1, <1>2, <1>3, <1>4, <1>5, <1>6, <1>7, <1>8, <1>9, <1>10, <1>11, <1>12 DEF Next

-----------------------------------------------------------------------------
(***************************************************************************)
(* The refinement mapping, step by step.                                   *)
(***************************************************************************)
\* The status of a job that has left the queue is never "lost".
LEMMA StatusLemma ==
    ASSUME TypeOK, NoLostJob, NEW j \in Jobs
    PROVE  /\ j \in rows => StatusOf(j) = "pending"
           /\ j \notin rows /\ j \notin accepted => StatusOf(j) = "new"
           /\ j \in accepted \ rows =>
                /\ StatusOf(j) \in {"delivered", "failed", "unrouted"}
                /\ StatusOf(j) = "delivered" <=> acks[j] > 0
                /\ StatusOf(j) = "failed" <=> acks[j] <= 0 /\ Spent(j) >= Allowed
<1>1. acks[j] \in Nat /\ Spent(j) \in Nat /\ Allowed \in Nat
    BY AllowedLemma DEF TypeOK, Spent
<1> QED
    BY <1>1 DEF StatusOf, NoLostJob, Spent

\* What the abstract queue sees has not changed if, job by job, it has not.
LEMMA SeesNothing ==
    ASSUME \A j \in Jobs : StatusOf(j)' = StatusOf(j) /\ Spent(j)' = Spent(j)
    PROVE  UNCHANGED Queue!queue
BY DEF Queue!queue, Spent

\* It sees a job change its status if that is the only change.
LEMMA SeesStatus ==
    ASSUME NEW j \in Jobs, NEW s, StatusOf(j)' = s,
           \A i \in Jobs \ {j} : StatusOf(i)' = StatusOf(i),
           \A i \in Jobs : Spent(i)' = Spent(i)
    PROVE  Queue!Becomes(j, s)
BY DEF Queue!Becomes, Spent

\* A row that goes, with the drop of its route recorded or not, is a job that
\* leaves the abstract queue; a failed DELETE is nothing.
LEMMA RowGone ==
    ASSUME TypeOK, NoLostJob, TypeOK', NoLostJob', rows \subseteq accepted,
           UNCHANGED <<accepted, acks, failed, cancelled>>,
           NEW j \in Jobs, rows' \in {rows, rows \ {j}},
           unrouted' \in {unrouted, unrouted \cup {j}}
    PROVE  [Queue!Next]_(Queue!queue)
<1>1. \A i \in Jobs : Spent(i)' = Spent(i)
    BY DEF Spent
<1>2. \A i \in Jobs \ {j} : StatusOf(i)' = StatusOf(i)
    BY DEF StatusOf
<1>3. CASE j \in rows /\ j \notin rows'
  <2>1. StatusOf(j) = "pending" /\ j \in accepted
    BY <1>3, StatusLemma
  <2>2. /\ StatusOf(j)' \in {"delivered", "failed", "unrouted"}
        /\ StatusOf(j)' = "failed" => Spent(j) >= Allowed
    BY <1>1, <1>3, <2>1, AllowedLemma DEF StatusOf, NoLostJob, Spent, TypeOK
  <2>3. Queue!Becomes(j, StatusOf(j)')
    BY <1>1, <1>2, SeesStatus
  <2>4. Queue!Leave(j)
    BY <2>1, <2>2, <2>3 DEF Queue!Leave, Queue!Deliver, Queue!GiveUp, Queue!Unroute, Spent
  <2> QED
    BY <2>4 DEF Queue!Next
<1>4. CASE ~(j \in rows /\ j \notin rows')
  <2>1. StatusOf(j)' = StatusOf(j)
    BY <1>4, AllowedLemma DEF StatusOf, NoLostJob, TypeOK
  <2> QED
    BY <1>1, <1>2, <2>1, SeesNothing
<1> QED
    BY <1>3, <1>4

\* A failed or cancelled attempt on a job held is seen as that, and settles nothing.
LEMMA AttemptFails ==
    ASSUME TypeOK, NoLostJob, NEW j \in Jobs, Held(j), RouteOf[j] \in live,
           UNCHANGED <<rows, accepted, acks, unrouted>>,
           \/ failed' = [failed EXCEPT ![j] = @ + 1] /\ UNCHANGED cancelled
           \/ cancelled' = [cancelled EXCEPT ![j] = @ + 1] /\ UNCHANGED failed
    PROVE  Queue!Fail(j)
<1>1. /\ failed'[j] + cancelled'[j] = failed[j] + cancelled[j] + 1
      /\ \A i \in Jobs \ {j} : failed'[i] + cancelled'[i] = failed[i] + cancelled[i]
    BY DEF TypeOK
<1>2. /\ \A i \in Jobs : failed[i] + cancelled[i] \in Nat /\ acks[i] \in Nat
      /\ Allowed \in Nat
    BY AllowedLemma DEF TypeOK
<1>3. StatusOf(j) # "new" /\ StatusOf(j)' = StatusOf(j)
    BY <1>1, <1>2 DEF Held, StatusOf, Spent
<1>4. \A i \in Jobs : StatusOf(i)' = StatusOf(i)
    BY <1>1, <1>3 DEF StatusOf
<1>5. [i \in Jobs |-> StatusOf(i)]' = [i \in Jobs |-> StatusOf(i)]
    BY <1>4
<1>6. [i \in Jobs |-> failed[i] + cancelled[i]]'
        = [[i \in Jobs |-> failed[i] + cancelled[i]] EXCEPT ![j] = @ + 1]
    BY <1>1
<1> QED
    BY <1>3, <1>5, <1>6 DEF Queue!Fail

\* A confirmation is seen only of a job that has left the queue unconfirmed.
LEMMA AttemptConfirmed ==
    ASSUME TypeOK, NoLostJob, NEW j \in Jobs, j \in accepted,
           UNCHANGED <<rows, accepted, failed, cancelled, unrouted>>,
           acks' = [acks EXCEPT ![j] = @ + 1]
    PROVE  [Queue!Next]_(Queue!queue)
<1>1. /\ acks'[j] = acks[j] + 1 /\ acks[j] \in Nat
      /\ \A i \in Jobs \ {j} : acks'[i] = acks[i]
    BY DEF TypeOK
<1>2. /\ \A i \in Jobs : Spent(i)' = Spent(i)
      /\ \A i \in Jobs \ {j} : StatusOf(i)' = StatusOf(i)
    BY <1>1 DEF StatusOf, Spent
<1>3. CASE j \in rows \/ acks[j] > 0
  <2>1. StatusOf(j)' = StatusOf(j)
    BY <1>1, <1>3 DEF StatusOf
  <2> QED
    BY <1>2, <2>1, SeesNothing
<1>4. CASE j \notin rows /\ acks[j] <= 0
  <2>1. StatusOf(j)' = "delivered"
    BY <1>1, <1>4 DEF StatusOf
  <2>2. StatusOf(j) \in {"failed", "unrouted"}
    BY <1>1, <1>4 DEF StatusOf, NoLostJob
  <2>3. Queue!LateConfirm(j)
    BY <1>2, <2>1, <2>2, SeesStatus DEF Queue!LateConfirm
  <2> QED
    BY <2>3 DEF Queue!Next
<1> QED
    BY <1>1, <1>3, <1>4
\* A step that leaves the table and the outcomes alone is not seen.
LEMMA NotSeen ==
    ASSUME UNCHANGED <<rows, accepted, acks, failed, cancelled, unrouted>>
    PROVE  UNCHANGED Queue!queue
BY SeesNothing DEF StatusOf, Spent

LEMMA InitSimulates == Init => Queue!Init
<1>1. SUFFICES ASSUME Init PROVE Queue!Init
    OBVIOUS
<1>2. \A j \in Jobs : StatusOf(j) = "new" /\ failed[j] + cancelled[j] = 0
    BY <1>1 DEF Init, StatusOf
<1> QED
    BY <1>2 DEF Queue!Init

LEMMA NextSimulates ==
    TypeOK /\ TypeOK' /\ LossInv /\ LossInv' /\ WorkInv /\ HeldInv /\ [Next]_vars
        => [Queue!Next]_(Queue!queue)
<1> SUFFICES ASSUME TypeOK, TypeOK', LossInv, LossInv', WorkInv, HeldInv, [Next]_vars
             PROVE  [Queue!Next]_(Queue!queue)
    OBVIOUS
<1> USE DEF table, process, seen
<1>0. rows \subseteq accepted /\ NoLostJob /\ NoLostJob'
    BY DEF WorkInv, LossInv
<1>1. ASSUME NEW j \in Jobs, Enqueue(j) PROVE [Queue!Next]_(Queue!queue)
  <2>1. StatusOf(j) = "new" /\ StatusOf(j)' = "pending"
    BY <1>0, <1>1 DEF Enqueue, StatusOf
  <2>2. /\ \A i \in Jobs \ {j} : StatusOf(i)' = StatusOf(i)
        /\ \A i \in Jobs : Spent(i)' = Spent(i)
    BY <1>1 DEF Enqueue, StatusOf, Spent
  <2>3. Queue!Submit(j)
    BY <2>1, <2>2, SeesStatus DEF Queue!Submit
  <2> QED
    BY <2>3 DEF Queue!Next
<1>2. ASSUME NEW g \in Goroutines, Process(g) PROVE [Queue!Next]_(Queue!queue)
  <2>1. /\ g \in Busy /\ Job(g) \in Jobs /\ Held(Job(g))
        /\ At(g, "posting") => RouteOf[Job(g)] \in live
    BY <1>2 DEF Process, DropUnrouted, Post, Answer2xx, AnswerError, Cancelled,
                LogDelivery, Settle, At, Busy, HeldInv, TypeOK, Task, Job
  <2>2. CASE DropUnrouted(g) \/ Settle(g)
    <3>1. /\ UNCHANGED <<accepted, acks, failed, cancelled>>
          /\ rows' \in {rows, rows \ {Job(g)}}
          /\ unrouted' \in {unrouted, unrouted \cup {Job(g)}}
      BY <2>2 DEF DropUnrouted, Settle, CompleteJob, RescheduleJob
    <3> QED
      BY <1>0, <2>1, <3>1, RowGone
  <2>3. CASE Post(g) \/ LogDelivery(g)
    BY <2>3, NotSeen DEF Post, LogDelivery
  <2>4. CASE Answer2xx(g)
    BY <1>0, <2>1, <2>4, AttemptConfirmed DEF Answer2xx, Held
  <2>5. CASE AnswerError(g) \/ Cancelled(g)
    <3>1. PICK j \in Jobs : j = Job(g)
      BY <2>1
    <3>2. /\ Held(j) /\ RouteOf[j] \in live
          /\ UNCHANGED <<rows, accepted, acks, unrouted>>
          /\ \/ failed' = [failed EXCEPT ![j] = @ + 1] /\ UNCHANGED cancelled
             \/ cancelled' = [cancelled EXCEPT ![j] = @ + 1] /\ UNCHANGED failed
      BY <2>1, <2>5, <3>1 DEF AnswerError, Cancelled
    <3>3. Queue!Fail(j)
      BY <1>0, <3>2, AttemptFails
    <3> QED
      BY <3>3 DEF Queue!Next
  <2> QED
    BY <1>2, <2>2, <2>3, <2>4, <2>5 DEF Process
<1>3. CASE \/ ClaimDue \/ (\E g \in Goroutines : Launch(g)) \/ AbandonBatch \/ EndDrain
           \/ StopWorker \/ Tick \/ Shutdown \/ Exit \/ Crash \/ Restart
  BY <1>3, NotSeen DEF ClaimDue, Launch, AbandonBatch, EndDrain, StopWorker, Tick, Shutdown,
                       Exit, Crash, Gone, Restart
<1>4. CASE UNCHANGED vars
  BY <1>4, NotSeen DEF vars
<1> QED
  BY <1>1, <1>2, <1>3, <1>4 DEF Next

\* The table, its goroutines, stops, restarts and failing statements implement the
\* queue the server relies on (Enqueue, RunWorker, drain, process): a job becomes
\* pending once and leaves the queue once, confirmed, spent or unrouted.
THEOREM WorkerImplementsQueue == Spec => ImplementsQueue
<1>1. Spec => [](TypeOK /\ LossInv /\ WorkInv /\ HeldInv)
    BY InitTypeOK, NextTypeOK, InitLossInv, NextLossInv, InitWorkInv, NextWorkInv,
       InitHeldInv, NextHeldInv, PTL DEF Spec
<1> QED
    BY <1>1, InitSimulates, NextSimulates, PTL DEF Spec, ImplementsQueue, Queue!Spec

-----------------------------------------------------------------------------
(***************************************************************************)
(* The budget. While the process runs, the attempts column of a row trails *)
(* the requests made for it by at most the faults so far, and by one more  *)
(* while a goroutine is past its start; the same holds of confirmations.   *)
(* A stop turns that one into a fault. From then on no request is made     *)
(* until a restart, so goroutines that overlap and write each other's      *)
(* counts, even lower ones, cost nothing more.                             *)
(***************************************************************************)
Faults == dbErrors + stops

\* Goroutine g has been told 2xx and has not removed its row yet.
Confirmed(g) == proc[g].pc \in {"log", "settle"} /\ proc[g].out = "2xx"

Unused == \A j \in Jobs \ accepted : posts[j] = 0 /\ acks[j] = 0

RunningBudget(j) ==
    /\ posts[j] <= attempts[j] + 1 + Faults
    /\ acks[j] <= 1 + Faults
    /\ j \in rows /\ (\A g \in Busy : Job(g) = j => proc[g].pc = "start")
          => posts[j] <= attempts[j] + Faults
    /\ j \in rows /\ (\A g \in Busy : Job(g) = j => ~Confirmed(g))
          => acks[j] <= Faults

StoppedBudget ==
    /\ \A j \in Jobs : posts[j] <= attempts[j] + Faults /\ acks[j] <= Faults
    /\ \A b \in batch : posts[b.job] <= b.attempts + Faults
    /\ \A g \in Busy : posts[Job(g)] <= proc[g].attempt - 1 + Faults
    /\ \A g \in Busy : proc[g].pc = "posting" => acks[Job(g)] + 1 <= Faults
    /\ \A g, h \in Busy :
          proc[g].pc = "posting" /\ proc[h].pc = "posting" /\ Job(g) = Job(h) => g = h

BudgetInv ==
    /\ Unused
    /\ phase = "running" => \A j \in Jobs : RunningBudget(j)
    /\ phase # "running" => StoppedBudget

\* The numbers the budget is about.
LEMMA NumbersLemma ==
    ASSUME TypeOK
    PROVE  /\ Faults \in Nat /\ dbErrors \in Nat /\ stops \in Nat
           /\ \A j \in Jobs : posts[j] \in Nat /\ acks[j] \in Nat /\ attempts[j] \in Nat
           /\ \A b \in batch : b.job \in Jobs /\ b.attempts \in Nat
           /\ \A g \in Busy : Job(g) \in Jobs /\ proc[g].attempt \in Nat
BY AllowedLemma DEF TypeOK, Faults, Snapshot, Task, Busy, Job

\* Failed statements only add to the budget.
LEMMA DbFaults ==
    ASSUME TypeOK, NEW ok, DbStatement(ok)
    PROVE  /\ dbErrors' \in {dbErrors, dbErrors + 1}
           /\ ~ok => dbErrors' = dbErrors + 1
BY DEF DbStatement

LEMMA InitBudgetInv == Init => BudgetInv
BY DEF Init, BudgetInv, Unused, RunningBudget, Faults, Busy

\* A step that leaves the table, requests and confirmations alone, starts no
\* goroutine and moves none past its start or its answer keeps BudgetInv.
LEMMA BudgetStutter ==
    ASSUME TypeOK, BudgetInv, UNCHANGED <<table, accepted, posts, acks, phase>>,
           batch' \subseteq batch, UNCHANGED proc, Faults' \in {Faults, Faults + 1}
    PROVE  BudgetInv'
<1> USE DEF table
<1>1. /\ Busy' = Busy
      /\ \A g \in Busy : Job(g)' = Job(g) /\ proc'[g] = proc[g]
    BY DEF Busy, Job
<1>2. Faults \in Nat
    BY NumbersLemma
<1>3. Unused'
    BY DEF BudgetInv, Unused
<1>4. CASE phase = "running"
  <2>1. \A j \in Jobs : RunningBudget(j)'
    BY <1>1, <1>2, <1>4, NumbersLemma DEF BudgetInv, RunningBudget, Confirmed
  <2> QED
    BY <1>3, <1>4, <2>1 DEF BudgetInv
<1>5. CASE phase # "running"
  <2>1. StoppedBudget'
    BY <1>1, <1>2, <1>5, NumbersLemma DEF BudgetInv, StoppedBudget
  <2> QED
    BY <1>3, <1>5, <2>1 DEF BudgetInv
<1> QED
    BY <1>4, <1>5
\* A job that is held by a goroutine alone keeps its budget, while the process
\* runs, through every step of that goroutine.
LEMMA BudgetProcess ==
    ASSUME TypeOK, TypeOK', WorkInv, HeldInv, BudgetInv, phase = "running",
           NEW g \in Goroutines, Process(g)
    PROVE  BudgetInv'
<1> USE DEF table, process, seen
<1>1. PICK i \in Jobs : i = Job(g)
    BY NumbersLemma DEF Process, DropUnrouted, Post, Answer2xx, AnswerError, Cancelled,
                        LogDelivery, Settle, At, Busy
<1>2. /\ g \in Busy /\ i \in accepted /\ i \in rows
      /\ proc[g].attempt = attempts[i] + 1
      /\ \A h \in Busy : h # g => Job(h) # i
    BY <1>1 DEF Process, DropUnrouted, Post, Answer2xx, AnswerError, Cancelled, LogDelivery,
                Settle, At, Busy, HeldInv, Held, WorkInv, FreshClaim, NoDoubleProcessing
<1>3. /\ \A h \in Goroutines \ {g} : proc'[h] = proc[h] /\ Job(h)' = Job(h)
      /\ \A h \in Busy : h # g => h \in Busy'
      /\ \A h \in Busy' : h # g => h \in Busy
    BY DEF Process, DropUnrouted, Post, Answer2xx, AnswerError, Cancelled, LogDelivery,
           Settle, Goto, Return, Busy, Job, TypeOK
<1>4. /\ Faults \in Nat /\ Faults' \in Nat /\ Faults <= Faults'
      /\ posts[i] \in Nat /\ acks[i] \in Nat /\ attempts[i] \in Nat
      /\ RunningBudget(i)
  <2>1. stops' = stops /\ (dbErrors' = dbErrors \/ dbErrors' = dbErrors + 1)
    BY DEF Process, DropUnrouted, Post, Answer2xx, AnswerError, Cancelled, LogDelivery,
           Settle, CompleteJob, RescheduleJob, DbStatement
  <2>2. Faults \in Nat /\ Faults' \in Nat /\ Faults <= Faults'
    BY <2>1, NumbersLemma DEF Faults
  <2> QED
    BY <2>2, NumbersLemma DEF BudgetInv
<1>5. /\ UNCHANGED <<accepted, phase>>
      /\ \A j \in Jobs \ {i} :
            /\ posts'[j] = posts[j] /\ acks'[j] = acks[j] /\ attempts'[j] = attempts[j]
            /\ j \in rows' <=> j \in rows
    BY <1>1 DEF Process, DropUnrouted, Post, Answer2xx, AnswerError, Cancelled, LogDelivery,
                Settle, CompleteJob, RescheduleJob, TypeOK
<1>6. Unused'
    BY <1>2, <1>5 DEF BudgetInv, Unused
<1>7. ASSUME NEW j \in Jobs \ {i} PROVE RunningBudget(j)'
  <2>1. RunningBudget(j) /\ posts[j] \in Nat /\ acks[j] \in Nat /\ attempts[j] \in Nat
    BY NumbersLemma DEF BudgetInv
  <2>2. \A h \in Busy : Job(h) = j => h \in Busy' /\ proc'[h] = proc[h] /\ Job(h)' = j
    BY <1>1, <1>3 DEF Busy
  <2> QED
    BY <1>4, <1>5, <2>1, <2>2 DEF RunningBudget, Confirmed
<1>8. RunningBudget(i)'
  <2>1. /\ (\A h \in Busy : Job(h) = i => proc[h].pc = "start") <=> proc[g].pc = "start"
        /\ (\A h \in Busy : Job(h) = i => ~Confirmed(h)) <=> ~Confirmed(g)
    BY <1>1, <1>2
  <2>2. CASE DropUnrouted(g)
    <3>1. /\ posts' = posts /\ acks' = acks /\ attempts' = attempts /\ rows' \subseteq rows
          /\ proc[g].pc = "start"
      BY <2>2 DEF DropUnrouted, CompleteJob, At
    <3> QED
      BY <1>2, <1>4, <2>1, <3>1 DEF RunningBudget, Confirmed
  <2>3. CASE Post(g)
    <3>1. /\ posts'[i] = posts[i] + 1 /\ acks' = acks /\ attempts' = attempts /\ rows' = rows
          /\ proc[g].pc = "start"
      BY <1>1, <2>3 DEF Post, At, TypeOK
    <3>2. g \in Busy' /\ Job(g)' = i /\ proc'[g].pc = "posting"
      BY <1>1, <2>3, GotoLemma DEF Post, Job, Busy, Idle
    <3> QED
      BY <1>2, <1>4, <2>1, <3>1, <3>2 DEF RunningBudget, Confirmed
  <2>4. CASE Answer2xx(g)
    <3>1. /\ posts' = posts /\ acks'[i] = acks[i] + 1 /\ attempts' = attempts /\ rows' = rows
          /\ proc[g].pc = "posting"
      BY <1>1, <2>4 DEF Answer2xx, At, TypeOK
    <3>2. g \in Busy' /\ Job(g)' = i /\ proc'[g].pc = "log" /\ proc'[g].out = "2xx"
      BY <1>1, <2>4, GotoLemma DEF Answer2xx, Job, Busy, Idle
    <3> QED
      BY <1>2, <1>4, <2>1, <3>1, <3>2 DEF RunningBudget, Confirmed
  <2>5. CASE AnswerError(g)
    <3>1. /\ posts' = posts /\ acks' = acks /\ attempts' = attempts /\ rows' = rows
          /\ proc[g].pc = "posting"
      BY <2>5 DEF AnswerError, At
    <3>2. g \in Busy' /\ Job(g)' = i /\ proc'[g].pc = "log" /\ proc'[g].out = "error"
      BY <1>1, <2>5, GotoLemma DEF AnswerError, Job, Busy, Idle
    <3> QED
      BY <1>2, <1>4, <2>1, <3>1, <3>2 DEF RunningBudget, Confirmed
  <2>6. CASE LogDelivery(g)
    <3>1. /\ posts' = posts /\ acks' = acks /\ attempts' = attempts /\ rows' = rows
          /\ proc[g].pc = "log" /\ proc[g].out \in {"none", "2xx", "error"}
      BY <2>6, TaskLemma DEF LogDelivery, At
    <3>2. g \in Busy' /\ Job(g)' = i /\ proc'[g].pc = "settle" /\ proc'[g].out = proc[g].out
      BY <1>1, <2>6, <3>1, GotoLemma DEF LogDelivery, Job, Busy, Idle
    <3> QED
      BY <1>2, <1>4, <2>1, <3>1, <3>2 DEF RunningBudget, Confirmed
  <2>7. CASE Settle(g)
    <3>1. posts' = posts /\ acks' = acks /\ proc[g].pc = "settle"
      BY <2>7 DEF Settle, At
    <3>2. CASE CompleteJob(i)
      <4>1. attempts' = attempts
        BY <3>2 DEF CompleteJob
      <4>2. i \notin rows' \/ dbErrors' = dbErrors + 1
        BY <3>2 DEF CompleteJob, DbStatement
      <4>3. i \notin rows' \/ Faults' = Faults + 1
        BY <2>7, <4>2, NumbersLemma DEF Settle, Faults
      <4> QED
        BY <1>2, <1>4, <2>1, <3>1, <4>1, <4>3 DEF RunningBudget, Confirmed
    <3>3. CASE /\ proc[g].out # "2xx"
               /\ RescheduleJob(i, proc[g].attempt, now + Backoff(proc[g].attempt))
      <4>1. attempts'[i] = attempts[i] + 1 \/ (attempts' = attempts /\ dbErrors' = dbErrors + 1)
        BY <1>2, <3>3 DEF RescheduleJob, DbStatement, TypeOK
      <4>2. attempts'[i] = attempts[i] + 1 \/ (attempts' = attempts /\ Faults' = Faults + 1)
        BY <2>7, <4>1, NumbersLemma DEF Settle, Faults
      <4> QED
        BY <1>2, <1>4, <2>1, <3>1, <3>3, <4>2 DEF RunningBudget, Confirmed
    <3> QED
      BY <1>1, <2>7, <3>2, <3>3 DEF Settle
  <2> QED
    BY <2>2, <2>3, <2>4, <2>5, <2>6, <2>7 DEF Process, Cancelled
<1> QED
    BY <1>5, <1>6, <1>7, <1>8 DEF BudgetInv
\* Once the process is stopping, goroutines make no request any more: what they
\* still confirm or write back is covered by the stop.
LEMMA BudgetStopping ==
    ASSUME TypeOK, TypeOK', HeldInv, BudgetInv, phase # "running",
           NEW g \in Goroutines, Process(g)
    PROVE  BudgetInv'
<1> USE DEF table, process, seen
<1>1. PICK i \in Jobs : i = Job(g)
    BY NumbersLemma DEF Process, DropUnrouted, Post, Answer2xx, AnswerError, Cancelled,
                        LogDelivery, Settle, At, Busy
<1>2. g \in Busy /\ i \in accepted
    BY <1>1 DEF Process, DropUnrouted, Post, Answer2xx, AnswerError, Cancelled, LogDelivery,
                Settle, At, Busy, HeldInv, Held
<1>3. /\ \A h \in Goroutines \ {g} : proc'[h] = proc[h] /\ Job(h)' = Job(h)
      /\ \A h \in Busy : h # g => h \in Busy'
      /\ \A h \in Busy' : h # g => h \in Busy
    BY DEF Process, DropUnrouted, Post, Answer2xx, AnswerError, Cancelled, LogDelivery,
           Settle, Goto, Return, Busy, Job, TypeOK
<1>4. Faults \in Nat /\ Faults' \in {Faults, Faults + 1}
  <2>1. stops' = stops /\ (dbErrors' = dbErrors \/ dbErrors' = dbErrors + 1)
    BY DEF Process, DropUnrouted, Post, Answer2xx, AnswerError, Cancelled, LogDelivery,
           Settle, CompleteJob, RescheduleJob, DbStatement
  <2> QED
    BY <2>1, NumbersLemma DEF Faults
<1>5. UNCHANGED <<accepted, phase, batch, posts>>
    BY <1>1 DEF Process, DropUnrouted, Post, Answer2xx, AnswerError, Cancelled, LogDelivery,
                Settle
<1>6. \A j \in Jobs : j # i => acks'[j] = acks[j] /\ attempts'[j] = attempts[j]
    BY <1>1 DEF Process, DropUnrouted, Post, Answer2xx, AnswerError, Cancelled, LogDelivery,
                Settle, CompleteJob, RescheduleJob, TypeOK
<1>7. Unused'
    BY <1>2, <1>5, <1>6 DEF BudgetInv, Unused
<1>8. StoppedBudget
    BY DEF BudgetInv
<1>9. g \in Busy' => /\ Job(g)' = i /\ proc'[g].attempt = proc[g].attempt
                     /\ proc'[g].pc # "posting"
  <2>1. CASE DropUnrouted(g) \/ Settle(g)
    BY <2>1 DEF DropUnrouted, Settle, Return, Busy, TypeOK
  <2>2. CASE Answer2xx(g) \/ AnswerError(g) \/ Cancelled(g)
    BY <1>1, <2>2, GotoLemma DEF Answer2xx, AnswerError, Cancelled, Job
  <2>3. CASE LogDelivery(g)
    BY <1>1, <2>3, TaskLemma, GotoLemma DEF LogDelivery, Job
  <2> QED
    BY <2>1, <2>2, <2>3 DEF Process, Post
<1>10. attempts'[i] = attempts[i] \/ attempts'[i] = proc[g].attempt
    BY <1>1 DEF Process, DropUnrouted, Post, Answer2xx, AnswerError, Cancelled, LogDelivery,
                Settle, CompleteJob, RescheduleJob, TypeOK
<1>11. acks'[i] = acks[i] \/ (acks'[i] = acks[i] + 1 /\ proc[g].pc = "posting")
    BY <1>1 DEF Process, DropUnrouted, Post, Answer2xx, AnswerError, Cancelled, LogDelivery,
                Settle, At, TypeOK
<1>12. \A j \in Jobs : posts'[j] <= attempts'[j] + Faults'
    BY <1>1, <1>2, <1>4, <1>5, <1>6, <1>8, <1>10, NumbersLemma DEF StoppedBudget
<1>13. \A j \in Jobs : acks'[j] <= Faults'
    BY <1>1, <1>2, <1>4, <1>6, <1>8, <1>11, NumbersLemma DEF StoppedBudget
<1>14. \A b \in batch' : posts'[b.job] <= b.attempts + Faults'
    BY <1>4, <1>5, <1>8, NumbersLemma DEF StoppedBudget
<1>15. \A h \in Busy' : posts'[Job(h)'] <= proc'[h].attempt - 1 + Faults'
  <2>1. SUFFICES ASSUME NEW h \in Busy'
                 PROVE  posts'[Job(h)'] <= proc'[h].attempt - 1 + Faults'
    OBVIOUS
  <2>2. /\ h \in Busy /\ Job(h)' = Job(h) /\ proc'[h].attempt = proc[h].attempt
        /\ posts[Job(h)] \in Nat /\ proc[h].attempt \in Nat
    BY <1>1, <1>2, <1>3, <1>9, NumbersLemma DEF Busy
  <2> QED
    BY <1>4, <1>5, <1>8, <2>2 DEF StoppedBudget
<1>16. \A h, k \in Busy' : proc'[h].pc = "posting" /\ proc'[k].pc = "posting"
                             /\ Job(h)' = Job(k)' => h = k
    BY <1>3, <1>8, <1>9 DEF StoppedBudget, Busy
<1>17. ASSUME NEW h \in Busy', proc'[h].pc = "posting" PROVE acks'[Job(h)'] + 1 <= Faults'
  <2>1. /\ h \in Busy /\ h # g /\ Job(h)' = Job(h) /\ proc[h].pc = "posting"
        /\ acks[Job(h)] \in Nat
    BY <1>3, <1>9, <1>17, NumbersLemma DEF Busy
  <2>2. acks'[Job(h)] = acks[Job(h)]
    BY <1>1, <1>2, <1>6, <1>8, <1>11, <2>1, NumbersLemma DEF StoppedBudget
  <2> QED
    BY <1>4, <1>8, <2>1, <2>2 DEF StoppedBudget
<1>18. StoppedBudget'
    BY <1>12, <1>13, <1>14, <1>15, <1>16, <1>17 DEF StoppedBudget
<1> QED
    BY <1>5, <1>7, <1>18 DEF BudgetInv
\* A shutdown or a crash pays, with itself, for what is in flight.
LEMMA BudgetStops ==
    ASSUME TypeOK, WorkInv, BudgetInv, phase = "running", phase' # "running",
           UNCHANGED <<table, accepted, posts, acks, dbErrors>>, stops' = stops + 1,
           batch' \subseteq batch, \A g \in Goroutines : proc'[g] \in {proc[g], Idle}
    PROVE  BudgetInv'
<1> USE DEF table
<1>1. Faults \in Nat /\ Faults' = Faults + 1
    BY NumbersLemma DEF Faults
<1>2. \A g \in Busy' : g \in Busy /\ proc'[g] = proc[g] /\ Job(g)' = Job(g)
    BY DEF Busy, Job
<1>3. Unused'
    BY DEF BudgetInv, Unused
<1>4. \A j \in Jobs : posts[j] <= attempts[j] + 1 + Faults /\ acks[j] <= 1 + Faults
    BY DEF BudgetInv, RunningBudget
<1>5. \A b \in batch : b.attempts = attempts[b.job]
    BY DEF WorkInv, RunningInv, Current
<1>6. \A g \in Busy : /\ proc[g].attempt = attempts[Job(g)] + 1
                      /\ proc[g].pc = "posting" => acks[Job(g)] <= Faults
  <2>1. SUFFICES ASSUME NEW g \in Busy
                 PROVE  /\ proc[g].attempt = attempts[Job(g)] + 1
                        /\ proc[g].pc = "posting" => acks[Job(g)] <= Faults
    OBVIOUS
  <2>2. Job(g) \in rows /\ proc[g].attempt = attempts[Job(g)] + 1
    BY DEF WorkInv, FreshClaim
  <2>3. \A h \in Busy : Job(h) = Job(g) => h = g
    BY DEF WorkInv, NoDoubleProcessing
  <2>4. RunningBudget(Job(g))
    BY NumbersLemma DEF BudgetInv
  <2> QED
    BY <2>2, <2>3, <2>4 DEF RunningBudget, Confirmed
<1>7. \A g, h \in Busy : Job(g) = Job(h) => g = h
    BY DEF WorkInv, NoDoubleProcessing
<1>8. StoppedBudget'
    BY <1>1, <1>2, <1>4, <1>5, <1>6, <1>7, NumbersLemma DEF StoppedBudget
<1> QED
    BY <1>3, <1>8 DEF BudgetInv

LEMMA NextBudgetInv ==
    TypeOK /\ TypeOK' /\ WorkInv /\ HeldInv /\ BudgetInv /\ [Next]_vars => BudgetInv'
<1> SUFFICES ASSUME TypeOK, TypeOK', WorkInv, HeldInv, BudgetInv, [Next]_vars
             PROVE  BudgetInv'
    OBVIOUS
<1> USE DEF table, process, seen
<1>0. Faults \in Nat
    BY NumbersLemma
<1>1. ASSUME NEW j \in Jobs, Enqueue(j) PROVE BudgetInv'
  <2>1. /\ posts' = posts /\ acks' = acks /\ Faults' = Faults
        /\ UNCHANGED <<proc, phase, batch>>
        /\ posts[j] = 0 /\ acks[j] = 0 /\ attempts'[j] = 0
        /\ \A i \in Jobs \ {j} : attempts'[i] = attempts[i] /\ (i \in rows' <=> i \in rows)
    BY <1>1 DEF Enqueue, BudgetInv, Unused, Faults, TypeOK
  <2>2. Busy' = Busy /\ \A g \in Busy : Job(g)' = Job(g)
    BY <2>1 DEF Busy, Job
  <2>3. Unused'
    BY <1>1, <2>1 DEF Enqueue, BudgetInv, Unused
  <2>4. phase = "running" => \A i \in Jobs : RunningBudget(i)'
    BY <1>0, <2>1, <2>2, NumbersLemma DEF BudgetInv, RunningBudget, Confirmed
  <2>5. phase # "running" => StoppedBudget'
    BY <1>0, <2>1, <2>2, NumbersLemma DEF BudgetInv, StoppedBudget
  <2> QED
    BY <2>1, <2>3, <2>4, <2>5 DEF BudgetInv
<1>2. CASE ClaimDue
  <2>1. /\ UNCHANGED <<table, accepted, posts, acks, phase, proc>>
        /\ Faults' \in {Faults, Faults + 1}
    BY <1>2, NumbersLemma DEF ClaimDue, DbStatement, Faults
  <2>2. CASE UNCHANGED batch
    BY <2>1, <2>2, BudgetStutter
  <2>3. ASSUME NEW S \in Claims,
               batch' = {[job |-> j, attempts |-> attempts[j], due |-> nextAt[j]] : j \in S}
        PROVE  BudgetInv'
    <3>1. \A b \in batch' : b.job \in Jobs /\ b.attempts = attempts[b.job]
      BY <2>3 DEF Claims, Due, TypeOK
    <3>2. Busy' = Busy /\ \A g \in Busy : Job(g)' = Job(g)
      BY <2>1 DEF Busy, Job
    <3>3. Unused'
      BY <2>1 DEF BudgetInv, Unused
    <3>4. phase = "running" => \A i \in Jobs : RunningBudget(i)'
      BY <1>0, <2>1, <3>2, NumbersLemma DEF BudgetInv, RunningBudget, Confirmed
    <3>5. phase # "running" => StoppedBudget'
      BY <1>0, <2>1, <3>1, <3>2, NumbersLemma DEF BudgetInv, StoppedBudget
    <3> QED
      BY <2>1, <3>3, <3>4, <3>5 DEF BudgetInv
  <2> QED
    BY <1>2, <2>2, <2>3 DEF ClaimDue
<1>3. ASSUME NEW g \in Goroutines, Launch(g) PROVE BudgetInv'
  <2>1. PICK b \in batch :
           /\ batch' = batch \ {b}
           /\ proc' = [proc EXCEPT ![g] =
                         [pc |-> "start", job |-> b.job, attempt |-> b.attempts + 1,
                          out |-> "none"]]
    BY <1>3 DEF Launch
  <2>2. /\ proc'[g].pc = "start" /\ Job(g)' = b.job /\ proc'[g].attempt - 1 = b.attempts
        /\ \A h \in Goroutines \ {g} : proc'[h] = proc[h] /\ Job(h)' = Job(h)
    BY <2>1, NumbersLemma DEF TypeOK, Job
  <2>3. g \notin Busy /\ \A h \in Goroutines : h \in Busy' => h = g \/ h \in Busy
    BY <1>3, <2>2 DEF Launch, Busy
  <2>4. \A h \in Busy : h \in Busy' /\ h # g /\ h \in Goroutines
    BY <2>2, <2>3 DEF Busy
  <2>5. /\ UNCHANGED <<rows, attempts, accepted, posts, acks, phase>> /\ Faults' = Faults
    BY <1>3 DEF Launch, Faults
  <2>6. Unused'
    BY <2>5 DEF BudgetInv, Unused
  <2>7. phase = "running" => \A i \in Jobs : RunningBudget(i)'
    BY <1>0, <2>2, <2>3, <2>4, <2>5, NumbersLemma DEF BudgetInv, RunningBudget, Confirmed
  <2>8. phase # "running" => StoppedBudget'
    <3>1. SUFFICES ASSUME StoppedBudget PROVE StoppedBudget'
      BY DEF BudgetInv
    <3>2. \A h \in Busy' : h = g \/ (h \in Busy /\ proc'[h] = proc[h] /\ Job(h)' = Job(h))
      BY <2>2, <2>3 DEF Busy
    <3> QED
      BY <1>0, <2>1, <2>2, <2>5, <3>1, <3>2, NumbersLemma DEF StoppedBudget
  <2> QED
    BY <2>5, <2>6, <2>7, <2>8 DEF BudgetInv
<1>4. CASE AbandonBatch \/ EndDrain \/ StopWorker \/ Tick
  <2>1. /\ UNCHANGED <<table, accepted, posts, acks, phase, proc>>
        /\ batch' \subseteq batch /\ Faults' = Faults
    BY <1>4 DEF AbandonBatch, EndDrain, StopWorker, Tick, Faults
  <2> QED
    BY <2>1, BudgetStutter
<1>5. ASSUME NEW g \in Goroutines, Process(g) PROVE BudgetInv'
  BY <1>5, BudgetProcess, BudgetStopping
<1>6. CASE Shutdown
  BY <1>6, BudgetStops DEF Shutdown
<1>7. CASE Crash
  BY <1>7, BudgetStops DEF Crash, Gone
<1>8. CASE Exit
  <2>1. Busy' = {} /\ batch' = {}
    BY <1>8 DEF Exit, Gone, Busy
  <2>2. /\ UNCHANGED <<table, accepted, posts, acks, dbErrors, stops>>
        /\ phase # "running" /\ phase' # "running"
    BY <1>8 DEF Exit, Gone
  <2> QED
    BY <2>1, <2>2 DEF BudgetInv, Unused, StoppedBudget, Faults
<1>9. CASE Restart
  <2>1. /\ UNCHANGED <<table, accepted, posts, acks, dbErrors, stops>>
        /\ phase # "running" /\ phase' = "running" /\ Faults' = Faults
    BY <1>9 DEF Restart, Faults
  <2>2. \A j \in Jobs : RunningBudget(j)'
    BY <1>0, <2>1, NumbersLemma DEF BudgetInv, StoppedBudget, RunningBudget
  <2> QED
    BY <2>1, <2>2 DEF BudgetInv, Unused
<1>10. CASE UNCHANGED vars
  BY <1>10, BudgetStutter DEF vars, Faults
<1> QED
  BY <1>1, <1>2, <1>3, <1>4, <1>5, <1>6, <1>7, <1>8, <1>9, <1>10 DEF Next

LEMMA BudgetInvariant == Spec => [](TypeOK /\ BudgetInv)
BY InitTypeOK, NextTypeOK, InitLossInv, NextLossInv, InitWorkInv, NextWorkInv,
   InitHeldInv, NextHeldInv, InitBudgetInv, NextBudgetInv, PTL DEF Spec

\* Whatever the phase, a job has spent no more than its count, the faults and one.
LEMMA BudgetLemma ==
    ASSUME TypeOK, BudgetInv, NEW j \in Jobs
    PROVE  posts[j] <= attempts[j] + 1 + Faults /\ acks[j] <= 1 + Faults
<1>1. CASE phase = "running"
    BY <1>1 DEF BudgetInv, RunningBudget
<1>2. CASE phase # "running"
  <2>1. posts[j] <= attempts[j] + Faults /\ acks[j] <= Faults
    BY <1>2 DEF BudgetInv, StoppedBudget
  <2> QED
    BY <2>1, NumbersLemma
<1> QED
    BY <1>1, <1>2

\* A webhook is called at most max_retries times for one message, plus once for
\* each failed statement and each stop (process, and the worker's shutdown).
THEOREM CallsAreBounded == Spec => []PostsBounded
<1>1. TypeOK /\ BudgetInv => PostsBounded
  <2>1. SUFFICES ASSUME TypeOK, BudgetInv, NEW j \in Jobs
                 PROVE  posts[j] <= Allowed + dbErrors + stops
    BY DEF PostsBounded
  <2>2. /\ dbErrors \in Nat /\ stops \in Nat /\ posts[j] \in Nat
        /\ attempts[j] \in 0 .. Allowed - 1 /\ Allowed \in Nat
    BY <2>1, AllowedLemma DEF TypeOK
  <2>3. posts[j] <= attempts[j] + 1 + Faults
    BY <2>1, BudgetLemma
  <2>4. Faults = dbErrors + stops
    BY DEF Faults
  <2> QED
    BY <2>2, <2>3, <2>4
<1> QED
    BY <1>1, BudgetInvariant, PTL

\* A webhook that has confirmed a message gets it again at most once for each failed
\* statement and each stop (the DELETE that ends process).
THEOREM DuplicatesAreBounded == Spec => []DuplicatesBounded
<1>1. TypeOK /\ BudgetInv => DuplicatesBounded
  <2>1. SUFFICES ASSUME TypeOK, BudgetInv, NEW j \in Jobs
                 PROVE  acks[j] <= 1 + dbErrors + stops
    BY DEF DuplicatesBounded
  <2>2. dbErrors \in Nat /\ stops \in Nat /\ acks[j] \in Nat
    BY <2>1 DEF TypeOK
  <2>3. acks[j] <= 1 + Faults
    BY <2>1, BudgetLemma
  <2>4. Faults = dbErrors + stops
    BY DEF Faults
  <2> QED
    BY <2>2, <2>3, <2>4
<1> QED
    BY <1>1, BudgetInvariant, PTL
-----------------------------------------------------------------------------
(***************************************************************************)
(* The log. A goroutine that is about to settle its row has logged the     *)
(* attempt it settles for, unless a statement failed.                      *)
(***************************************************************************)
AttemptLogged(g) ==
    [job |-> Job(g), attempt |-> proc[g].attempt, success |-> proc[g].out = "2xx"]
        \in deliveries

LogInv ==
    /\ LogContent /\ dbErrors = 0 =>
          \A g \in Busy : proc[g].pc = "settle" => AttemptLogged(g)
    /\ RemovalLogged

LEMMA InitLogInv == Init => LogInv
BY DEF Init, LogInv, RemovalLogged, Busy

\* A step that keeps the table and moves no goroutine to its settling keeps LogInv.
LEMMA LogStutter ==
    ASSUME TypeOK, LogInv, UNCHANGED <<deliveries, accepted, rows, unrouted>>,
           dbErrors' = 0 => dbErrors = 0,
           \A g \in Goroutines : proc'[g].pc = "settle" => proc'[g] = proc[g]
    PROVE  LogInv'
<1>1. \A g \in Busy' : proc'[g].pc = "settle" => g \in Busy /\ proc'[g] = proc[g]
    BY DEF Busy
<1> QED
    BY <1>1 DEF LogInv, RemovalLogged, AttemptLogged, Job

LEMMA NextLogInv == TypeOK /\ LogInv /\ [Next]_vars => LogInv'
<1> SUFFICES ASSUME TypeOK, LogInv, [Next]_vars PROVE LogInv'
    OBVIOUS
<1> USE DEF table, process, seen
<1>1. ASSUME NEW g \in Goroutines, LogDelivery(g) PROVE LogInv'
  <2>1. /\ proc[g] # Idle /\ Job(g)' = Job(g) /\ proc'[g].attempt = proc[g].attempt
        /\ proc'[g].out = proc[g].out
        /\ \A h \in Goroutines \ {g} : proc'[h] = proc[h] /\ Job(h)' = Job(h)
    BY <1>1, TaskLemma, GotoLemma DEF LogDelivery, At, Job
  <2>2. deliveries \subseteq deliveries' /\ (dbErrors' = 0 => dbErrors = 0)
    BY <1>1 DEF LogDelivery, DbStatement, TypeOK
  <2>3. LogContent /\ dbErrors' = 0 =>
          [job |-> Job(g), attempt |-> proc[g].attempt, success |-> proc[g].out = "2xx"]
              \in deliveries'
    BY <1>1 DEF LogDelivery, DbStatement, LoggedCount, LoggedOutcome, TypeOK
  <2>4. LogContent /\ dbErrors' = 0 =>
          \A h \in Busy' : proc'[h].pc = "settle" => AttemptLogged(h)'
    BY <2>1, <2>2, <2>3 DEF LogInv, AttemptLogged, Busy
  <2>5. RemovalLogged'
    BY <1>1, <2>2 DEF LogDelivery, LogInv, RemovalLogged
  <2> QED
    BY <2>4, <2>5 DEF LogInv
<1>2. ASSUME NEW g \in Goroutines, DropUnrouted(g) \/ Settle(g) PROVE LogInv'
  <2>1. /\ UNCHANGED <<deliveries, accepted>> /\ unrouted \subseteq unrouted'
        /\ dbErrors' = 0 => dbErrors = 0
        /\ \A h \in Busy' : h \in Busy /\ proc'[h] = proc[h] /\ Job(h)' = Job(h)
    BY <1>2 DEF DropUnrouted, Settle, CompleteJob, RescheduleJob, DbStatement, Return, Busy,
                Job, TypeOK
  <2>2. \A j \in rows \ rows' :
           j \in unrouted' \/ (/\ j = Job(g) /\ At(g, "settle")
                               /\ proc[g].out = "2xx" \/ GivesUp(proc[g].attempt))
    BY <1>2 DEF DropUnrouted, Settle, CompleteJob, RescheduleJob
  <2>3. LogContent /\ dbErrors = 0 /\ At(g, "settle") => AttemptLogged(g)
    BY <1>2 DEF LogInv, Busy, At
  <2>4. LogContent /\ dbErrors = 0 => \A j \in rows \ (rows' \cup unrouted') :
           \E d \in deliveries : d.job = j /\ (d.success \/ d.attempt >= MaxRetries)
    <3>1. SUFFICES ASSUME LogContent, dbErrors = 0, NEW j \in rows \ (rows' \cup unrouted')
                   PROVE  \E d \in deliveries :
                             d.job = j /\ (d.success \/ d.attempt >= MaxRetries)
      OBVIOUS
    <3>2. /\ j = Job(g) /\ AttemptLogged(g)
          /\ proc[g].out = "2xx" \/ proc[g].attempt >= MaxRetries
      BY <2>2, <2>3, <3>1 DEF GivesUp
    <3>3. PICK d \in deliveries : /\ d.job = j /\ d.attempt = proc[g].attempt
                                  /\ d.success = (proc[g].out = "2xx")
      BY <3>2 DEF AttemptLogged
    <3> QED
      BY <3>2, <3>3
  <2>5. RemovalLogged'
    BY <2>1, <2>4 DEF LogInv, RemovalLogged
  <2>6. LogContent /\ dbErrors' = 0 =>
          \A h \in Busy' : proc'[h].pc = "settle" => AttemptLogged(h)'
    BY <2>1 DEF LogInv, AttemptLogged, Job
  <2> QED
    BY <2>5, <2>6 DEF LogInv
<1>3. ASSUME NEW g \in Goroutines, Post(g) \/ Answer2xx(g) \/ AnswerError(g) \/ Cancelled(g)
      PROVE  LogInv'
  <2>1. UNCHANGED <<deliveries, accepted, rows, unrouted, dbErrors>>
    BY <1>3 DEF Post, Answer2xx, AnswerError, Cancelled
  <2>2. \A h \in Goroutines : proc'[h].pc = "settle" => proc'[h] = proc[h]
    BY <1>3, GotoLemma DEF Post, Answer2xx, AnswerError, Cancelled
  <2> QED
    BY <2>1, <2>2, LogStutter
<1>4. ASSUME NEW g \in Goroutines, Launch(g) PROVE LogInv'
  <2>1. \A h \in Goroutines : proc'[h].pc = "settle" => proc'[h] = proc[h]
    BY <1>4 DEF Launch, TypeOK
  <2> QED
    BY <1>4, <2>1, LogStutter DEF Launch
<1>5. CASE Exit \/ Crash
  <2>1. Busy' = {} /\ UNCHANGED <<deliveries, accepted, rows, unrouted, dbErrors>>
    BY <1>5 DEF Exit, Crash, Gone, Busy
  <2> QED
    BY <2>1 DEF LogInv, RemovalLogged
<1>6. ASSUME NEW j \in Jobs, Enqueue(j) PROVE LogInv'
  <2>1. /\ accepted' \ (rows' \cup unrouted') \subseteq accepted \ (rows \cup unrouted)
        /\ UNCHANGED <<deliveries, dbErrors, proc>>
    BY <1>6 DEF Enqueue
  <2> QED
    BY <2>1 DEF LogInv, RemovalLogged, AttemptLogged, Busy, Job
<1>7. CASE \/ ClaimDue \/ AbandonBatch \/ EndDrain \/ StopWorker \/ Tick \/ Shutdown
           \/ Restart \/ UNCHANGED vars
  <2>1. /\ UNCHANGED <<deliveries, accepted, rows, unrouted, proc>>
        /\ dbErrors' = 0 => dbErrors = 0
    BY <1>7 DEF ClaimDue, DbStatement, AbandonBatch, EndDrain, StopWorker, Tick, Shutdown,
                Restart, vars, TypeOK
  <2> QED
    BY <2>1, LogStutter
<1> QED
  BY <1>1, <1>2, <1>3, <1>4, <1>5, <1>6, <1>7 DEF Next, Process

\* With content logging on and no failed statement, the log shows why every row left
\* the queue, except those whose route is gone (process logs before it deletes).
THEOREM RemovalsAreLogged == Spec => []RemovalLogged
<1>1. LogInv => RemovalLogged
    BY DEF LogInv
<1> QED
    BY InitTypeOK, NextTypeOK, InitLogInv, NextLogInv, <1>1, PTL DEF Spec
=============================================================================
