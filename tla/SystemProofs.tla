----------------------------- MODULE SystemProofs -----------------------------
(***************************************************************************)
(* Proofs about System, the whole process, for every configuration, number *)
(* of tries, failing statements and stops: its worker is DeliveryWorker's, *)
(* its server is Submission's, together they implement Bridge, and a       *)
(* message answered 250 is never lost.                                     *)
(*                                                                         *)
(* Nothing that BridgeProofs and DeliveryWorkerProofs prove is proved again*)
(* here: the two halves keep their invariants since each takes its own     *)
(* steps, and what is left is what they share, the queue table.            *)
(***************************************************************************)
EXTENDS System, DeliveryWorkerProofs

\* What BridgeProofs proves, of this server over this worker.
P == INSTANCE BridgeProofs WITH
        MaxCrashes <- MaxStops,
        deliveries <- syncLog, dbErrors <- serverErrors,
        status <- [j \in Jobs |-> StatusOf(j)],
        fruitless <- [j \in Jobs |-> Fruitless(j)]

\* The assumptions of Submission and Bridge on their constants follow from those of
\* System and DeliveryWorker.
LEMMA BridgeAssumptions ==
    /\ Mode \in [Routes -> {"sync", "async", "capture"}]
    /\ LogContent \in BOOLEAN /\ LogRejections \in BOOLEAN
    /\ (\E r \in Routes : Mode[r] = "capture") => LogContent
    /\ Messages \subseteq Seq(Routes) \ {<<>>} /\ MaxTries \in Nat \ {0}
    /\ MaxDbErrors \in Nat /\ MaxStops \in Nat
    /\ Allowed \in Nat \ {0}
BY SubmissionAssumption, ConfigAssumption, BoundAssumption, AllowedLemma

\* With these, what BridgeProofs proves of Submission holds of the server of System.
LEMMA ServerInvariant == P!Spec => []P!DataInv
BY BridgeAssumptions, P!DataInvariant

LEMMA ServerHandsOver == P!Spec => []P!AcceptedIsHandedOver
BY BridgeAssumptions, P!AcceptedMailIsHandedOver

LEMMA ServerQueues ==
    P!DataInv /\ [P!Next]_(P!vars) =>
        \/ queued' = queued
        \/ \E j \in P!Tries \X Routes : j \notin queued /\ queued' = queued \cup {j}
BY BridgeAssumptions, P!QueuedStep

LEMMA JobsLemma == Jobs = B!Tries \X Routes
BY SystemAssumption DEF B!Tries

-----------------------------------------------------------------------------
(***************************************************************************)
(* Each half does nothing it would not do alone.                           *)
(***************************************************************************)
\* A step of the server leaves the worker alone, but for the row it inserts.
LEMMA ServerEnqueues ==
    ASSUME TableFollows
    PROVE  UNCHANGED vars \/ \E j \in queued' \ queued : Enqueue(j)
BY DEF TableFollows

LEMMA WorkerStep ==
    ASSUME Work \/ End \/ Start
    PROVE  /\ Next
           /\ UNCHANGED accepted
           /\ live' = live
<1>1. CASE Work
    <2>1. Next
        BY <1>1 DEF Work, Next
    <2> QED
        BY <1>1, <2>1 DEF Work, ClaimDue, Launch, Process, DropUnrouted, Post, Answer2xx,
              AnswerError, Cancelled, LogDelivery, Settle, AbandonBatch, EndDrain, StopWorker,
              Tick, Shutdown, seen, process
<1>2. CASE End
    BY <1>2 DEF End, Exit, Crash, Gone, Next, seen, process
<1>3. CASE Start
    BY <1>3 DEF Start, Restart, Next, seen
<1> QED
    BY <1>1, <1>2, <1>3

\* The rows the server inserts are rows the worker knows.
RowsAreJobs == queued \subseteq Jobs

LEMMA StepOfWorker == RowsAreJobs' /\ [SystemNext]_system => [Next]_vars
<1> SUFFICES ASSUME RowsAreJobs', [SystemNext]_system PROVE [Next]_vars
    OBVIOUS
<1>1. CASE TableFollows
    BY <1>1 DEF TableFollows, Next, RowsAreJobs
<1>2. CASE Work \/ End \/ Start
    BY <1>2, WorkerStep
<1>3. CASE UNCHANGED system
    BY <1>3 DEF system
<1> QED
    BY <1>1, <1>2, <1>3 DEF SystemNext, Connect, HangUp, Handle

\* The server's steps are Submission's.
LEMMA SameTries == B!Tries = P!Tries
BY DEF B!Tries, P!Tries

LEMMA SameInit == B!Init <=> P!Init
BY DEF B!Init, P!Init, B!Tries, P!Tries

LEMMA SameSubmit == B!Submit <=> P!Submit
BY DEF B!Submit, P!Submit, B!message, P!message, B!store, P!store, B!webhook, P!webhook

LEMMA SameDisconnect == B!Disconnect <=> P!Disconnect
BY DEF B!Disconnect, P!Disconnect, B!message, P!message, B!handler, P!handler,
       B!store, P!store, B!webhook, P!webhook

LEMMA SameCrash == B!Crash <=> P!Crash
BY DEF B!Crash, P!Crash, B!Tries, P!Tries, B!message, P!message, B!store, P!store,
       B!webhook, P!webhook

LEMMA SameData == \A t : B!Data(t) <=> P!Data(t)
BY DEF B!Data, P!Data, B!ReadBody, P!ReadBody, B!LogMessage, P!LogMessage,
       B!SkipRoute, P!SkipRoute, B!PostSync, P!PostSync, B!AnswerSync, P!AnswerSync,
       B!LogSync, P!LogSync, B!EndDeliver, P!EndDeliver, B!EnqueueRoute, P!EnqueueRoute,
       B!Accept, P!Accept, B!Reject, P!Reject, B!Reply, P!Reply,
       B!Goto, P!Goto, B!DbStatement, P!DbStatement, B!InsertIf, P!InsertIf,
       B!LogsMessage, P!LogsMessage, B!SyncFailed, P!SyncFailed,
       B!OnEnqueueError, P!OnEnqueueError, B!Order, P!Order, B!FoldLeft, P!FoldLeft,
       B!MapThenFoldSet, P!MapThenFoldSet, B!ToSet, P!ToSet, B!Max, P!Max,
       B!message, P!message, B!sender, P!sender, B!store, P!store, B!webhook, P!webhook

LEMMA StepOfServer == [SystemNext]_system => [P!Next]_(P!vars)
<1> SUFFICES ASSUME [SystemNext]_system PROVE [P!Next]_(P!vars)
    OBVIOUS
<1>1. CASE Connect
    BY <1>1, SameSubmit DEF Connect, P!Next
<1>2. CASE HangUp
    BY <1>2, SameDisconnect DEF HangUp, P!Next
<1>3. ASSUME NEW t \in B!Tries, Handle(t) PROVE P!Next
    BY <1>3, SameData, SameTries DEF Handle, P!Next
<1>4. CASE End
    BY <1>4, SameCrash DEF End, P!Next
<1>5. CASE Work \/ Start \/ UNCHANGED system
    BY <1>5 DEF Work, Start, system, server, P!vars, P!message, P!sender, P!handler, P!store,
                P!webhook
<1> QED
    BY <1>1, <1>2, <1>3, <1>4, <1>5 DEF SystemNext

\* The server of the process is the one Submission describes: what is proved of
\* session.Data holds of it whatever the worker does meanwhile.
THEOREM SystemImplementsSubmission == SystemSpec => P!Spec
<1>1. SystemInit => P!Init
    BY SameInit DEF SystemInit
<1> QED
    BY <1>1, StepOfServer, PTL DEF SystemSpec, P!Spec

\* The worker of the process is the one DeliveryWorker describes: it, its goroutines
\* and the table keep their promises whatever sessions and handlers do meanwhile.
THEOREM SystemImplementsWorker == SystemSpec => Spec
<1>1. P!DataInv => RowsAreJobs
    BY JobsLemma, SameTries DEF P!DataInv, P!TypeOK, RowsAreJobs
<1>2. SystemSpec => []RowsAreJobs
    BY <1>1, SystemImplementsSubmission, ServerInvariant, PTL
<1>3. SystemInit => Init
    BY DEF SystemInit
<1> QED
    BY <1>2, <1>3, StepOfWorker, PTL DEF SystemSpec, Spec

-----------------------------------------------------------------------------
(***************************************************************************)
(* What the two halves share.                                              *)
(***************************************************************************)
WorkerInv == TypeOK /\ LossInv /\ WorkInv /\ HeldInv

\* The rows the server has inserted are those the worker has been given, and with
\* the routes as they are none of them is dropped unserved.
JoinInv ==
    /\ queued = accepted
    /\ live = Routes /\ unrouted = {}

LEMMA InitJoinInv == SystemInit => JoinInv
BY DEF SystemInit, Init, B!Init, JoinInv

LEMMA NextJoinInv ==
    WorkerInv /\ P!DataInv /\ JoinInv /\ [SystemNext]_system => JoinInv'
<1> SUFFICES ASSUME WorkerInv, P!DataInv, JoinInv, [SystemNext]_system PROVE JoinInv'
    OBVIOUS
<1>1. \/ queued' = queued
      \/ \E j \in P!Tries \X Routes : j \notin queued /\ queued' = queued \cup {j}
    BY StepOfServer, ServerQueues
<1>2. CASE TableFollows
    <2>1. CASE queued' = queued
        BY <1>2, <2>1 DEF TableFollows, JoinInv, vars, process, seen
    <2>2. CASE queued' # queued
        <3>1. PICK j \in queued' \ queued : Enqueue(j)
            BY <1>2, <2>2 DEF TableFollows
        <3>2. queued' = queued \cup {j}
            BY <1>1, <3>1
        <3> QED
            BY <3>1, <3>2 DEF Enqueue, JoinInv, process
    <2> QED
        BY <2>1, <2>2
<1>3. CASE Work \/ End \/ Start
    <2>1. UNCHANGED <<accepted, live, queued>>
        BY <1>3, WorkerStep DEF Work, End, Start, server, B!Crash, B!store
    <2>2. unrouted' = unrouted
        <3>1. ASSUME NEW g \in Goroutines, Process(g) PROVE unrouted' = unrouted
            <4>1. ~DropUnrouted(g)
                <5> SUFFICES ASSUME DropUnrouted(g) PROVE FALSE
                    OBVIOUS
                <5>1. Job(g) \in Jobs /\ RouteOf[Job(g)] \notin Routes
                    BY TaskLemma DEF DropUnrouted, WorkerInv, JoinInv
                <5> QED
                    BY <5>1, QueueAssumption
            <4> QED
                BY <3>1, <4>1 DEF Process, Post, Answer2xx, AnswerError, Cancelled,
                                  LogDelivery, Settle, seen
        <3> QED
            BY <1>3, <3>1 DEF Work, End, Start, ClaimDue, Launch, AbandonBatch, EndDrain,
                  StopWorker, Tick, Shutdown, Exit, Crash, Gone, Restart, seen
    <2> QED
        BY <2>1, <2>2 DEF JoinInv
<1>4. CASE UNCHANGED system
    BY <1>4 DEF system, vars, server, process, seen, JoinInv
<1> QED
    BY <1>2, <1>3, <1>4 DEF SystemNext, Connect, HangUp, Handle

LEMMA SystemInvariant == SystemSpec => [](WorkerInv /\ P!DataInv /\ JoinInv)
<1>1. SystemSpec => []P!DataInv
    BY SystemImplementsSubmission, ServerInvariant, PTL
<1>2. Spec => []WorkerInv
    BY InitTypeOK, NextTypeOK, InitLossInv, NextLossInv, InitWorkInv, NextWorkInv,
       InitHeldInv, NextHeldInv, PTL DEF Spec, WorkerInv
<1> QED
    BY <1>1, <1>2, SystemImplementsWorker, InitJoinInv, NextJoinInv, PTL DEF SystemSpec

-----------------------------------------------------------------------------
(***************************************************************************)
(* A message answered 250 is never lost.                                   *)
(***************************************************************************)
\* At any time after the 250 each sync webhook has confirmed the message, and each
\* async one has its row in the table, or has confirmed it, or every attempt was made:
\* through failing statements, lost answers and stops of the process (Data, Enqueue,
\* process and runServer together).
THEOREM AcceptedMailIsKept == SystemSpec => []AcceptedIsKept
<1>1. SystemSpec => []P!AcceptedIsHandedOver
    BY SystemImplementsSubmission, ServerHandsOver, PTL
<1>2. \A mode : B!Targets(mode) = P!Targets(mode)
    BY DEF B!Targets, P!Targets, B!ToSet, P!ToSet
<1>3. P!AcceptedIsHandedOver /\ WorkerInv /\ JoinInv => AcceptedIsKept
    <2> SUFFICES ASSUME P!AcceptedIsHandedOver, WorkerInv, JoinInv,
                        NEW t \in B!Tries, told[t] = "250"
                 PROVE  /\ \A r \in B!Targets("sync") : <<t, r>> \in acked
                        /\ \A r \in B!Targets("async") :
                              \/ <<t, r>> \in rows \/ acks[<<t, r>>] > 0
                              \/ failed[<<t, r>>] + cancelled[<<t, r>>] >= Allowed
        BY DEF AcceptedIsKept
    <2>1. /\ \A r \in B!Targets("sync") : <<t, r>> \in acked
          /\ \A r \in B!Targets("async") : <<t, r>> \in queued
        BY <1>2, SameTries DEF P!AcceptedIsHandedOver
    <2>2. \A j \in queued \ rows : acks[j] > 0 \/ failed[j] + cancelled[j] >= Allowed
        BY DEF WorkerInv, LossInv, NoLostJob, JoinInv
    <2> QED
        BY <2>1, <2>2
<1> QED
    BY <1>1, <1>3, SystemInvariant, PTL

-----------------------------------------------------------------------------
(***************************************************************************)
(* The refinement mapping, step by step. A step of the worker is one of    *)
(* DurableQueue by NextSimulates; which one, its effect on the table and   *)
(* JoinInv tell. Attempts past the last are not counted any more.          *)
(***************************************************************************)
LEMMA FruitlessLemma ==
    ASSUME TypeOK, NEW j \in Jobs
    PROVE  /\ failed[j] + cancelled[j] \in Nat /\ Allowed \in Nat
           /\ Fruitless(j) < Allowed => Fruitless(j) = failed[j] + cancelled[j]
           /\ Fruitless(j) >= Allowed <=> failed[j] + cancelled[j] >= Allowed
BY AllowedLemma DEF TypeOK, Fruitless

\* What the queue of Bridge shows is a matter of the table and the outcomes alone.
LEMMA MappedUnchanged ==
    ASSUME UNCHANGED <<rows, accepted, acks, failed, cancelled, unrouted>>
    PROVE  UNCHANGED <<[j \in Jobs |-> StatusOf(j)], [j \in Jobs |-> Fruitless(j)]>>
BY DEF StatusOf, Fruitless

\* An INSERT of the server is the Submit of its queue.
LEMMA EnqueueMaps ==
    ASSUME TypeOK, WorkInv, NEW j \in Jobs, Enqueue(j)
    PROVE  B!Queue!Submit(j)
<1> DEFINE st == [i \in Jobs |-> StatusOf(i)]
           fr == [i \in Jobs |-> Fruitless(i)]
<1>1. StatusOf(j) = "new" /\ StatusOf(j)' = "pending"
    BY DEF Enqueue, StatusOf, WorkInv
<1>2. /\ \A i \in Jobs \ {j} : StatusOf(i)' = StatusOf(i)
      /\ \A i \in Jobs : Fruitless(i)' = Fruitless(i)
    BY DEF Enqueue, StatusOf, Fruitless
<1>3. st' = [st EXCEPT ![j] = "pending"] /\ fr' = fr /\ st[j] = "new"
    BY <1>1, <1>2
<1> QED
    BY <1>3 DEF B!Queue!Submit, B!Queue!Becomes

LEMMA TableMaps ==
    ASSUME TypeOK, WorkInv, RowsAreJobs', TableFollows
    PROVE  B!QueueFollows
<1>1. CASE queued' = queued
    <2>1. UNCHANGED <<rows, accepted, acks, failed, cancelled, unrouted>>
        BY <1>1 DEF TableFollows, vars, table, seen
    <2> QED
        BY <1>1, <2>1, MappedUnchanged DEF B!QueueFollows
<1>2. CASE queued' # queued
    <2>1. PICK j \in queued' \ queued : Enqueue(j)
        BY <1>2 DEF TableFollows
    <2>2. j \in Jobs
        BY <2>1 DEF RowsAreJobs
    <2>3. B!Queue!Submit(j)
        BY <2>1, <2>2, EnqueueMaps
    <2> QED
        BY <1>2, <2>1, <2>3 DEF B!QueueFollows
<1> QED
    BY <1>1, <1>2

\* A step of the worker alone.
LEMMA WorkMaps ==
    ASSUME WorkerInv, WorkerInv', JoinInv, JoinInv', Work
    PROVE  [B!BridgeNext]_(B!bridge)
<1> DEFINE st == [j \in Jobs |-> StatusOf(j)]
           fr == [j \in Jobs |-> Fruitless(j)]
           fc == [j \in Jobs |-> failed[j] + cancelled[j]]
<1>1. /\ [Queue!Next]_(Queue!queue)
      /\ UNCHANGED accepted
    BY WorkerStep, NextSimulates DEF WorkerInv
<1>2. UNCHANGED server /\ UNCHANGED B!vars
    BY DEF Work, server, B!vars, B!message, B!sender, B!handler, B!store, B!webhook
<1>3. \A j \in Jobs : j \in B!Tries \X Routes
    BY JobsLemma
<1>4. fc' = fc => fr' = fr
    BY DEF Fruitless
<1>5. CASE UNCHANGED Queue!queue
    <2>1. st' = st /\ fc' = fc
        BY <1>5 DEF Queue!queue
    <2> QED
        BY <1>2, <1>4, <2>1 DEF B!bridge
<1>6. ASSUME NEW j \in Jobs, Queue!Submit(j) PROVE FALSE
    <2>1. st[j] = "new" /\ st' = [st EXCEPT ![j] = "pending"]
        BY <1>6 DEF Queue!Submit, Queue!Becomes
    <2>2. StatusOf(j) = "new" /\ StatusOf(j)' = "pending"
        BY <2>1
    <2>3. j \in accepted'
        BY <2>2 DEF WorkerInv, WorkInv, StatusOf
    <2>4. j \notin accepted
        BY <2>2 DEF StatusOf
    <2> QED
        BY <1>1, <2>3, <2>4
<1>7. ASSUME NEW j \in Jobs, Queue!Unroute(j) PROVE FALSE
    <2>1. st' = [st EXCEPT ![j] = "unrouted"]
        BY <1>7 DEF Queue!Unroute, Queue!Becomes
    <2>2. StatusOf(j)' = "unrouted"
        BY <2>1
    <2> QED
        BY <2>2 DEF JoinInv, StatusOf
<1>8. ASSUME NEW j \in Jobs, Queue!Fail(j) PROVE [B!BridgeNext]_(B!bridge)
    <2>1. st[j] # "new" /\ st' = st /\ fc' = [fc EXCEPT ![j] = @ + 1]
        BY <1>8 DEF Queue!Fail
    <2>2. /\ \A i \in Jobs \ {j} : fc'[i] = fc[i]
          /\ fc'[j] = fc[j] + 1
        BY <2>1
    <2>3. /\ fc[j] \in Nat /\ Allowed \in Nat
          /\ \A i \in Jobs : fr[i] = IF fc[i] < Allowed THEN fc[i] ELSE Allowed
          /\ \A i \in Jobs : fr'[i] = IF fc'[i] < Allowed THEN fc'[i] ELSE Allowed
        BY FruitlessLemma DEF WorkerInv, Fruitless, Allowed
    <2>4. \A i \in Jobs \ {j} : fr'[i] = fr[i]
        BY <2>2, <2>3
    <2>5. CASE fc[j] < Allowed
        <3>1. fr[j] = fc[j] /\ fr'[j] = fr[j] + 1 /\ fr[j] < Allowed
            BY <2>2, <2>3, <2>5
        <3>2. fr' = [fr EXCEPT ![j] = @ + 1]
            BY <2>4, <3>1
        <3>3. B!WorkerFails(j)
            BY <1>2, <2>1, <3>1, <3>2 DEF B!WorkerFails, B!Queue!Fail
        <3> QED
            BY <1>3, <3>3 DEF B!BridgeNext
    <2>6. CASE ~(fc[j] < Allowed)
        <3>1. fr'[j] = fr[j]
            BY <2>2, <2>3, <2>6
        <3>2. fr' = fr
            BY <2>4, <3>1
        <3> QED
            BY <1>2, <2>1, <3>2 DEF B!bridge
    <2> QED
        BY <2>5, <2>6
<1>9. ASSUME NEW j \in Jobs, Queue!Deliver(j) \/ Queue!GiveUp(j) \/ Queue!LateConfirm(j)
      PROVE  B!BridgeNext
    <2>1. fc' = fc
        BY <1>9 DEF Queue!Deliver, Queue!GiveUp, Queue!LateConfirm, Queue!Becomes
    <2>2. fr' = fr
        BY <1>4, <2>1
    <2>3. fc[j] >= Allowed => fr[j] >= Allowed
        BY FruitlessLemma DEF WorkerInv
    <2>4. B!Queue!Deliver(j) \/ B!Queue!GiveUp(j) \/ B!Queue!LateConfirm(j)
        BY <1>9, <2>2, <2>3 DEF Queue!Deliver, Queue!GiveUp, Queue!LateConfirm, Queue!Becomes,
           B!Queue!Deliver, B!Queue!GiveUp, B!Queue!LateConfirm, B!Queue!Becomes
    <2> QED
        BY <1>2, <1>3, <2>4 DEF B!WorkerSettles, B!BridgeNext
<1> QED
    BY <1>1, <1>5, <1>6, <1>7, <1>8, <1>9 DEF Queue!Next, Queue!Leave

LEMMA SystemMaps ==
    WorkerInv /\ WorkerInv' /\ JoinInv /\ JoinInv' /\ RowsAreJobs' /\ [SystemNext]_system
        => [B!BridgeNext]_(B!bridge)
<1> SUFFICES ASSUME WorkerInv, WorkerInv', JoinInv, JoinInv', RowsAreJobs', [SystemNext]_system
             PROVE  [B!BridgeNext]_(B!bridge)
    OBVIOUS
<1>1. TableFollows => B!QueueFollows
    BY TableMaps DEF WorkerInv
<1>2. CASE Connect \/ HangUp \/ \E t \in B!Tries : Handle(t)
    BY <1>1, <1>2 DEF Connect, HangUp, Handle, B!Next, B!ServerStep, B!BridgeNext
<1>3. CASE Work
    BY <1>3, WorkMaps
<1>4. CASE End
    <2>1. /\ UNCHANGED <<rows, accepted, acks, failed, cancelled, unrouted, queued>>
          /\ B!Next
        BY <1>4 DEF End, Exit, Crash, Gone, table, seen, B!Crash, B!store, B!Next
    <2> QED
        BY <2>1, MappedUnchanged DEF B!QueueFollows, B!ServerStep, B!BridgeNext
<1>5. CASE Start \/ UNCHANGED system
    <2>1. /\ UNCHANGED <<rows, accepted, acks, failed, cancelled, unrouted>>
          /\ UNCHANGED server
        BY <1>5 DEF Start, Restart, system, vars, table, seen
    <2> QED
        BY <2>1, MappedUnchanged DEF server, B!bridge, B!vars, B!message, B!sender,
                                     B!handler, B!store, B!webhook
<1> QED
    BY <1>2, <1>3, <1>4, <1>5 DEF SystemNext

\* The process as a whole does what Bridge says: its handlers and goroutines, the
\* queue table between them, stops and restarts (Data, Enqueue, RunWorker and
\* runServer). Whatever Bridge guarantees holds of it.
THEOREM SystemImplementsBridge == SystemSpec => ImplementsBridge
<1>1. SystemInit => B!BridgeInit
    <2> SUFFICES ASSUME SystemInit PROVE B!BridgeInit
        OBVIOUS
    <2>1. \A j \in Jobs : StatusOf(j) = "new" /\ Fruitless(j) = 0
        BY AllowedLemma DEF SystemInit, Init, StatusOf, Fruitless
    <2> QED
        BY <2>1, JobsLemma DEF SystemInit, B!BridgeInit, B!Queue!Init
<1>2. P!DataInv => RowsAreJobs
    BY JobsLemma, SameTries DEF P!DataInv, P!TypeOK, RowsAreJobs
<1> QED
    BY <1>1, <1>2, SystemInvariant, SystemMaps, PTL DEF SystemSpec, ImplementsBridge,
       B!BridgeSpec
=============================================================================
