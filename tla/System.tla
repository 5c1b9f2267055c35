-------------------------------- MODULE System --------------------------------
(***************************************************************************)
(* smtp-bridge as one process: the SMTP server of Submission and the       *)
(* worker of DeliveryWorker over one queue table, stopped, killed and      *)
(* started again together.                                                 *)
(*                                                                         *)
(* An INSERT of the server is the worker's Enqueue; between any two steps  *)
(* of a session the worker, its goroutines and the clock may do theirs.    *)
(* When the process ends, sessions and goroutines end in the same step,    *)
(* and no session begins before the next start. The routes stay as they    *)
(* are: a restart with other routes is a matter of DeliveryWorker.         *)
(*                                                                         *)
(* Bridge says the same of DurableQueue in place of the worker, and this   *)
(* module implements it.                                                   *)
(***************************************************************************)
EXTENDS DeliveryWorker, Sequences

CONSTANTS
    Mode,           \* as in Submission
    LogRejections,
    Messages,
    MaxTries

\* Every try may insert one row per route.
ASSUME SystemAssumption ==
    /\ Jobs = (1 .. MaxTries) \X Routes
    /\ \A j \in Jobs : RouteOf[j] = j[2]
    /\ Routes # {}

ASSUME SubmissionAssumption ==
    /\ Mode \in [Routes -> {"sync", "async", "capture"}]
    /\ LogRejections \in BOOLEAN
    /\ (\E r \in Routes : Mode[r] = "capture") => LogContent
    /\ Messages \subseteq Seq(Routes) \ {<<>>} /\ MaxTries \in Nat \ {0}

\* The variables of Submission. The rows it writes to table deliveries and its failed
\* statements are counted apart from the worker's.
VARIABLES
    rcpts, oversize, client, try, told, pc, todo, async, verdict, messages, syncLog, queued,
    rejections, processed, acked, serverErrors, crashes

server == <<rcpts, oversize, client, try, told, pc, todo, async, verdict, messages, syncLog,
            queued, rejections, processed, acked, serverErrors, crashes>>

system == <<vars, server>>

\* What an attempt past the last one changes is nothing the queue promises of.
Fruitless(j) == IF failed[j] + cancelled[j] < Allowed THEN failed[j] + cancelled[j] ELSE Allowed

B == INSTANCE Bridge WITH
        MaxCrashes <- MaxStops,
        deliveries <- syncLog, dbErrors <- serverErrors,
        status <- [j \in Jobs |-> StatusOf(j)],
        fruitless <- [j \in Jobs |-> Fruitless(j)]

SystemInit == Init /\ live = Routes /\ B!Init

\* A row the server has just inserted is in the table.
TableFollows ==
    IF queued' = queued THEN UNCHANGED vars ELSE \E j \in queued' \ queued : Enqueue(j)

\* The sender connects while the process is there, ...
Connect == phase # "down" /\ B!Submit /\ TableFollows

\* ... may hang up at any time, ...
HangUp == B!Disconnect /\ TableFollows

\* ... and its handler takes a step.
Handle(t) == phase # "down" /\ B!Data(t) /\ TableFollows

\* The worker, its goroutines, the clock, and the beginning of a stop.
Work ==
    /\ \/ ClaimDue
       \/ \E g \in Goroutines : Launch(g) \/ Process(g)
       \/ AbandonBatch \/ EndDrain \/ StopWorker \/ Tick \/ Shutdown
    /\ UNCHANGED server

\* The process is gone, with every session and goroutine.
End == (Exit \/ Crash) /\ B!Crash

\* It is started again.
Start == Restart /\ live' = live /\ UNCHANGED server

SystemNext ==
    \/ Connect
    \/ HangUp
    \/ \E t \in B!Tries : Handle(t)
    \/ Work
    \/ End
    \/ Start

SystemSpec == SystemInit /\ [][SystemNext]_system

-----------------------------------------------------------------------------
(***************************************************************************)
(* What must hold.                                                         *)
(***************************************************************************)
\* The server over the worker does what it does over the queue the worker implements:
\* every step of the whole process is one of Bridge, or none (Data, Enqueue, RunWorker,
\* runServer).
ImplementsBridge == B!BridgeSpec

\* A message answered 250 is never lost again: at any later time each sync webhook has
\* confirmed it, and for each async one its row is in the table, the webhook has
\* confirmed it, or every attempt was made, whatever failed and however often the
\* process stopped (Data to CompleteJob).
AcceptedIsKept ==
    \A t \in B!Tries : told[t] = "250" =>
        /\ \A r \in B!Targets("sync") : <<t, r>> \in acked
        /\ \A r \in B!Targets("async") :
              LET j == <<t, r>>
              IN j \in rows \/ acks[j] > 0 \/ failed[j] + cancelled[j] >= Allowed
=============================================================================
