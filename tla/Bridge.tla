-------------------------------- MODULE Bridge --------------------------------
(***************************************************************************)
(* The bridge from a sender to the webhooks: the SMTP server of Submission *)
(* over the queue of DurableQueue, which DeliveryWorker implements. A step *)
(* of the server that inserts a row is the queue's Submit; between any two *)
(* steps of the server the worker may settle what is queued.               *)
(*                                                                         *)
(* The routes stay as they are: a restart with other routes is a matter of *)
(* DeliveryWorker.                                                         *)
(***************************************************************************)
EXTENDS Submission

CONSTANT Allowed            \* attempts a queued delivery is entitled to

ASSUME AllowedAssumption == Allowed \in Nat \ {0}

VARIABLES status, fruitless

Queue == INSTANCE DurableQueue WITH Jobs <- Tries \X Routes

bridge == <<vars, status, fruitless>>

BridgeInit == Init /\ Queue!Init

\* What the server has just inserted is pending.
QueueFollows ==
    IF queued' = queued
    THEN UNCHANGED <<status, fruitless>>
    ELSE \E j \in queued' \ queued : Queue!Submit(j)

ServerStep == Next /\ QueueFollows

\* The worker makes an attempt that fails (none after the job is spent, which
\* bounds the count), or settles a job.
WorkerFails(j) ==
    /\ fruitless[j] < Allowed /\ Queue!Fail(j)
    /\ UNCHANGED vars

WorkerSettles(j) ==
    /\ Queue!Deliver(j) \/ Queue!GiveUp(j) \/ Queue!LateConfirm(j)
    /\ UNCHANGED vars

BridgeNext ==
    \/ ServerStep
    \/ \E j \in Tries \X Routes : WorkerFails(j) \/ WorkerSettles(j)

BridgeSpec == BridgeInit /\ [][BridgeNext]_bridge

\* As FairSpec, and the queue settles what is pending (EveryJobSettles of
\* DeliveryWorker; every job settles once, so fairness to them together is
\* fairness to each).
BridgeFairSpec ==
    /\ BridgeSpec
    /\ WF_bridge(Submit /\ QueueFollows)
    /\ \A t \in Tries : WF_bridge(Data(t) /\ QueueFollows)
    /\ WF_bridge(\E j \in Tries \X Routes : status[j] = "pending" /\ WorkerSettles(j))

-----------------------------------------------------------------------------
(***************************************************************************)
(* What must hold from end to end.                                         *)
(***************************************************************************)
\* A sender told 250 may rely on it whatever crashes follow: its sync webhooks
\* have confirmed the message, and each async one confirms it or has been given
\* every attempt it is entitled to (Data, Enqueue and the worker together).
AcceptedIsDelivered ==
    \A t \in Tries :
        told[t] = "250" ~>
            /\ \A r \in Targets("sync") : <<t, r>> \in acked
            /\ \A r \in Targets("async") :
                  \/ status[<<t, r>>] = "delivered"
                  \/ status[<<t, r>>] = "failed" /\ fruitless[<<t, r>>] >= Allowed

\* An async webhook gets a message that is submitted again only once: one more
\* delivery takes a failed statement or an answer that did not reach the sender,
\* and a refusal for another route's sake is neither.
QueuedOncePerFault ==
    \A r \in Routes :
        Cardinality({t \in Tries : status[<<t, r>>] # "new"})
            <= 1 + dbErrors + Cardinality({t \in Tries : told[t] = "lost"})
=============================================================================
