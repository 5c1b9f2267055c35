----------------------------- MODULE DurableQueue -----------------------------
(***************************************************************************)
(* What smtp-bridge promises of a delivery it has queued, with nothing of  *)
(* how: no table, goroutine, clock, process or fault. A job is pending     *)
(* until its webhook has confirmed it, or Allowed attempts came to         *)
(* nothing, or its route is gone; and it is eventually one of these.       *)
(*                                                                         *)
(* DeliveryWorker implements this module; Bridge builds on it in place of  *)
(* DeliveryWorker.                                                         *)
(***************************************************************************)
EXTENDS Integers

CONSTANTS
    Jobs,       \* the deliveries that may be queued
    Allowed     \* attempts a job is entitled to

VARIABLES
    status,     \* per job: "new", "pending", "delivered", "failed" or "unrouted"
    fruitless   \* per job, attempts that came to nothing

queue == <<status, fruitless>>

Init ==
    /\ status = [j \in Jobs |-> "new"]
    /\ fruitless = [j \in Jobs |-> 0]

\* Becomes(j, s): nothing but the status of j changes.
Becomes(j, s) ==
    /\ status' = [status EXCEPT ![j] = s]
    /\ UNCHANGED fruitless

\* The server queues it.
Submit(j) == status[j] = "new" /\ Becomes(j, "pending")

\* An attempt fails. One that was under way when the job left the queue may
\* still do so.
Fail(j) ==
    /\ status[j] # "new"
    /\ fruitless' = [fruitless EXCEPT ![j] = @ + 1]
    /\ UNCHANGED status

\* It leaves the queue.
Deliver(j) == status[j] = "pending" /\ Becomes(j, "delivered")
GiveUp(j)  == status[j] = "pending" /\ fruitless[j] >= Allowed /\ Becomes(j, "failed")
Unroute(j) == status[j] = "pending" /\ Becomes(j, "unrouted")

\* An attempt that was under way when its job was given up, or was dropped after
\* one whose answer was never recorded, is confirmed after all.
LateConfirm(j) == status[j] \in {"failed", "unrouted"} /\ Becomes(j, "delivered")

Leave(j) == Deliver(j) \/ GiveUp(j) \/ Unroute(j)

Next == \E j \in Jobs : Submit(j) \/ Fail(j) \/ Leave(j) \/ LateConfirm(j)

Spec == Init /\ [][Next]_queue

\* Every queued job is settled.
Settles == \A j \in Jobs : status[j] = "pending" ~> status[j] # "pending"
=============================================================================
