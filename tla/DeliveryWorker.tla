---------------------------- MODULE DeliveryWorker ----------------------------
(***************************************************************************)
(* The asynchronous half of smtp-bridge: the durable queue table of        *)
(* internal/store and the worker of internal/delivery that drains it, with *)
(* the process they run in (cmd/smtp-bridge) stopping, crashing and being  *)
(* started again.                                                          *)
(*                                                                         *)
(* The worker is one goroutine looping in RunWorker. At a tick it runs     *)
(* drain: read the due rows (ClaimDue, which marks nothing), start one     *)
(* goroutine per row behind a counting semaphore made for this drain, and  *)
(* wait for the semaphore to be free again. Each goroutine POSTs once,     *)
(* logs the attempt, then deletes or reschedules its row. Every database   *)
(* statement is atomic (one connection); every one of them may fail, and   *)
(* the code ignores that everywhere in this path.                          *)
(*                                                                         *)
(* The SMTP server appears only as Enqueue, the webhook only as the answer *)
(* a POST gets.                                                            *)
(***************************************************************************)
EXTENDS Integers, FiniteSets

CONSTANTS
    Jobs,           \* the queue rows that may ever be inserted
    Routes,         \* route names
    RouteOf,        \* the route column of each row
    Goroutines,     \* names for the goroutines drain starts
    Concurrency,    \* delivery.concurrency
    ClaimFactor,    \* 4 in the code: a drain reads at most this many rows per slot
    MaxRetries,     \* delivery.max_retries
    RetryBackoff,   \* delivery.retry_backoff, in ticks
    LogContent,     \* logging.enabled
    MaxDbErrors,    \* bound: statements that fail in one behaviour
    MaxStops        \* bound: shutdowns and crashes in one behaviour

ASSUME QueueAssumption ==
    /\ RouteOf \in [Jobs -> Routes]
    /\ IsFiniteSet(Goroutines)

ASSUME ConfigAssumption ==
    /\ Concurrency \in Nat \ {0}
    /\ ClaimFactor \in Nat \ {0}
    /\ Cardinality(Goroutines) >= Concurrency
    /\ MaxRetries \in Int
    /\ RetryBackoff \in Int
    /\ LogContent \in BOOLEAN

ASSUME BoundAssumption ==
    /\ MaxDbErrors \in Nat
    /\ MaxStops \in Nat

VARIABLES
    \* the database file, which survives the process
    rows,           \* the rows of table queue
    attempts,       \* their attempts column
    nextAt,         \* their next_attempt_at column
    deliveries,     \* the rows of table deliveries
    \* the process
    phase,          \* "running", "stopping" (ctx cancelled) or "down"
    live,           \* the routes of the configuration it was started with
    wpc,            \* the worker: in "select", in the "launch" loop, or "stopped"
    batch,          \* rows drain has read and not yet started a goroutine for
    sem,            \* goroutines holding a slot of the current drain's semaphore
    proc,           \* the goroutines running process
    now,            \* the wall clock
    \* what an observer of the queue and of the webhooks has seen so far
    accepted,       \* jobs ever enqueued
    posts,          \* per job, requests handed to the HTTP client
    acks,           \* per job, 2xx answers
    failed,         \* per job, attempts the webhook or the network failed
    cancelled,      \* per job, attempts our own shutdown cancelled
    unrouted,       \* jobs dropped because their route is not configured
    dbErrors,       \* failed statements
    stops           \* shutdowns and crashes

table   == <<rows, attempts, nextAt>>
process == <<phase, live, wpc, batch, sem, proc>>
seen    == <<accepted, posts, acks, failed, cancelled, unrouted>>
vars    == <<table, deliveries, process, now, seen, dbErrors, stops>>

-----------------------------------------------------------------------------
(***************************************************************************)
(* Goroutines and snapshots.                                               *)
(***************************************************************************)
\* max_retries is the number of attempts, the first one included; the first is
\* made whatever its value.
Allowed == IF MaxRetries > 1 THEN MaxRetries ELSE 1

Idle == [pc |-> "idle"]

Task == [pc : {"start", "posting", "log", "settle"}, job : Jobs,
         attempt : 1 .. Allowed, out : {"none", "2xx", "error"}]

\* What ClaimDue copied out of a row.
Snapshot == [job : Jobs, attempts : 0 .. Allowed - 1, due : Int]

Busy == {g \in Goroutines : proc[g] # Idle}

\* Type invariant. A row in the queue has an attempt left, and a goroutine never
\* makes one more than max_retries allows (process, delivery.go).
TypeOK ==
    /\ rows \subseteq Jobs
    /\ attempts \in [Jobs -> 0 .. Allowed - 1]
    /\ nextAt \in [Jobs -> Int]
    /\ deliveries \subseteq [job : Jobs, attempt : 1 .. Allowed, success : BOOLEAN]
    /\ phase \in {"running", "stopping", "down"}
    /\ live \subseteq Routes
    /\ wpc \in {"select", "launch", "stopped"}
    /\ batch \subseteq Snapshot
    /\ sem \subseteq Goroutines
    /\ proc \in [Goroutines -> Task \cup {Idle}]
    /\ now \in Nat
    /\ accepted \subseteq Jobs
    /\ posts \in [Jobs -> Nat]
    /\ acks \in [Jobs -> Nat]
    /\ failed \in [Jobs -> Nat]
    /\ cancelled \in [Jobs -> Nat]
    /\ unrouted \subseteq Jobs
    /\ dbErrors \in Nat
    /\ stops \in Nat

Init ==
    /\ rows = {} /\ deliveries = {}
    /\ attempts = [j \in Jobs |-> 0]
    /\ nextAt = [j \in Jobs |-> 0]
    /\ phase = "running" /\ live \in SUBSET Routes \ {{}}
    /\ wpc = "select" /\ batch = {} /\ sem = {}
    /\ proc = [g \in Goroutines |-> Idle]
    /\ now = 0
    /\ accepted = {} /\ unrouted = {}
    /\ posts = [j \in Jobs |-> 0]
    /\ acks = [j \in Jobs |-> 0]
    /\ failed = [j \in Jobs |-> 0]
    /\ cancelled = [j \in Jobs |-> 0]
    /\ dbErrors = 0 /\ stops = 0

-----------------------------------------------------------------------------
(***************************************************************************)
(* The database. A statement succeeds, or fails and changes nothing.       *)
(***************************************************************************)
DbStatement(ok) ==
    \/ ok /\ UNCHANGED dbErrors
    \/ ~ok /\ dbErrors < MaxDbErrors /\ dbErrors' = dbErrors + 1

\* A session has just had its message queued for one async route. Sessions
\* outlive the cancellation of ctx until the listeners are closed. (A failed
\* INSERT is answered 451 and leaves no row: it is not a step of this module.)
Enqueue(j) ==
    /\ phase # "down"
    /\ j \notin accepted /\ RouteOf[j] \in live
    /\ rows' = rows \cup {j}
    /\ attempts' = [attempts EXCEPT ![j] = 0]
    /\ nextAt' = [nextAt EXCEPT ![j] = now]
    /\ accepted' = accepted \cup {j}
    /\ UNCHANGED <<deliveries, process, now, posts, acks, failed, cancelled,
                   unrouted, dbErrors, stops>>

\* Faulty variant: the query forgets its WHERE clause.
DueAny == rows

Due == {j \in rows : nextAt[j] <= now}

\* The answers of SELECT ... WHERE next_attempt_at <= now
\* ORDER BY next_attempt_at LIMIT Concurrency * 4 (ties in any order).
Claims ==
    {S \in SUBSET Due :
        /\ Cardinality(S) <= ClaimFactor * Concurrency
        /\ S = Due \/ Cardinality(S) = ClaimFactor * Concurrency
        /\ \A i \in S, j \in Due \ S : nextAt[i] <= nextAt[j]}

-----------------------------------------------------------------------------
(***************************************************************************)
(* The worker goroutine: RunWorker and drain.                              *)
(***************************************************************************)
\* A tick. The select also picks the ticker when ctx is cancelled and both are
\* ready. drain reads the due rows and makes a semaphore of its own; if the
\* query fails it just returns.
ClaimDue ==
    /\ wpc = "select" /\ phase # "down"
    /\ \/ /\ DbStatement(TRUE)
          /\ \E S \in Claims :
                batch' = {[job |-> j, attempts |-> attempts[j], due |-> nextAt[j]] : j \in S}
          /\ sem' = {}
          /\ wpc' = "launch"
       \/ DbStatement(FALSE) /\ UNCHANGED <<batch, sem, wpc>>
    /\ UNCHANGED <<table, deliveries, phase, live, proc, now, seen, stops>>

SlotFree == Cardinality(sem) < Concurrency

\* drain takes a slot and starts a goroutine for the next row of its batch.
Launch(g) ==
    /\ wpc = "launch" /\ SlotFree
    /\ proc[g] = Idle
    /\ \E b \in batch :
          /\ \A c \in batch : b.due <= c.due
          /\ batch' = batch \ {b}
          /\ proc' = [proc EXCEPT ![g] =
                        [pc |-> "start", job |-> b.job, attempt |-> b.attempts + 1,
                         out |-> "none"]]
    /\ sem' = sem \cup {g}
    /\ UNCHANGED <<table, deliveries, phase, live, wpc, now, seen, dbErrors, stops>>

\* drain sees ctx cancelled while it would start the next row: it returns at
\* once, leaving its goroutines running.
AbandonBatch ==
    /\ wpc = "launch" /\ batch # {} /\ phase = "stopping"
    /\ batch' = {} /\ wpc' = "select"
    /\ UNCHANGED <<table, deliveries, phase, live, sem, proc, now, seen, dbErrors, stops>>

\* Faulty variants: the wait for the semaphore is gone; it waits for one slot.
NoBarrier == batch = {}
OneSlotBarrier == batch = {} /\ SlotFree

\* Every slot of the semaphore has been taken back by drain itself.
Settled == batch = {} /\ sem = {}

\* drain returns to RunWorker once its jobs have settled.
EndDrain ==
    /\ wpc = "launch" /\ Settled
    /\ wpc' = "select"
    /\ UNCHANGED <<table, deliveries, phase, live, batch, sem, proc, now, seen, dbErrors, stops>>

\* RunWorker returns: its select picks ctx.Done.
StopWorker ==
    /\ wpc = "select" /\ phase = "stopping"
    /\ wpc' = "stopped"
    /\ UNCHANGED <<table, deliveries, phase, live, batch, sem, proc, now, seen, dbErrors, stops>>

-----------------------------------------------------------------------------
(***************************************************************************)
(* One goroutine: process.                                                 *)
(***************************************************************************)
Job(g) == proc[g].job

\* The goroutine is at control point p (and the process is alive).
At(g, p) == proc[g] # Idle /\ proc[g].pc = p

Goto(g, p, out) ==
    proc' = [proc EXCEPT ![g] =
               [pc |-> p, job |-> @.job, attempt |-> @.attempt, out |-> out]]

\* Faulty variant: the slot is not freed.
ReturnKeepingSlot(g) ==
    /\ proc' = [proc EXCEPT ![g] = Idle]
    /\ UNCHANGED sem

\* The goroutine ends and frees its slot (the deferred <-sem).
Return(g) ==
    /\ proc' = [proc EXCEPT ![g] = Idle]
    /\ sem' = sem \ {g}

\* DELETE FROM queue WHERE id = ?, with its error ignored.
CompleteJob(j) ==
    /\ \E ok \in BOOLEAN :
          /\ DbStatement(ok)
          /\ rows' = IF ok THEN rows \ {j} ELSE rows
    /\ UNCHANGED <<attempts, nextAt>>

\* Faulty variant: the row keeps its old count.
RescheduleKeepingCount(j, n, t) ==
    \E ok \in BOOLEAN :
        /\ DbStatement(ok)
        /\ nextAt' = IF ok /\ j \in rows THEN [nextAt EXCEPT ![j] = t] ELSE nextAt
        /\ UNCHANGED <<rows, attempts>>

\* Faulty variant: the row is written back whether or not it is still there.
RescheduleWritingBack(j, n, t) ==
    \E ok \in BOOLEAN :
        /\ DbStatement(ok)
        /\ rows' = IF ok THEN rows \cup {j} ELSE rows
        /\ attempts' = IF ok THEN [attempts EXCEPT ![j] = n] ELSE attempts
        /\ nextAt' = IF ok THEN [nextAt EXCEPT ![j] = t] ELSE nextAt

\* UPDATE queue SET attempts, next_attempt_at WHERE id = ?: no effect on a row
\* that is gone. Its error is only logged.
RescheduleJob(j, n, t) ==
    \E ok \in BOOLEAN :
        /\ DbStatement(ok)
        /\ attempts' = IF ok /\ j \in rows THEN [attempts EXCEPT ![j] = n] ELSE attempts
        /\ nextAt' = IF ok /\ j \in rows THEN [nextAt EXCEPT ![j] = t] ELSE nextAt
        /\ UNCHANGED rows

\* base * 2^(attempt-1); the int64 it is kept in only wraps after a wait of a
\* century, so it is not bounded here.
Backoff(attempt) == RetryBackoff * 2^(attempt - 1)

\* Faulty variants: one attempt more, one attempt fewer.
GivesUpLate(attempt) == attempt > MaxRetries
GivesUpEarly(attempt) == attempt + 1 >= MaxRetries

GivesUp(attempt) == attempt >= MaxRetries

\* The job's route is no longer configured: drop it.
DropUnrouted(g) ==
    /\ At(g, "start") /\ RouteOf[Job(g)] \notin live
    /\ CompleteJob(Job(g))
    /\ unrouted' = unrouted \cup {Job(g)}
    /\ Return(g)
    /\ UNCHANGED <<deliveries, phase, live, wpc, batch, now, accepted, posts, acks,
                   failed, cancelled, stops>>

\* The request goes to the HTTP client.
Post(g) ==
    /\ At(g, "start") /\ RouteOf[Job(g)] \in live
    /\ phase = "running"
    /\ posts' = [posts EXCEPT ![Job(g)] = @ + 1]
    /\ Goto(g, "posting", "none")
    /\ UNCHANGED <<table, deliveries, phase, live, wpc, batch, sem, now, accepted, acks,
                   failed, cancelled, unrouted, dbErrors, stops>>

\* A 2xx answer. It may still be read after ctx is cancelled.
Answer2xx(g) ==
    /\ At(g, "posting")
    /\ acks' = [acks EXCEPT ![Job(g)] = @ + 1]
    /\ Goto(g, "log", "2xx")
    /\ UNCHANGED <<table, deliveries, phase, live, wpc, batch, sem, now, accepted, posts,
                   failed, cancelled, unrouted, dbErrors, stops>>

\* Any other status, a network error, or the client's timeout.
AnswerError(g) ==
    /\ At(g, "posting")
    /\ failed' = [failed EXCEPT ![Job(g)] = @ + 1]
    /\ Goto(g, "log", "error")
    /\ UNCHANGED <<table, deliveries, phase, live, wpc, batch, sem, now, accepted, posts,
                   acks, cancelled, unrouted, dbErrors, stops>>

\* The request fails because ctx is cancelled, before it is sent ("start") or
\* while it is in flight; process sees an error like any other.
Cancelled(g) ==
    /\ phase = "stopping"
    /\ \/ At(g, "start") /\ RouteOf[Job(g)] \in live
       \/ At(g, "posting")
    /\ cancelled' = [cancelled EXCEPT ![Job(g)] = @ + 1]
    /\ Goto(g, "log", "error")
    /\ UNCHANGED <<table, deliveries, phase, live, wpc, batch, sem, now, accepted, posts,
                   acks, failed, unrouted, dbErrors, stops>>

\* Faulty variant: the row's old count is logged.
LoggedCountBefore(attempt) == attempt - 1

\* The attempt column of an attempt.
LoggedCount(attempt) == attempt

\* The success column of an attempt.
LoggedOutcome(out) == out = "2xx"

\* LogDelivery, a no-op without content logging; its error is ignored.
LogDelivery(g) ==
    /\ At(g, "log")
    /\ IF LogContent
       THEN \E ok \in BOOLEAN :
               /\ DbStatement(ok)
               /\ deliveries' =
                    IF ok
                    THEN deliveries \cup {[job |-> Job(g),
                                           attempt |-> LoggedCount(proc[g].attempt),
                                           success |-> LoggedOutcome(proc[g].out)]}
                    ELSE deliveries
       ELSE UNCHANGED <<deliveries, dbErrors>>
    /\ Goto(g, "settle", proc[g].out)
    /\ UNCHANGED <<table, phase, live, wpc, batch, sem, now, seen, stops>>

\* Delivered, or given up: the row is deleted. Otherwise it waits its backoff.
Settle(g) ==
    /\ At(g, "settle")
    /\ IF proc[g].out = "2xx" \/ GivesUp(proc[g].attempt)
       THEN CompleteJob(Job(g))
       ELSE RescheduleJob(Job(g), proc[g].attempt, now + Backoff(proc[g].attempt))
    /\ Return(g)
    /\ UNCHANGED <<deliveries, phase, live, wpc, batch, now, seen, stops>>

Process(g) ==
    DropUnrouted(g) \/ Post(g) \/ Answer2xx(g) \/ AnswerError(g) \/ Cancelled(g)
    \/ LogDelivery(g) \/ Settle(g)

-----------------------------------------------------------------------------
(***************************************************************************)
(* The clock and the process.                                              *)
(***************************************************************************)
\* Time passes. Only a row that is not due yet makes it matter, so the clock
\* stops when there is none (this bounds it).
Tick ==
    /\ \E j \in rows : nextAt[j] > now
    /\ now' = now + 1
    /\ UNCHANGED <<table, deliveries, process, seen, dbErrors, stops>>

\* SIGINT or SIGTERM: the context of the worker and of its requests is cancelled.
Shutdown ==
    /\ phase = "running" /\ stops < MaxStops
    /\ phase' = "stopping"
    /\ stops' = stops + 1
    /\ UNCHANGED <<table, deliveries, live, wpc, batch, sem, proc, now, seen, dbErrors>>

\* The process is gone and every goroutine with it; the file remains.
Gone ==
    /\ phase' = "down"
    /\ wpc' = "stopped" /\ batch' = {} /\ sem' = {}
    /\ proc' = [g \in Goroutines |-> Idle]
    /\ UNCHANGED <<table, deliveries, live, now, seen, dbErrors>>

\* runServer returns after closing the listeners: it waits for no goroutine.
Exit == phase = "stopping" /\ Gone /\ UNCHANGED stops

\* The process is killed, or exits on a start-up error after the worker started.
Crash ==
    /\ phase = "running" /\ stops < MaxStops
    /\ Gone
    /\ stops' = stops + 1

\* The service manager starts it again, perhaps with another list of routes.
Restart ==
    /\ phase = "down"
    /\ phase' = "running"
    /\ live' \in SUBSET Routes \ {{}}
    /\ wpc' = "select"
    /\ UNCHANGED <<table, deliveries, batch, sem, proc, now, seen, dbErrors, stops>>

Next ==
    \/ \E j \in Jobs : Enqueue(j)
    \/ ClaimDue
    \/ \E g \in Goroutines : Launch(g)
    \/ AbandonBatch
    \/ EndDrain
    \/ StopWorker
    \/ \E g \in Goroutines : Process(g)
    \/ Tick
    \/ Shutdown
    \/ Exit
    \/ Crash
    \/ Restart

Spec == Init /\ [][Next]_vars

\* Fairness: the Go scheduler runs every goroutine and the ticker keeps ticking
\* (the worker is never left at a tick for ever), a request ends because the
\* HTTP client has a timeout, time passes, runServer returns once cancelled and
\* the service manager restarts the process. Nothing is assumed of sessions, of
\* the webhook's answers, or of faults.
Fairness ==
    /\ WF_vars(ClaimDue)
    /\ WF_vars(\E g \in Goroutines : Launch(g))
    /\ WF_vars(EndDrain)
    /\ \A g \in Goroutines : WF_vars(Process(g))
    /\ WF_vars(Tick)
    /\ WF_vars(Exit)
    /\ WF_vars(Restart)

FairSpec == Spec /\ Fairness

-----------------------------------------------------------------------------
(***************************************************************************)
(* What must hold.                                                         *)
(***************************************************************************)
\* A job leaves the queue only if a webhook answered 2xx, or max_retries
\* attempts came to nothing, or its route was taken out of the configuration:
\* whatever crashes, restarts, shutdowns and database errors happen, in process
\* and in the DELETE it ends with.
NoLostJob ==
    \A j \in accepted \ rows :
        \/ acks[j] > 0
        \/ failed[j] + cancelled[j] >= Allowed
        \/ j \in unrouted

\* While the process runs, no two goroutines work on the same row, although
\* ClaimDue marks nothing: drain's wait is all that keeps a row from being read
\* again while it is being delivered.
NoDoubleProcessing ==
    phase = "running" => \A g, h \in Busy : g # h => Job(g) # Job(h)

\* While the process runs, what a goroutine copied out of its row at the start
\* of the drain is still what the row says: the row exists, it is due, and the
\* attempt being made is the next one.
FreshClaim ==
    phase = "running" =>
        \A g \in Busy : /\ Job(g) \in rows
                        /\ proc[g].attempt = attempts[Job(g)] + 1
                        /\ nextAt[Job(g)] <= now

\* delivery.concurrency bounds the deliveries in flight at any time, not only
\* those of one drain, although every drain makes a new semaphore.
ConcurrencyBound ==
    phase = "running" => Cardinality(Busy) <= Concurrency

\* A webhook is called at most max_retries times for one message, plus once for
\* each database error and each stop that kept an attempt from being recorded.
PostsBounded ==
    \A j \in Jobs : posts[j] <= Allowed + dbErrors + stops

\* A webhook that has answered 2xx is called again only if the DELETE failed or
\* the process stopped before it: duplicates are bounded by those faults.
DuplicatesBounded ==
    \A j \in Jobs : acks[j] <= 1 + dbErrors + stops

\* With content logging on and a working database, the deliveries table shows
\* why each job left the queue, shutdowns included: a success, or the last
\* attempt.
RemovalLogged ==
    LogContent /\ dbErrors = 0 =>
        \A j \in accepted \ (rows \cup unrouted) :
            \E d \in deliveries : d.job = j /\ (d.success \/ d.attempt >= MaxRetries)

\* How a job stands, as seen in the table and in the webhooks' answers.
StatusOf(j) ==
    IF j \in rows THEN "pending"
    ELSE IF j \notin accepted THEN "new"
    ELSE IF acks[j] > 0 THEN "delivered"
    ELSE IF failed[j] + cancelled[j] >= Allowed THEN "failed"
    ELSE IF j \in unrouted THEN "unrouted" ELSE "lost"

Queue == INSTANCE DurableQueue WITH
            status <- [j \in Jobs |-> StatusOf(j)],
            fruitless <- [j \in Jobs |-> failed[j] + cancelled[j]]

\* Tables, goroutines, stops, restarts and failing statements together implement
\* the queue the SMTP server relies on: a job becomes pending once, stays so
\* until it is confirmed, spent or unrouted, and never becomes pending again.
ImplementsQueue == Queue!Spec

\* Every queued job eventually leaves the queue: rows behind failing ones are
\* not starved, drain does not hang, and restarts pick up what was left.
EveryJobSettles == Queue!Settles

-----------------------------------------------------------------------------
(***************************************************************************)
(* What the source says and the code does not do (see README.md).          *)
(***************************************************************************)
\* store.go: CompleteJob "removes a finished (delivered or permanently failed)
\* job". Permanently failed is max_retries failures of the webhook.
OnlyFinishedJobsRemoved ==
    \A j \in accepted \ rows :
        acks[j] > 0 \/ failed[j] >= Allowed \/ j \in unrouted

\* delivery.go, drain: "Wait for in-flight jobs to settle before the next tick."
\* No batch is read while a goroutine of an earlier one is still at work.
SettledBeforeNextTick ==
    [][wpc = "select" /\ wpc' = "launch" => Busy = {}]_vars
=============================================================================
