------------------------------ MODULE Submission ------------------------------
(***************************************************************************)
(* What the SMTP server does with one message: session.Data of             *)
(* internal/server, with the calls it makes into internal/store and        *)
(* internal/delivery (LogMessage, DeliverSync, Enqueue, LogRejection).     *)
(*                                                                         *)
(* One sender submits one message, again if it is refused with 451 or loses*)
(* its connection. Every try has a handler of its own in the server, which *)
(* runs on when the sender is gone: the handlers of two tries of the same  *)
(* message may overlap. Between the steps of a handler the process may     *)
(* crash (and is started again), a statement may fail, and a webhook may   *)
(* process a request and still have it count as failed (a lost answer).    *)
(***************************************************************************)
EXTENDS Integers, Sequences, SequencesExt, FiniteSets

CONSTANTS
    Routes,         \* route names
    Mode,           \* per route: "sync", "async", or "capture" (no webhook)
    LogContent,     \* logging.enabled
    LogRejections,  \* whether refusals are recorded
    Messages,       \* recipient lists, each as the routes the recipients matched
    MaxTries,       \* bound: times the sender submits it
    MaxDbErrors,    \* bound: statements that fail in one behaviour
    MaxCrashes      \* bound: crashes in one behaviour

Tries == 1 .. MaxTries

ASSUME RouteAssumption ==
    /\ Mode \in [Routes -> {"sync", "async", "capture"}]
    /\ LogContent \in BOOLEAN /\ LogRejections \in BOOLEAN
    \* config.Validate: a capture-only route needs the message log.
    /\ (\E r \in Routes : Mode[r] = "capture") => LogContent

ASSUME BoundAssumption ==
    /\ Messages \subseteq Seq(Routes) \ {<<>>} /\ MaxTries \in Nat \ {0}
    /\ MaxDbErrors \in Nat /\ MaxCrashes \in Nat

VARIABLES
    \* the message: the route each recipient matched, and its size
    rcpts, oversize,
    \* the sender
    client,         \* "ready" to submit, "waiting" for an answer, "done", "gaveup"
    try,            \* how often it has submitted; also the id of the last try
    told,           \* per try, what the sender learned
    \* the server: one handler per try
    pc,             \* its control point
    todo,           \* routes Data has not looked at yet
    async,          \* the asyncRoutes it has collected
    verdict,        \* the reply it is going to send
    \* the database
    messages,       \* ids in table messages
    deliveries,     \* [id, route, success] in table deliveries
    queued,         \* <<id, route>> ever inserted in table queue
    rejections,     \* ids refused in table rejections
    \* the webhooks
    processed,      \* <<id, route>> a webhook acted on, in the SMTP session
    acked,          \* <<id, route>> it answered 2xx
    dbErrors, crashes

message == <<rcpts, oversize>>
sender  == <<client, try, told>>
handler == <<pc, todo, async, verdict>>
store   == <<messages, deliveries, queued, rejections>>
webhook == <<processed, acked>>
vars    == <<message, sender, handler, store, webhook, dbErrors, crashes>>

-----------------------------------------------------------------------------
\* Faulty variant: one entry per recipient.
OrderWithRepeats(rs) == rs

\* Distinct matched routes, in first-seen order.
Order(rs) ==
    FoldLeft(LAMBDA seen, r : IF r \in ToSet(seen) THEN seen ELSE Append(seen, r),
             <<>>, rs)

Targets(mode) == {r \in ToSet(rcpts) : Mode[r] = mode}

PCs == {"none", "read", "log", "deliver", "posting", "answered", "refused", "enqueue",
        "reject", "reply", "ended"}

Verdicts == {"none", "250", "451", "552"}

\* Type invariant. A handler's two lists never name a route twice: each route of
\* a message is served once per try, however many recipients share it (Data).
TypeOK ==
    /\ rcpts \in Messages /\ oversize \in BOOLEAN
    /\ client \in {"ready", "waiting", "done", "gaveup"}
    /\ try \in 0 .. MaxTries
    /\ told \in [Tries -> Verdicts \cup {"lost"}]
    /\ pc \in [Tries -> PCs]
    /\ \A t \in Tries : /\ todo[t] \in Seq(Routes) /\ IsInjective(todo[t])
                        /\ async[t] \in Seq(Routes) /\ IsInjective(async[t])
    /\ verdict \in [Tries -> Verdicts]
    /\ messages \subseteq Tries
    /\ deliveries \subseteq [id : Tries, route : Routes, success : BOOLEAN]
    /\ queued \subseteq Tries \X Routes
    /\ rejections \subseteq Tries
    /\ processed \subseteq Tries \X Routes
    /\ acked \subseteq Tries \X Routes
    /\ dbErrors \in 0 .. MaxDbErrors /\ crashes \in 0 .. MaxCrashes

Init ==
    /\ rcpts \in Messages
    /\ oversize \in BOOLEAN
    /\ client = "ready" /\ try = 0
    /\ told = [t \in Tries |-> "none"]
    /\ pc = [t \in Tries |-> "none"]
    /\ todo = [t \in Tries |-> <<>>]
    /\ async = [t \in Tries |-> <<>>]
    /\ verdict = [t \in Tries |-> "none"]
    /\ messages = {} /\ deliveries = {} /\ queued = {} /\ rejections = {}
    /\ processed = {} /\ acked = {}
    /\ dbErrors = 0 /\ crashes = 0

-----------------------------------------------------------------------------
(***************************************************************************)
(* The sender.                                                             *)
(***************************************************************************)
\* It connects and sends the message up to DATA.
Submit ==
    /\ client = "ready" /\ try < MaxTries
    /\ try' = try + 1
    /\ client' = "waiting"
    /\ pc' = [pc EXCEPT ![try + 1] = "read"]
    /\ UNCHANGED <<message, told, todo, async, verdict, store, webhook, dbErrors, crashes>>

\* It loses the connection, or its patience, before an answer: it will try again.
\* The handler does not notice until it writes.
Disconnect ==
    /\ client = "waiting"
    /\ client' = "ready"
    /\ told' = [told EXCEPT ![try] = "lost"]
    /\ UNCHANGED <<message, try, handler, store, webhook, dbErrors, crashes>>

-----------------------------------------------------------------------------
(***************************************************************************)
(* The handler of try t: session.Data.                                     *)
(***************************************************************************)
Goto(t, p) == pc' = [pc EXCEPT ![t] = p]

\* A statement succeeds, or fails and changes nothing.
DbStatement(ok) ==
    \/ ok /\ UNCHANGED dbErrors
    \/ ~ok /\ dbErrors < MaxDbErrors /\ dbErrors' = dbErrors + 1

\* One INSERT of row into table, if the table is enabled.
InsertIf(enabled, table, row, ok) ==
    IF enabled
    THEN DbStatement(ok) /\ table' = IF ok THEN table \cup {row} ELSE table
    ELSE ok /\ UNCHANGED <<table, dbErrors>>

\* io.ReadAll of the body. An oversized body is an error that go-smtp answers
\* 552; when the connection is gone the error has no one to go to.
ReadBody(t) ==
    /\ pc[t] = "read"
    /\ \/ ~oversize /\ Goto(t, "log") /\ UNCHANGED verdict
       \/ oversize /\ Goto(t, "reply") /\ verdict' = [verdict EXCEPT ![t] = "552"]
       \/ told[t] = "lost" /\ Goto(t, "ended") /\ UNCHANGED verdict
    /\ UNCHANGED <<message, sender, todo, async, store, webhook, dbErrors, crashes>>

\* Every message is logged when content logging is on.
LogsMessage == LogContent

\* The message is logged first; an error is only written to the process log.
LogMessage(t) ==
    /\ pc[t] = "log"
    /\ \E ok \in BOOLEAN : InsertIf(LogsMessage, messages, t, ok)
    /\ todo' = [todo EXCEPT ![t] = Order(rcpts)]
    /\ Goto(t, "deliver")
    /\ UNCHANGED <<message, sender, async, verdict, deliveries, queued, rejections,
                   webhook, crashes>>

\* Faulty variant: async routes are not put aside but queued as they come.
EnqueueAsTheyCome(t) ==
    /\ pc[t] = "deliver" /\ todo[t] # <<>> /\ Mode[Head(todo[t])] # "sync"
    /\ todo' = [todo EXCEPT ![t] = Tail(@)]
    /\ queued' = IF Mode[Head(todo[t])] = "async" THEN queued \cup {<<t, Head(todo[t])>>} ELSE queued
    /\ UNCHANGED <<message, sender, pc, async, verdict, messages, deliveries, rejections,
                   webhook, dbErrors, crashes>>

\* The loop over the routes meets a capture-only or an async route.
SkipRoute(t) ==
    /\ pc[t] = "deliver" /\ todo[t] # <<>> /\ Mode[Head(todo[t])] # "sync"
    /\ todo' = [todo EXCEPT ![t] = Tail(@)]
    /\ async' = IF Mode[Head(todo[t])] = "async"
                THEN [async EXCEPT ![t] = Append(@, Head(todo[t]))] ELSE async
    /\ UNCHANGED <<message, sender, pc, verdict, store, webhook, dbErrors, crashes>>

\* It meets a sync route: DeliverSync posts to its webhook, under a timeout.
PostSync(t) ==
    /\ pc[t] = "deliver" /\ todo[t] # <<>> /\ Mode[Head(todo[t])] = "sync"
    /\ Goto(t, "posting")
    /\ UNCHANGED <<message, sender, todo, async, verdict, store, webhook, dbErrors, crashes>>

\* The webhook acts on the request and its 2xx arrives; or it does not act; or it
\* acts and the answer is lost, late or not a 2xx.
AnswerSync(t) ==
    LET p == <<t, Head(todo[t])>> IN
    /\ pc[t] = "posting"
    /\ \/ /\ processed' = processed \cup {p} /\ acked' = acked \cup {p}
          /\ Goto(t, "answered")
       \/ processed' = processed /\ acked' = acked /\ Goto(t, "refused")
       \/ processed' = processed \cup {p} /\ acked' = acked /\ Goto(t, "refused")
    /\ UNCHANGED <<message, sender, todo, async, verdict, store, dbErrors, crashes>>

\* Faulty variant: failing to log the attempt refuses the message.
SyncFailedOrUnlogged(t, ok) == pc[t] = "refused" \/ ~ok

\* The message is refused if the webhook's answer was not a 2xx, whatever became
\* (ok) of the row that says so.
SyncFailed(t, ok) == pc[t] = "refused"

\* DeliverSync logs the attempt, its error ignored. After a 2xx the loop goes on;
\* after anything else the whole message is refused.
LogSync(t) ==
    /\ pc[t] \in {"answered", "refused"}
    /\ \E ok \in BOOLEAN :
          /\ InsertIf(LogContent, deliveries,
                      [id |-> t, route |-> Head(todo[t]), success |-> pc[t] = "answered"], ok)
          /\ IF SyncFailed(t, ok)
             THEN Goto(t, "reject") /\ UNCHANGED todo
             ELSE Goto(t, "deliver") /\ todo' = [todo EXCEPT ![t] = Tail(@)]
    /\ UNCHANGED <<message, sender, async, verdict, messages, queued, rejections,
                   webhook, crashes>>

\* Every route has been looked at and every sync one has answered 2xx.
EndDeliver(t) ==
    /\ pc[t] = "deliver" /\ todo[t] = <<>>
    /\ Goto(t, "enqueue")
    /\ UNCHANGED <<message, sender, todo, async, verdict, store, webhook, dbErrors, crashes>>

\* Faulty variants: a failed INSERT is logged and forgotten; the handler then
\* returns without a reply.
ForgetEnqueueError == "enqueue"
NoReplyOnEnqueueError == "ended"

\* What a failed INSERT into the queue leads to.
OnEnqueueError == "reject"

\* One row per async route; the first failure refuses the message, whatever was
\* queued before it.
EnqueueRoute(t) ==
    /\ pc[t] = "enqueue" /\ async[t] # <<>>
    /\ \E ok \in BOOLEAN :
          /\ InsertIf(TRUE, queued, <<t, Head(async[t])>>, ok)
          /\ Goto(t, IF ok THEN "enqueue" ELSE OnEnqueueError)
    /\ async' = [async EXCEPT ![t] = Tail(@)]
    /\ UNCHANGED <<message, sender, todo, verdict, messages, deliveries, rejections,
                   webhook, crashes>>

\* Everything is queued: the message is accepted.
Accept(t) ==
    /\ pc[t] = "enqueue" /\ async[t] = <<>>
    /\ verdict' = [verdict EXCEPT ![t] = "250"]
    /\ Goto(t, "reply")
    /\ UNCHANGED <<message, sender, todo, async, store, webhook, dbErrors, crashes>>

\* Faulty variant: the error is returned without session.reject.
RejectUnrecorded(t) ==
    /\ pc[t] = "reject"
    /\ verdict' = [verdict EXCEPT ![t] = "451"]
    /\ Goto(t, "reply")
    /\ UNCHANGED <<message, sender, todo, async, store, webhook, dbErrors, crashes>>

\* session.reject: the refusal is recorded (errors are only logged), then sent.
Reject(t) ==
    /\ pc[t] = "reject"
    /\ \E ok \in BOOLEAN : InsertIf(LogRejections, rejections, t, ok)
    /\ verdict' = [verdict EXCEPT ![t] = "451"]
    /\ Goto(t, "reply")
    /\ UNCHANGED <<message, sender, todo, async, messages, deliveries, queued, webhook,
                   crashes>>

\* go-smtp writes the reply. The sender reads it if it is still there: 250 ends
\* its work, 451 makes it try again, 552 makes it give up.
Reply(t) ==
    /\ pc[t] = "reply"
    /\ Goto(t, "ended")
    /\ IF client = "waiting" /\ try = t
       THEN /\ told' = [told EXCEPT ![t] = verdict[t]]
            /\ client' = CASE verdict[t] = "250" -> "done"
                           [] verdict[t] = "451" -> "ready"
                           [] verdict[t] = "552" -> "gaveup"
       ELSE UNCHANGED <<told, client>>
    /\ UNCHANGED <<message, try, todo, async, verdict, store, webhook, dbErrors, crashes>>

Data(t) ==
    ReadBody(t) \/ LogMessage(t) \/ SkipRoute(t) \/ PostSync(t) \/ AnswerSync(t)
    \/ LogSync(t) \/ EndDeliver(t) \/ EnqueueRoute(t) \/ Accept(t) \/ Reject(t) \/ Reply(t)

-----------------------------------------------------------------------------
\* The process dies, its handlers and connections with it, and is started again.
Crash ==
    /\ crashes < MaxCrashes
    /\ crashes' = crashes + 1
    /\ pc' = [t \in Tries |-> IF pc[t] = "none" THEN "none" ELSE "ended"]
    /\ IF client = "waiting"
       THEN client' = "ready" /\ told' = [told EXCEPT ![try] = "lost"]
       ELSE UNCHANGED <<client, told>>
    /\ UNCHANGED <<message, try, todo, async, verdict, store, webhook, dbErrors>>

Next ==
    \/ Submit
    \/ Disconnect
    \/ \E t \in Tries : Data(t)
    \/ Crash

Spec == Init /\ [][Next]_vars

\* The server runs its handlers; a sync POST ends because it has a timeout. A
\* sender that has not been told 250 or 552 submits again.
FairSpec == Spec /\ WF_vars(Submit) /\ \A t \in Tries : WF_vars(Data(t))

-----------------------------------------------------------------------------
(***************************************************************************)
(* What must hold.                                                         *)
(***************************************************************************)
\* A sender that was told 250 need not try again: in that very try every sync
\* webhook answered 2xx and every async delivery is in the durable queue,
\* whatever failed or crashed on the way.
AcceptedIsHandedOver ==
    \A t \in Tries : told[t] = "250" =>
        /\ \A r \in Targets("sync") : <<t, r>> \in acked
        /\ \A r \in Targets("async") : <<t, r>> \in queued

\* Data: "Async routes are enqueued only once sync ones succeed." Nothing is in
\* the queue for a try in which a sync webhook has not answered 2xx, so that a
\* message refused for its sync route is not delivered elsewhere all the same.
NoAsyncBeforeSync ==
    \A e \in queued : \A r \in Targets("sync") : <<e[1], r>> \in acked

\* Retrying is safe for a message with a single route: as long as no connection
\* is lost and no webhook acts on a request it does not acknowledge, no webhook
\* gets the message twice, however often it was refused.
SingleRouteRetryIsSafe ==
    /\ Len(Order(rcpts)) = 1
    /\ \A t \in Tries : told[t] # "lost"
    /\ processed = acked
    => Cardinality(processed \cup queued) <= 1

\* A refusal the sender was told of and may act on is in the rejections table,
\* if it is enabled and its INSERT did not fail.
RefusalsRecorded ==
    LogRejections /\ dbErrors = 0 =>
        \A t \in Tries : told[t] = "451" => t \in rejections

\* The sender gets an end to it: a 250, a permanent refusal, or it has used up
\* its tries. No handler leaves it waiting for ever.
SenderIsAnswered ==
    <>(client \in {"done", "gaveup"} \/ (client = "ready" /\ try = MaxTries))

-----------------------------------------------------------------------------
(***************************************************************************)
(* What the source says and the code does not do (see README.md).          *)
(***************************************************************************)
\* server.go, Data: a capture-only message "is already stored above".
CapturedMailIsStored ==
    \A t \in Tries : told[t] = "250" /\ Targets("capture") # {} => t \in messages
=============================================================================
