------------------------------ MODULE MessageLog ------------------------------
(***************************************************************************)
(* The tables people look at: messages, deliveries and rejections of       *)
(* internal/store, written by the server and the worker, listed and        *)
(* deleted through internal/web, and purged by runRejectionPurge.          *)
(*                                                                         *)
(* These act concurrently and agree on nothing: a page may be old when its *)
(* delete button is pressed, and deleting messages takes two statements,   *)
(* between which the worker may log a delivery.                            *)
(***************************************************************************)
EXTENDS Integers, FiniteSets, FiniteSetsExt

CONSTANTS
    PageSize,           \* the list's n (200 by default)
    Days,               \* logging.rejection_retention_days, 0 to keep for ever
    MaxMessages,        \* bound: messages logged
    MaxAttempts,        \* bound: delivery attempts logged per message
    MaxRejections,      \* bound: rejections logged
    MaxDbErrors,        \* bound: statements that fail in one behaviour
    Horizon             \* bound: last day of the behaviour

ASSUME LogAssumption ==
    /\ PageSize \in Nat \ {0} /\ Days \in Nat
    /\ MaxMessages \in Nat /\ MaxAttempts \in Nat /\ MaxRejections \in Nat
    /\ MaxDbErrors \in Nat /\ Horizon \in Nat

NoOp == [kind |-> "none", ids |-> {}]
NoCutoff == -Days - 1

VARIABLES
    now,                \* today
    messages,           \* table messages: [id, at]
    deliveries,         \* table deliveries: [id, attempt]
    rejections,         \* table rejections: [id, at, what]; what tells the requests apart
    sequence,           \* the AUTOINCREMENT counter of rejections
    logged, refused,    \* messages and rejections there have been
    shownMessages,      \* rows of the list, or of the one message, the browser shows
    shownRejections,    \* rows of the rejection page it last loaded
    op,                 \* a deletion of messages between its two statements
    cutoff,             \* a purge between reading the clock and its statement
    dbErrors

tables  == <<messages, deliveries, rejections, sequence>>
counts  == <<logged, refused>>
browser == <<shownMessages, shownRejections, op>>
vars    == <<now, tables, counts, browser, cutoff, dbErrors>>

MessageRow   == [id : 1 .. MaxMessages, at : 0 .. Horizon]
DeliveryRow  == [id : 1 .. MaxMessages, attempt : 1 .. MaxAttempts]
RejectionRow == [id : 1 .. MaxRejections, at : 0 .. Horizon, what : 1 .. MaxRejections]

\* Type invariant. Ids are keys: two rows of one table never share one, although
\* rows are deleted while others are inserted (schema in migrate).
TypeOK ==
    /\ now \in 0 .. Horizon
    /\ messages \subseteq MessageRow
    /\ deliveries \subseteq DeliveryRow
    /\ rejections \subseteq RejectionRow
    /\ \A r, s \in rejections : r.id = s.id => r = s
    /\ sequence \in 0 .. MaxRejections
    /\ logged \in 0 .. MaxMessages /\ refused \in 0 .. MaxRejections
    /\ shownMessages \subseteq MessageRow /\ Cardinality(shownMessages) <= PageSize
    /\ shownRejections \subseteq RejectionRow /\ Cardinality(shownRejections) <= PageSize
    /\ op.kind \in {"none", "selected", "all"} /\ op.ids \subseteq 1 .. MaxMessages
    /\ cutoff \in NoCutoff .. Horizon
    /\ dbErrors \in 0 .. MaxDbErrors

Init ==
    /\ now = 0
    /\ messages = {} /\ deliveries = {} /\ rejections = {} /\ sequence = 0
    /\ logged = 0 /\ refused = 0
    /\ shownMessages = {} /\ shownRejections = {}
    /\ op = NoOp /\ cutoff = NoCutoff
    /\ dbErrors = 0

\* A statement succeeds, or fails and changes nothing.
DbStatement(ok) ==
    \/ ok /\ UNCHANGED dbErrors
    \/ ~ok /\ dbErrors < MaxDbErrors /\ dbErrors' = dbErrors + 1

-----------------------------------------------------------------------------
(***************************************************************************)
(* The server and the worker.                                              *)
(***************************************************************************)
\* A failed INSERT leaves no row: the message has been, but is not in the log.
LogMessage ==
    /\ logged < MaxMessages
    /\ logged' = logged + 1
    /\ \E ok \in BOOLEAN :
          /\ DbStatement(ok)
          /\ messages' = IF ok THEN messages \cup {[id |-> logged + 1, at |-> now]} ELSE messages
    /\ UNCHANGED <<now, deliveries, rejections, sequence, refused, browser, cutoff>>

\* An attempt on message i is logged, by the worker or a sync route: attempts go
\* on whether or not the message is still in the log.
LogDelivery(i, n) ==
    /\ i <= logged /\ [id |-> i, attempt |-> n] \notin deliveries
    /\ deliveries' = deliveries \cup {[id |-> i, attempt |-> n]}
    /\ UNCHANGED <<now, messages, rejections, sequence, counts, browser, cutoff, dbErrors>>

\* Faulty variant: what INTEGER PRIMARY KEY does without AUTOINCREMENT, the
\* largest id in the table plus one, so that the id of a deleted row may come back.
NextIdOfTable == IF rejections = {} THEN 1 ELSE Max({r.id : r \in rejections}) + 1

\* The id SQLite gives the next rejection.
NextId == sequence + 1

LogRejection ==
    /\ refused < MaxRejections
    /\ refused' = refused + 1
    /\ \E ok \in BOOLEAN :
          /\ DbStatement(ok)
          /\ IF ok
             THEN /\ rejections' = rejections \cup {[id |-> NextId, at |-> now, what |-> refused + 1]}
                  /\ sequence' = NextId
             ELSE UNCHANGED <<rejections, sequence>>
    /\ UNCHANGED <<now, messages, deliveries, logged, browser, cutoff>>

-----------------------------------------------------------------------------
(***************************************************************************)
(* The browser.                                                            *)
(***************************************************************************)
\* The rows ORDER BY at DESC LIMIT n may return.
Newest(table) ==
    {S \in SUBSET table :
        /\ Cardinality(S) = IF Cardinality(table) < PageSize THEN Cardinality(table) ELSE PageSize
        /\ \A r \in S, s \in table \ S : r.at >= s.at}

ListMessages ==
    /\ op = NoOp
    /\ shownMessages' \in Newest(messages)
    /\ UNCHANGED <<now, tables, counts, shownRejections, op, cutoff, dbErrors>>

\* A link of the list leads to the page of one message, which has a delete button of
\* its own; a message deleted meanwhile is not found.
OpenMessage ==
    /\ op = NoOp
    /\ \E m \in shownMessages : shownMessages' = messages \cap {m}
    /\ UNCHANGED <<now, tables, counts, shownRejections, op, cutoff, dbErrors>>

ListRejections ==
    /\ shownRejections' \in Newest(rejections)
    /\ UNCHANGED <<now, tables, counts, shownMessages, op, cutoff, dbErrors>>

\* Faulty variant: the statement lacks its WHERE clause.
DeliveriesOfAll(ids) == deliveries

\* WHERE message_id IN ids.
DeliveriesOf(ids) == {d \in deliveries : d.id \in ids}

\* DeleteMessages on rows of the page, or DeleteAllMessages. First statement: the
\* delivery rows; its error is not looked at.
DeleteDeliveries ==
    /\ op = NoOp
    /\ \/ \E S \in SUBSET shownMessages \ {{}} :
             op' = [kind |-> "selected", ids |-> {m.id : m \in S}]
       \/ op' = [kind |-> "all", ids |-> 1 .. MaxMessages]
    /\ \E ok \in BOOLEAN :
          /\ DbStatement(ok)
          /\ deliveries' = IF ok THEN deliveries \ DeliveriesOf(op'.ids) ELSE deliveries
    /\ UNCHANGED <<now, messages, rejections, sequence, counts, shownMessages,
                   shownRejections, cutoff>>

\* Second statement: the messages. Its error is reported; success redirects to
\* the list.
DeleteMessages ==
    /\ op # NoOp
    /\ \E ok \in BOOLEAN :
          /\ DbStatement(ok)
          /\ messages' = IF ok THEN {m \in messages : m.id \notin op.ids} ELSE messages
    /\ op' = NoOp
    /\ UNCHANGED <<now, deliveries, rejections, sequence, counts, shownMessages,
                   shownRejections, cutoff>>

\* DeleteRejections on rows of the page, by id.
DeleteRejections ==
    /\ \E S \in SUBSET shownRejections \ {{}}, ok \in BOOLEAN :
          /\ DbStatement(ok)
          /\ rejections' = IF ok THEN {r \in rejections : r.id \notin {s.id : s \in S}}
                                 ELSE rejections
    /\ UNCHANGED <<now, messages, deliveries, sequence, counts, browser, cutoff>>

DeleteAllRejections ==
    /\ \E ok \in BOOLEAN : DbStatement(ok) /\ rejections' = IF ok THEN {} ELSE rejections
    /\ UNCHANGED <<now, messages, deliveries, sequence, counts, browser, cutoff>>

-----------------------------------------------------------------------------
(***************************************************************************)
(* Retention.                                                              *)
(***************************************************************************)
\* purge reads the clock ...
StartPurge ==
    /\ Days > 0 /\ cutoff = NoCutoff
    /\ cutoff' = now - Days
    /\ UNCHANGED <<now, tables, counts, browser, dbErrors>>

\* Faulty variants: the comparison is turned round, or includes the cutoff day.
ExpiredNewer(r) == r.at > cutoff
ExpiredAtCutoff(r) == r.at <= cutoff

\* WHERE at < cutoff.
Expired(r) == r.at < cutoff

\* ... and deletes what is older; an error is only written to the process log.
RunPurge ==
    /\ cutoff # NoCutoff
    /\ \E ok \in BOOLEAN :
          /\ DbStatement(ok)
          /\ rejections' = IF ok THEN {r \in rejections : ~Expired(r)} ELSE rejections
    /\ cutoff' = NoCutoff
    /\ UNCHANGED <<now, messages, deliveries, sequence, counts, browser>>

NextDay ==
    /\ now < Horizon
    /\ now' = now + 1
    /\ UNCHANGED <<tables, counts, browser, cutoff, dbErrors>>

Next ==
    \/ LogMessage
    \/ \E i \in 1 .. MaxMessages, n \in 1 .. MaxAttempts : LogDelivery(i, n)
    \/ LogRejection
    \/ ListMessages \/ OpenMessage \/ ListRejections
    \/ DeleteDeliveries \/ DeleteMessages
    \/ DeleteRejections \/ DeleteAllRejections
    \/ StartPurge \/ RunPurge
    \/ NextDay

Spec == Init /\ [][Next]_vars

\* The purge goroutine's ticker keeps firing, and days pass.
FairSpec == Spec /\ WF_vars(StartPurge) /\ WF_vars(RunPurge) /\ WF_vars(NextDay)

-----------------------------------------------------------------------------
(***************************************************************************)
(* What must hold.                                                         *)
(***************************************************************************)
\* Pressing delete on a page, however old, never removes a rejection that page
\* did not show: ids are not reused.
OnlyShownRejectionsDeleted ==
    [][DeleteRejections => rejections \ rejections' \subseteq shownRejections]_vars

\* A rejection is kept for the configured number of days in full: none disappears
\* earlier, unless the browser deletes it.
KeptForRetention ==
    [][\A r \in rejections \ rejections' :
          \/ r.at + Days < now
          \/ DeleteRejections \/ DeleteAllRejections]_vars

\* With a retention period every rejection goes away once it is over, whatever
\* statements fail on the way.
RejectionsExpire ==
    \A w \in 1 .. MaxRejections :
        (\E r \in rejections : r.what = w /\ r.at + Days < Horizon)
            ~> ~ \E r \in rejections : r.what = w

\* A message that was not on any page when its deletion was asked for stays, and
\* so do its delivery rows: only "all" removes what was not shown.
UnselectedKept ==
    [][op.kind # "all" /\ op'.kind # "all" =>
          /\ \A m \in messages \ messages' : m.id \in op.ids
          /\ \A d \in deliveries \ deliveries' : d.id \in {m.id : m \in shownMessages}]_vars
=============================================================================
