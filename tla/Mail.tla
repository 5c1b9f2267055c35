--------------------------------- MODULE Mail ---------------------------------
(***************************************************************************)
(* What of a message reaches a webhook: mail.Parse, whose walk descends    *)
(* the MIME tree, and delivery.BuildPayload, which applies the include     *)
(* rules of each route.                                                    *)
(*                                                                         *)
(* A message is the sequence of its entities in the order of its bytes: a  *)
(* multipart stands before its parts, and they before what follows it. An  *)
(* entity spans itself and all within it, and is legible up to the first   *)
(* of its parts that cannot be read. Headers and texts are left out; of a  *)
(* body its kind, disposition, name and size decide what becomes of it,    *)
(* whole or cut short by a decoding error.                                 *)
(***************************************************************************)
EXTENDS Integers, Sequences, SequencesExt

CONSTANTS
    Messages,       \* messages that may arrive
    Limits          \* values of max_attachment_bytes, 0 for none

Kinds == {"text/plain", "text/html", "text/other", "other"}

Multipart == [multipart : {TRUE}, span : Nat \ {0}, legible : Nat \ {0}]

Leaf == [multipart : {FALSE}, span : {1}, legible : {1}, kind : Kinds, attached : BOOLEAN,
         named : BOOLEAN, size : Nat, whole : BOOLEAN]

\* The last entity within the one at i of a message, and the first one behind its
\* legible parts.
EndIn(msg, i) == i + msg[i].span - 1
CutIn(msg, i) == i + msg[i].legible

\* One entity is the message, entities are nested, and parts are legible or not as a
\* whole.
WellFormed(msg) ==
    /\ msg \in Seq(Multipart \cup Leaf) /\ msg # <<>>
    /\ EndIn(msg, 1) = Len(msg)
    /\ \A i \in DOMAIN msg :
          /\ CutIn(msg, i) <= EndIn(msg, i) + 1 /\ EndIn(msg, i) <= Len(msg)
          /\ \A j \in i + 1 .. EndIn(msg, i) :
                /\ EndIn(msg, j) <= EndIn(msg, i)
                /\ j < CutIn(msg, i) => EndIn(msg, j) < CutIn(msg, i)

ASSUME MailAssumption ==
    /\ \A msg \in Messages : WellFormed(msg)
    /\ Limits \subseteq Nat

-----------------------------------------------------------------------------
VARIABLES
    raw,        \* the message
    readable,   \* whether its header could be read
    readers,    \* the multiparts being read, the innermost last: the calls of walk
    at,         \* the entity that comes next
    parsed,     \* the Message so far
    include,    \* the rules of the route the payload is for
    payload,
    pc

vars == <<raw, readable, readers, at, parsed, include, payload, pc>>

End(i) == EndIn(raw, i)
Cut(i) == CutIn(raw, i)

\* Bodies are named by their place in the message, 0 for none.
NoBody == 0

Size(k) == IF k = NoBody THEN 0 ELSE raw[k].size

\* What Parse starts from: the envelope and the raw bytes, which are not modelled.
Empty == [text |-> NoBody, html |-> NoBody, attachments |-> <<>>]

NoPayload == <<>>

Rules == [raw : BOOLEAN, attachments : BOOLEAN, limit : Limits]

-----------------------------------------------------------------------------
(***************************************************************************)
(* mail.Parse. walk is one call per multipart, and one step per part of    *)
(* its loop.                                                               *)
(***************************************************************************)
\* Disposition "attachment", or a name on anything that is not text.
IsAttachment(e) == e.attached \/ (e.named /\ e.kind = "other")

\* Faulty variant: the last body of a kind wins.
LastBody(old, k) == k

\* The first body of a kind is kept; an empty one counts for none.
FirstBody(old, k) == IF Size(old) = 0 THEN k ELSE old

\* Faulty variant: an attachment is put before the others.
PutFirst(m, k) == [m EXCEPT !.attachments = <<k>> \o @]

Attach(m, k) == [m EXCEPT !.attachments = Append(@, k)]

\* The switch of walk on a leaf.
Collect(m, k) ==
    LET e == raw[k] IN
    CASE IsAttachment(e) -> Attach(m, k)
      [] ~IsAttachment(e) /\ e.kind = "text/html"  -> [m EXCEPT !.html = FirstBody(@, k)]
      [] ~IsAttachment(e) /\ e.kind = "text/plain" -> [m EXCEPT !.text = FirstBody(@, k)]
      [] OTHER -> IF e.named THEN Attach(m, k) ELSE m

\* A call of walk: the loop over a multipart begins, or a leaf is collected.
Walk(k) ==
    /\ at' = k + 1
    /\ \/ raw[k].multipart /\ readers' = Append(readers, k) /\ UNCHANGED parsed
       \/ ~raw[k].multipart /\ parsed' = Collect(parsed, k) /\ UNCHANGED readers

\* The outermost call has returned.
Returns == pc' = IF readers' = <<>> THEN "parsed" ELSE "walking"

\* Without a readable header nothing is parsed.
Parse(ok) ==
    /\ pc = "received"
    /\ readable' = ok
    /\ IF ok
       THEN Walk(1) /\ Returns
       ELSE pc' = "parsed" /\ UNCHANGED <<readers, at, parsed>>
    /\ UNCHANGED <<raw, include, payload>>

NextPart ==
    /\ pc = "walking" /\ at < Cut(Last(readers))
    /\ Walk(at) /\ Returns
    /\ UNCHANGED <<raw, readable, include, payload>>

\* An error of NextPart ends the loop like the end does. The reader around it goes on
\* behind the part.
EndOfParts ==
    /\ pc = "walking" /\ at = Cut(Last(readers))
    /\ at' = End(Last(readers)) + 1
    /\ readers' = Front(readers) /\ Returns
    /\ UNCHANGED <<raw, readable, parsed, include, payload>>

-----------------------------------------------------------------------------
(***************************************************************************)
(* delivery.BuildPayload, which Data calls for each route.                 *)
(***************************************************************************)
\* Faulty variant: the limit itself is too much.
TooLargeAtLimit(k, rules) == rules.limit > 0 /\ Size(k) >= rules.limit

TooLarge(k, rules) == rules.limit > 0 /\ Size(k) > rules.limit

\* An attachment of the payload: always listed, with or without its body.
Listed(k, rules) ==
    [of |-> k,
     body |-> rules.attachments /\ ~TooLarge(k, rules),
     truncated |-> rules.attachments /\ TooLarge(k, rules)]

BuildPayload(m, rules) ==
    [text |-> m.text, html |-> m.html, raw |-> rules.raw,
     attachments |-> [i \in DOMAIN m.attachments |-> Listed(m.attachments[i], rules)]]

Build(rules) ==
    /\ pc = "parsed"
    /\ include' = rules
    /\ payload' = BuildPayload(parsed, rules)
    /\ UNCHANGED <<raw, readable, readers, at, parsed, pc>>

-----------------------------------------------------------------------------
Init ==
    /\ raw \in Messages /\ readable = FALSE
    /\ readers = <<>> /\ at = 1 /\ parsed = Empty
    /\ include = [raw |-> FALSE, attachments |-> FALSE, limit |-> 0] /\ payload = NoPayload
    /\ pc = "received"

Next ==
    \/ \E ok \in BOOLEAN : Parse(ok)
    \/ NextPart
    \/ EndOfParts
    \/ \E rules \in Rules : Build(rules)

Spec == Init /\ [][Next]_vars

-----------------------------------------------------------------------------
(***************************************************************************)
(* What must hold.                                                         *)
(***************************************************************************)
\* No entity around k is broken before it.
Legible(k) == \A i \in 1 .. k - 1 : k <= End(i) => k < Cut(i)

Leaves == {k \in DOMAIN raw : ~raw[k].multipart}

\* What was attached, and what has a name and is no text the message is made of.
Attachments ==
    {k \in Leaves : /\ Legible(k)
                    /\ \/ raw[k].attached
                       \/ raw[k].named /\ raw[k].kind \in {"other", "text/other"}}

\* The texts of a kind that are no attachments and not empty.
Bodies(kind) ==
    {k \in Leaves : Legible(k) /\ raw[k].kind = kind /\ ~raw[k].attached /\ raw[k].size > 0}

\* The attachments of the payload are those of the message in their order, however
\* deep they are nested and whatever stands between them or is broken (walk,
\* BuildPayload).
AttachmentsInOrder ==
    payload # NoPayload /\ readable =>
        LET of(i) == payload.attachments[i].of
        IN /\ {of(i) : i \in DOMAIN payload.attachments} = Attachments
           /\ \A i, j \in DOMAIN payload.attachments : i < j => of(i) < of(j)

\* Parse: "a message is never silently dropped". A leaf with a body is missing from a
\* payload without the raw message only for one of the known reasons: it is behind
\* something unreadable, damaged, another text of its kind comes first, it has neither
\* name nor a kind that is shown, bodies of attachments are not asked for, or it is
\* larger than the limit and marked so.
LossesAreExplained ==
    payload # NoPayload /\ ~payload.raw /\ readable =>
        \A k \in Leaves :
            LET e == raw[k]
            IN \/ ~Legible(k) \/ ~e.whole \/ e.size = 0
               \/ k \in {payload.text, payload.html}
               \/ \E i \in DOMAIN payload.attachments :
                     LET a == payload.attachments[i]
                     IN /\ a.of = k
                        /\ \/ a.body \/ ~include.attachments
                           \/ (a.truncated /\ include.limit \in 1 .. e.size - 1)
               \/ /\ e.kind \in {"text/plain", "text/html"} /\ ~e.attached
                  /\ \E j \in Bodies(e.kind) : j < k
               \/ e.kind \in {"text/other", "other"} /\ ~e.attached /\ ~e.named

\* The text and the HTML shown are those a reader sees first: no attachment takes
\* their place, nor a later part, such as a footer or a forwarded message.
FirstTextIsShown ==
    payload # NoPayload /\ readable =>
        LET shown(kind, body) ==
                IF Bodies(kind) = {}
                THEN Size(body) = 0
                ELSE body \in Bodies(kind) /\ \A k \in Bodies(kind) : body <= k
        IN shown("text/plain", payload.text) /\ shown("text/html", payload.html)
=============================================================================
