------------------------------ MODULE MailProofs ------------------------------
(***************************************************************************)
(* Theorems about Mail, for every well-formed message and every limit: of  *)
(* trees of any depth, broken anywhere.                                    *)
(***************************************************************************)
EXTENDS Mail, SequenceTheorems, TLAPS

-----------------------------------------------------------------------------
(***************************************************************************)
(* The shape of a message, and what depends on the message alone.          *)
(***************************************************************************)
\* Where an entity ends and where it breaks: within the message, nested, a leaf at itself.
LEMMA ShapeLemma ==
    ASSUME raw \in Messages
    PROVE  /\ Len(raw) \in Nat \ {0} /\ DOMAIN raw = 1 .. Len(raw) /\ End(1) = Len(raw)
           /\ \A i \in DOMAIN raw :
                 /\ End(i) \in Nat /\ Cut(i) \in Nat
                 /\ i < Cut(i) /\ Cut(i) <= End(i) + 1 /\ i <= End(i) /\ End(i) <= Len(raw)
                 /\ ~raw[i].multipart => raw[i] \in Leaf /\ End(i) = i
           /\ \A i \in DOMAIN raw : \A j \in DOMAIN raw :
                 i < j /\ j <= End(i) =>
                     /\ End(j) <= End(i)
                     /\ j < Cut(i) => End(j) < Cut(i)
<1>1. /\ raw \in Seq(Multipart \cup Leaf) /\ raw # <<>> /\ EndIn(raw, 1) = Len(raw)
      /\ \A i \in DOMAIN raw :
            /\ CutIn(raw, i) <= EndIn(raw, i) + 1 /\ EndIn(raw, i) <= Len(raw)
            /\ \A j \in i + 1 .. EndIn(raw, i) :
                  /\ EndIn(raw, j) <= EndIn(raw, i)
                  /\ j < CutIn(raw, i) => EndIn(raw, j) < CutIn(raw, i)
    BY MailAssumption DEF WellFormed
<1>2. Len(raw) \in Nat \ {0} /\ DOMAIN raw = 1 .. Len(raw)
    BY <1>1
<1>3. ASSUME NEW i \in DOMAIN raw
      PROVE  /\ EndIn(raw, i) \in Nat /\ CutIn(raw, i) \in Nat
             /\ i < CutIn(raw, i) /\ i <= EndIn(raw, i)
             /\ ~raw[i].multipart => raw[i] \in Leaf /\ EndIn(raw, i) = i
  <2>1. i \in Nat /\ raw[i] \in Multipart \cup Leaf
    BY <1>1, <1>2
  <2>2. \A e \in Multipart : e.span \in Nat \ {0} /\ e.legible \in Nat \ {0} /\ e.multipart
    BY DEF Multipart
  <2>3. \A e \in Leaf : e.span = 1 /\ e.legible = 1
    BY DEF Leaf
  <2> QED
    BY <2>1, <2>2, <2>3 DEF EndIn, CutIn
<1>4. ASSUME NEW i \in DOMAIN raw, NEW j \in DOMAIN raw, i < j, j <= EndIn(raw, i)
      PROVE  j \in i + 1 .. EndIn(raw, i)
  <2>1. i \in Nat /\ j \in Nat /\ EndIn(raw, i) \in Nat
    BY <1>2, <1>3
  <2> QED
    BY <1>4, <2>1
<1> QED
  BY <1>1, <1>2, <1>3, <1>4 DEF End, Cut

\* Where bodies are, and what of the message has been collected before entity n: the
\* attachments there are, in order, and of each kind the first text.
Places == 0 .. Len(raw)

First(kind, n, body) ==
    \/ Size(body) = 0 /\ \A k \in Bodies(kind) : ~(k < n)
    \/ body \in Bodies(kind) /\ body < n /\ \A k \in Bodies(kind) : body <= k

Collected(n, m) ==
    /\ {m.attachments[i] : i \in DOMAIN m.attachments} = {k \in Attachments : k < n}
    /\ \A i, j \in DOMAIN m.attachments : i < j => m.attachments[i] < m.attachments[j]
    /\ First("text/plain", n, m.text)
    /\ First("text/html", n, m.html)

-----------------------------------------------------------------------------
(***************************************************************************)
(* The inductive invariant.                                                *)
(***************************************************************************)
Parsed == [text : Places, html : Places, attachments : Seq(DOMAIN raw)]

TypeOK ==
    /\ raw \in Messages /\ readable \in BOOLEAN
    /\ readers \in Seq(DOMAIN raw) /\ at \in 1 .. Len(raw) + 1
    /\ parsed \in Parsed
    /\ include \in [raw : BOOLEAN, attachments : BOOLEAN, limit : Nat]
    /\ pc \in {"received", "walking", "parsed"}

\* The calls of walk are the multiparts around the next entity, each within the legible
\* parts of the one before it.
Reading(rs, n) ==
    /\ \A a \in DOMAIN rs : rs[a] < n /\ n <= Cut(rs[a])
    /\ \A a, b \in DOMAIN rs : a < b => End(rs[b]) < Cut(rs[a])
    /\ \A i \in DOMAIN raw : i < n /\ n <= End(i) => \E a \in DOMAIN rs : rs[a] = i

ReadersInv == Reading(readers, at)

PcInv ==
    /\ pc = "received" => ~readable /\ at = 1 /\ readers = <<>> /\ parsed = Empty
    /\ pc = "walking" => readable /\ readers # <<>>
    /\ pc = "parsed" /\ readable => at = Len(raw) + 1
    /\ payload # NoPayload => pc = "parsed" /\ payload = BuildPayload(parsed, include)

MailInv == ReadersInv /\ PcInv /\ (readable => Collected(at, parsed))

\* The message does not change.
LEMMA StableLemma ==
    ASSUME raw' = raw
    PROVE  /\ \A n, m : Collected(n, m)' = Collected(n, m)
           /\ \A rs, n : Reading(rs, n)' = Reading(rs, n)
BY DEF Reading, Collected, First, Attachments, Bodies, Leaves, Legible, Size, End, Cut, EndIn, CutIn

\* It holds of a message that has just been received, ...
LEMMA InitMailInv == Init => TypeOK /\ MailInv
<1> SUFFICES ASSUME Init PROVE TypeOK /\ MailInv
    OBVIOUS
<1>1. raw \in Messages /\ Len(raw) \in Nat \ {0} /\ DOMAIN raw = 1 .. Len(raw)
    BY ShapeLemma DEF Init
<1>2. <<>> \in Seq(DOMAIN raw) /\ 0 \in Places /\ 1 \in 1 .. Len(raw) + 1
    BY <1>1 DEF Places
<1>3. parsed \in Parsed
    BY <1>2 DEF Init, Empty, NoBody, Parsed
<1>4. TypeOK
    BY <1>1, <1>2, <1>3 DEF Init, TypeOK
<1>5. ReadersInv
    BY <1>1 DEF Init, ReadersInv, Reading
<1>6. PcInv
    BY DEF Init, PcInv
<1> QED
    BY <1>4, <1>5, <1>6 DEF Init, MailInv
-----------------------------------------------------------------------------
(***************************************************************************)
(* What is collected.                                                      *)
(***************************************************************************)
\* The entity that comes next is legible: every multipart around it is being read, and
\* is legible that far because the innermost one is.
LEMMA LegibleLemma ==
    ASSUME TypeOK, ReadersInv, at \in DOMAIN raw,
           readers # <<>> => at < Cut(Last(readers))
    PROVE  Legible(at) /\ \A a \in DOMAIN readers : at < Cut(readers[a])
<1> DEFINE last == Len(readers)
<1>0. raw \in Messages /\ readers \in Seq(DOMAIN raw) /\ at \in Nat
    BY ShapeLemma DEF TypeOK
<1>1. DOMAIN readers = 1 .. last /\ last \in Nat
    BY <1>0
<1>2. ASSUME NEW a \in DOMAIN readers PROVE at < Cut(readers[a])
  <2>1. readers # <<>> /\ last \in DOMAIN readers
    BY <1>1, <1>2
  <2>2. at < Cut(readers[last])
    BY <2>1 DEF Last
  <2>3. CASE a = last
    BY <2>2, <2>3
  <2>4. CASE a # last
    <3>1. a < last
      BY <1>1, <2>4
    <3>2. End(readers[last]) < Cut(readers[a])
      BY <2>1, <3>1 DEF ReadersInv, Reading
    <3>3. readers[a] \in DOMAIN raw /\ readers[last] \in DOMAIN raw
      BY <1>0, <2>1
    <3>4. /\ Cut(readers[last]) \in Nat /\ End(readers[last]) \in Nat /\ Cut(readers[a]) \in Nat
          /\ Cut(readers[last]) <= End(readers[last]) + 1
      BY <1>0, <3>3, ShapeLemma
    <3> QED
      BY <1>0, <2>2, <3>2, <3>4
  <2> QED
    BY <2>3, <2>4
<1>3. ASSUME NEW i \in 1 .. at - 1, at <= End(i) PROVE at < Cut(i)
  <2>1. i \in DOMAIN raw /\ i < at
    BY <1>0, ShapeLemma DEF TypeOK
  <2>2. PICK a \in DOMAIN readers : readers[a] = i
    BY <1>3, <2>1 DEF ReadersInv, Reading
  <2> QED
    BY <1>2, <2>2
<1> QED
  BY <1>2, <1>3 DEF Legible

\* Entities that are not legible, or no leaves, change nothing of what is collected.
LEMMA SkipLemma ==
    ASSUME raw \in Messages, NEW n \in Nat, NEW o \in Nat, n <= o, NEW m, Collected(n, m),
           \A k \in Leaves : n <= k /\ k < o => ~Legible(k)
    PROVE  Collected(o, m)
<1>1. \A k \in Leaves : k \in Nat
    BY ShapeLemma DEF Leaves
<1>2. \A k \in Leaves : Legible(k) => (k < o <=> k < n)
    BY <1>1
<1>3. {k \in Attachments : k < o} = {k \in Attachments : k < n}
    BY <1>2 DEF Attachments
<1>4. ASSUME NEW kind, NEW body, First(kind, n, body) PROVE First(kind, o, body)
  <2>1. \A k \in Bodies(kind) : k < o <=> k < n
    BY <1>2 DEF Bodies
  <2> QED
    BY <1>4, <2>1 DEF First
<1> QED
  BY <1>3, <1>4 DEF Collected

\* The next leaf as a text of its kind: it is the one shown if none was before.
LEMMA FirstBodyLemma ==
    ASSUME raw \in Messages, NEW n \in DOMAIN raw, NEW kind \in Kinds, NEW body \in Places,
           First(kind, n, body)
    PROVE  /\ FirstBody(body, n) \in Places
           /\ n \in Leaves /\ Legible(n) /\ ~raw[n].attached /\ raw[n].kind = kind
                => First(kind, n + 1, FirstBody(body, n))
           /\ n \notin Bodies(kind) => First(kind, n + 1, body)
<1>1. n \in Nat \ {0} /\ n \in Places /\ \A k \in Leaves : k \in Nat \ {0}
    BY ShapeLemma DEF Places, Leaves
<1>2. \A k \in Bodies(kind) : k \in Nat \ {0} /\ (k < n + 1 <=> k < n \/ k = n)
    BY <1>1 DEF Bodies
<1>3. FirstBody(body, n) \in Places
    BY <1>1 DEF FirstBody
<1>4. ASSUME n \notin Bodies(kind) PROVE First(kind, n + 1, body)
  <2>1. CASE Size(body) = 0 /\ \A k \in Bodies(kind) : ~(k < n)
    BY <1>2, <1>4, <2>1 DEF First
  <2>2. CASE body \in Bodies(kind) /\ body < n /\ \A k \in Bodies(kind) : body <= k
    BY <1>2, <2>2 DEF First
  <2> QED
    BY <2>1, <2>2 DEF First
<1>5. ASSUME n \in Leaves, Legible(n), ~raw[n].attached, raw[n].kind = kind
      PROVE  First(kind, n + 1, FirstBody(body, n))
  <2>1. Size(n) = raw[n].size /\ raw[n].size \in Nat
    <3>1. raw[n] \in Leaf
      BY <1>5, ShapeLemma DEF Leaves
    <3> QED
      BY <1>1, <3>1 DEF Size, NoBody, Leaf
  <2>2. n \in Bodies(kind) <=> Size(n) > 0
    BY <1>5, <2>1 DEF Bodies
  <2>3. CASE body \in Bodies(kind) /\ body < n /\ \A k \in Bodies(kind) : body <= k
    <3>1. Size(body) > 0 /\ raw[body].size \in Int
      <4>1. body \in Leaves /\ raw[body].size > 0
        BY <2>3 DEF Bodies
      <4>2. raw[body] \in Leaf
        BY <4>1, ShapeLemma DEF Leaves
      <4>3. body # NoBody /\ raw[body].size \in Nat
        BY <1>1, <4>1, <4>2 DEF NoBody, Leaf
      <4> QED
        BY <4>1, <4>3 DEF Size
    <3>2. FirstBody(body, n) = body
      BY <3>1 DEF FirstBody
    <3> QED
      BY <1>2, <2>3, <3>2 DEF First
  <2>4. CASE Size(body) = 0 /\ \A k \in Bodies(kind) : ~(k < n)
    <3>1. FirstBody(body, n) = n
      BY <2>4 DEF FirstBody
    <3>2. \A k \in Bodies(kind) : n <= k
      BY <1>1, <1>2, <2>4
    <3>3. CASE n \in Bodies(kind)
      BY <1>2, <3>1, <3>2, <3>3 DEF First
    <3>4. CASE n \notin Bodies(kind)
      <4>1. Size(n) = 0
        BY <2>1, <2>2, <3>4
      <4>2. \A k \in Bodies(kind) : ~(k < n + 1)
        BY <1>2, <2>4, <3>4
      <4> QED
        BY <3>1, <4>1, <4>2 DEF First
    <3> QED
      BY <3>3, <3>4
  <2> QED
    BY <1>5, <2>3, <2>4 DEF First
<1> QED
  BY <1>3, <1>4, <1>5
\* The next leaf as an attachment.
LEMMA AttachLemma ==
    ASSUME raw \in Messages, NEW n \in DOMAIN raw, NEW m \in Parsed, Collected(n, m),
           n \in Attachments
    PROVE  /\ Attach(m, n) \in Parsed
           /\ Attach(m, n).text = m.text /\ Attach(m, n).html = m.html
           /\ LET list == Attach(m, n).attachments
              IN /\ {list[i] : i \in DOMAIN list} = {k \in Attachments : k < n + 1}
                 /\ \A i, j \in DOMAIN list : i < j => list[i] < list[j]
<1> DEFINE old == m.attachments
           list == Append(old, n)
<1>1. /\ old \in Seq(DOMAIN raw) /\ m.text \in Places /\ m.html \in Places
      /\ Attach(m, n) = [m EXCEPT !.attachments = list]
    BY DEF Parsed, Attach
<1>2. /\ list \in Seq(DOMAIN raw) /\ Len(old) \in Nat
      /\ DOMAIN old = 1 .. Len(old) /\ DOMAIN list = 1 .. Len(old) + 1
      /\ list[Len(old) + 1] = n /\ \A i \in DOMAIN old : list[i] = old[i]
    BY <1>1
<1>3. n \in Nat /\ \A k \in Attachments : k \in Nat
    BY ShapeLemma DEF Attachments, Leaves
<1>4. {old[i] : i \in DOMAIN old} = {k \in Attachments : k < n}
    BY DEF Collected
<1>5. \A i, j \in DOMAIN old : i < j => old[i] < old[j]
    BY DEF Collected
<1> HIDE DEF old, list
<1>6. Attach(m, n) \in Parsed /\ Attach(m, n).attachments = list
      /\ Attach(m, n).text = m.text /\ Attach(m, n).html = m.html
    BY <1>1, <1>2 DEF Parsed
<1>7. {list[i] : i \in DOMAIN list} = {k \in Attachments : k < n + 1}
  <2>1. {list[i] : i \in DOMAIN list} = {old[i] : i \in DOMAIN old} \cup {n}
    <3>1. \A i : i \in DOMAIN list <=> i \in DOMAIN old \/ i = Len(old) + 1
      BY <1>2
    <3> QED
      BY <1>2, <3>1
  <2>2. \A k \in Attachments : k < n + 1 <=> k < n \/ k = n
    BY <1>3
  <2> QED
    BY <1>4, <2>1, <2>2
<1>8. ASSUME NEW i \in DOMAIN list, NEW j \in DOMAIN list, i < j PROVE list[i] < list[j]
  <2>1. i \in DOMAIN old /\ list[i] = old[i]
    BY <1>2, <1>8
  <2>2. CASE j \in DOMAIN old
    BY <1>2, <1>5, <1>8, <2>1, <2>2
  <2>3. CASE j = Len(old) + 1
    BY <1>2, <1>4, <2>1, <2>3
  <2> QED
    BY <1>2, <2>2, <2>3
<1> QED
  BY <1>6, <1>7, <1>8

\* The next leaf, whatever it is: the switch of walk covers every kind.
LEMMA CollectLemma ==
    ASSUME raw \in Messages, NEW n \in DOMAIN raw, NEW m \in Parsed, Collected(n, m),
           ~raw[n].multipart, Legible(n)
    PROVE  Collect(m, n) \in Parsed /\ Collected(n + 1, Collect(m, n))
<1> DEFINE e == raw[n]
<1>1. /\ n \in Leaves /\ e \in Leaf
      /\ e.kind \in Kinds /\ e.attached \in BOOLEAN /\ e.named \in BOOLEAN
    BY ShapeLemma DEF Leaves, Leaf
<1>2. /\ m.text \in Places /\ m.html \in Places
      /\ First("text/plain", n, m.text) /\ First("text/html", n, m.html)
    BY DEF Parsed, Collected
<1>3. \A kind : n \in Bodies(kind) => e.kind = kind /\ ~e.attached
    BY DEF Bodies
<1>4. n \in Attachments <=> e.attached \/ (e.named /\ e.kind \in {"other", "text/other"})
    BY <1>1 DEF Attachments
<1>5. n \in Nat /\ \A k \in Attachments : k \in Nat
    BY ShapeLemma DEF Attachments, Leaves
<1>6. n \notin Attachments =>
          {k \in Attachments : k < n + 1} = {k \in Attachments : k < n}
    BY <1>5
<1>7. \A kind \in Kinds : \A body \in Places :
          n \notin Bodies(kind) /\ First(kind, n, body) => First(kind, n + 1, body)
    BY FirstBodyLemma
<1> HIDE DEF e
<1>8. CASE /\ Collect(m, n) = Attach(m, n) /\ n \in Attachments
           /\ e.attached \/ e.kind \in {"other", "text/other"}
  <2>1. First("text/plain", n + 1, m.text) /\ First("text/html", n + 1, m.html)
    BY <1>2, <1>3, <1>7, <1>8 DEF Kinds
  <2> QED
    BY <1>8, <2>1, AttachLemma DEF Collected
<1>9. CASE IsAttachment(e)
  <2>1. Collect(m, n) = Attach(m, n)
    BY <1>9 DEF Collect, e
  <2> QED
    BY <1>4, <1>8, <1>9, <2>1 DEF IsAttachment
<1>10. CASE ~IsAttachment(e) /\ e.kind = "text/html"
  <2>1. Collect(m, n) = [m EXCEPT !.html = FirstBody(@, n)]
    BY <1>10 DEF Collect, e
  <2>2. First("text/html", n + 1, FirstBody(m.html, n)) /\ FirstBody(m.html, n) \in Places
    BY <1>1, <1>2, <1>10, FirstBodyLemma DEF Kinds, IsAttachment, e
  <2>3. First("text/plain", n + 1, m.text)
    BY <1>2, <1>3, <1>7, <1>10 DEF Kinds
  <2>4. n \notin Attachments
    BY <1>4, <1>10 DEF IsAttachment
  <2>5. /\ Collect(m, n) \in Parsed /\ Collect(m, n).attachments = m.attachments
        /\ Collect(m, n).text = m.text /\ Collect(m, n).html = FirstBody(m.html, n)
    BY <2>1, <2>2 DEF Parsed
  <2> QED
    BY <1>6, <2>2, <2>3, <2>4, <2>5 DEF Collected
<1>11. CASE ~IsAttachment(e) /\ e.kind = "text/plain"
  <2>1. Collect(m, n) = [m EXCEPT !.text = FirstBody(@, n)]
    BY <1>11 DEF Collect, e
  <2>2. First("text/plain", n + 1, FirstBody(m.text, n)) /\ FirstBody(m.text, n) \in Places
    BY <1>1, <1>2, <1>11, FirstBodyLemma DEF Kinds, IsAttachment, e
  <2>3. First("text/html", n + 1, m.html)
    BY <1>2, <1>3, <1>7, <1>11 DEF Kinds
  <2>4. n \notin Attachments
    BY <1>4, <1>11 DEF IsAttachment
  <2>5. /\ Collect(m, n) \in Parsed /\ Collect(m, n).attachments = m.attachments
        /\ Collect(m, n).html = m.html /\ Collect(m, n).text = FirstBody(m.text, n)
    BY <2>1, <2>2 DEF Parsed
  <2> QED
    BY <1>6, <2>2, <2>3, <2>4, <2>5 DEF Collected
<1>12. CASE ~IsAttachment(e) /\ e.kind \notin {"text/html", "text/plain"}
  <2>1. Collect(m, n) = IF e.named THEN Attach(m, n) ELSE m
    BY <1>12 DEF Collect, e
  <2>2. e.kind \in {"other", "text/other"}
    BY <1>1, <1>12 DEF Kinds
  <2>3. CASE e.named
    BY <1>4, <1>8, <2>1, <2>2, <2>3
  <2>4. CASE ~e.named
    <3>1. Collect(m, n) = m /\ n \notin Attachments
      BY <1>4, <1>12, <2>1, <2>4 DEF IsAttachment
    <3>2. First("text/plain", n + 1, m.text) /\ First("text/html", n + 1, m.html)
      BY <1>2, <1>3, <1>7, <1>12 DEF Kinds
    <3> QED
      BY <1>6, <3>1, <3>2 DEF Collected
  <2> QED
    BY <2>3, <2>4
<1> QED
  BY <1>9, <1>10, <1>11, <1>12
-----------------------------------------------------------------------------
(***************************************************************************)
(* What walk is reading.                                                   *)
(***************************************************************************)
\* A part that is a multipart is read next, ...
LEMMA OpenLemma ==
    ASSUME raw \in Messages, NEW n \in DOMAIN raw, NEW rs \in Seq(DOMAIN raw), Reading(rs, n),
           \A a \in DOMAIN rs : n < Cut(rs[a])
    PROVE  Append(rs, n) \in Seq(DOMAIN raw) /\ Reading(Append(rs, n), n + 1)
<1> DEFINE new == Append(rs, n)
<1>1. /\ new \in Seq(DOMAIN raw) /\ Len(rs) \in Nat
      /\ DOMAIN rs = 1 .. Len(rs) /\ DOMAIN new = 1 .. Len(rs) + 1
      /\ new[Len(rs) + 1] = n /\ \A a \in DOMAIN rs : new[a] = rs[a]
    OBVIOUS
<1>2. /\ n \in Nat /\ \A i \in DOMAIN raw : i \in Nat /\ End(i) \in Nat /\ Cut(i) \in Nat
      /\ n < Cut(n) /\ End(n) \in Nat /\ Cut(n) \in Nat
      /\ \A a \in DOMAIN rs : rs[a] \in DOMAIN raw
    BY ShapeLemma
<1> HIDE DEF new
<1>3. ASSUME NEW a \in DOMAIN new PROVE new[a] < n + 1 /\ n + 1 <= Cut(new[a])
  <2>1. CASE a \in DOMAIN rs
    <3>1. rs[a] < n /\ n < Cut(rs[a]) /\ rs[a] \in Nat /\ Cut(rs[a]) \in Nat
      BY <1>2, <2>1 DEF Reading
    <3>2. rs[a] < n + 1 /\ n + 1 <= Cut(rs[a])
      BY <1>2, <3>1
    <3>3. new[a] = rs[a]
      BY <1>1, <2>1
    <3> QED
      BY <3>2, <3>3
  <2>2. CASE a = Len(rs) + 1
    <3>1. new[a] = n
      BY <1>1, <2>2
    <3>2. n < n + 1 /\ n + 1 <= Cut(n)
      BY <1>2
    <3> QED
      BY <3>1, <3>2
  <2> QED
    BY <1>1, <2>1, <2>2
<1>4. ASSUME NEW a \in DOMAIN new, NEW b \in DOMAIN new, a < b
      PROVE  End(new[b]) < Cut(new[a])
  <2>1. a \in DOMAIN rs /\ new[a] = rs[a]
    BY <1>1, <1>4
  <2>2. CASE b \in DOMAIN rs
    BY <1>1, <1>4, <2>1, <2>2 DEF Reading
  <2>3. CASE b = Len(rs) + 1
    <3>1. rs[a] < n /\ n < Cut(rs[a]) /\ rs[a] \in DOMAIN raw
      BY <1>2, <2>1 DEF Reading
    <3>2. Cut(rs[a]) <= End(rs[a]) + 1
      BY <3>1, ShapeLemma
    <3>3. n <= End(rs[a])
      BY <1>2, <3>1, <3>2
    <3>4. End(n) < Cut(rs[a])
      BY <3>1, <3>3, ShapeLemma
    <3> QED
      BY <1>1, <2>1, <2>3, <3>4
  <2> QED
    BY <1>1, <2>2, <2>3
<1>5. ASSUME NEW i \in DOMAIN raw, i < n + 1, n + 1 <= End(i)
      PROVE  \E a \in DOMAIN new : new[a] = i
  <2>1. CASE i = n
    BY <1>1, <2>1
  <2>2. CASE i # n
    <3>1. i < n /\ n <= End(i)
      BY <1>2, <1>5, <2>2
    <3>2. PICK a \in DOMAIN rs : rs[a] = i
      BY <3>1 DEF Reading
    <3> QED
      BY <1>1, <3>2
  <2> QED
    BY <2>1, <2>2
<1> QED
  BY <1>1, <1>3, <1>4, <1>5 DEF Reading, new

\* ... after a leaf the reader goes on, ...
LEMMA LeafLemma ==
    ASSUME raw \in Messages, NEW n \in DOMAIN raw, NEW rs \in Seq(DOMAIN raw), Reading(rs, n),
           \A a \in DOMAIN rs : n < Cut(rs[a]), ~raw[n].multipart
    PROVE  Reading(rs, n + 1)
<1>1. /\ n \in Nat /\ \A i \in DOMAIN raw : i \in Nat /\ End(i) \in Nat /\ Cut(i) \in Nat
      /\ End(n) = n /\ \A a \in DOMAIN rs : rs[a] \in DOMAIN raw
    BY ShapeLemma
<1>2. ASSUME NEW a \in DOMAIN rs PROVE rs[a] < n + 1 /\ n + 1 <= Cut(rs[a])
  <2>1. rs[a] < n /\ n < Cut(rs[a]) /\ rs[a] \in Nat /\ Cut(rs[a]) \in Nat
    BY <1>1 DEF Reading
  <2> QED
    BY <1>1, <2>1
<1>3. ASSUME NEW i \in DOMAIN raw, i < n + 1, n + 1 <= End(i)
      PROVE  \E a \in DOMAIN rs : rs[a] = i
  <2>1. i \in Nat /\ End(i) \in Nat /\ n \in Nat /\ End(n) = n
    BY <1>1
  <2>2. i # n
    BY <1>3, <2>1
  <2>3. i < n /\ n <= End(i)
    BY <1>3, <2>1, <2>2
  <2> QED
    BY <2>3 DEF Reading
<1> QED
  BY <1>2, <1>3 DEF Reading

\* ... and behind the legible parts of a multipart the one around it does, with nothing
\* legible left out.
LEMMA CloseLemma ==
    ASSUME raw \in Messages, NEW n \in 1 .. Len(raw) + 1, NEW rs \in Seq(DOMAIN raw),
           Reading(rs, n), rs # <<>>, n = Cut(Last(rs))
    PROVE  /\ Front(rs) \in Seq(DOMAIN raw) /\ Last(rs) \in DOMAIN raw
           /\ Reading(Front(rs), End(Last(rs)) + 1)
           /\ n <= End(Last(rs)) + 1 /\ End(Last(rs)) + 1 \in 2 .. Len(raw) + 1
           /\ \A k \in DOMAIN raw : n <= k /\ k < End(Last(rs)) + 1 => ~Legible(k)
<1> DEFINE r == Last(rs)
           old == Front(rs)
<1>1. /\ Len(rs) \in Nat \ {0} /\ DOMAIN rs = 1 .. Len(rs) /\ r = rs[Len(rs)]
      /\ r \in DOMAIN raw /\ \A a \in DOMAIN rs : rs[a] \in DOMAIN raw
    BY DEF Last
<1>2. /\ old \in Seq(DOMAIN raw) /\ DOMAIN old = 1 .. Len(rs) - 1
      /\ \A a \in DOMAIN old : old[a] = rs[a] /\ a \in DOMAIN rs /\ a < Len(rs)
    BY <1>1 DEF Front
<1>3. /\ n \in Nat /\ Len(raw) \in Nat
      /\ \A i \in DOMAIN raw : i \in Nat \ {0} /\ End(i) \in Nat /\ Cut(i) \in Nat
    BY ShapeLemma
<1>4. r < n /\ n <= End(r) + 1 /\ End(r) <= Len(raw) /\ r <= End(r)
    BY <1>1, ShapeLemma
<1> HIDE DEF r, old
<1>5. ASSUME NEW a \in DOMAIN old PROVE old[a] < End(r) + 1 /\ End(r) + 1 <= Cut(old[a])
  <2>1. a \in DOMAIN rs /\ Len(rs) \in DOMAIN rs /\ a < Len(rs) /\ old[a] = rs[a]
    BY <1>1, <1>2
  <2>2. rs[a] < n /\ End(r) < Cut(rs[a])
    BY <1>1, <2>1 DEF Reading
  <2>3. rs[a] \in Nat /\ Cut(rs[a]) \in Nat /\ End(r) \in Nat
    BY <1>1, <1>3, <2>1
  <2> QED
    BY <1>3, <1>4, <2>1, <2>2, <2>3
<1>6. ASSUME NEW i \in DOMAIN raw, i < End(r) + 1, End(r) + 1 <= End(i)
      PROVE  \E a \in DOMAIN old : old[a] = i
  <2>1. i \in Nat /\ End(i) \in Nat /\ End(r) \in Nat /\ r \in Nat
    BY <1>1, <1>3
  <2>2. ~(r < i /\ i <= End(r))
    <3>1. ~(End(i) <= End(r))
      BY <1>6, <2>1
    <3> QED
      BY <1>1, <3>1, ShapeLemma
  <2>3. i < n /\ n <= End(i) /\ i # r
    BY <1>3, <1>4, <1>6, <2>1, <2>2
  <2>4. PICK a \in DOMAIN rs : rs[a] = i
    BY <2>3 DEF Reading
  <2>5. a \in DOMAIN old
    BY <1>1, <1>2, <2>3, <2>4
  <2> QED
    BY <1>2, <2>4, <2>5
<1>7. ASSUME NEW a \in DOMAIN old, NEW b \in DOMAIN old, a < b
      PROVE  End(old[b]) < Cut(old[a])
    BY <1>2, <1>7 DEF Reading
<1>8. ASSUME NEW k \in DOMAIN raw, n <= k, k < End(r) + 1 PROVE ~Legible(k)
  <2>1. k \in Nat /\ r \in Nat \ {0} /\ End(r) \in Nat /\ n = Cut(r)
    BY <1>1, <1>3 DEF r
  <2>2. r \in 1 .. k - 1 /\ k <= End(r) /\ ~(k < Cut(r))
    BY <1>3, <1>4, <1>8, <2>1
  <2> QED
    BY <2>2 DEF Legible
<1>9. n <= End(r) + 1 /\ End(r) + 1 \in 2 .. Len(raw) + 1
  <2>1. End(r) \in Nat /\ r \in Nat \ {0}
    BY <1>1, <1>3
  <2> QED
    BY <1>3, <1>4, <2>1
<1>10. Reading(old, End(r) + 1)
    BY <1>5, <1>6, <1>7 DEF Reading
<1> QED
  BY <1>1, <1>2, <1>8, <1>9, <1>10 DEF r, old
-----------------------------------------------------------------------------
(***************************************************************************)
(* The steps.                                                              *)
(***************************************************************************)
\* A call of walk on the entity that comes next.
LEMMA WalkLemma ==
    ASSUME TypeOK, MailInv, at \in DOMAIN raw, readers # <<>> => at < Cut(Last(readers)),
           Collected(at, parsed), Walk(at)
    PROVE  /\ readers' \in Seq(DOMAIN raw) /\ at' \in 2 .. Len(raw) + 1 /\ parsed' \in Parsed
           /\ Reading(readers', at') /\ Collected(at', parsed')
<1>1. /\ raw \in Messages /\ readers \in Seq(DOMAIN raw) /\ parsed \in Parsed
      /\ Reading(readers, at)
    BY DEF TypeOK, MailInv, ReadersInv
<1>2. /\ at \in Nat \ {0} /\ at <= Len(raw) /\ Len(raw) \in Nat
      /\ \A k \in DOMAIN raw : k \in Nat
    BY <1>1, ShapeLemma
<1>3. at' = at + 1 /\ at' \in 2 .. Len(raw) + 1
    BY <1>2 DEF Walk
<1>4. Legible(at) /\ \A a \in DOMAIN readers : at < Cut(readers[a])
    BY LegibleLemma DEF MailInv
<1>5. CASE raw[at].multipart /\ readers' = Append(readers, at) /\ parsed' = parsed
  <2>1. readers' \in Seq(DOMAIN raw) /\ Reading(readers', at + 1)
    BY <1>1, <1>4, <1>5, OpenLemma
  <2>2. \A k \in Leaves : at <= k /\ k < at + 1 => ~Legible(k)
    <3>1. ASSUME NEW k \in Leaves, at <= k, k < at + 1 PROVE FALSE
      <4>1. k \in DOMAIN raw /\ k # at
        BY <1>5 DEF Leaves
      <4> QED
        BY <1>2, <3>1, <4>1
    <3> QED
      BY <3>1
  <2>3. Collected(at + 1, parsed)
    <3>1. at \in Nat /\ at + 1 \in Nat /\ at <= at + 1
      BY <1>2
    <3> QED
      BY <1>1, <2>2, <3>1, SkipLemma
  <2> QED
    BY <1>1, <1>3, <1>5, <2>1, <2>3
<1>6. CASE ~raw[at].multipart /\ parsed' = Collect(parsed, at) /\ readers' = readers
  <2>1. Reading(readers, at + 1)
    BY <1>1, <1>4, <1>6, LeafLemma
  <2>2. Collect(parsed, at) \in Parsed /\ Collected(at + 1, Collect(parsed, at))
    BY <1>1, <1>4, <1>6, CollectLemma
  <2> QED
    BY <1>1, <1>3, <1>6, <2>1, <2>2
<1> QED
  BY <1>5, <1>6 DEF Walk

\* The end of a multipart, or of what can be read of it.
LEMMA EndLemma ==
    ASSUME TypeOK, MailInv, EndOfParts
    PROVE  /\ readers' \in Seq(DOMAIN raw) /\ at' \in 2 .. Len(raw) + 1
           /\ Reading(readers', at') /\ Collected(at', parsed)
<1>1. /\ raw \in Messages /\ readers \in Seq(DOMAIN raw) /\ Reading(readers, at)
      /\ at \in 1 .. Len(raw) + 1 /\ Len(raw) \in Nat
      /\ readers # <<>> /\ Collected(at, parsed)
    BY ShapeLemma DEF TypeOK, MailInv, ReadersInv, PcInv, EndOfParts
<1>2. at = Cut(Last(readers)) /\ at' = End(Last(readers)) + 1 /\ readers' = Front(readers)
    BY DEF EndOfParts
<1>3. /\ readers' \in Seq(DOMAIN raw) /\ Reading(readers', at')
      /\ at <= at' /\ at' \in 2 .. Len(raw) + 1
      /\ \A k \in DOMAIN raw : at <= k /\ k < at' => ~Legible(k)
    BY <1>1, <1>2, CloseLemma
<1>4. \A k \in Leaves : at <= k /\ k < at' => ~Legible(k)
    BY <1>3 DEF Leaves
<1>5. at \in Nat /\ at' \in Nat
    BY <1>1, <1>3
<1> QED
    BY <1>1, <1>3, <1>4, <1>5, SkipLemma

\* When no call is left, the whole message has been read.
LEMMA ReturnLemma ==
    ASSUME raw \in Messages, NEW n \in 2 .. Len(raw) + 1, Reading(<<>>, n)
    PROVE  n = Len(raw) + 1
<1>1. /\ Len(raw) \in Nat \ {0} /\ 1 \in DOMAIN raw /\ End(1) = Len(raw)
    BY ShapeLemma
<1>2. ~(n <= Len(raw))
    BY <1>1 DEF Reading
<1> QED
    BY <1>1, <1>2
\* A step of walk that leaves what it read and collected in order keeps the invariant.
LEMMA ReturnsLemma ==
    ASSUME TypeOK, readable', payload = NoPayload, UNCHANGED <<raw, include, payload>>, Returns,
           readers' \in Seq(DOMAIN raw), at' \in 2 .. Len(raw) + 1, parsed' \in Parsed,
           readable' \in BOOLEAN, Reading(readers', at'), Collected(at', parsed')
    PROVE  TypeOK' /\ MailInv'
<1>1. raw \in Messages /\ Len(raw) \in Nat
    BY ShapeLemma DEF TypeOK
<1>2. pc' \in {"walking", "parsed"} /\ (pc' = "parsed" <=> readers' = <<>>)
    BY DEF Returns
<1>3. at' \in 1 .. Len(raw) + 1
    BY <1>1
<1>4. parsed' \in Parsed'
    BY DEF Parsed, Places
<1>5. TypeOK'
    BY <1>1, <1>2, <1>3, <1>4 DEF TypeOK
<1>6. Reading(readers, at)' /\ Collected(at, parsed)'
    BY StableLemma
<1>7. pc' = "parsed" => at' = Len(raw') + 1
    BY <1>1, <1>2, ReturnLemma
<1>8. PcInv'
    BY <1>2, <1>7 DEF PcInv
<1> QED
    BY <1>5, <1>6, <1>8 DEF MailInv, ReadersInv

\* ... and every step keeps it.
LEMMA NextMailInv == TypeOK /\ MailInv /\ [Next]_vars => TypeOK' /\ MailInv'
<1> SUFFICES ASSUME TypeOK, MailInv, [Next]_vars PROVE TypeOK' /\ MailInv'
    OBVIOUS
<1>1. /\ raw \in Messages /\ Len(raw) \in Nat \ {0} /\ DOMAIN raw = 1 .. Len(raw)
    BY ShapeLemma DEF TypeOK
<1>2. ASSUME NEW ok \in BOOLEAN, Parse(ok) PROVE TypeOK' /\ MailInv'
  <2>1. /\ readable' = ok /\ UNCHANGED <<raw, include, payload>>
        /\ ~readable /\ at = 1 /\ readers = <<>> /\ parsed = Empty /\ payload = NoPayload
    BY <1>2 DEF Parse, MailInv, PcInv
  <2>2. CASE ok
    <3>1. Walk(at) /\ Returns
      BY <1>2, <2>1, <2>2 DEF Parse
    <3>2. Collected(at, parsed)
      <4>1. \A k \in Leaves : k \in Nat \ {0}
        BY <1>1 DEF Leaves
      <4>2. /\ \A k \in Attachments : ~(k < 1)
            /\ \A kind : \A k \in Bodies(kind) : ~(k < 1)
        BY <4>1 DEF Attachments, Bodies
      <4> QED
        BY <2>1, <4>2 DEF Collected, First, Empty, NoBody, Size
    <3>3. at \in DOMAIN raw
      BY <1>1, <2>1
    <3>4. /\ readers' \in Seq(DOMAIN raw) /\ at' \in 2 .. Len(raw) + 1 /\ parsed' \in Parsed
          /\ Reading(readers', at') /\ Collected(at', parsed')
      BY <2>1, <3>1, <3>2, <3>3, WalkLemma
    <3> QED
      BY <2>1, <2>2, <3>1, <3>4, ReturnsLemma
  <2>3. CASE ~ok
    <3>1. UNCHANGED <<raw, readers, at, parsed, include, payload>> /\ pc' = "parsed"
      BY <1>2, <2>1, <2>3 DEF Parse
    <3>2. TypeOK'
      BY <2>1, <3>1 DEF TypeOK, Parsed, Places
    <3>3. Reading(readers, at)'
      BY <3>1, StableLemma DEF MailInv, ReadersInv
    <3> QED
      BY <2>1, <2>3, <3>1, <3>2, <3>3 DEF MailInv, ReadersInv, PcInv
  <2> QED
    BY <2>2, <2>3
<1>3. CASE NextPart
  <2>1. /\ readable /\ readable' = readable /\ UNCHANGED <<raw, include, payload>>
        /\ payload = NoPayload /\ readers # <<>> /\ Collected(at, parsed)
        /\ at < Cut(Last(readers)) /\ Walk(at) /\ Returns
    BY <1>3 DEF NextPart, MailInv, PcInv
  <2>2. at \in DOMAIN raw
    <3>1. /\ readers \in Seq(DOMAIN raw) /\ at \in Nat \ {0}
      BY <1>1 DEF TypeOK
    <3>2. Last(readers) \in DOMAIN raw
      BY <2>1, <3>1 DEF Last
    <3>3. /\ Cut(Last(readers)) \in Nat /\ End(Last(readers)) \in Nat
          /\ Cut(Last(readers)) <= End(Last(readers)) + 1 /\ End(Last(readers)) <= Len(raw)
      BY <1>1, <3>2, ShapeLemma
    <3> QED
      BY <1>1, <2>1, <3>1, <3>3
  <2>3. /\ readers' \in Seq(DOMAIN raw) /\ at' \in 2 .. Len(raw) + 1 /\ parsed' \in Parsed
        /\ Reading(readers', at') /\ Collected(at', parsed')
    BY <2>1, <2>2, WalkLemma
  <2>4. readable' \in BOOLEAN
    BY <2>1 DEF TypeOK
  <2> QED
    BY <2>1, <2>3, <2>4, ReturnsLemma
<1>4. CASE EndOfParts
  <2>1. /\ readable /\ readable' = readable /\ UNCHANGED <<raw, parsed, include, payload>>
        /\ payload = NoPayload /\ Returns /\ parsed \in Parsed /\ readable \in BOOLEAN
    BY <1>4 DEF EndOfParts, MailInv, PcInv, TypeOK
  <2>2. /\ readers' \in Seq(DOMAIN raw) /\ at' \in 2 .. Len(raw) + 1
        /\ Reading(readers', at') /\ Collected(at', parsed)
    BY <1>4, EndLemma
  <2> QED
    BY <2>1, <2>2, ReturnsLemma
<1>5. ASSUME NEW rules \in Rules, Build(rules) PROVE TypeOK' /\ MailInv'
  <2>1. /\ UNCHANGED <<raw, readable, readers, at, parsed, pc>> /\ pc = "parsed"
        /\ include' = rules /\ payload' = BuildPayload(parsed, rules)
    BY <1>5 DEF Build
  <2>2. rules \in [raw : BOOLEAN, attachments : BOOLEAN, limit : Nat]
    BY MailAssumption DEF Rules
  <2>3. TypeOK'
    BY <2>1, <2>2 DEF TypeOK, Parsed, Places
  <2>4. BuildPayload(parsed, include)' = BuildPayload(parsed, rules)
    BY <2>1 DEF BuildPayload, Listed, TooLarge, Size
  <2>5. PcInv'
    BY <2>1, <2>4 DEF MailInv, PcInv
  <2>6. Reading(readers, at)' /\ (readable' => Collected(at, parsed)')
    BY <2>1, StableLemma DEF MailInv, ReadersInv
  <2> QED
    BY <2>3, <2>5, <2>6 DEF MailInv, ReadersInv
<1>6. CASE UNCHANGED vars
  <2>1. UNCHANGED <<raw, readable, readers, at, parsed, include, payload, pc>>
    BY <1>6 DEF vars
  <2>2. TypeOK'
    BY <2>1 DEF TypeOK, Parsed, Places
  <2>3. BuildPayload(parsed, include)' = BuildPayload(parsed, include)
    BY <2>1 DEF BuildPayload, Listed, TooLarge, Size
  <2>4. PcInv'
    BY <2>1, <2>3 DEF MailInv, PcInv
  <2>5. Reading(readers, at)' /\ (readable' => Collected(at, parsed)')
    BY <2>1, StableLemma DEF MailInv, ReadersInv
  <2> QED
    BY <2>2, <2>4, <2>5 DEF MailInv, ReadersInv
<1> QED
  BY <1>2, <1>3, <1>4, <1>5, <1>6 DEF Next

\* Along every behaviour the readers, the cursor and what has been collected agree
\* (Parse, walk, BuildPayload).
THEOREM WalkStaysInOrder == Spec => [](TypeOK /\ MailInv)
  BY InitMailInv, NextMailInv, PTL DEF Spec
-----------------------------------------------------------------------------
(***************************************************************************)
(* What a payload has of a message that could be read.                     *)
(***************************************************************************)
\* An attachment as it is listed.
LEMMA ListedLemma ==
    ASSUME NEW k, NEW rules
    PROVE  /\ Listed(k, rules).of = k
           /\ rules.attachments /\ ~TooLarge(k, rules) => Listed(k, rules).body
           /\ rules.attachments /\ TooLarge(k, rules) => Listed(k, rules).truncated
<1>1. Listed(k, rules).of = k
    BY Zenon DEF Listed
<1>2. Listed(k, rules).body = (rules.attachments /\ ~TooLarge(k, rules))
    BY Zenon DEF Listed
<1>3. Listed(k, rules).truncated = (rules.attachments /\ TooLarge(k, rules))
    BY Zenon DEF Listed
<1> QED
    BY <1>1, <1>2, <1>3

\* Behind the last entity, collected is all there is.
LEMMA PayloadLemma ==
    ASSUME TypeOK, MailInv, payload # NoPayload, readable
    PROVE  /\ payload = BuildPayload(parsed, include)
           /\ parsed.attachments \in Seq(DOMAIN raw)
           /\ DOMAIN payload.attachments = DOMAIN parsed.attachments
           /\ \A i \in DOMAIN parsed.attachments :
                 payload.attachments[i] = Listed(parsed.attachments[i], include)
           /\ {parsed.attachments[i] : i \in DOMAIN parsed.attachments} = Attachments
           /\ \A i, j \in DOMAIN parsed.attachments :
                 i < j => parsed.attachments[i] < parsed.attachments[j]
           /\ \A k \in Leaves : k < Len(raw) + 1
           /\ First("text/plain", Len(raw) + 1, payload.text)
           /\ First("text/html", Len(raw) + 1, payload.html)
<1>1. /\ payload = BuildPayload(parsed, include)
      /\ Collected(Len(raw) + 1, parsed)
    BY DEF MailInv, PcInv
<1>2. \A k \in Leaves : k < Len(raw) + 1
    BY ShapeLemma DEF TypeOK, Leaves
<1>3. {k \in Attachments : k < Len(raw) + 1} = Attachments
    BY <1>2 DEF Attachments
<1>4. parsed.attachments \in Seq(DOMAIN raw)
    BY DEF TypeOK, Parsed
<1>5. /\ payload.text = parsed.text /\ payload.html = parsed.html
      /\ payload.attachments =
            [i \in DOMAIN parsed.attachments |-> Listed(parsed.attachments[i], include)]
    BY <1>1 DEF BuildPayload
<1> QED
    BY <1>1, <1>2, <1>3, <1>4, <1>5 DEF Collected

\* The attachments of the payload are those of the message, in their order, at any depth
\* and wherever the message is broken (walk, BuildPayload).
THEOREM AttachmentsKeepTheirOrder == Spec => []AttachmentsInOrder
<1>1. TypeOK /\ MailInv => AttachmentsInOrder
  <2> SUFFICES ASSUME TypeOK, MailInv, payload # NoPayload, readable
               PROVE  /\ {payload.attachments[i].of : i \in DOMAIN payload.attachments}
                             = Attachments
                      /\ \A i, j \in DOMAIN payload.attachments :
                            i < j => payload.attachments[i].of < payload.attachments[j].of
    BY DEF AttachmentsInOrder
  <2>1. DOMAIN payload.attachments = DOMAIN parsed.attachments
    BY PayloadLemma
  <2>2. \A i \in DOMAIN parsed.attachments :
            payload.attachments[i].of = parsed.attachments[i]
    BY PayloadLemma, ListedLemma
  <2>3. {parsed.attachments[i] : i \in DOMAIN parsed.attachments} = Attachments
    BY PayloadLemma
  <2>4. \A i, j \in DOMAIN parsed.attachments :
            i < j => parsed.attachments[i] < parsed.attachments[j]
    BY PayloadLemma
  <2>5. {payload.attachments[i].of : i \in DOMAIN payload.attachments}
            = {parsed.attachments[i] : i \in DOMAIN parsed.attachments}
    BY <2>1, <2>2
  <2> QED
    BY <2>1, <2>2, <2>3, <2>4, <2>5
<1> QED
  BY <1>1, WalkStaysInOrder, PTL

\* The text and the HTML of the payload are the first of the message that are not empty
\* and not attached (walk).
THEOREM FirstTextsAreShown == Spec => []FirstTextIsShown
<1>1. TypeOK /\ MailInv => FirstTextIsShown
  <2> SUFFICES ASSUME TypeOK, MailInv, payload # NoPayload, readable PROVE FirstTextIsShown
    BY DEF FirstTextIsShown
  <2>1. ASSUME NEW kind, NEW body, First(kind, Len(raw) + 1, body)
        PROVE  IF Bodies(kind) = {}
               THEN Size(body) = 0
               ELSE body \in Bodies(kind) /\ \A k \in Bodies(kind) : body <= k
    <3>1. \A k \in Bodies(kind) : k < Len(raw) + 1
      BY PayloadLemma DEF Bodies
    <3> QED
      BY <2>1, <3>1 DEF First
  <2>2. /\ First("text/plain", Len(raw) + 1, payload.text)
        /\ First("text/html", Len(raw) + 1, payload.html)
    BY PayloadLemma
  <2> QED
    BY <2>1, <2>2 DEF FirstTextIsShown
<1> QED
  BY <1>1, WalkStaysInOrder, PTL

\* A body is missing from the payload only for a reason that is known (Parse: "a message
\* is never silently dropped").
THEOREM NothingIsLostSilently == Spec => []LossesAreExplained
<1>1. TypeOK /\ MailInv => LossesAreExplained
  <2> SUFFICES ASSUME TypeOK, MailInv, payload # NoPayload, readable, NEW k \in Leaves,
                      Legible(k), raw[k].size # 0
               PROVE  \/ k \in {payload.text, payload.html}
                      \/ \E i \in DOMAIN payload.attachments :
                            /\ payload.attachments[i].of = k
                            /\ \/ payload.attachments[i].body
                               \/ ~include.attachments
                               \/ /\ payload.attachments[i].truncated
                                  /\ include.limit \in 1 .. raw[k].size - 1
                      \/ /\ raw[k].kind \in {"text/plain", "text/html"} /\ ~raw[k].attached
                         /\ \E j \in Bodies(raw[k].kind) : j < k
                      \/ /\ raw[k].kind \in {"text/other", "other"}
                         /\ ~raw[k].attached /\ ~raw[k].named
    BY DEF LossesAreExplained
  <2> DEFINE e == raw[k]
  <2>1. k \in DOMAIN raw /\ e \in Leaf
    BY ShapeLemma DEF TypeOK, Leaves
  <2>2. /\ k \in Nat \ {0} /\ e.kind \in Kinds /\ e.size \in Nat
        /\ e.attached \in BOOLEAN /\ e.named \in BOOLEAN
    BY <2>1, ShapeLemma DEF TypeOK, Leaf
  <2>3. CASE k \in Attachments
    <3>1. PICK i \in DOMAIN parsed.attachments : parsed.attachments[i] = k
      BY <2>3, PayloadLemma
    <3>2. i \in DOMAIN payload.attachments /\ payload.attachments[i] = Listed(k, include)
      BY <3>1, PayloadLemma
    <3>3. include.limit \in Nat /\ Size(k) = e.size
      BY <2>2 DEF TypeOK, Size, NoBody
    <3>4. TooLarge(k, include) => include.limit \in 1 .. e.size - 1
      BY <2>2, <3>3 DEF TooLarge
    <3>5. /\ payload.attachments[i].of = k
          /\ include.attachments =>
                \/ payload.attachments[i].body
                \/ payload.attachments[i].truncated /\ TooLarge(k, include)
      BY <3>2, ListedLemma
    <3> QED
      BY <3>2, <3>4, <3>5
  <2>4. CASE k \in Bodies(e.kind) /\ e.kind \in {"text/plain", "text/html"}
    <3>1. PICK body \in {payload.text, payload.html} : First(e.kind, Len(raw) + 1, body)
      BY <2>4, PayloadLemma
    <3>2. k < Len(raw) + 1
      BY PayloadLemma
    <3>3. body \in Bodies(e.kind) /\ body <= k
      BY <2>4, <3>1, <3>2 DEF First
    <3>4. body \in Nat
      BY <3>3, ShapeLemma DEF TypeOK, Bodies, Leaves
    <3>5. body = k \/ body < k
      BY <2>2, <3>3, <3>4
    <3> QED
      BY <2>4, <3>1, <3>3, <3>5 DEF Bodies
  <2>5. CASE /\ k \notin Attachments
             /\ ~(k \in Bodies(e.kind) /\ e.kind \in {"text/plain", "text/html"})
    <3>1. ~e.attached /\ ~(e.named /\ e.kind \in {"other", "text/other"})
      BY <2>5 DEF Attachments
    <3>2. k \in Bodies(e.kind)
      BY <2>2, <3>1 DEF Bodies
    <3> QED
      BY <2>2, <2>5, <3>1, <3>2 DEF Kinds
  <2> QED
    BY <2>3, <2>4, <2>5
<1> QED
  BY <1>1, WalkStaysInOrder, PTL
=============================================================================
