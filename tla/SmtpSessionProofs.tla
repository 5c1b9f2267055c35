-------------------------- MODULE SmtpSessionProofs --------------------------
(***************************************************************************)
(* Proofs about SmtpSession, for every configuration of routes and users,  *)
(* every set of clients' words and every bound.                            *)
(***************************************************************************)
EXTENDS SmtpSession, SequenceTheorems, NatLemmas

-----------------------------------------------------------------------------
(***************************************************************************)
(* What the router answers.                                                *)
(***************************************************************************)
\* A route of the user's that has this name.
Owns(u, name) == \E rt \in Configured : rt.name = name /\ rt.username = u

\* The route that Match finds is one of the user's.
LEMMA MatchLemma ==
    ASSUME NEW u, NEW a, Match(u, a) # NoRoute
    PROVE  Owns(u, Match(u, a)) /\ Match(u, a) \in Routes
<1> DEFINE hits == {i \in DOMAIN RouteList :
                      RouteList[i].username = u /\ Matches(RouteList[i], a)}
<1>1. hits # {} /\ Match(u, a) = RouteList[Min(hits)].name
    BY DEF Match
<1>2. DOMAIN RouteList \subseteq Nat
    BY RouterAssumption
<1>3. Min(hits) \in hits
    <2> HIDE DEF hits
    <2>1. hits \subseteq DOMAIN RouteList
        BY DEF hits
    <2> QED
        BY <1>1, <1>2, <2>1, MinLemma
<1>4. /\ Min(hits) \in DOMAIN RouteList
      /\ RouteList[Min(hits)].username = u
    BY <1>3
<1>5. RouteList[Min(hits)] \in Configured
    <2> HIDE DEF hits
    <2> QED
        BY <1>4 DEF Configured, ToSet
<1> QED
    <2> HIDE DEF hits
    <2> QED
        BY <1>1, <1>4, <1>5 DEF Owns, Routes

-----------------------------------------------------------------------------
(***************************************************************************)
(* The mailbox of an address is all that Match looks at, unless a route    *)
(* names whole addresses.                                                  *)
(***************************************************************************)
\* A part of an address.
LEMMA PartLemma ==
    ASSUME NEW a \in Seq(DOMAIN Lower), NEW m \in Nat, NEW n \in Nat, m >= 1, n <= Len(a)
    PROVE  /\ SubSeq(a, m, n) \in Seq(DOMAIN Lower)
           /\ Len(SubSeq(a, m, n)) = (IF m <= n THEN n - m + 1 ELSE 0)
           /\ \A i \in 1 .. n - m + 1 : SubSeq(a, m, n)[i] = a[m + i - 1]
<1> USE SubSeqProperties
<1>1. CASE m <= n
  <2>1. m \in 1 .. Len(a) /\ n \in m .. Len(a)
      BY <1>1
  <2>2. \A i \in m .. n : a[i] \in DOMAIN Lower
    <3>1. \A i \in 1 .. Len(a) : a[i] \in DOMAIN Lower
        OBVIOUS
    <3>2. \A i \in m .. n : i \in 1 .. Len(a)
        BY <2>1
    <3> QED
        BY <3>1, <3>2
  <2> QED
      BY <1>1, <2>1, <2>2
<1>2. CASE m > n
  BY <1>2
<1> QED
  BY <1>1, <1>2

\* Equal in lower case, equal to every condition.
LEMMA FoldedLemma ==
    ASSUME NEW s \in Seq(DOMAIN Lower), NEW t \in Seq(DOMAIN Lower), Folded(s) = Folded(t),
           NEW c \in Seq(DOMAIN Lower)
    PROVE  Holds(c, s) <=> Holds(c, t)
<1>1. DOMAIN s = DOMAIN t
  <2>1. DOMAIN Folded(s) = DOMAIN s /\ DOMAIN Folded(t) = DOMAIN t
      BY DEF Folded
  <2> QED
      BY <2>1
<1>2. \A i \in DOMAIN s : Lower[s[i]] = Lower[t[i]]
  <2> TAKE i \in DOMAIN s
  <2>1. Folded(s)[i] = Lower[s[i]] /\ Folded(t)[i] = Lower[t[i]]
      BY <1>1 DEF Folded
  <2> QED
      BY <2>1
<1>3. Len(s) = Len(t)
  BY <1>1
<1>4. DOMAIN c = 1 .. Len(c) /\ DOMAIN s = 1 .. Len(s)
  OBVIOUS
<1> QED
  BY <1>2, <1>3, <1>4 DEF Holds, EqualFold

\* split and stripTag find the mailbox of an address.
LEMMA AddressLemma ==
    ASSUME NEW a \in Seq(DOMAIN Lower), NEW mailbox, AddressOf(mailbox, a)
    PROVE  /\ Folded(StripTag(Local(a))) = mailbox.local
           /\ Folded(Domain(a)) = mailbox.domain
           /\ StripTag(Local(a)) \in Seq(DOMAIN Lower) /\ Domain(a) \in Seq(DOMAIN Lower)
<1>1. PICK at \in 1 .. Len(a) + 1, end \in 0 .. Len(a) :
        /\ \A i \in DOMAIN a : a[i] = "@" => at <= Len(a) /\ i <= at
        /\ at <= Len(a) => a[at] = "@"
        /\ end < at /\ (end + 1 < at => a[end + 1] = "+")
        /\ \A i \in 1 .. end : a[i] # "+"
        /\ mailbox = [local  |-> Folded(SubSeq(a, 1, end)),
                      domain |-> Folded(SubSeq(a, at + 1, Len(a)))]
    BY DEF AddressOf
<1>2. /\ Len(a) \in Nat /\ DOMAIN a = 1 .. Len(a) /\ at \in Nat \ {0} /\ end \in Nat
      /\ at - 1 \in Nat /\ at - 1 <= Len(a) /\ end <= at - 1
  <2>1. Len(a) \in Nat /\ DOMAIN a = 1 .. Len(a)
      OBVIOUS
  <2> QED
      BY <1>1, <2>1
<1>3. Local(a) = SubSeq(a, 1, at - 1) /\ Domain(a) = SubSeq(a, at + 1, Len(a))
  <2>1. CASE at <= Len(a)
    <3>1. at \in Ats(a) /\ Ats(a) \in SUBSET (0 .. Len(a))
        BY <1>1, <1>2, <2>1 DEF Ats
    <3>2. Max(Ats(a)) \in Ats(a) /\ at <= Max(Ats(a))
        BY <1>2, <3>1, MaxLemma
    <3>3. Max(Ats(a)) <= at /\ Max(Ats(a)) \in Nat
        BY <1>1, <1>2, <3>2 DEF Ats
    <3>4. Max(Ats(a)) = at
        BY <1>2, <3>2, <3>3
    <3> QED
        BY <3>1, <3>4 DEF Local, Domain
  <2>2. CASE at > Len(a)
    <3>1. Ats(a) = {} /\ at = Len(a) + 1
        BY <1>1, <1>2, <2>2 DEF Ats
    <3>2. SubSeq(a, 1, at - 1) = a
      <4>1. at - 1 = Len(a)
          BY <1>2, <3>1
      <4> QED
          BY <1>2, <4>1, SubSeqFull
    <3>3. SubSeq(a, at + 1, Len(a)) = <<>>
        BY <1>2, <3>1, SubSeqEmpty
    <3> QED
        BY <3>1, <3>2, <3>3 DEF Local, Domain
  <2> QED
      BY <1>2, <2>1, <2>2
<1> DEFINE local == SubSeq(a, 1, at - 1)
           pluses == {i \in DOMAIN local : local[i] = "+"}
<1>4. /\ local \in Seq(DOMAIN Lower) /\ Len(local) = at - 1 /\ DOMAIN local = 1 .. at - 1
      /\ \A i \in 1 .. at - 1 : local[i] = a[i]
  <2>1. /\ local \in Seq(DOMAIN Lower) /\ Len(local) = (IF 1 <= at - 1 THEN at - 1 - 1 + 1 ELSE 0)
        /\ \A i \in 1 .. at - 1 - 1 + 1 : local[i] = a[1 + i - 1]
      BY <1>2, PartLemma
  <2>2. Len(local) = at - 1
      BY <1>2, <2>1
  <2>3. at - 1 - 1 + 1 = at - 1 /\ \A i \in 1 .. at - 1 : 1 + i - 1 = i
      BY <1>2
  <2> QED
      BY <2>1, <2>2, <2>3
<1>5. StripTag(local) = SubSeq(a, 1, end)
  <2>1. StripTag(local) = IF pluses = {} THEN local ELSE SubSeq(local, 1, Min(pluses) - 1)
      BY DEF StripTag
  <2>2. CASE end + 1 < at
    <3>1. end + 1 \in pluses /\ \A i \in pluses : end + 1 <= i
        BY <1>1, <1>2, <1>4, <2>2
    <3>2. pluses \in SUBSET Nat
        BY <1>2, <1>4
    <3>3. Min(pluses) \in pluses /\ Min(pluses) <= end + 1 /\ Min(pluses) \in Nat
      <4> HIDE DEF pluses
      <4>1. pluses # {}
        BY <3>1
      <4>2. Min(pluses) \in pluses /\ \A y \in pluses : Min(pluses) <= y
        BY <3>2, <4>1, MinLemma
      <4> QED
        BY <3>1, <3>2, <4>2
    <3>4. Min(pluses) - 1 = end /\ pluses # {}
      <4> HIDE DEF pluses
      <4>1. Min(pluses) = end + 1
        BY <1>2, <3>1, <3>3
      <4> QED
        BY <1>2, <3>1, <4>1
    <3>5. StripTag(local) = SubSeq(local, 1, end)
        BY <2>1, <3>4
    <3>6. SubSeq(local, 1, end) = SubSeq(a, 1, end)
      <4>1. /\ SubSeq(local, 1, end) \in Seq(DOMAIN Lower)
            /\ Len(SubSeq(local, 1, end)) = (IF 1 <= end THEN end - 1 + 1 ELSE 0)
            /\ \A i \in 1 .. end - 1 + 1 : SubSeq(local, 1, end)[i] = local[1 + i - 1]
        <5> HIDE DEF local
        <5> QED
          BY <1>2, <1>4, PartLemma
      <4>2. /\ SubSeq(a, 1, end) \in Seq(DOMAIN Lower)
            /\ Len(SubSeq(a, 1, end)) = (IF 1 <= end THEN end - 1 + 1 ELSE 0)
            /\ \A i \in 1 .. end - 1 + 1 : SubSeq(a, 1, end)[i] = a[1 + i - 1]
          BY <1>2, PartLemma
      <4>3. \A i \in 1 .. end : local[i] = a[i]
          BY <1>2, <1>4
      <4>4. /\ end - 1 + 1 = end /\ \A i \in 1 .. end : 1 + i - 1 = i
            /\ (IF 1 <= end THEN end - 1 + 1 ELSE 0) = end
          BY <1>2
      <4>5. \A i \in 1 .. end : SubSeq(local, 1, end)[i] = SubSeq(a, 1, end)[i]
        <5> TAKE i \in 1 .. end
        <5>1. i \in 1 .. end - 1 + 1 /\ 1 + i - 1 = i
            BY <4>4
        <5>2. SubSeq(local, 1, end)[i] = local[1 + i - 1]
            BY ONLY <4>1, <5>1
        <5>3. SubSeq(a, 1, end)[i] = a[1 + i - 1]
            BY ONLY <4>2, <5>1
        <5> QED
            BY <4>3, <5>1, <5>2, <5>3
      <4> DEFINE p == SubSeq(local, 1, end)
                 q == SubSeq(a, 1, end)
      <4>6. /\ p \in Seq(DOMAIN Lower) /\ q \in Seq(DOMAIN Lower)
            /\ Len(p) = end /\ Len(q) = end /\ \A i \in 1 .. Len(p) : p[i] = q[i]
          BY <4>1, <4>2, <4>4, <4>5
      <4>7. p = q
        <5> HIDE DEF p, q
        <5> QED
          BY <4>6, SeqEqual
      <4> QED
          BY <4>7
    <3> QED
        BY <3>5, <3>6
  <2>3. CASE end + 1 >= at
    <3>1. end = at - 1
        BY <1>2, <2>3
    <3>2. pluses = {}
        BY <1>1, <1>4, <3>1
    <3> QED
        BY <2>1, <3>1, <3>2
  <2> QED
      BY <1>2, <2>2, <2>3
<1>6. SubSeq(a, 1, end) \in Seq(DOMAIN Lower) /\ SubSeq(a, at + 1, Len(a)) \in Seq(DOMAIN Lower)
  BY <1>2, PartLemma
<1> QED
  BY <1>1, <1>3, <1>5, <1>6

\* For a user none of whose routes names a whole address, the addresses of a mailbox
\* have one route or none.
LEMMA MailboxLemma ==
    ASSUME NEW u, \A rt \in Configured : rt.username = u => rt.rcpt = <<>>,
           NEW a \in Addresses, NEW b \in Addresses, MailboxOf[a] = MailboxOf[b]
    PROVE  Match(u, a) = Match(u, b)
<1>1. /\ a \in Seq(DOMAIN Lower) /\ AddressOf(MailboxOf[a], a)
      /\ b \in Seq(DOMAIN Lower) /\ AddressOf(MailboxOf[a], b)
    BY MailboxAssumption
<1>2. /\ Folded(StripTag(Local(a))) = Folded(StripTag(Local(b)))
      /\ Folded(Domain(a)) = Folded(Domain(b))
      /\ StripTag(Local(a)) \in Seq(DOMAIN Lower) /\ Domain(a) \in Seq(DOMAIN Lower)
      /\ StripTag(Local(b)) \in Seq(DOMAIN Lower) /\ Domain(b) \in Seq(DOMAIN Lower)
    BY <1>1, AddressLemma
<1>3. ASSUME NEW i \in DOMAIN RouteList, RouteList[i].username = u
      PROVE  Matches(RouteList[i], a) <=> Matches(RouteList[i], b)
  <2>1. RouteList[i] \in Configured
      BY DEF Configured, ToSet
  <2>2. /\ RouteList[i].rcpt = <<>>
        /\ RouteList[i].rcpt_domain \in Seq(DOMAIN Lower)
        /\ RouteList[i].rcpt_localpart \in Seq(DOMAIN Lower)
      BY <1>3, <2>1, RouterAssumption
  <2>3. /\ Holds(RouteList[i].rcpt_domain, Domain(a)) <=> Holds(RouteList[i].rcpt_domain, Domain(b))
        /\ Holds(RouteList[i].rcpt_localpart, StripTag(Local(a)))
              <=> Holds(RouteList[i].rcpt_localpart, StripTag(Local(b)))
      BY <1>2, <2>2, FoldedLemma
  <2>4. Holds(RouteList[i].rcpt, a) /\ Holds(RouteList[i].rcpt, b)
      BY <2>2 DEF Holds
  <2> QED
      BY <2>3, <2>4 DEF Matches
<1>4. {i \in DOMAIN RouteList : RouteList[i].username = u /\ Matches(RouteList[i], a)}
        = {i \in DOMAIN RouteList : RouteList[i].username = u /\ Matches(RouteList[i], b)}
    BY <1>3
<1> QED
    BY <1>4 DEF Match

-----------------------------------------------------------------------------
(***************************************************************************)
(* Envelopes.                                                              *)
(***************************************************************************)
\* The recipients of an envelope: a sequence of at most MaxRecipients.
LEMMA RcptsLemma ==
    \A s : s \in SeqOf(Recipient, MaxRecipients) <=>
              s \in Seq(Recipient) /\ Len(s) <= MaxRecipients
<1> TAKE s
<1>0. MaxRecipients \in Nat
    BY SessionAssumption
<1>1. ASSUME s \in SeqOf(Recipient, MaxRecipients)
      PROVE  s \in Seq(Recipient) /\ Len(s) <= MaxRecipients
  <2>1. PICK m \in 0 .. MaxRecipients : s \in [1 .. m -> Recipient]
      BY <1>1 DEF SeqOf
  <2>2. m \in Nat /\ s \in Seq(Recipient)
      BY <1>0, <2>1, SeqDef
  <2>3. Len(s) = m
      BY <2>1, <2>2, LenProperties
  <2> QED
      BY <1>0, <2>1, <2>2, <2>3
<1>2. ASSUME s \in Seq(Recipient), Len(s) <= MaxRecipients
      PROVE  s \in SeqOf(Recipient, MaxRecipients)
  <2>1. Len(s) \in 0 .. MaxRecipients /\ s \in [1 .. Len(s) -> Recipient]
      BY <1>0, <1>2, LenProperties
  <2> QED
      BY <2>1 DEF SeqOf
<1> QED
    BY <1>1, <1>2

\* The bounds are met by nothing at all.
LEMMA BoundsLemma ==
    /\ MaxRecipients \in Nat /\ 0 \in 0 .. MaxRecipients
    /\ MaxMessages \in Nat /\ 0 <= MaxMessages
    /\ <<>> \in SeqOf(Recipient, MaxRecipients)
<1>1. MaxRecipients \in Nat /\ MaxMessages \in Nat
    BY SessionAssumption
<1>2. 0 <= MaxRecipients /\ 0 <= MaxMessages
    BY <1>1
<1>3. <<>> \in Seq(Recipient) /\ Len(<<>>) = 0
    BY EmptySeq
<1>4. <<>> \in SeqOf(Recipient, MaxRecipients)
    BY <1>2, <1>3, RcptsLemma
<1> QED
    BY <1>1, <1>2, <1>4

\* The envelope of a new session, or after a message.
LEMMA ResetLemma ==
    ASSUME NEW s \in Envelope
    PROVE  /\ Reset(s) \in Envelope /\ Reset(s) # NoSession
           /\ Reset(s).username = s.username
           /\ Reset(s).from = NoAddress /\ Reset(s).rcpts = <<>>
<1>2. /\ Reset(s) \in Envelope
      /\ Reset(s).username = s.username
      /\ Reset(s).from = NoAddress /\ Reset(s).rcpts = <<>>
    BY BoundsLemma DEF Reset, Envelope
<1> QED
    BY <1>2, SessionAssumption

\* go-smtp's reset.
LEMMA ResetEnvelopeLemma ==
    ASSUME TypeOK, ResetEnvelope
    PROVE  /\ fromReceived' = FALSE /\ recipients' = 0
           /\ session' \in Envelope \cup {NoSession}
           /\ session = NoSession => session' = NoSession
           /\ session # NoSession => /\ session' # NoSession
                                     /\ session'.username = session.username
                                     /\ session'.from = NoAddress
                                     /\ session'.rcpts = <<>>
BY ResetLemma DEF TypeOK, ResetEnvelope

\* What the check of a pair comes to: the session's user is one whose check succeeded,
\* or nothing but a rejection comes of it.
ValidateOutcome(u, p, mu, mp) ==
    /\ checked' \subseteq Check /\ checked \subseteq checked'
    /\ \A c \in checked' \ checked :
          c.user = u /\ c.password = p /\ c.tls = tls /\ c.meant = <<mu, mp>>
    /\ \/ /\ u \in Users /\ session' \in Envelope /\ session'.username = u
          /\ session'.from = session.from /\ session'.rcpts = session.rcpts
          /\ didAuth' = TRUE /\ rejections' = rejections
          /\ \E c \in checked' : c.ok /\ c.user = u /\ c.tls = tls
       \/ /\ session' = session /\ didAuth' = didAuth
          /\ rejections' \subseteq Rejection
          /\ \A r \in rejections' \ rejections : r.stage = "auth"

\* The check of a pair has that outcome, whatever pair arrived and whatever was meant.
LEMMA ValidateLemma ==
    ASSUME TypeOK, session # NoSession, NEW u \in Words, NEW p \in Words,
           NEW mu \in Names, NEW mp \in Passwords, Validate(u, p, mu, mp)
    PROVE  ValidateOutcome(u, p, mu, mp)
<1> DEFINE good == u \in Users /\ PasswordOf[u] = p
           c0 == [user |-> u, password |-> p, tls |-> tls, ok |-> good, meant |-> <<mu, mp>>]
<1>1. checked' = checked \cup {c0}
    BY DEF Validate
<1>2. /\ c0 \in Check /\ (c0.ok <=> good)
      /\ c0.user = u /\ c0.password = p /\ c0.tls = tls /\ c0.meant = <<mu, mp>>
    BY DEF Check, TypeOK
<1>0. checked' \subseteq Check /\ checked \subseteq checked'
    BY <1>1, <1>2 DEF TypeOK
<1> HIDE DEF c0
<1>3. CASE good
  <2>1. /\ session' = [session EXCEPT !.username = u]
        /\ didAuth' = TRUE /\ rejections' = rejections
    BY <1>3 DEF Validate
  <2>2. /\ session' \in Envelope /\ session'.username = u
        /\ session'.from = session.from /\ session'.rcpts = session.rcpts
    BY <1>3, <2>1 DEF TypeOK, Envelope
  <2>3. c0 \in checked' /\ c0.ok /\ c0.user = u /\ c0.tls = tls
    BY <1>1, <1>2, <1>3
  <2> QED
    BY <1>0, <1>1, <1>2, <1>3, <2>1, <2>2, <2>3 DEF ValidateOutcome
<1>4. CASE ~good
  <2> DEFINE row == [stage |-> "auth", username |-> u, from |-> NoAddress, rcpt |-> NoAddress]
  <2>1. /\ session' = session /\ didAuth' = didAuth
        /\ rejections' = rejections \cup {row}
    BY <1>4 DEF Validate, Record
  <2>2. row \in Rejection /\ row.stage = "auth"
    BY DEF Rejection
  <2>3. rejections' \subseteq Rejection /\ \A r \in rejections' \ rejections : r.stage = "auth"
    BY <2>1, <2>2 DEF TypeOK
  <2> QED
    BY <1>0, <1>1, <1>2, <2>1, <2>3 DEF ValidateOutcome
<1> QED
    BY <1>3, <1>4

-----------------------------------------------------------------------------
(***************************************************************************)
(* The inductive invariant: the session, go-smtp's state and the exchange  *)
(* under way belong together. Without the first conjunct a new session     *)
(* would meet the counters of an old one; without the fifth a sender could *)
(* precede the authentication, and Rcpt match the routes of nobody; the    *)
(* second carries the condition under which AUTH was let through over to   *)
(* the responses that follow.                                              *)
(***************************************************************************)
\* The user's credential was checked on this connection.
Proved(u) == \E c \in checked : c.ok /\ c.user = u

SessionInv ==
    /\ session = NoSession => ~helo /\ ~didAuth /\ ~fromReceived /\ recipients = 0
    /\ sasl # NoExchange => session # NoSession /\ ~didAuth /\ (tls \/ AllowInsecureAuth)
    /\ EnvelopesAgree
    /\ session # NoSession => permitted
    /\ session # NoSession /\ session.username = NoUser => ~fromReceived
    /\ session # NoSession /\ session.username # NoUser => Proved(session.username)
    /\ session # NoSession =>
          \A r \in ToSet(session.rcpts) : Owns(session.username, r.route)

\* A recipient goes where Match sends it.
Chosen(u, r) == r.addr \in Addresses /\ r.route = Match(u, r.addr) /\ r.route # NoRoute

\* Appending to a bounded sequence of recipients.
LEMMA AppendRcptsLemma ==
    ASSUME NEW s \in SeqOf(Recipient, MaxRecipients), Len(s) < MaxRecipients,
           NEW r \in Recipient
    PROVE  /\ Append(s, r) \in SeqOf(Recipient, MaxRecipients)
           /\ Append(s, r) # <<>> /\ Len(Append(s, r)) = Len(s) + 1
           /\ ToSet(Append(s, r)) = ToSet(s) \cup {r}
<1>1. s \in Seq(Recipient) /\ MaxRecipients \in Nat
    BY RcptsLemma, SessionAssumption
<1>2. /\ Append(s, r) \in Seq(Recipient) /\ Len(Append(s, r)) = Len(s) + 1
      /\ Len(s) \in Nat
      /\ DOMAIN s = 1 .. Len(s) /\ DOMAIN Append(s, r) = 1 .. Len(s) + 1
      /\ \A i \in 1 .. Len(s) : Append(s, r)[i] = s[i]
      /\ Append(s, r)[Len(s) + 1] = r
    BY <1>1, AppendProperties, LenProperties
<1>3. Append(s, r) \in SeqOf(Recipient, MaxRecipients)
    <2>1. Len(Append(s, r)) <= MaxRecipients
        BY <1>1, <1>2
    <2> QED
        BY <1>2, <2>1, RcptsLemma
<1>4. ToSet(Append(s, r)) = ToSet(s) \cup {r}
    BY <1>2 DEF ToSet
<1>5. Append(s, r) # <<>>
    BY <1>2
<1> QED
    BY <1>2, <1>3, <1>4, <1>5

\* A recipient that was matched belongs to the envelope's user.
LEMMA RcptLemma ==
    ASSUME TypeOK, SessionInv, NEW a \in Addresses, Rcpt(a), Matched(session.username, a)
    PROVE  /\ session # NoSession /\ session' \in Envelope
           /\ session'.username = session.username /\ session'.from = session.from
           /\ session'.rcpts # <<>> /\ Len(session'.rcpts) = Len(session.rcpts) + 1
           /\ \E r : /\ ToSet(session'.rcpts) = ToSet(session.rcpts) \cup {r}
                     /\ Owns(session.username, r.route)
                     /\ Chosen(session.username, r)
<1> DEFINE u == session.username
           r == [addr |-> a, route |-> Match(u, a)]
<1>1. session # NoSession /\ session \in Envelope /\ recipients = Len(session.rcpts)
    BY DEF TypeOK, SessionInv, EnvelopesAgree, Rcpt
<1>2. Owns(u, Match(u, a)) /\ Match(u, a) \in Routes
    BY MatchLemma DEF Matched
<1>3. r \in Recipient /\ Owns(u, r.route) /\ Chosen(u, r)
    BY <1>2 DEF Recipient, Chosen, Matched, Rcpt
<1>4. /\ session.rcpts \in SeqOf(Recipient, MaxRecipients)
      /\ Len(session.rcpts) < MaxRecipients
    BY <1>1 DEF Envelope, Rcpt
<1>5. session' = [session EXCEPT !.rcpts = Append(session.rcpts, r)]
    BY DEF Rcpt
<1> HIDE DEF r
<1>6. /\ Append(session.rcpts, r) \in SeqOf(Recipient, MaxRecipients)
      /\ Append(session.rcpts, r) # <<>>
      /\ Len(Append(session.rcpts, r)) = Len(session.rcpts) + 1
      /\ ToSet(Append(session.rcpts, r)) = ToSet(session.rcpts) \cup {r}
    BY <1>3, <1>4, AppendRcptsLemma
<1>7. /\ session' \in Envelope /\ session'.rcpts = Append(session.rcpts, r)
      /\ session'.username = session.username /\ session'.from = session.from
    BY <1>1, <1>5, <1>6 DEF Envelope
<1> QED
    BY <1>1, <1>3, <1>6, <1>7

-----------------------------------------------------------------------------
(***************************************************************************)
(* Type correctness.                                                       *)
(***************************************************************************)
LEMMA InitTypeOK == Init => TypeOK /\ SessionInv
<1> SUFFICES ASSUME Init PROVE TypeOK /\ SessionInv
    OBVIOUS
<1> QED
    BY BoundsLemma, EmptySeq DEF Init, TypeOK, SessionInv, EnvelopesAgree

LEMMA NextTypeOK == TypeOK /\ SessionInv /\ [Next]_vars => TypeOK'
<1> SUFFICES ASSUME TypeOK, SessionInv, [Next]_vars PROVE TypeOK'
    OBVIOUS
<1> USE DEF lib, backend
<1>0. /\ MaxRecipients \in Nat /\ 0 \in 0 .. MaxRecipients
      /\ NoUser \in Words /\ Names \subseteq Words /\ Passwords \subseteq Words
    BY BoundsLemma DEF Words
<1>1. CASE Ehlo
  <2>1. CASE session # NoSession
    BY <1>0, <1>1, <2>1, ResetEnvelopeLemma DEF Ehlo, TypeOK
  <2>2. CASE session = NoSession /\ permitted
    <3>1. session' \in Envelope
      BY <1>1, <2>2, BoundsLemma DEF Ehlo, Envelope
    <3> QED
      BY <1>1, <2>2, <3>1 DEF Ehlo, TypeOK
  <2>3. CASE session = NoSession /\ ~permitted
    <3>1. rejections' \subseteq Rejection
      BY <1>0, <1>1, <2>3 DEF Ehlo, Record, Rejection, TypeOK
    <3> QED
      BY <1>1, <2>3, <3>1 DEF Ehlo, TypeOK
  <2> QED
    BY <2>1, <2>2, <2>3 DEF TypeOK
<1>2. CASE StartTLS
  BY <1>0, <1>2 DEF StartTLS, AfterUpgrade, TypeOK
<1>3. CASE Rset
  BY <1>0, <1>3, ResetEnvelopeLemma DEF Rset, TypeOK
<1>4. CASE Quit
  BY <1>4 DEF Quit, TypeOK
<1>5. ASSUME NEW u \in Names, NEW p \in Passwords, AuthPlain(u, p) PROVE TypeOK'
  <2>1. session # NoSession /\ u \in Words /\ p \in Words
    BY <1>0, <1>5 DEF AuthPlain, MayAuth, SessionInv, Words
  <2>2. Validate(u, p, u, p)
    BY <1>5 DEF AuthPlain
  <2>3. ValidateOutcome(u, p, u, p)
    BY <2>1, <2>2, ValidateLemma
  <2>4. /\ checked' \subseteq Check
        /\ \/ /\ session' \in Envelope /\ didAuth' = TRUE /\ rejections' = rejections
           \/ /\ session' = session /\ didAuth' = didAuth /\ rejections' \subseteq Rejection
    BY <2>3 DEF ValidateOutcome
  <2>5. UNCHANGED <<listener, permitted, open, tls, helo, fromReceived, recipients, sasl, delivered>>
    BY <1>5 DEF AuthPlain
  <2> QED
    BY <2>4, <2>5 DEF TypeOK
<1>6. ASSUME NEW u \in Names, NEW p \in Passwords, AuthLogin(u, p) PROVE TypeOK'
  <2>1. PICK said \in {<<NoUser, u, p>>, <<u, p>>} :
           sasl' = [haveUser |-> FALSE, username |-> NoUser, said |-> said,
                    user |-> u, password |-> p]
    BY <1>6 DEF AuthLogin
  <2>2. said \in Seq(Words)
    <3>1. u \in Words /\ p \in Words
      BY <1>0
    <3>2. <<NoUser, u, p>> \in Seq(Words) /\ <<u, p>> \in Seq(Words)
      BY <1>0, <3>1
    <3> QED
      BY <2>1, <3>2
  <2>3. sasl' \in Exchange
    BY <1>0, <2>1, <2>2 DEF Exchange
  <2> QED
    BY <1>6, <2>3 DEF AuthLogin, TypeOK
<1>7. CASE LoginNext
  <2>1. /\ sasl \in Exchange /\ Tail(sasl.said) \in Seq(Words) /\ Head(sasl.said) \in Words
        /\ sasl.username \in Words /\ sasl.user \in Names /\ sasl.password \in Passwords
        /\ session # NoSession
    BY <1>7 DEF LoginNext, TypeOK, Exchange, SessionInv
  <2>2. CASE ~sasl.haveUser
    <3>1. sasl' \in Exchange
      BY <1>7, <2>1, <2>2 DEF LoginNext, PromptsForUser, Exchange
    <3> QED
      BY <1>7, <2>2, <3>1 DEF LoginNext, PromptsForUser, TypeOK
  <2>3. CASE sasl.haveUser
    <3>1. /\ Validate(sasl.username, Head(sasl.said), sasl.user, sasl.password)
          /\ sasl' = NoExchange
      BY <1>7, <2>3 DEF LoginNext, PromptsForUser
    <3>2. ValidateOutcome(sasl.username, Head(sasl.said), sasl.user, sasl.password)
      BY <2>1, <3>1, ValidateLemma
    <3> QED
      BY <1>7, <3>1, <3>2 DEF ValidateOutcome, LoginNext, TypeOK
  <2> QED
    BY <2>2, <2>3
<1>8. CASE LoginCancel
  BY <1>8 DEF LoginCancel, TypeOK
<1>9. ASSUME NEW a \in Senders, Mail(a) PROVE TypeOK'
  <2>1. session # NoSession /\ session \in Envelope
    BY <1>9 DEF Mail, SessionInv, TypeOK
  <2>2. CASE session.username = NoUser
    <3>1. rejections' \subseteq Rejection
      BY <1>0, <1>9, <2>1, <2>2 DEF Mail, Record, Rejection, Envelope, TypeOK
    <3> QED
      BY <1>9, <2>2, <3>1 DEF Mail, TypeOK
  <2>3. CASE session.username # NoUser
    <3>1. session' \in Envelope
      BY <1>9, <2>1, <2>3 DEF Mail, Envelope
    <3> QED
      BY <1>9, <2>3, <3>1 DEF Mail, TypeOK
  <2> QED
    BY <2>2, <2>3
<1>10. ASSUME NEW a \in Addresses, Rcpt(a) PROVE TypeOK'
  <2>1. session # NoSession /\ session \in Envelope
    BY <1>10 DEF Rcpt, SessionInv, TypeOK
  <2>2. CASE Matched(session.username, a)
    BY <1>0, <1>10, <2>2, RcptLemma DEF Rcpt, TypeOK
  <2>3. CASE ~Matched(session.username, a)
    <3>1. session.username \in Words /\ session.from \in Senders \cup {NoAddress}
      BY <2>1 DEF Envelope, Words, Names
    <3>2. rejections' \subseteq Rejection
      BY <1>10, <2>3, <3>1 DEF Rcpt, Record, Rejection, TypeOK
    <3> QED
      BY <1>10, <2>3, <3>2 DEF Rcpt, TypeOK
  <2> QED
    BY <2>2, <2>3
<1>11. CASE Data
  <2>1. session \in Envelope
    BY <1>11 DEF Data, SessionInv, TypeOK
  <2>2. /\ delivered' \in Seq(Envelope) /\ Len(delivered') <= MaxMessages
    <3>1. /\ delivered \in Seq(Envelope) /\ Len(delivered) < MaxMessages
          /\ delivered' = Append(delivered, session)
      BY <1>11 DEF Data, TypeOK
    <3>2. delivered' \in Seq(Envelope) /\ Len(delivered') = Len(delivered) + 1
      BY <2>1, <3>1, AppendProperties
    <3>3. Len(delivered) \in Nat /\ MaxMessages \in Nat
      BY <3>1, LenProperties, BoundsLemma
    <3> QED
      BY <3>1, <3>2, <3>3
  <2> QED
    BY <1>0, <1>11, <2>2, ResetEnvelopeLemma DEF Data, TypeOK
<1>12. CASE UNCHANGED vars
  BY <1>12 DEF vars, TypeOK
<1> QED
  BY <1>1, <1>2, <1>3, <1>4, <1>5, <1>6, <1>7, <1>8, <1>9, <1>10, <1>11, <1>12 DEF Next

-----------------------------------------------------------------------------
(***************************************************************************)
(* The session invariant.                                                  *)
(***************************************************************************)
\* A reset leaves an empty envelope of the same user.
LEMMA ResetKeepsInv ==
    ASSUME TypeOK, SessionInv, ResetEnvelope,
           UNCHANGED <<listener, permitted, tls, helo, didAuth, sasl, checked>>
    PROVE  SessionInv'
<1>1. /\ session' = NoSession => ~helo' /\ ~didAuth' /\ ~fromReceived' /\ recipients' = 0
      /\ sasl' # NoExchange =>
            session' # NoSession /\ ~didAuth' /\ (tls' \/ AllowInsecureAuth')
      /\ session' # NoSession => permitted'
      /\ session' # NoSession /\ session'.username = NoUser => ~fromReceived'
    BY ResetEnvelopeLemma DEF SessionInv, AllowInsecureAuth
<1>2. EnvelopesAgree'
    BY ResetEnvelopeLemma, EmptySeq DEF SessionInv, EnvelopesAgree
<1>3. session' # NoSession /\ session'.username # NoUser => Proved(session.username)'
    BY ResetEnvelopeLemma DEF SessionInv, Proved
<1>4. session' # NoSession =>
          \A r \in ToSet(session'.rcpts) : Owns(session'.username, r.route)
    BY ResetEnvelopeLemma DEF ToSet
<1> QED
    BY <1>1, <1>2, <1>3, <1>4 DEF SessionInv

\* So does the check of a pair, whatever comes of it.
LEMMA ValidateKeepsInv ==
    ASSUME TypeOK, SessionInv, session # NoSession, ~didAuth, NEW u \in Words, NEW p \in Words,
           NEW mu \in Names, NEW mp \in Passwords, Validate(u, p, mu, mp),
           UNCHANGED <<listener, permitted, tls, helo, fromReceived, recipients>>,
           sasl' = NoExchange
    PROVE  SessionInv'
<1>1. /\ session.username = NoUser /\ ~fromReceived
      /\ session.from = NoAddress /\ session.rcpts = <<>>
    BY DEF SessionInv, EnvelopesAgree
<1>2. CASE /\ u \in Users /\ session' \in Envelope /\ session'.username = u
           /\ session'.from = session.from /\ session'.rcpts = session.rcpts
           /\ didAuth' = TRUE /\ rejections' = rejections
           /\ \E c \in checked' : c.ok /\ c.user = u /\ c.tls = tls
  <2>1. session' # NoSession /\ u # NoUser
    BY <1>2, SessionAssumption DEF Names
  <2>2. ToSet(session'.rcpts) = {}
    BY <1>1, <1>2 DEF ToSet
  <2>3. EnvelopesAgree'
    BY <1>1, <1>2, <2>1 DEF SessionInv, EnvelopesAgree
  <2>4. Proved(session.username)'
    BY <1>2 DEF Proved
  <2> QED
    BY <1>1, <1>2, <2>1, <2>2, <2>3, <2>4 DEF SessionInv
<1>3. CASE session' = session /\ didAuth' = didAuth
  BY <1>1, <1>3 DEF SessionInv, EnvelopesAgree
<1>4. ValidateOutcome(u, p, mu, mp)
  BY ValidateLemma
<1> QED
  BY <1>2, <1>3, <1>4 DEF ValidateOutcome

LEMMA NextSessionInv == TypeOK /\ SessionInv /\ [Next]_vars => SessionInv'
<1> SUFFICES ASSUME TypeOK, SessionInv, [Next]_vars PROVE SessionInv'
    OBVIOUS
<1> USE DEF lib, backend
<1>1. CASE Ehlo
  <2>1. CASE session # NoSession
    BY <1>1, <2>1, ResetKeepsInv DEF Ehlo
  <2>2. CASE session = NoSession /\ permitted
    <3>1. /\ session' = [username |-> NoUser, from |-> NoAddress, rcpts |-> <<>>]
          /\ helo' = TRUE
          /\ UNCHANGED <<fromReceived, recipients, didAuth, permitted, sasl, checked>>
      BY <1>1, <2>2 DEF Ehlo
    <3>2. /\ session'.username = NoUser /\ session'.from = NoAddress
          /\ session'.rcpts = <<>> /\ ToSet(session'.rcpts) = {}
      BY <3>1 DEF ToSet
    <3>3. session' # NoSession /\ sasl = NoExchange
      BY <1>1, <2>2, <3>1, BoundsLemma, SessionAssumption DEF Ehlo, Command, Envelope
    <3> QED
      BY <2>2, <3>1, <3>2, <3>3, EmptySeq DEF SessionInv, EnvelopesAgree
  <2>3. CASE session = NoSession /\ ~permitted
    BY <1>1, <2>3 DEF Ehlo, Command, SessionInv, EnvelopesAgree
  <2> QED
    BY <2>1, <2>2, <2>3
<1>2. CASE StartTLS
  BY <1>2 DEF StartTLS, AfterUpgrade, Command, SessionInv, EnvelopesAgree
<1>3. CASE Rset
  BY <1>3, ResetKeepsInv DEF Rset
<1>4. CASE Quit
  BY <1>4 DEF Quit, SessionInv, EnvelopesAgree, Proved, AllowInsecureAuth
<1>5. ASSUME NEW u \in Names, NEW p \in Passwords, AuthPlain(u, p) PROVE SessionInv'
  <2>1. /\ session # NoSession /\ ~didAuth /\ u \in Words /\ p \in Words
        /\ sasl' = NoExchange /\ Validate(u, p, u, p)
    BY <1>5 DEF AuthPlain, MayAuth, Command, SessionInv, Words
  <2> QED
    BY <1>5, <2>1, ValidateKeepsInv DEF AuthPlain
<1>6. ASSUME NEW u \in Names, NEW p \in Passwords, AuthLogin(u, p) PROVE SessionInv'
  BY <1>6 DEF AuthLogin, MayAuth, SessionInv, EnvelopesAgree, Proved, AllowInsecureAuth
<1>7. CASE LoginNext
  <2>1. /\ sasl \in Exchange /\ Head(sasl.said) \in Words
        /\ sasl.username \in Words /\ sasl.user \in Names /\ sasl.password \in Passwords
        /\ session # NoSession /\ ~didAuth /\ (tls \/ AllowInsecureAuth)
    BY <1>7 DEF LoginNext, TypeOK, Exchange, SessionInv
  <2>2. CASE ~sasl.haveUser
    <3>1. UNCHANGED <<listener, permitted, lib, session, checked>>
      BY <1>7, <2>2 DEF LoginNext
    <3> QED
      BY <2>1, <3>1 DEF SessionInv, EnvelopesAgree, Proved, AllowInsecureAuth
  <2>3. CASE sasl.haveUser
    <3>1. /\ Validate(sasl.username, Head(sasl.said), sasl.user, sasl.password)
          /\ sasl' = NoExchange
      BY <1>7, <2>3 DEF LoginNext, PromptsForUser
    <3> QED
      BY <1>7, <2>1, <3>1, ValidateKeepsInv DEF LoginNext
  <2> QED
    BY <2>2, <2>3
<1>8. CASE LoginCancel
  BY <1>8 DEF LoginCancel, SessionInv, EnvelopesAgree, Proved
<1>9. ASSUME NEW a \in Senders, Mail(a) PROVE SessionInv'
  <2>1. session # NoSession /\ session \in Envelope /\ sasl = NoExchange
    BY <1>9 DEF Mail, Command, SessionInv, TypeOK
  <2>2. CASE session.username = NoUser
    BY <1>9, <2>2 DEF Mail, SessionInv, EnvelopesAgree, Proved, AllowInsecureAuth
  <2>3. CASE session.username # NoUser
    <3>1. /\ session' \in Envelope /\ session'.username = session.username
          /\ session'.rcpts = session.rcpts /\ fromReceived' = TRUE
      BY <1>9, <2>1, <2>3 DEF Mail, Envelope
    <3>2. session' # NoSession
      BY <3>1, SessionAssumption
    <3> QED
      BY <1>9, <2>1, <2>3, <3>1, <3>2 DEF Mail, SessionInv, EnvelopesAgree, Proved
  <2> QED
    BY <2>2, <2>3
<1>10. ASSUME NEW a \in Addresses, Rcpt(a) PROVE SessionInv'
  <2>1. session # NoSession /\ sasl = NoExchange
    BY <1>10 DEF Rcpt, Command, SessionInv
  <2>2. CASE Matched(session.username, a)
    <3>1. /\ session' # NoSession
          /\ session'.username = session.username /\ session'.from = session.from
          /\ session'.rcpts # <<>> /\ Len(session'.rcpts) = Len(session.rcpts) + 1
          /\ \A r \in ToSet(session'.rcpts) : Owns(session'.username, r.route)
      BY <1>10, <2>1, <2>2, RcptLemma, SessionAssumption DEF SessionInv
    <3> QED
      BY <1>10, <2>1, <2>2, <3>1 DEF Rcpt, SessionInv, EnvelopesAgree, Proved
  <2>3. CASE ~Matched(session.username, a)
    BY <1>10, <2>3 DEF Rcpt, SessionInv, EnvelopesAgree, Proved, AllowInsecureAuth
  <2> QED
    BY <2>2, <2>3
<1>11. CASE Data
  BY <1>11, ResetKeepsInv DEF Data
<1>12. CASE UNCHANGED vars
  BY <1>12 DEF vars, SessionInv, EnvelopesAgree, Proved, AllowInsecureAuth
<1> QED
  BY <1>1, <1>2, <1>3, <1>4, <1>5, <1>6, <1>7, <1>8, <1>9, <1>10, <1>11, <1>12 DEF Next

-----------------------------------------------------------------------------
(***************************************************************************)
(* Authentication. The LOGIN exchange is always about to hear what the     *)
(* client means by it; so every check is of the pair meant.                *)
(***************************************************************************)
LoginInv ==
    sasl # NoExchange =>
        \/ /\ ~sasl.haveUser
           /\ sasl.said \in {<<NoUser, sasl.user, sasl.password>>, <<sasl.user, sasl.password>>}
        \/ sasl.haveUser /\ sasl.username = sasl.user /\ sasl.said = <<sasl.password>>

\* A response to the LOGIN exchange moves it on, or is the password of the pair meant.
LEMMA LoginNextLemma ==
    ASSUME TypeOK, LoginInv, LoginNext
    PROVE  \/ /\ sasl' \in Exchange /\ LoginInv'
              /\ UNCHANGED <<session, didAuth, rejections, checked>>
           \/ /\ Validate(sasl.user, sasl.password, sasl.user, sasl.password)
              /\ sasl' = NoExchange
<1>1. /\ sasl \in Exchange /\ sasl # NoExchange
      /\ sasl.user \in Names /\ sasl.user # NoUser
    BY SessionAssumption DEF LoginNext, TypeOK, Exchange
<1>2. CASE sasl.haveUser
  <2>1. Head(sasl.said) = sasl.password /\ sasl.username = sasl.user
    BY <1>1, <1>2 DEF LoginInv
  <2> QED
    BY <1>2, <2>1 DEF LoginNext, PromptsForUser
<1>3. CASE ~sasl.haveUser /\ sasl.said = <<NoUser, sasl.user, sasl.password>>
  <2>1. Head(sasl.said) = NoUser /\ Tail(sasl.said) = <<sasl.user, sasl.password>>
    BY <1>3
  <2>2. /\ sasl' = [sasl EXCEPT !.said = <<sasl.user, sasl.password>>]
        /\ UNCHANGED <<session, didAuth, rejections, checked>>
    BY <1>3, <2>1 DEF LoginNext, PromptsForUser
  <2>3. <<sasl.user, sasl.password>> \in Seq(Words)
    <3>1. sasl.user \in Words /\ sasl.password \in Words
      BY <1>1 DEF Exchange, Words
    <3> QED
      BY <3>1
  <2>4. /\ sasl' \in Exchange /\ ~sasl'.haveUser
        /\ sasl'.said = <<sasl'.user, sasl'.password>>
    BY <1>1, <1>3, <2>2, <2>3 DEF Exchange
  <2> QED
    BY <2>2, <2>4 DEF LoginInv
<1>4. CASE ~sasl.haveUser /\ sasl.said = <<sasl.user, sasl.password>>
  <2>1. Head(sasl.said) = sasl.user /\ Tail(sasl.said) = <<sasl.password>>
    BY <1>4
  <2>2. /\ sasl' = [sasl EXCEPT !.haveUser = TRUE, !.username = sasl.user,
                                !.said = <<sasl.password>>]
        /\ UNCHANGED <<session, didAuth, rejections, checked>>
    BY <1>1, <1>4, <2>1 DEF LoginNext, PromptsForUser
  <2>3. sasl.user \in Words /\ <<sasl.password>> \in Seq(Words)
    <3>1. sasl.user \in Words /\ sasl.password \in Words
      BY <1>1 DEF Exchange, Words
    <3> QED
      BY <3>1
  <2>4. /\ sasl' \in Exchange /\ sasl'.haveUser /\ sasl'.username = sasl'.user
        /\ sasl'.said = <<sasl'.password>>
    BY <1>1, <1>4, <2>2, <2>3 DEF Exchange
  <2> QED
    BY <2>2, <2>4 DEF LoginInv
<1> QED
  BY <1>1, <1>2, <1>3, <1>4 DEF LoginInv

LEMMA NextLoginInv == TypeOK /\ SessionInv /\ LoginInv /\ [Next]_vars => LoginInv'
<1> SUFFICES ASSUME TypeOK, SessionInv, LoginInv, [Next]_vars PROVE LoginInv'
    OBVIOUS
<1>1. ASSUME NEW u \in Names, NEW p \in Passwords, AuthLogin(u, p) PROVE LoginInv'
  BY <1>1 DEF AuthLogin, LoginInv
<1>2. CASE LoginNext
  BY <1>2, LoginNextLemma DEF LoginInv
<1>3. CASE sasl' = sasl \/ sasl' = NoExchange
  BY <1>3 DEF LoginInv
<1> QED
  BY <1>1, <1>2, <1>3
     DEF Next, Ehlo, StartTLS, Rset, Quit, AuthPlain, LoginCancel, Mail, Rcpt, Data, vars, backend

\* What a step checks, and on whose behalf the session acts after it.
CheckedStep ==
    /\ UNCHANGED <<listener, permitted>> /\ checked \subseteq checked'
    /\ \A c \in checked' \ checked :
          c.tls = tls /\ (tls \/ AllowInsecureAuth) /\ c.meant = <<c.user, c.password>>
    /\ session' # NoSession /\ session'.username # NoUser =>
          /\ tls' = tls
          /\ \/ session # NoSession /\ session'.username = session.username
             \/ \E c \in checked' : c.ok /\ c.tls = tls /\ c.user = session'.username

LEMMA CheckedLemma ==
    ASSUME TypeOK, SessionInv, LoginInv, [Next]_vars
    PROVE  CheckedStep
<1> USE DEF lib, backend, CheckedStep
<1>1. CASE UNCHANGED <<listener, permitted, tls, checked, session>>
  BY <1>1
<1>2. ASSUME ResetEnvelope, UNCHANGED <<listener, permitted, tls, checked>> PROVE CheckedStep
  BY <1>2, ResetEnvelopeLemma
<1>3. ASSUME NEW u \in Names, NEW p \in Passwords, Validate(u, p, u, p),
             UNCHANGED <<listener, permitted, tls>>,
             session # NoSession, tls \/ AllowInsecureAuth
      PROVE  CheckedStep
  <2>1. u \in Words /\ p \in Words
    BY DEF Words
  <2>2. TypeOK /\ session # NoSession /\ Validate(u, p, u, p)
    BY <1>3
  <2>3. ValidateOutcome(u, p, u, p)
    BY <2>1, <2>2, ValidateLemma
  <2>4. /\ checked' \subseteq Check /\ checked \subseteq checked'
        /\ \A c \in checked' \ checked :
              c.user = u /\ c.password = p /\ c.tls = tls /\ c.meant = <<u, p>>
    BY <2>3 DEF ValidateOutcome
  <2>5. \/ /\ session'.username = u
           /\ \E c \in checked' : c.ok /\ c.user = u /\ c.tls = tls
        \/ session' = session
    BY <2>3 DEF ValidateOutcome
  <2> QED
    BY <1>3, <2>4, <2>5
<1>4. CASE Ehlo
  <2>1. CASE session = NoSession /\ permitted
    BY <1>4, <2>1 DEF Ehlo
  <2> QED
    BY <1>1, <1>2, <1>4, <2>1 DEF Ehlo
<1>5. CASE StartTLS
  BY <1>5 DEF StartTLS, AfterUpgrade
<1>6. CASE Rset
  BY <1>2, <1>6 DEF Rset
<1>7. CASE Quit
  BY <1>1, <1>7 DEF Quit
<1>8. ASSUME NEW u \in Names, NEW p \in Passwords, AuthPlain(u, p) PROVE CheckedStep
  BY <1>3, <1>8 DEF AuthPlain, MayAuth, SessionInv
<1>9. ASSUME NEW u \in Names, NEW p \in Passwords, AuthLogin(u, p) PROVE CheckedStep
  BY <1>1, <1>9 DEF AuthLogin
<1>10. CASE LoginNext
  <2>1. /\ UNCHANGED <<listener, permitted, tls>> /\ session # NoSession
        /\ tls \/ AllowInsecureAuth
        /\ sasl.user \in Names /\ sasl.password \in Passwords
    BY <1>10 DEF LoginNext, SessionInv, TypeOK, Exchange
  <2> QED
    BY <1>1, <1>3, <1>10, <2>1, LoginNextLemma
<1>11. CASE LoginCancel
  BY <1>1, <1>11 DEF LoginCancel
<1>12. ASSUME NEW a \in Senders, Mail(a) PROVE CheckedStep
  <2>1. session # NoSession /\ session \in Envelope
    BY <1>12 DEF Mail, SessionInv, TypeOK
  <2>2. session' = session \/ session'.username = session.username
    BY <1>12, <2>1 DEF Mail, Envelope
  <2> QED
    BY <1>12, <2>1, <2>2 DEF Mail
<1>13. ASSUME NEW a \in Addresses, Rcpt(a) PROVE CheckedStep
  <2>1. session # NoSession
    BY <1>13 DEF Rcpt, SessionInv
  <2>2. session' = session \/ session'.username = session.username
    BY <1>13, RcptLemma DEF Rcpt
  <2> QED
    BY <1>13, <2>1, <2>2 DEF Rcpt
<1>14. CASE Data
  BY <1>2, <1>14 DEF Data
<1>15. CASE UNCHANGED vars
  BY <1>1, <1>15 DEF vars
<1> QED
  BY <1>4, <1>5, <1>6, <1>7, <1>8, <1>9, <1>10, <1>11, <1>12, <1>13, <1>14, <1>15 DEF Next

-----------------------------------------------------------------------------
(***************************************************************************)
(* What was delivered and what was refused.                                *)
(***************************************************************************)
\* A step delivers the session's envelope or nothing.
LEMMA DeliveredLemma ==
    ASSUME TypeOK, SessionInv, [Next]_vars
    PROVE  \/ delivered' = delivered
           \/ /\ delivered' = Append(delivered, session)
              /\ session \in Envelope /\ permitted /\ Proved(session.username)
              /\ \A r \in ToSet(session.rcpts) : Owns(session.username, r.route)
<1>1. CASE Data
  BY <1>1 DEF Data, SessionInv, TypeOK
<1>2. CASE delivered' = delivered
  BY <1>2
<1> QED
  BY <1>1, <1>2 DEF Next, Ehlo, StartTLS, Rset, Quit, AuthPlain, AuthLogin, LoginNext,
                    LoginCancel, Mail, Rcpt, vars

LEMMA NextDelivered ==
    TypeOK /\ SessionInv /\ LoginInv /\ DeliveredIsAuthorised /\ [Next]_vars
        => DeliveredIsAuthorised'
<1> SUFFICES ASSUME TypeOK, SessionInv, LoginInv, DeliveredIsAuthorised, [Next]_vars,
                    NEW i \in DOMAIN delivered'
             PROVE  /\ permitted'
                    /\ \E c \in checked' : c.ok /\ c.user = delivered'[i].username
                    /\ \A r \in ToSet(delivered'[i].rcpts) : Owns(delivered'[i].username, r.route)
    BY DEF DeliveredIsAuthorised, Owns
<1>1. UNCHANGED permitted /\ checked \subseteq checked'
    BY CheckedLemma DEF CheckedStep
<1>2. CASE i \in DOMAIN delivered /\ delivered'[i] = delivered[i]
  BY <1>1, <1>2 DEF DeliveredIsAuthorised, Owns
<1>3. CASE /\ delivered'[i] = session /\ permitted /\ Proved(session.username)
           /\ \A r \in ToSet(session.rcpts) : Owns(session.username, r.route)
  BY <1>1, <1>3 DEF Proved
<1>4. ASSUME delivered' = Append(delivered, session), session \in Envelope
      PROVE  \/ i \in DOMAIN delivered /\ delivered'[i] = delivered[i]
             \/ delivered'[i] = session
  <2>1. delivered \in Seq(Envelope)
    BY DEF TypeOK
  <2> QED
    BY <1>4, <2>1, AppendProperties
<1> QED
  BY <1>2, <1>3, <1>4, DeliveredLemma

\* A step records refusals in their context.
LEMMA RejectedLemma ==
    ASSUME TypeOK, SessionInv, LoginInv, [Next]_vars, NEW r \in rejections' \ rejections
    PROVE  /\ r.stage = "connect" => ~permitted
           /\ r.stage = "mail" => r.username = NoUser /\ r.from = NoAddress
           /\ r.stage = "rcpt" => /\ r.username \in Users /\ r.rcpt \in Addresses
                                  /\ Match(r.username, r.rcpt) = NoRoute
<1> USE DEF lib, backend
<1>1. CASE Ehlo
  BY <1>1 DEF Ehlo, Record
<1>2. ASSUME NEW u \in Names, NEW p \in Passwords, Validate(u, p, u, p), session # NoSession
      PROVE  r.stage = "auth"
  <2>1. u \in Words /\ p \in Words
    BY DEF Words
  <2>2. ValidateOutcome(u, p, u, p)
    BY <1>2, <2>1, ValidateLemma
  <2> QED
    BY <1>2, <2>2 DEF ValidateOutcome
<1>3. ASSUME NEW u \in Names, NEW p \in Passwords, AuthPlain(u, p) PROVE r.stage = "auth"
  BY <1>2, <1>3 DEF AuthPlain, MayAuth, SessionInv
<1>4. CASE LoginNext
  <2>1. sasl.user \in Names /\ sasl.password \in Passwords /\ session # NoSession
    BY <1>4 DEF LoginNext, SessionInv, TypeOK, Exchange
  <2> QED
    BY <1>2, <1>4, <2>1, LoginNextLemma
<1>5. ASSUME NEW a \in Senders, Mail(a)
      PROVE  r.stage = "mail" /\ r.username = NoUser /\ r.from = NoAddress
  <2>1. session.username = NoUser /\ session.from = NoAddress
    BY <1>5 DEF Mail, SessionInv, EnvelopesAgree
  <2> QED
    BY <1>5, <2>1 DEF Mail, Record
<1>6. ASSUME NEW a \in Addresses, Rcpt(a)
      PROVE  /\ r.stage = "rcpt" /\ r.username \in Users /\ r.rcpt \in Addresses
             /\ Match(r.username, r.rcpt) = NoRoute
  <2>1. session \in Envelope /\ session.username # NoUser
    BY <1>6 DEF Rcpt, SessionInv, TypeOK
  <2>2. session.username \in Users
    BY <2>1 DEF Envelope
  <2> QED
    BY <1>6, <2>2 DEF Rcpt, Record, Matched
<1>7. CASE rejections' = rejections
  BY <1>7
<1> QED
  BY <1>1, <1>3, <1>4, <1>5, <1>6, <1>7
     DEF Next, StartTLS, Rset, Quit, AuthLogin, LoginCancel, Data, vars

-----------------------------------------------------------------------------
(***************************************************************************)
(* Where mailboxes go: the invariant keeps, of each recipient accepted,    *)
(* delivered or refused, what Match said of it for the user of then. The   *)
(* user does not change while there are recipients, as AUTH comes before   *)
(* any.                                                                    *)
(***************************************************************************)
AcceptedAsChosen == session # NoSession =>
    \A r \in ToSet(session.rcpts) : Chosen(session.username, r)

DeliveredAsChosen == \A i \in DOMAIN delivered :
    \A r \in ToSet(delivered[i].rcpts) : Chosen(delivered[i].username, r)

RefusedUnmatched == \A j \in rejections :
    j.stage = "rcpt" => j.rcpt \in Addresses /\ Match(j.username, j.rcpt) = NoRoute

ChoiceInv == AcceptedAsChosen /\ DeliveredAsChosen /\ RefusedUnmatched

LEMMA NextAccepted ==
    ASSUME TypeOK, SessionInv, LoginInv, AcceptedAsChosen, [Next]_vars
    PROVE  AcceptedAsChosen'
<1> USE DEF lib, backend, AcceptedAsChosen
<1>1. CASE UNCHANGED session
  BY <1>1
<1>2. CASE session' # NoSession /\ session'.rcpts = <<>>
  BY <1>2 DEF ToSet
<1>3. CASE session' = NoSession
  BY <1>3
<1>4. ASSUME ResetEnvelope PROVE AcceptedAsChosen'
  BY <1>2, <1>3, <1>4, ResetEnvelopeLemma
<1>5. ASSUME NEW u \in Names, NEW p \in Passwords, Validate(u, p, u, p),
             session # NoSession, ~didAuth
      PROVE  AcceptedAsChosen'
  <2>1. u \in Words /\ p \in Words
    BY DEF Words
  <2>2. session.rcpts = <<>>
    BY <1>5 DEF SessionInv, EnvelopesAgree
  <2>3. ValidateOutcome(u, p, u, p)
    BY <1>5, <2>1, ValidateLemma
  <2>4. \/ session' = session
        \/ session' \in Envelope /\ session'.rcpts = session.rcpts
    BY <2>3 DEF ValidateOutcome
  <2>5. NoSession \notin Envelope
    BY SessionAssumption
  <2> QED
    BY <1>1, <1>2, <2>2, <2>4, <2>5
<1>6. CASE Ehlo
  BY <1>1, <1>2, <1>4, <1>6, SessionAssumption DEF Ehlo
<1>7. CASE StartTLS
  BY <1>3, <1>7 DEF StartTLS, AfterUpgrade
<1>8. CASE Rset \/ Data
  BY <1>4, <1>8 DEF Rset, Data
<1>9. CASE Quit \/ LoginCancel
  BY <1>1, <1>9 DEF Quit, LoginCancel
<1>10. ASSUME NEW u \in Names, NEW p \in Passwords, AuthPlain(u, p) PROVE AcceptedAsChosen'
  BY <1>5, <1>10 DEF AuthPlain, MayAuth, SessionInv
<1>11. ASSUME NEW u \in Names, NEW p \in Passwords, AuthLogin(u, p) PROVE AcceptedAsChosen'
  BY <1>1, <1>11 DEF AuthLogin
<1>12. CASE LoginNext
  <2>1. /\ session # NoSession /\ ~didAuth
        /\ sasl.user \in Names /\ sasl.password \in Passwords
    BY <1>12 DEF LoginNext, SessionInv, TypeOK, Exchange
  <2> QED
    BY <1>1, <1>5, <1>12, <2>1, LoginNextLemma
<1>13. ASSUME NEW a \in Senders, Mail(a) PROVE AcceptedAsChosen'
  <2>1. session # NoSession /\ session \in Envelope
    BY <1>13 DEF Mail, SessionInv, TypeOK
  <2>2. \/ session' = session
        \/ session'.username = session.username /\ session'.rcpts = session.rcpts
    BY <1>13, <2>1 DEF Mail, Envelope
  <2> QED
    BY <2>1, <2>2
<1>14. ASSUME NEW a \in Addresses, Rcpt(a) PROVE AcceptedAsChosen'
  <2>1. CASE Matched(session.username, a)
    BY <1>14, <2>1, RcptLemma
  <2>2. CASE ~Matched(session.username, a)
    BY <1>1, <1>14, <2>2 DEF Rcpt
  <2> QED
    BY <2>1, <2>2
<1>15. CASE UNCHANGED vars
  BY <1>1, <1>15 DEF vars
<1> QED
  BY <1>6, <1>7, <1>8, <1>9, <1>10, <1>11, <1>12, <1>13, <1>14, <1>15 DEF Next

LEMMA NextChoiceInv ==
    ASSUME TypeOK, SessionInv, LoginInv, ChoiceInv, [Next]_vars
    PROVE  ChoiceInv'
<1>1. AcceptedAsChosen'
  BY NextAccepted DEF ChoiceInv
<1>2. DeliveredAsChosen'
  <2> SUFFICES ASSUME NEW i \in DOMAIN delivered', NEW r \in ToSet(delivered'[i].rcpts)
               PROVE  Chosen(delivered'[i].username, r)
      BY DEF DeliveredAsChosen
  <2>1. CASE i \in DOMAIN delivered /\ delivered'[i] = delivered[i]
    BY <2>1 DEF ChoiceInv, DeliveredAsChosen
  <2>2. ASSUME delivered' = Append(delivered, session), session \in Envelope
        PROVE  Chosen(delivered'[i].username, r)
    <3>1. \/ i \in DOMAIN delivered /\ delivered'[i] = delivered[i]
          \/ delivered'[i] = session
      <4>1. delivered \in Seq(Envelope)
        BY DEF TypeOK
      <4> QED
        BY <2>2, <4>1, AppendProperties
    <3>2. session # NoSession
      BY <2>2, SessionAssumption
    <3> QED
      BY <2>1, <3>1, <3>2 DEF ChoiceInv, AcceptedAsChosen
  <2> QED
    BY <2>1, <2>2, DeliveredLemma
<1>3. RefusedUnmatched'
  BY RejectedLemma DEF ChoiceInv, RefusedUnmatched
<1> QED
  BY <1>1, <1>2, <1>3 DEF ChoiceInv

LEMMA ChoiceMeansTogether ==
    ASSUME TypeOK, DeliveredAsChosen, RefusedUnmatched
    PROVE  MailboxesStayTogether
<1> SUFFICES ASSUME NEW i \in DOMAIN delivered,
                    \A rt \in Configured : rt.username = delivered[i].username => rt.rcpt = <<>>,
                    NEW r \in ToSet(delivered[i].rcpts)
             PROVE  /\ \A s \in ToSet(delivered[i].rcpts) :
                          MailboxOf[r.addr] = MailboxOf[s.addr] => r.route = s.route
                    /\ \A j \in rejections :
                          j.stage = "rcpt" /\ j.username = delivered[i].username
                              => MailboxOf[r.addr] # MailboxOf[j.rcpt]
    BY DEF MailboxesStayTogether
<1> DEFINE u == delivered[i].username
<1>1. \A s \in ToSet(delivered[i].rcpts) : Chosen(u, s)
    BY DEF DeliveredAsChosen
<1>2. \A b \in Addresses : MailboxOf[r.addr] = MailboxOf[b] => Match(u, r.addr) = Match(u, b)
    BY <1>1, MailboxLemma DEF Chosen
<1>3. \A j \in rejections : j.stage = "rcpt" =>
          j.rcpt \in Addresses /\ Match(j.username, j.rcpt) = NoRoute
    BY DEF RefusedUnmatched
<1> HIDE DEF u
<1>4. \A s \in ToSet(delivered[i].rcpts) :
          MailboxOf[r.addr] = MailboxOf[s.addr] => r.route = s.route
    BY <1>1, <1>2 DEF Chosen
<1>5. \A j \in rejections :
          j.stage = "rcpt" /\ j.username = u => MailboxOf[r.addr] # MailboxOf[j.rcpt]
    BY <1>1, <1>2, <1>3 DEF Chosen
<1> QED
    BY <1>4, <1>5 DEF u

-----------------------------------------------------------------------------
(***************************************************************************)
(* The theorems.                                                           *)
(***************************************************************************)
Inv == TypeOK /\ SessionInv /\ LoginInv

LEMMA InvLemma == Spec => []Inv
<1>1. Init => Inv
    BY InitTypeOK DEF Inv, Init, LoginInv
<1>2. Inv /\ [Next]_vars => Inv'
    BY NextTypeOK, NextSessionInv, NextLoginInv DEF Inv
<1> QED
    BY <1>1, <1>2, PTL DEF Spec

\* The state is well-typed in every behaviour: in particular an envelope never has
\* more recipients than srv.MaxRecipients, though Rcpt does not count them.
THEOREM TypeCorrect == Spec => []TypeOK
<1>1. Inv => TypeOK
    BY DEF Inv
<1> QED
    BY InvLemma, <1>1, PTL

\* The session and go-smtp agree on the client and on the transaction, over every
\* order of EHLO, STARTTLS, AUTH, MAIL, RCPT, RSET and DATA.
THEOREM EnvelopesAlwaysAgree == Spec => []EnvelopesAgree
<1>1. Inv => EnvelopesAgree
    BY DEF Inv, SessionInv
<1> QED
    BY InvLemma, <1>1, PTL

\* The server never relays: what reaches Data comes from a permitted address and a
\* user whose credential was checked on the connection, and goes to that user's
\* routes only (Auth, Rcpt, Router.Match).
THEOREM NeverRelays == Spec => []DeliveredIsAuthorised
<1>1. Init => DeliveredIsAuthorised
    BY DEF Init, DeliveredIsAuthorised
<1>2. Inv /\ DeliveredIsAuthorised /\ [Next]_vars => DeliveredIsAuthorised'
    BY NextDelivered DEF Inv
<1> QED
    BY InvLemma, <1>1, <1>2, PTL DEF Spec

\* No credential is looked at in the clear unless the listener allows it, whatever
\* the steps of a LOGIN exchange are interleaved with (newSMTPServer).
THEOREM NoClearCredentials == Spec => []CredentialsUnderTLS
<1>1. Init => CredentialsUnderTLS
    BY DEF Init, CredentialsUnderTLS
<1>2. Inv /\ CredentialsUnderTLS /\ [Next]_vars => CredentialsUnderTLS'
  <2> SUFFICES ASSUME TypeOK, SessionInv, LoginInv, CredentialsUnderTLS, [Next]_vars
               PROVE  CredentialsUnderTLS'
      BY DEF Inv
  <2>1. /\ listener' = listener
        /\ \A c \in checked' \ checked : c.tls = tls /\ (tls \/ AllowInsecureAuth)
      BY CheckedLemma DEF CheckedStep
  <2>2. AllowInsecureAuth => \/ listener.tls = "none"
                             \/ listener.tls = "starttls" /\ listener.insecureAuth
      BY DEF TypeOK, AllowInsecureAuth
  <2> QED
      BY <2>1, <2>2 DEF CredentialsUnderTLS
<1> QED
    BY InvLemma, <1>1, <1>2, PTL DEF Spec

\* Who a TLS session acts for was checked under TLS: an authentication in the clear
\* does not survive STARTTLS.
THEOREM UpgradeAlwaysForgets == Spec => []UpgradeForgets
<1>1. Init => UpgradeForgets
    BY DEF Init, UpgradeForgets
<1>2. Inv /\ UpgradeForgets /\ [Next]_vars => UpgradeForgets'
  <2> SUFFICES ASSUME TypeOK, SessionInv, LoginInv, UpgradeForgets, [Next]_vars
               PROVE  UpgradeForgets'
      BY DEF Inv
  <2> QED
      BY CheckedLemma DEF CheckedStep, UpgradeForgets
<1> QED
    BY InvLemma, <1>1, <1>2, PTL DEF Spec

\* loginServer hands Validate the pair the client meant, with and without an initial
\* response, and asks for nothing more once it has both.
THEOREM LoginAlwaysReadsThePair == Spec => []LoginReadsThePair
<1>1. Init => LoginReadsThePair
    BY DEF Init, LoginReadsThePair
<1>2. Inv /\ Inv' /\ LoginReadsThePair /\ [Next]_vars => LoginReadsThePair'
  <2> SUFFICES ASSUME TypeOK, SessionInv, LoginInv, LoginInv', LoginReadsThePair, [Next]_vars
               PROVE  LoginReadsThePair'
      BY DEF Inv
  <2>1. \A c \in checked' : c.meant = <<c.user, c.password>>
      BY CheckedLemma DEF CheckedStep, LoginReadsThePair
  <2>2. sasl' # NoExchange => sasl'.said # <<>>
    <3>1. \A a, b, c : <<a, b, c>> # <<>> /\ <<b, c>> # <<>> /\ <<c>> # <<>>
        OBVIOUS
    <3>2. sasl' # NoExchange =>
             \/ sasl'.said = <<NoUser, sasl'.user, sasl'.password>>
             \/ sasl'.said = <<sasl'.user, sasl'.password>>
             \/ sasl'.said = <<sasl'.password>>
        BY DEF LoginInv
    <3> QED
        BY ONLY <3>1, <3>2
  <2> QED
      BY <2>1, <2>2 DEF LoginReadsThePair
<1> QED
    BY InvLemma, <1>1, <1>2, PTL DEF Spec

\* Every refusal is recorded with the context it happened in (recordRejection).
THEOREM RejectionsAlwaysHaveContext == Spec => []RejectionsHaveContext
<1>1. Init => RejectionsHaveContext
    BY DEF Init, RejectionsHaveContext
<1>2. Inv /\ RejectionsHaveContext /\ [Next]_vars => RejectionsHaveContext'
  <2> SUFFICES ASSUME TypeOK, SessionInv, LoginInv, RejectionsHaveContext, [Next]_vars
               PROVE  RejectionsHaveContext'
      BY DEF Inv
  <2>1. permitted' = permitted
      BY CheckedLemma DEF CheckedStep
  <2> QED
      BY <2>1, RejectedLemma DEF RejectionsHaveContext
<1> QED
    BY InvLemma, <1>1, <1>2, PTL DEF Spec

\* Addresses that differ in case or tag only have one fate for a user none of whose
\* routes names a whole address: one route, or a refusal each (Match, split, stripTag).
\* What a mailbox is, AddressOf says without these.
THEOREM MailboxesHaveOneRoute == Spec => []MailboxesStayTogether
<1>1. Init => ChoiceInv
    BY DEF Init, ChoiceInv, AcceptedAsChosen, DeliveredAsChosen, RefusedUnmatched
<1>2. Inv /\ ChoiceInv /\ [Next]_vars => ChoiceInv'
    BY NextChoiceInv DEF Inv
<1>3. Inv /\ ChoiceInv => MailboxesStayTogether
    BY ChoiceMeansTogether DEF Inv, ChoiceInv
<1> QED
    BY InvLemma, <1>1, <1>2, <1>3, PTL DEF Spec
=============================================================================
