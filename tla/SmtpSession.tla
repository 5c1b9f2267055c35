----------------------------- MODULE SmtpSession -----------------------------
(***************************************************************************)
(* One SMTP connection: the session of internal/server (NewSession, Auth,  *)
(* Mail, Rcpt, Reset, the LOGIN exchange of login.go) under the command    *)
(* loop of go-smtp, which keeps an envelope and an authentication state of *)
(* its own beside the session's and decides which handlers a command       *)
(* reaches. The module is about those two states staying in step, over     *)
(* STARTTLS, repeated EHLO, RSET and several messages on one connection.   *)
(*                                                                         *)
(* What DATA does with the message is module Submission.                   *)
(***************************************************************************)
EXTENDS Router

CONSTANTS
    Strangers,      \* usernames of no route that a client may send
    Passwords,
    PasswordOf,     \* the credential of each user
    Senders,        \* addresses of MAIL; NoAddress, the null sender, may be one
    Addresses,      \* addresses of RCPT
    MailboxOf,      \* [local, domain] of the mailbox that each of them stands for
    NoUser, NoAddress, NoSession, NoExchange,
    MaxRecipients,  \* srv.MaxRecipients, 100 in the code
    MaxMessages     \* bound: messages handed to Data on the connection

\* The users map that server.New derives from the routes.
Users  == {rt.username : rt \in Configured}
Routes == {rt.name : rt \in Configured}

Recipient == [addr : Addresses, route : Routes]
Envelope  == [username : Users \cup {NoUser}, from : Senders \cup {NoAddress},
              rcpts : SeqOf(Recipient, MaxRecipients)]

\* The usernames, and whatever else, that a client may say.
Names == Users \cup Strangers
Words == Names \cup Passwords \cup {NoUser}

\* loginServer, with what the client has yet to say to it, and the pair it means.
Exchange == [haveUser : BOOLEAN, username : Words, said : Seq(Words),
             user : Names, password : Passwords]

\* A row of table rejections, and the check of a credential.
Rejection == [stage : {"connect", "auth", "mail", "rcpt"}, username : Words,
              from : Senders \cup {NoAddress}, rcpt : Addresses \cup {NoAddress}]
Check     == [user : Words, password : Words, tls : BOOLEAN, ok : BOOLEAN,
              meant : Names \X Passwords]

\* The lower-case form of a sequence of words.
Folded(s) == [i \in DOMAIN s |-> Lower[s[i]]]

\* An address of a mailbox: its local part, which has no "+", then perhaps a tag, and
\* after the last "@", if there is one, its domain.
AddressOf(mailbox, a) ==
    \E at \in 1 .. Len(a) + 1, end \in 0 .. Len(a) :
        /\ \A i \in DOMAIN a : a[i] = "@" => at <= Len(a) /\ i <= at
        /\ at <= Len(a) => a[at] = "@"
        /\ end < at /\ (end + 1 < at => a[end + 1] = "+")
        /\ \A i \in 1 .. end : a[i] # "+"
        /\ mailbox = [local  |-> Folded(SubSeq(a, 1, end)),
                      domain |-> Folded(SubSeq(a, at + 1, Len(a)))]

\* Only MailboxesStayTogether looks at mailboxes.
ASSUME MailboxAssumption ==
    /\ Addresses \subseteq Seq(DOMAIN Lower)
    /\ \A a \in Addresses : AddressOf(MailboxOf[a], a)

ASSUME SessionAssumption ==
    /\ PasswordOf \in [Users -> Passwords]
    /\ Strangers \cap Users = {}
    \* config.Validate refuses an empty username.
    /\ NoUser \notin Names
    /\ NoSession \notin Envelope /\ NoExchange \notin Exchange
    /\ MaxRecipients \in Nat \ {0} /\ MaxMessages \in Nat

VARIABLES
    listener,       \* [tls, insecureAuth] of the listener
    permitted,      \* whether the remote address is in auth.allow_ips
    \* go-smtp's connection
    open, tls, helo, didAuth, fromReceived,
    recipients,     \* number of accepted RCPT commands
    \* the backend's state for it
    session,        \* NoSession or [username, from, rcpts]
    sasl,           \* NoExchange or the LOGIN exchange under way
    rejections,     \* rows of table rejections
    \* what was observed
    checked,        \* credentials that were checked
    delivered       \* envelopes that reached Data, in order

lib     == <<open, tls, helo, didAuth, fromReceived, recipients>>
backend == <<session, sasl>>
vars    == <<listener, permitted, lib, backend, rejections, checked, delivered>>

\* Type invariant. The recipients of an envelope never exceed MaxRecipients: the
\* session itself does not count them, go-smtp does (newSMTPServer, Rcpt).
TypeOK ==
    /\ listener \in [tls : {"none", "starttls", "implicit"}, insecureAuth : BOOLEAN]
    /\ permitted \in BOOLEAN
    /\ open \in BOOLEAN /\ tls \in BOOLEAN /\ helo \in BOOLEAN
    /\ didAuth \in BOOLEAN /\ fromReceived \in BOOLEAN
    /\ recipients \in 0 .. MaxRecipients
    /\ session \in Envelope \cup {NoSession}
    /\ sasl \in Exchange \cup {NoExchange}
    /\ rejections \subseteq Rejection /\ checked \subseteq Check
    /\ delivered \in Seq(Envelope) /\ Len(delivered) <= MaxMessages

Init ==
    /\ listener \in [tls : {"none", "starttls", "implicit"}, insecureAuth : BOOLEAN]
    /\ permitted \in BOOLEAN
    /\ open = TRUE /\ tls = (listener.tls = "implicit") /\ helo = FALSE
    /\ didAuth = FALSE /\ fromReceived = FALSE /\ recipients = 0
    /\ session = NoSession /\ sasl = NoExchange
    /\ rejections = {} /\ checked = {} /\ delivered = <<>>

-----------------------------------------------------------------------------
(***************************************************************************)
(* The listener's settings, and helpers.                                   *)
(***************************************************************************)
\* Faulty variant: plaintext AUTH is left on for every listener that can upgrade.
AllowInsecureAuthOnStartTLS == listener.tls \in {"none", "starttls"}

\* srv.AllowInsecureAuth, as newSMTPServer sets it for the listener.
AllowInsecureAuth ==
    CASE listener.tls = "starttls" -> listener.insecureAuth
      [] listener.tls = "implicit" -> FALSE
      [] listener.tls = "none"     -> TRUE

\* srv.TLSConfig is set: STARTTLS is offered.
HasTLSConfig == listener.tls # "none"

\* A command other than an answer to a SASL challenge is read.
Command == open /\ sasl = NoExchange

\* Faulty variant: the row names nobody.
RecordAnonymous(stage, username, from, rcpt) ==
    rejections' = rejections \cup
        {[stage |-> stage, username |-> NoUser, from |-> from, rcpt |-> rcpt]}

\* session.reject and recordRejection.
Record(stage, username, from, rcpt) ==
    rejections' = rejections \cup
        {[stage |-> stage, username |-> username, from |-> from, rcpt |-> rcpt]}

\* Faulty variants: the envelope, or its recipients, outlive the message.
NoReset(s) == s
ResetFromOnly(s) == [s EXCEPT !.from = NoAddress]

\* session.Reset.
Reset(s) == [s EXCEPT !.from = NoAddress, !.rcpts = <<>>]

\* go-smtp's reset: its own envelope, and the session's.
ResetEnvelope ==
    /\ fromReceived' = FALSE /\ recipients' = 0
    /\ session' = IF session = NoSession THEN NoSession ELSE Reset(session)

-----------------------------------------------------------------------------
(***************************************************************************)
(* Greeting, STARTTLS, RSET.                                               *)
(***************************************************************************)
\* The first EHLO makes a session, if the remote address is permitted; a later
\* one acts as RSET and keeps who the client is.
Ehlo ==
    /\ Command
    /\ IF session # NoSession
       THEN ResetEnvelope /\ UNCHANGED <<helo, rejections>>
       ELSE IF permitted
       THEN /\ helo' = TRUE
            /\ session' = [username |-> NoUser, from |-> NoAddress, rcpts |-> <<>>]
            /\ UNCHANGED <<fromReceived, recipients, rejections>>
       ELSE /\ Record("connect", NoUser, NoAddress, NoAddress)
            /\ helo' = FALSE
            /\ UNCHANGED <<session, fromReceived, recipients>>
    /\ UNCHANGED <<listener, permitted, open, tls, didAuth, sasl, checked, delivered>>

\* Faulty variant: the session survives the upgrade.
KeepSession == session

\* What becomes of the session at STARTTLS.
AfterUpgrade == NoSession

\* The upgrade: go-smtp drops the session, and the client must start over.
StartTLS ==
    /\ Command /\ HasTLSConfig /\ ~tls
    /\ tls' = TRUE /\ helo' = FALSE /\ didAuth' = FALSE
    /\ fromReceived' = FALSE /\ recipients' = 0
    /\ session' = AfterUpgrade
    /\ UNCHANGED <<listener, permitted, open, sasl, rejections, checked, delivered>>

Rset ==
    /\ Command /\ session # NoSession
    /\ ResetEnvelope
    /\ UNCHANGED <<listener, permitted, open, tls, helo, didAuth, sasl, rejections,
                   checked, delivered>>

Quit ==
    /\ Command
    /\ open' = FALSE
    /\ UNCHANGED <<listener, permitted, tls, helo, didAuth, fromReceived, recipients,
                   backend, rejections, checked, delivered>>

-----------------------------------------------------------------------------
(***************************************************************************)
(* AUTH.                                                                   *)
(***************************************************************************)
\* go-smtp passes AUTH on once per session, and in the clear only if allowed.
MayAuth == Command /\ helo /\ ~didAuth /\ (tls \/ AllowInsecureAuth)

\* The validate closure of Auth on the pair (u, p), where the client meant the
\* pair (mu, mp). On success go-smtp remembers it too.
Validate(u, p, mu, mp) ==
    LET good == u \in Users /\ PasswordOf[u] = p IN
    /\ checked' = checked \cup {[user |-> u, password |-> p, tls |-> tls, ok |-> good,
                                 meant |-> <<mu, mp>>]}
    /\ IF good
       THEN /\ session' = [session EXCEPT !.username = u]
            /\ didAuth' = TRUE
            /\ UNCHANGED rejections
       ELSE /\ Record("auth", u, NoAddress, NoAddress)
            /\ UNCHANGED <<session, didAuth>>

AuthPlain(u, p) ==
    /\ MayAuth
    /\ Validate(u, p, u, p)
    /\ UNCHANGED <<listener, permitted, open, tls, helo, fromReceived, recipients, sasl,
                   delivered>>

\* AUTH LOGIN by a client that will say u and p: each at its prompt, or u along
\* with the command, as an initial response.
AuthLogin(u, p) ==
    /\ MayAuth
    /\ \E said \in {<<NoUser, u, p>>, <<u, p>>} :
          sasl' = [haveUser |-> FALSE, username |-> NoUser, said |-> said,
                   user |-> u, password |-> p]
    /\ UNCHANGED <<listener, permitted, lib, session, rejections, checked, delivered>>

\* Faulty variant: an initial response is thrown away and the username prompted
\* for, whatever came with the command.
PromptsFirst(l) == ~l.haveUser /\ Len(l.said) # 1

\* Next prompts for the username: it has none and got an empty response.
PromptsForUser(l) == ~l.haveUser /\ Head(l.said) = NoUser

\* loginServer.Next on the client's next response.
LoginNext ==
    /\ open /\ sasl # NoExchange /\ sasl.said # <<>>
    /\ LET rest == Tail(sasl.said) IN
       \/ /\ PromptsForUser(sasl)
          /\ sasl' = [sasl EXCEPT !.said = rest]
          /\ UNCHANGED <<session, didAuth, rejections, checked>>
       \/ /\ ~PromptsForUser(sasl) /\ ~sasl.haveUser
          /\ sasl' = [sasl EXCEPT !.haveUser = TRUE, !.username = Head(sasl.said),
                                  !.said = rest]
          /\ UNCHANGED <<session, didAuth, rejections, checked>>
       \/ /\ sasl.haveUser
          /\ Validate(sasl.username, Head(sasl.said), sasl.user, sasl.password)
          /\ sasl' = NoExchange
    /\ UNCHANGED <<listener, permitted, open, tls, helo, fromReceived, recipients, delivered>>

\* The client answers a prompt with "*" or loses the connection.
LoginCancel ==
    /\ open /\ sasl # NoExchange
    /\ sasl' = NoExchange
    /\ open' \in BOOLEAN
    /\ UNCHANGED <<listener, permitted, tls, helo, didAuth, fromReceived, recipients,
                   session, rejections, checked, delivered>>

-----------------------------------------------------------------------------
(***************************************************************************)
(* The envelope.                                                           *)
(***************************************************************************)
\* MAIL. go-smtp accepts one inside a transaction, which keeps its recipients.
Mail(a) ==
    /\ Command /\ helo
    /\ IF session.username = NoUser
       THEN /\ Record("mail", NoUser, session.from, NoAddress)
            /\ UNCHANGED <<session, fromReceived>>
       ELSE /\ session' = [session EXCEPT !.from = a]
            /\ fromReceived' = TRUE
            /\ UNCHANGED rejections
    /\ UNCHANGED <<listener, permitted, open, tls, helo, didAuth, recipients, sasl, checked,
                   delivered>>

\* Faulty variant: a recipient is added whether it matched or not.
AcceptsUnmatched(u, a) == u \in Users

\* Whether Rcpt finds a route of the session's user.
Matched(u, a) == Match(u, a) # NoRoute

Rcpt(a) ==
    /\ Command /\ helo /\ fromReceived /\ recipients < MaxRecipients
    /\ IF Matched(session.username, a)
       THEN /\ session' = [session EXCEPT !.rcpts =
                  Append(@, [addr |-> a, route |-> Match(session.username, a)])]
            /\ recipients' = recipients + 1
            /\ UNCHANGED rejections
       ELSE /\ Record("rcpt", session.username, session.from, a)
            /\ UNCHANGED <<session, recipients>>
    /\ UNCHANGED <<listener, permitted, open, tls, helo, didAuth, fromReceived, sasl, checked,
                   delivered>>

\* DATA: the message goes to the session's Data with the session's envelope; then
\* go-smtp resets, whatever the outcome.
Data ==
    /\ Command /\ helo /\ fromReceived /\ recipients > 0
    /\ Len(delivered) < MaxMessages
    /\ delivered' = Append(delivered, session)
    /\ ResetEnvelope
    /\ UNCHANGED <<listener, permitted, open, tls, helo, didAuth, sasl, rejections, checked>>

Next ==
    \/ Ehlo \/ StartTLS \/ Rset \/ Quit
    \/ \E u \in Names, p \in Passwords : AuthPlain(u, p) \/ AuthLogin(u, p)
    \/ LoginNext \/ LoginCancel
    \/ \E a \in Senders : Mail(a)
    \/ \E a \in Addresses : Rcpt(a)
    \/ Data

Spec == Init /\ [][Next]_vars

-----------------------------------------------------------------------------
(***************************************************************************)
(* What must hold.                                                         *)
(***************************************************************************)
\* The server never relays: every message that reached Data came from a client
\* that proved to be its user on this connection, from a permitted address, and
\* goes only to routes that user owns.
DeliveredIsAuthorised ==
    \A i \in DOMAIN delivered :
        /\ permitted
        /\ \E c \in checked : c.ok /\ c.user = delivered[i].username
        /\ \A r \in ToSet(delivered[i].rcpts) :
              \E rt \in Configured :
                  rt.name = r.route /\ rt.username = delivered[i].username

\* newSMTPServer: "AUTH requires STARTTLS first unless the listener opts into
\* insecure AUTH." Who a TLS connection acts for was proved under TLS, and no
\* credential is looked at in the clear, unless the listener says it may be.
CredentialsUnderTLS ==
    \/ listener.tls = "none"
    \/ listener.tls = "starttls" /\ listener.insecureAuth
    \/ \A c \in checked : c.tls

\* A client that was authenticated in the clear and then upgrades has to prove
\* itself again: under TLS the session's user is one that was checked under TLS.
UpgradeForgets ==
    tls /\ session # NoSession /\ session.username # NoUser =>
        \E c \in checked : c.ok /\ c.tls /\ c.user = session.username

\* The session and go-smtp agree: on whether the client is authenticated, on
\* whether there is a transaction to have a sender (which may be the null one), and
\* on how many recipients there are. So Data never meets an empty or a left-over
\* envelope.
EnvelopesAgree ==
    session # NoSession =>
        /\ didAuth <=> session.username # NoUser
        /\ session.from # NoAddress => fromReceived
        /\ recipients = Len(session.rcpts)
        /\ session.rcpts # <<>> => fromReceived

\* LOGIN reads the pair the client meant, whether the username came as an initial
\* response or at the prompt: a password is never taken for a username, and a
\* client that has said both is not asked for more.
LoginReadsThePair ==
    /\ \A c \in checked : c.meant = <<c.user, c.password>>
    /\ sasl # NoExchange => sasl.said # <<>>

\* A refusal is recorded in its context: before authentication none but what the
\* client claims, a refused recipient with the user it was for.
RejectionsHaveContext ==
    \A r \in rejections :
        /\ r.stage = "connect" => ~permitted
        /\ r.stage = "mail" => r.username = NoUser /\ r.from = NoAddress
        /\ r.stage = "rcpt" => r.username \in Users /\ Match(r.username, r.rcpt) = NoRoute

\* Case and "+tag" do not matter (Match, stripTag): within one envelope, addresses
\* of one mailbox go to one route, and of two such addresses none is refused to a
\* user while the other is accepted, unless a route of the user's names a whole
\* address, which then is matched tag and all.
MailboxesStayTogether ==
    \A i \in DOMAIN delivered :
        LET u == delivered[i].username IN
        (\A rt \in Configured : rt.username = u => rt.rcpt = <<>>) =>
            \A r \in ToSet(delivered[i].rcpts) :
                /\ \A s \in ToSet(delivered[i].rcpts) :
                      MailboxOf[r.addr] = MailboxOf[s.addr] => r.route = s.route
                /\ \A j \in rejections :
                      j.stage = "rcpt" /\ j.username = u => MailboxOf[r.addr] # MailboxOf[j.rcpt]
=============================================================================
