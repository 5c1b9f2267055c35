-------------------------------- MODULE Config --------------------------------
(***************************************************************************)
(* internal/config: the defaults a configuration file is completed with    *)
(* and the checks it must pass. A file is a record with the fields the     *)
(* checks look at; None is a field that is not set. Whether a set of       *)
(* strings is non-empty or parses is a BOOLEAN here; lists keep their      *)
(* order.                                                                  *)
(***************************************************************************)
EXTENDS Integers, Sequences, SequencesExt

None == "none set"

TLSModes  == {"none", "starttls", "implicit"}
CertModes == {"none", "files", "auto"}
Modes     == {"async", "sync"}

\* What a file is decoded into.
Listener == [address : STRING, tls : STRING]
TLS      == [mode : STRING, files : BOOLEAN, hostnames : BOOLEAN, provider : STRING,
             token : BOOLEAN]
Route    == [name : STRING, username : STRING, password : STRING, bcrypt : STRING,
             webhook : BOOLEAN, mode : STRING]
File     == [parses : BOOLEAN, cidrs : BOOLEAN, logEnabled : BOOLEAN, web : BOOLEAN,
             listeners : Seq(Listener), tls : TLS, mode : STRING, timeout : Int,
             maxRetries : Int, retryBackoff : Int, concurrency : Int, retentionDays : Int,
             routes : Seq(Route)]

-----------------------------------------------------------------------------
(***************************************************************************)
(* Defaults.                                                               *)
(***************************************************************************)
Or(value, default) == IF value = None THEN default ELSE value

OrZero(number, default) == IF number = 0 THEN default ELSE number

\* Without listeners there is a plain one; a listener without a mode is plain.
DefaultedListeners(ls) ==
    IF ls = <<>> THEN <<[address |-> ":2525", tls |-> "none"]>>
    ELSE [i \in DOMAIN ls |-> [address |-> ls[i].address, tls |-> Or(ls[i].tls, "none")]]

\* An automatic certificate comes from Cloudflare unless another provider is named.
DefaultedTLS(t) ==
    LET mode == Or(t.mode, "none") IN
    [t EXCEPT !.mode = mode,
              !.provider = IF mode = "auto" THEN Or(@, "cloudflare") ELSE @]

\* applyDefaults. A negative number is not a missing one.
Defaulted(c) ==
    [c EXCEPT !.listeners = DefaultedListeners(@),
              !.tls = DefaultedTLS(@),
              !.mode = Or(@, "async"),
              !.timeout = OrZero(@, 30),
              !.maxRetries = OrZero(@, 5),
              !.retryBackoff = OrZero(@, 10),
              !.concurrency = OrZero(@, 4)]

\* Route.EffectiveMode.
EffectiveMode(r, default) ==
    CASE r.mode # None    -> r.mode
      [] r.mode = None /\ default # None -> default
      [] OTHER            -> "async"

-----------------------------------------------------------------------------
(***************************************************************************)
(* Checks.                                                                 *)
(***************************************************************************)
\* Faulty variant: only implicit TLS needs a certificate.
NeedsCertImplicit(l) == l.tls = "implicit"

\* Listener.NeedsCert.
NeedsCert(l) == l.tls \in {"starttls", "implicit"}

needsCert(c) == \E i \in DOMAIN c.listeners : NeedsCert(c.listeners[i])

\* Faulty variant: the token is looked for when it is needed.
ValidCertSourceTokenUnseen(c, envToken) ==
    CASE c.tls.mode = "none"  -> ~needsCert(c)
      [] c.tls.mode = "files" -> c.tls.files
      [] c.tls.mode = "auto"  -> c.tls.hostnames /\ c.tls.provider = "cloudflare"
      [] OTHER -> FALSE

\* The certificate source: none is enough, both files are named, or the names, the
\* provider and a token (in the file or in the environment) are there.
ValidCertSource(c, envToken) ==
    CASE c.tls.mode = "none"  -> ~needsCert(c)
      [] c.tls.mode = "files" -> c.tls.files
      [] c.tls.mode = "auto"  -> /\ c.tls.hostnames
                                 /\ c.tls.provider = "cloudflare"
                                 /\ c.tls.token \/ envToken
      [] OTHER -> FALSE

validateTLS(c, envToken) ==
    /\ \A i \in DOMAIN c.listeners :
          c.listeners[i].address # None /\ c.listeners[i].tls \in TLSModes
    /\ ValidCertSource(c, envToken)

\* Faulty variants: the credential of a username is not compared; the message log
\* is not asked for.
ConsistentWithAny(r, s) == TRUE
StorableAnyway(r, c) == TRUE

\* Two routes of one username have one credential.
Consistent(r, s) ==
    r.username = s.username =>
        r.password = s.password /\ r.bcrypt = s.bcrypt

\* Mail of a route without a webhook has to be stored.
Storable(r, c) == r.webhook \/ c.logEnabled

validRoute(r, c) ==
    /\ r.name # None /\ r.username # None
    /\ (r.password = None) # (r.bcrypt = None)
    /\ Storable(r, c)
    /\ EffectiveMode(r, c.mode) \in Modes

\* Config.Validate.
Validate(c, envToken) ==
    /\ c.cidrs
    /\ validateTLS(c, envToken)
    /\ c.routes # <<>>
    /\ \A i \in DOMAIN c.routes :
          /\ validRoute(c.routes[i], c)
          /\ \A j \in 1 .. i - 1 :
                /\ c.routes[i].name # c.routes[j].name
                /\ Consistent(c.routes[i], c.routes[j])
=============================================================================
