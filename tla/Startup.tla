------------------------------- MODULE Startup -------------------------------
(***************************************************************************)
(* The life of one smtp-bridge process, from its configuration file to its *)
(* exit code: runServer of cmd/smtp-bridge with config.Load, store.Open,   *)
(* tlsconf.Build, server.New and Serve. Everything outside it may fail     *)
(* where it is used, and a signal may come at any time.                    *)
(***************************************************************************)
EXTENDS Config

CONSTANTS
    Configs,        \* configuration files the process may be given
    Documented      \* those the documents say it can be run with

ASSUME ConfigsAssumption == Documented \subseteq Configs /\ Configs \subseteq File

VARIABLES
    config,         \* the file; what Load made of it once it is loaded
    check,          \* the -check flag
    envToken,       \* $CLOUDFLARE_API_TOKEN is set
    pc,             \* where runServer is
    exit,           \* "none", or how the process ended: by its code or otherwise
    store,          \* "closed" or "open"
    schema,         \* the database file: "absent", "old" (no port columns), "new"
    worker, purge,  \* goroutines started
    cert,           \* there is a certificate for the listeners
    users,          \* the users map of the server
    web,            \* the web server: "off", "up" or "failed"
    opened,         \* listeners bound so far, in their order
    stopped,        \* those of them that have stopped with an error
    caught,         \* signals are caught (NotifyContext)
    signalled,      \* one was
    faulted         \* something outside the process has failed

started == <<store, schema, worker, purge, cert, users, web>>
vars == <<config, check, envToken, pc, exit, started, opened, stopped, caught, signalled, faulted>>

Listeners == DOMAIN config.listeners

\* Type invariant. What runs never meets an unset or unknown mode, nor a missing
\* number (applyDefaults before Validate).
TypeOK ==
    /\ check \in BOOLEAN /\ envToken \in BOOLEAN
    /\ pc \in {"load", "open", "worker", "tls", "new", "web", "listen", "serving", "end"}
    /\ exit \in {"none", "0", "1", "killed", "panic"} /\ (exit # "none" <=> pc = "end")
    /\ store \in {"closed", "open"} /\ schema \in {"absent", "old", "new"}
    /\ worker \in BOOLEAN /\ purge \in BOOLEAN /\ cert \in BOOLEAN
    /\ web \in {"off", "up", "failed"}
    /\ opened \in 0 .. Len(config.listeners) /\ stopped \subseteq 1 .. opened
    /\ caught \in BOOLEAN /\ signalled \in BOOLEAN /\ faulted \in BOOLEAN
    /\ store = "open" =>
          /\ config.tls.mode \in CertModes
          /\ \A i \in Listeners : config.listeners[i].tls \in TLSModes
          /\ \A i \in DOMAIN config.routes :
                EffectiveMode(config.routes[i], config.mode) \in Modes
          /\ 0 \notin {config.timeout, config.maxRetries, config.retryBackoff,
                       config.concurrency}

Init ==
    /\ config \in Configs
    /\ check \in BOOLEAN /\ envToken \in BOOLEAN
    /\ pc = "load" /\ exit = "none"
    /\ store = "closed" /\ schema \in {"absent", "old", "new"}
    /\ worker = FALSE /\ purge = FALSE /\ cert = FALSE
    /\ users = <<>> /\ web = "off" /\ opened = 0 /\ stopped = {}
    /\ caught = FALSE /\ signalled = FALSE /\ faulted = FALSE

-----------------------------------------------------------------------------
\* The process ends, and with it all it runs; the file stays.
End(code) ==
    /\ pc' = "end" /\ exit' = code
    /\ store' = "closed" /\ worker' = FALSE /\ purge' = FALSE
    /\ web' = "off" /\ opened' = 0 /\ stopped' = {}
    /\ UNCHANGED <<check, envToken, schema, cert, users, caught, signalled>>

\* Something outside has failed: os.Exit(1).
Fail == End("1") /\ faulted' = TRUE /\ UNCHANGED config

\* config.Load: a file that is read is decoded, completed and validated.
Accepted(c) == c.parses /\ Validate(Defaulted(c), envToken)

\* The file may be unreadable; -check stops here.
Load ==
    /\ pc = "load"
    /\ \/ Fail
       \/ /\ config' = Defaulted(config)
          /\ \/ ~Accepted(config) /\ End("1") /\ UNCHANGED faulted
             \/ Accepted(config) /\ check /\ End("0") /\ UNCHANGED faulted
             \/ /\ Accepted(config) /\ ~check
                /\ pc' = "open"
                /\ UNCHANGED <<check, envToken, exit, started, opened, stopped, caught, signalled, faulted>>

\* store.Open and migrate. CREATE TABLE IF NOT EXISTS leaves an old table as it is,
\* and an ALTER TABLE that fails for another reason than a column that is already
\* there goes unnoticed.
OpenStore ==
    /\ pc = "open"
    /\ \/ Fail
       \/ /\ schema' \in IF schema = "old" THEN {"old", "new"} ELSE {"new"}
          /\ faulted' = (faulted \/ schema' = "old")
          /\ store' = "open"
          /\ pc' = "worker"
          /\ UNCHANGED <<config, check, envToken, exit, worker, purge, cert, users, web,
                         opened, stopped, caught, signalled>>

\* Signals are caught from here on; the worker delivers, and the purge runs, before
\* anything listens.
StartWorker ==
    /\ pc = "worker"
    /\ caught' = TRUE
    /\ worker' = TRUE
    /\ purge' = (config.retentionDays > 0)
    /\ pc' = "tls"
    /\ UNCHANGED <<config, check, envToken, exit, store, schema, cert, users, web, opened, stopped,
                   signalled, faulted>>

\* Faulty variant: the order gets a context of its own.
NeverCancelled == FALSE

\* The context the ACME order runs under is cancelled.
Cancelled == signalled

\* tlsconf.Build: the files may not load; the ACME order may fail, and may be
\* cancelled. A missing token is an error of its own.
Build ==
    /\ pc = "tls"
    /\ \/ config.tls.mode # "none" /\ Fail
       \/ /\ config.tls.mode = "auto"
          /\ Cancelled \/ ~(config.tls.token \/ envToken)
          /\ End("1") /\ UNCHANGED <<config, faulted>>
       \/ /\ config.tls.mode = "auto" => config.tls.token \/ envToken
          /\ cert' = (config.tls.mode # "none")
          /\ pc' = "new"
          /\ UNCHANGED <<config, check, envToken, exit, store, schema, worker, purge, users,
                         web, opened, stopped, caught, signalled, faulted>>

\* The credential the users map ends up with: that of the last route of the name.
CredentialOf(u) ==
    LET r == config.routes[SelectLastInSeq(config.routes, LAMBDA x : x.username = u)]
    IN [password |-> r.password, bcrypt |-> r.bcrypt]

\* server.New. A bad CIDR is an error.
NewServer ==
    /\ pc = "new"
    /\ IF config.cidrs
       THEN /\ users' = [u \in {r.username : r \in ToSet(config.routes)} |-> CredentialOf(u)]
            /\ pc' = "web"
            /\ UNCHANGED <<config, check, envToken, exit, store, schema, worker, purge, cert,
                           web, opened, stopped, caught, signalled, faulted>>
       ELSE End("1") /\ UNCHANGED <<config, faulted>>

\* The web server gets a goroutine of its own.
StartWeb ==
    /\ pc = "web"
    /\ web' = IF config.web THEN "up" ELSE "off"
    /\ pc' = "listen"
    /\ UNCHANGED <<config, check, envToken, exit, store, schema, worker, purge, cert, users,
                   opened, stopped, caught, signalled, faulted>>

\* Serve: the next listener is bound, which fails when an earlier one has its
\* address, and may fail anyway. The first failure closes the others.
Listen ==
    /\ pc = "listen" /\ opened < Len(config.listeners)
    /\ \/ Fail
       \/ LET taken == {config.listeners[i].address : i \in 1 .. opened} IN
          IF config.listeners[opened + 1].address \in taken
          THEN End("1") /\ UNCHANGED <<config, faulted>>
          ELSE /\ opened' = opened + 1
               /\ UNCHANGED <<config, check, envToken, pc, exit, started, stopped, caught,
                              signalled, faulted>>

\* Serve returns.
AllBound ==
    /\ pc = "listen" /\ opened = Len(config.listeners)
    /\ pc' = "serving"
    /\ UNCHANGED <<config, check, envToken, exit, started, opened, stopped, caught, signalled,
                   faulted>>

\* A caught signal: listeners and web server are closed, then the store.
Shutdown ==
    /\ pc = "serving" /\ signalled
    /\ End("0") /\ UNCHANGED <<config, faulted>>

RunServer ==
    \/ Load \/ OpenStore \/ StartWorker \/ Build \/ NewServer \/ StartWeb
    \/ Listen \/ AllBound \/ Shutdown

-----------------------------------------------------------------------------
\* SIGINT or SIGTERM: until it is caught, it kills.
Signal ==
    /\ pc # "end" /\ ~signalled
    /\ IF caught
       THEN /\ signalled' = TRUE
            /\ UNCHANGED <<config, check, envToken, pc, exit, started, opened, stopped, caught,
                           faulted>>
       ELSE End("killed") /\ UNCHANGED <<config, faulted>>

\* The web server cannot listen, or a listener stops accepting: an entry in the
\* process log, and the rest goes on.
WebFails ==
    /\ web = "up"
    /\ web' = "failed" /\ faulted' = TRUE
    /\ UNCHANGED <<config, check, envToken, pc, exit, store, schema, worker, purge, cert, users,
                   opened, stopped, caught, signalled>>

ListenerStops ==
    /\ \E i \in 1 .. opened \ stopped : stopped' = stopped \cup {i}
    /\ faulted' = TRUE
    /\ UNCHANGED <<config, check, envToken, pc, exit, started, opened, caught, signalled>>

\* drain makes a channel of a negative size: the first tick ends the process.
WorkerPanics ==
    /\ worker /\ config.concurrency < 0
    /\ End("panic") /\ UNCHANGED <<config, faulted>>

Next == RunServer \/ Signal \/ WebFails \/ ListenerStops \/ WorkerPanics

Spec == Init /\ [][Next]_vars

\* runServer runs. An ACME order need not end, unless it is cancelled.
FairSpec ==
    Spec /\ WF_vars(RunServer /\ (pc = "tls" /\ config.tls.mode = "auto" => Cancelled))

-----------------------------------------------------------------------------
(***************************************************************************)
(* What must hold.                                                         *)
(***************************************************************************)
\* server.New's "tlsConfig ... may be nil only if every listener is plain": no
\* listener accepts connections before what it needs is there, although checks,
\* certificate and listener are three packages' business (validateTLS, Build, Serve).
ServedIsReady ==
    opened > 0 =>
        /\ store = "open" /\ worker
        /\ \A i \in 1 .. opened : config.listeners[i].tls # "none" => cert

\* server.New: "config validation guarantees a consistent password across them".
\* The map keeps one credential per username, and it is the one of every route a
\* client of that name may then be routed to.
UsersMatchRoutes ==
    opened > 0 =>
        \A r \in ToSet(config.routes) :
            users[r.username] = [password |-> r.password, bcrypt |-> r.bcrypt]

\* What the other modules assume of a configuration holds of every one that is
\* run, negative numbers apart: capture-only routes are stored (Submission), names
\* are distinct (Router), usernames are not empty (SmtpSession), there is a slot and
\* an attempt (DeliveryWorker).
AssumptionsHold ==
    store = "open" =>
        /\ \A i, j \in DOMAIN config.routes :
              config.routes[i].name = config.routes[j].name => i = j
        /\ \A r \in ToSet(config.routes) :
              r.username # None /\ (r.webhook \/ config.logEnabled)
        /\ config.concurrency >= 0 => config.concurrency >= 1

\* A configuration that -check calls OK starts: the process fails only for reasons
\* outside it, for a signal, or for the two mistakes the checks do not look for, an
\* address given twice and a negative concurrency.
CheckPredictsStart ==
    exit \in {"1", "panic"} /\ Validate(config, envToken) /\ config.parses =>
        \/ faulted \/ signalled
        \/ \E i, j \in Listeners :
              i # j /\ config.listeners[i].address = config.listeners[j].address
        \/ config.concurrency < 0

\* A signal ends the process, wherever it is in starting up: waiting for a
\* certificate, between two listeners, or serving.
SignalEndsIt == signalled ~> exit # "none"

-----------------------------------------------------------------------------
(***************************************************************************)
(* What the documents say and the code does not do (see README.md).        *)
(***************************************************************************)
\* README, Quick start: copy config.example.yaml, set a password and a URL, run. It
\* starts, unless something outside it fails.
DocumentedStarts ==
    exit = "1" /\ config \in {Defaulted(c) : c \in Documented} => faulted \/ signalled
=============================================================================
