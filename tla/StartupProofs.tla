----------------------------- MODULE StartupProofs -----------------------------
(***************************************************************************)
(* Proofs about Startup, for every configuration file: what the checks of  *)
(* internal/config are worth to the steps of runServer that come later.    *)
(***************************************************************************)
EXTENDS Startup, NatLemmas, SequenceTheorems

-----------------------------------------------------------------------------
(***************************************************************************)
(* Defaults and checks.                                                    *)
(***************************************************************************)
\* The lists of a file are sequences, before and after Load completes it.
Lists(c) ==
    /\ Len(c.listeners) \in Nat /\ DOMAIN c.listeners = 1 .. Len(c.listeners)
    /\ Len(c.routes) \in Nat /\ DOMAIN c.routes = 1 .. Len(c.routes)

Numbers(c) == {c.timeout, c.maxRetries, c.retryBackoff, c.concurrency}

\* Once completed, no number in it is zero.
Complete(c) == Lists(c) /\ Numbers(c) \subseteq Int \ {0}

LEMMA FileLemma ==
    ASSUME NEW c \in File
    PROVE  Lists(c)
<1>1. c.listeners \in Seq(Listener) /\ c.routes \in Seq(Route)
    BY DEF File
<1> QED
    BY <1>1, LenProperties DEF Lists

LEMMA DefaultedLemma ==
    ASSUME NEW c \in File
    PROVE  Complete(Defaulted(c)) /\ Defaulted(c).parses = c.parses
<1> DEFINE ls == c.listeners
           ds == DefaultedListeners(ls)
<1>1. Len(ds) \in Nat /\ DOMAIN ds = 1 .. Len(ds)
    <2>1. CASE ls = <<>>
        BY <2>1 DEF DefaultedListeners
    <2>2. CASE ls # <<>>
        <3> DEFINE l(i) == [address |-> ls[i].address, tls |-> Or(ls[i].tls, "none")]
                   L == {l(i) : i \in DOMAIN ls}
                   f == [i \in DOMAIN ls |-> l(i)]
        <3>1. ds = f
            BY <2>2 DEF DefaultedListeners
        <3> HIDE DEF l
        <3>2. f \in [1 .. Len(ls) -> L] /\ Len(ls) \in Nat
            BY FileLemma DEF Lists
        <3> HIDE DEF L, f
        <3>3. f \in Seq(L)
            BY <3>2, SeqDef
        <3> QED
            BY <3>1, <3>3, LenProperties
    <2> QED
        BY <2>1, <2>2
<1>2. /\ OrZero(c.timeout, 30) \in Int \ {0} /\ OrZero(c.maxRetries, 5) \in Int \ {0}
      /\ OrZero(c.retryBackoff, 10) \in Int \ {0} /\ OrZero(c.concurrency, 4) \in Int \ {0}
    BY DEF File, OrZero
<1>3. /\ Defaulted(c).listeners = ds /\ Defaulted(c).routes = c.routes
      /\ Defaulted(c).parses = c.parses
      /\ Numbers(Defaulted(c)) = {OrZero(c.timeout, 30), OrZero(c.maxRetries, 5),
                                  OrZero(c.retryBackoff, 10), OrZero(c.concurrency, 4)}
    BY DEF Defaulted, File, Numbers
<1> HIDE DEF ds
<1> QED
    BY <1>1, <1>2, <1>3, FileLemma DEF Complete, Lists

\* Two routes of a validated file are told apart by their names, and share a
\* credential if they share a username: the loops of Validate look at every pair.
LEMMA PairLemma ==
    ASSUME NEW c, Lists(c), NEW env, Validate(c, env), NEW i \in DOMAIN c.routes,
           NEW j \in DOMAIN c.routes
    PROVE  /\ c.routes[i].name = c.routes[j].name => i = j
           /\ Consistent(c.routes[i], c.routes[j])
<1>1. i \in Nat /\ j \in Nat /\ i >= 1 /\ j >= 1
    BY DEF Lists
<1>2. CASE j < i
    <2>1. j \in 1 .. i - 1
        BY <1>1, <1>2
    <2> QED
        BY <2>1 DEF Validate
<1>3. CASE i < j
    <2>1. i \in 1 .. j - 1
        BY <1>1, <1>3
    <2> QED
        BY <2>1 DEF Validate, Consistent
<1>4. CASE i = j
    BY <1>4 DEF Consistent
<1> QED
    BY <1>1, <1>2, <1>3, <1>4

-----------------------------------------------------------------------------
(***************************************************************************)
(* The invariant of runServer: what is settled at each of its points.      *)
(***************************************************************************)
\* The file has been loaded, and accepted; the store is open; the worker runs; the
\* certificate is there; the users map is there; listeners are bound.
Past(points) == pc \in points \cup {"serving"}

Loaded    == Past({"open", "worker", "tls", "new", "web", "listen"})
Opened    == Past({"worker", "tls", "new", "web", "listen"})
Working   == Past({"tls", "new", "web", "listen"})
Certified == Past({"new", "web", "listen"})
Populated == Past({"web", "listen"})
Listening == Past({"listen"})

\* The credential of a route.
Credential(r) == [password |-> r.password, bcrypt |-> r.bcrypt]

StartupInv ==
    /\ pc = "load" => config \in File
    /\ Lists(config)
    /\ Loaded => config.parses /\ Validate(config, envToken) /\ Complete(config)
    /\ store = "open" <=> Opened
    /\ Working => worker
    /\ Certified => (cert <=> config.tls.mode # "none")
    /\ Populated => \A i \in DOMAIN config.routes :
                       users[config.routes[i].username] = Credential(config.routes[i])
    /\ opened > 0 => Listening
    /\ web = "up" => pc # "end"
    /\ pc = "end" => CheckPredictsStart

\* Types without what TypeOK says of the configuration.
StateOK ==
    /\ check \in BOOLEAN /\ envToken \in BOOLEAN
    /\ pc \in {"load", "open", "worker", "tls", "new", "web", "listen", "serving", "end"}
    /\ exit \in {"none", "0", "1", "killed", "panic"} /\ (exit # "none" <=> pc = "end")
    /\ store \in {"closed", "open"} /\ schema \in {"absent", "old", "new"}
    /\ worker \in BOOLEAN /\ purge \in BOOLEAN /\ cert \in BOOLEAN
    /\ web \in {"off", "up", "failed"}
    /\ opened \in 0 .. Len(config.listeners) /\ stopped \subseteq 1 .. opened
    /\ caught \in BOOLEAN /\ signalled \in BOOLEAN /\ faulted \in BOOLEAN

IInv == StateOK /\ StartupInv

\* What a validated and completed file holds: no setting of it is unset or unknown.
LEMMA ValidLemma ==
    ASSUME NEW c, Lists(c), NEW env, Validate(c, env)
    PROVE  /\ c.tls.mode \in CertModes
           /\ \A i \in DOMAIN c.listeners : c.listeners[i].tls \in TLSModes
           /\ \A i \in DOMAIN c.listeners :
                 c.tls.mode = "none" => c.listeners[i].tls = "none"
           /\ \A i \in DOMAIN c.routes : EffectiveMode(c.routes[i], c.mode) \in Modes
           /\ c.tls.mode = "auto" => c.tls.token \/ env
           /\ c.cidrs
<1>1. validateTLS(c, env) /\ c.cidrs /\ \A i \in DOMAIN c.routes : validRoute(c.routes[i], c)
    BY DEF Validate
<1>2. /\ \A i \in DOMAIN c.listeners : c.listeners[i].tls \in TLSModes
      /\ ValidCertSource(c, env)
    BY <1>1 DEF validateTLS
<1>3. /\ c.tls.mode \in CertModes
      /\ c.tls.mode = "none" => ~needsCert(c)
      /\ c.tls.mode = "auto" => c.tls.token \/ env
    BY <1>2 DEF ValidCertSource, CertModes
<1>4. \A i \in DOMAIN c.listeners : c.tls.mode = "none" => c.listeners[i].tls = "none"
    BY <1>2, <1>3 DEF needsCert, NeedsCert, TLSModes
<1> QED
    BY <1>1, <1>2, <1>3, <1>4 DEF validRoute

LEMMA InitIInv == Init => IInv
<1> SUFFICES ASSUME Init PROVE IInv
    OBVIOUS
<1>1. config \in File /\ Lists(config)
    BY FileLemma, ConfigsAssumption DEF Init
<1>2. StateOK
    <2>1. 0 \in 0 .. Len(config.listeners)
        BY <1>1 DEF Lists
    <2> QED
        BY <2>1 DEF Init, StateOK
<1> QED
    BY <1>1, <1>2 DEF Init, IInv, StartupInv, Past, Loaded, Opened, Working, Certified,
                      Populated, Listening

\* The process ends.
LEMMA EndStep ==
    ASSUME IInv, NEW code \in {"0", "1", "killed", "panic"}, End(code), Lists(config)',
           faulted' \in BOOLEAN, CheckPredictsStart'
    PROVE  IInv'
<1>1. /\ pc' = "end" /\ exit' = code /\ store' = "closed" /\ worker' = FALSE /\ purge' = FALSE
      /\ web' = "off" /\ opened' = 0 /\ stopped' = {}
      /\ UNCHANGED <<check, envToken, schema, cert, users, caught, signalled>>
    BY DEF End
<1>2. StateOK'
    <2>1. 0 \in 0 .. Len(config'.listeners)
        BY DEF Lists
    <2> QED
        BY <1>1, <2>1 DEF IInv, StateOK
<1> QED
    BY <1>1, <1>2 DEF IInv, StartupInv, Past, Loaded, Opened, Working, Certified,
                      Populated, Listening

\* A failure outside the process explains its end.
LEMMA FailStep ==
    ASSUME IInv, Fail
    PROVE  IInv'
<1>1. End("1") /\ faulted' = TRUE /\ UNCHANGED config
    BY DEF Fail
<1>2. CheckPredictsStart' /\ Lists(config)'
    BY <1>1 DEF CheckPredictsStart, IInv, StartupInv
<1> QED
    BY <1>1, <1>2, EndStep

LEMMA LoadStep ==
    ASSUME IInv, Load
    PROVE  IInv'
<1> USE DEF IInv, Past, Loaded, Opened, Working, Certified, Populated, Listening
<1>1. config \in File /\ pc = "load"
    BY DEF Load, StartupInv
<1>2. CASE Fail
    BY <1>2, FailStep
<1>3. CASE config' = Defaulted(config) /\ UNCHANGED faulted /\ ~Accepted(config) /\ End("1")
    <2>1. Lists(config)' /\ config'.parses = config.parses
        BY <1>1, <1>3, DefaultedLemma DEF Complete
    <2>2. ~(config'.parses /\ Validate(config', envToken'))
        BY <1>3, <2>1 DEF Accepted, End
    <2>3. CheckPredictsStart'
        BY <2>2 DEF CheckPredictsStart
    <2> QED
        BY <1>3, <2>1, <2>3, EndStep DEF StateOK
<1>4. CASE config' = Defaulted(config) /\ UNCHANGED faulted /\ End("0")
    <2>1. Lists(config)'
        BY <1>1, <1>4, DefaultedLemma DEF Complete
    <2>2. CheckPredictsStart'
        BY <1>4 DEF CheckPredictsStart, End
    <2> QED
        BY <1>4, <2>1, <2>2, EndStep DEF StateOK
<1>5. CASE /\ config' = Defaulted(config) /\ Accepted(config)
           /\ pc' = "open"
           /\ UNCHANGED <<check, envToken, exit, started, opened, stopped, caught, signalled, faulted>>
    <2>1. Complete(config)' /\ Lists(config)' /\ config'.parses
        BY <1>1, <1>5, DefaultedLemma DEF Complete, Accepted
    <2>2. Validate(config, envToken)'
        BY <1>5 DEF Accepted
    <2>3. opened = 0 /\ stopped = {} /\ store # "open"
        BY <1>1 DEF StateOK, StartupInv
    <2>4. StateOK'
        BY <1>1, <1>5, <2>1, <2>3 DEF StateOK, Lists, started
    <2> QED
        BY <1>5, <2>1, <2>2, <2>3, <2>4 DEF StartupInv, started
<1> QED
    BY <1>1, <1>2, <1>3, <1>4, <1>5 DEF Load

\* The steps between loading and listening.
LEMMA SetUpStep ==
    ASSUME IInv, OpenStore \/ StartWorker \/ StartWeb \/ AllBound
    PROVE  IInv'
<1> USE DEF IInv, Past, Loaded, Opened, Working, Certified, Populated, Listening, started
<1>1. CASE OpenStore
    <2>1. CASE Fail
        BY <2>1, FailStep
    <2>2. CASE ~Fail
        <3>1. StateOK'
            BY <1>1, <2>2 DEF OpenStore, StateOK
        <3> QED
            BY <1>1, <2>2, <3>1 DEF OpenStore, StartupInv
    <2> QED
        BY <2>1, <2>2
<1>2. CASE StartWorker
    <2>1. StateOK'
        BY <1>2 DEF StartWorker, StateOK
    <2> QED
        BY <1>2, <2>1 DEF StartWorker, StartupInv
<1>3. CASE StartWeb
    <2>1. StateOK'
        BY <1>3 DEF StartWeb, StateOK
    <2> QED
        BY <1>3, <2>1 DEF StartWeb, StartupInv
<1>4. CASE AllBound
    <2>1. StateOK'
        BY <1>4 DEF AllBound, StateOK
    <2> QED
        BY <1>4, <2>1 DEF AllBound, StartupInv
<1> QED
    BY <1>1, <1>2, <1>3, <1>4

LEMMA BuildStep ==
    ASSUME IInv, Build
    PROVE  IInv'
<1> USE DEF IInv, Past, Loaded, Opened, Working, Certified, Populated, Listening
<1>1. /\ pc = "tls" /\ Lists(config) /\ Validate(config, envToken)
      /\ config.tls.mode = "auto" => config.tls.token \/ envToken
    BY ValidLemma DEF Build, StartupInv
<1>2. CASE Fail
    BY <1>2, FailStep
<1>3. CASE /\ config.tls.mode = "auto"
           /\ Cancelled \/ ~(config.tls.token \/ envToken)
           /\ End("1") /\ UNCHANGED <<config, faulted>>
    <2>1. signalled'
        BY <1>1, <1>3 DEF Cancelled, End
    <2>2. CheckPredictsStart'
        BY <2>1 DEF CheckPredictsStart
    <2> QED
        BY <1>1, <1>3, <2>2, EndStep DEF StateOK
<1>4. CASE /\ cert' = (config.tls.mode # "none") /\ pc' = "new"
           /\ UNCHANGED <<config, check, envToken, exit, store, schema, worker, purge, users,
                          web, opened, stopped, caught, signalled, faulted>>
    <2>1. StateOK'
        BY <1>1, <1>4 DEF StateOK
    <2> QED
        BY <1>1, <1>4, <2>1 DEF StartupInv
<1> QED
    BY <1>1, <1>2, <1>3, <1>4 DEF Build

\* The users map has the credential of the last route of a name, which is that of
\* every route of the name.
LEMMA CredentialLemma ==
    ASSUME Lists(config), Validate(config, envToken), NEW i \in DOMAIN config.routes
    PROVE  CredentialOf(config.routes[i].username) = Credential(config.routes[i])
<1> DEFINE u == config.routes[i].username
           I == {j \in 1 .. Len(config.routes) : config.routes[j].username = u}
           last == Max(I)
<1>1. Len(config.routes) \in Nat /\ DOMAIN config.routes = 1 .. Len(config.routes)
    BY DEF Lists
<1>2. i \in I /\ I \in SUBSET (0 .. Len(config.routes))
    BY <1>1
<1>3. last \in I
    <2> HIDE DEF I
    <2> QED
        BY <1>1, <1>2, MaxLemma
<1>4. CredentialOf(u) = Credential(config.routes[last])
    BY <1>2 DEF CredentialOf, SelectLastInSeq, Credential
<1> HIDE DEF last
<1>5. Consistent(config.routes[last], config.routes[i])
    BY <1>1, <1>3, PairLemma
<1> QED
    BY <1>3, <1>4, <1>5 DEF Consistent, Credential

LEMMA NewServerStep ==
    ASSUME IInv, NewServer
    PROVE  IInv'
<1> USE DEF IInv, Past, Loaded, Opened, Working, Certified, Populated, Listening
<1>1. pc = "new" /\ Lists(config) /\ Validate(config, envToken) /\ config.cidrs
    BY ValidLemma DEF NewServer, StartupInv
<1>2. /\ users' = [u \in {r.username : r \in ToSet(config.routes)} |-> CredentialOf(u)]
      /\ pc' = "web"
      /\ UNCHANGED <<config, check, envToken, exit, store, schema, worker, purge, cert,
                     web, opened, stopped, caught, signalled, faulted>>
    BY <1>1 DEF NewServer
<1>3. ASSUME NEW i \in DOMAIN config.routes
      PROVE  users'[config.routes[i].username] = Credential(config.routes[i])
    <2>1. config.routes[i].username \in {r.username : r \in ToSet(config.routes)}
        BY DEF ToSet
    <2> QED
        BY <1>1, <1>2, <2>1, CredentialLemma
<1>4. StateOK'
    BY <1>1, <1>2 DEF StateOK
<1> QED
    BY <1>1, <1>2, <1>3, <1>4 DEF StartupInv

LEMMA ListenStep ==
    ASSUME IInv, Listen
    PROVE  IInv'
<1> USE DEF IInv, Past, Loaded, Opened, Working, Certified, Populated, Listening
<1>1. /\ pc = "listen" /\ Lists(config) /\ opened \in 0 .. Len(config.listeners)
      /\ opened < Len(config.listeners) /\ opened \in Nat
      /\ Len(config.listeners) \in Nat /\ Listeners = 1 .. Len(config.listeners)
    BY DEF Listen, StartupInv, StateOK, Lists, Listeners
<1>2. CASE Fail
    BY <1>2, FailStep
<1>3. CASE /\ config.listeners[opened + 1].address \in
                 {config.listeners[i].address : i \in 1 .. opened}
           /\ End("1") /\ UNCHANGED <<config, faulted>>
    <2>1. PICK i \in 1 .. opened :
             config.listeners[i].address = config.listeners[opened + 1].address
        BY <1>3
    <2>2. i \in Listeners /\ opened + 1 \in Listeners /\ i # opened + 1
        BY <1>1, <2>1
    <2>3. Listeners' = Listeners /\ config' = config
        BY <1>3 DEF Listeners
    <2>4. CheckPredictsStart'
        BY <2>1, <2>2, <2>3 DEF CheckPredictsStart
    <2> QED
        BY <1>1, <1>3, <2>4, EndStep DEF StateOK
<1>4. CASE /\ opened' = opened + 1
           /\ UNCHANGED <<config, check, envToken, pc, exit, started, stopped, caught,
                          signalled, faulted>>
    <2>1. opened' \in 0 .. Len(config.listeners) /\ stopped \subseteq 1 .. opened + 1
        BY <1>1, <1>4 DEF StateOK
    <2>2. StateOK'
        BY <1>4, <2>1 DEF StateOK, started
    <2> QED
        BY <1>1, <1>4, <2>2 DEF StartupInv, started
<1> QED
    BY <1>1, <1>2, <1>3, <1>4 DEF Listen

\* A signal, or what goes wrong while the process runs.
LEMMA OutsideStep ==
    ASSUME IInv, Shutdown \/ Signal \/ WebFails \/ ListenerStops \/ WorkerPanics
    PROVE  IInv'
<1> USE DEF IInv, Past, Loaded, Opened, Working, Certified, Populated, Listening
<1>1. CASE Shutdown
    <2>1. CheckPredictsStart' /\ Lists(config)'
        BY <1>1 DEF Shutdown, End, CheckPredictsStart, StartupInv
    <2> QED
        BY <1>1, <2>1, EndStep DEF Shutdown, StateOK
<1>2. CASE Signal
    <2>1. CASE caught
        <3>1. /\ signalled' = TRUE
              /\ UNCHANGED <<config, check, envToken, pc, exit, started, opened, stopped,
                             caught, faulted>>
            BY <1>2, <2>1 DEF Signal
        <3>2. StateOK'
          <4> HIDE DEF Past, Loaded, Opened, Working, Certified, Populated, Listening
          <4>1. StateOK /\ UNCHANGED <<store, schema, worker, purge, cert, web>>
              BY <3>1 DEF started
          <4> QED
              BY <3>1, <4>1 DEF StateOK
        <3>3. StartupInv'
          <4>1. /\ Loaded' = Loaded /\ Opened' = Opened /\ Working' = Working
                /\ Certified' = Certified /\ Populated' = Populated
                /\ Listening' = Listening
              BY <3>1
          <4>2. pc' # "end" /\ pc # "end"
              BY <1>2, <3>1 DEF Signal
          <4>3. StartupInv /\ UNCHANGED <<store, worker, cert, users, web>>
              BY <3>1 DEF started
          <4> HIDE DEF Past, Loaded, Opened, Working, Certified, Populated, Listening
          <4>4. Lists(config)' <=> Lists(config)
              BY <3>1
          <4> QED
              BY <3>1, <4>1, <4>2, <4>3, <4>4 DEF StartupInv
        <3> QED
            BY <3>2, <3>3
    <2>2. CASE ~caught
        <3>1. CheckPredictsStart' /\ Lists(config)'
            BY <1>2, <2>2 DEF Signal, End, CheckPredictsStart, StartupInv
        <3> QED
            BY <1>2, <2>2, <3>1, EndStep DEF Signal, StateOK
    <2> QED
        BY <2>1, <2>2
<1>3. CASE WebFails
    <2>1. StateOK' /\ pc # "end"
        BY <1>3 DEF WebFails, StateOK, StartupInv
    <2> QED
        BY <1>3, <2>1 DEF WebFails, StartupInv
<1>4. CASE ListenerStops
    <2>1. PICK i \in 1 .. opened \ stopped : stopped' = stopped \cup {i}
        BY <1>4 DEF ListenerStops
    <2>2. StateOK'
        BY <1>4, <2>1 DEF ListenerStops, StateOK, started
    <2>3. opened > 0
        BY <2>1 DEF StateOK, StartupInv, Lists
    <2>4. pc # "end"
        BY <2>3 DEF StartupInv
    <2> QED
        BY <1>4, <2>2, <2>4 DEF ListenerStops, StartupInv, started
<1>5. CASE WorkerPanics
    <2>1. CheckPredictsStart' /\ Lists(config)'
        BY <1>5 DEF WorkerPanics, CheckPredictsStart, StartupInv
    <2> QED
        BY <1>5, <2>1, EndStep DEF WorkerPanics, StateOK
<1> QED
    BY <1>1, <1>2, <1>3, <1>4, <1>5

LEMMA StartupInvariant == Spec => []IInv
<1>1. IInv /\ [Next]_vars => IInv'
    <2> SUFFICES ASSUME IInv, [Next]_vars PROVE IInv'
        OBVIOUS
    <2>1. CASE UNCHANGED vars
        <3>1. /\ StateOK' /\ Listeners' = Listeners /\ CheckPredictsStart' = CheckPredictsStart
            BY <2>1 DEF IInv, StateOK, vars, started, CheckPredictsStart, Listeners
        <3> QED
            BY <2>1, <3>1 DEF IInv, StartupInv, vars, started, Past, Loaded, Opened, Working,
                              Certified, Populated, Listening
    <2> QED
        BY <2>1, LoadStep, SetUpStep, BuildStep, NewServerStep, ListenStep, OutsideStep
           DEF Next, RunServer
<1> QED
    BY <1>1, InitIInv, PTL DEF Spec

-----------------------------------------------------------------------------
(***************************************************************************)
(* What runServer guarantees.                                              *)
(***************************************************************************)
\* What runs has a configuration without an unset or unknown mode and without a
\* missing number (applyDefaults before Validate, Load before everything).
THEOREM StartupTypeOK == Spec => []TypeOK
<1>1. IInv => TypeOK
    <2> SUFFICES ASSUME IInv PROVE TypeOK
        OBVIOUS
    <2>1. store = "open" => Validate(config, envToken) /\ Complete(config) /\ Lists(config)
        BY DEF IInv, StartupInv, Opened, Loaded, Past
    <2>2. store = "open" =>
             /\ config.tls.mode \in CertModes
             /\ \A i \in Listeners : config.listeners[i].tls \in TLSModes
             /\ \A i \in DOMAIN config.routes :
                   EffectiveMode(config.routes[i], config.mode) \in Modes
        BY <2>1, ValidLemma DEF Listeners
    <2>3. store = "open" => 0 \notin {config.timeout, config.maxRetries, config.retryBackoff,
                                      config.concurrency}
        BY <2>1 DEF Complete, Numbers
    <2> QED
        BY <2>2, <2>3 DEF IInv, StateOK, TypeOK
<1> QED
    BY <1>1, StartupInvariant, PTL

\* No listener accepts connections before the store is open, the worker runs and
\* the certificate its mode needs is there, although that is checked, obtained and
\* used in three packages (validateTLS, Build, Serve).
THEOREM ListenersAreReady == Spec => []ServedIsReady
<1>1. IInv => ServedIsReady
    <2> SUFFICES ASSUME IInv, opened > 0
                 PROVE  /\ store = "open" /\ worker
                        /\ \A i \in 1 .. opened : config.listeners[i].tls # "none" => cert
        BY DEF ServedIsReady
    <2>1. /\ store = "open" /\ worker /\ (cert <=> config.tls.mode # "none")
          /\ Validate(config, envToken) /\ Lists(config)
        BY DEF IInv, StartupInv, Listening, Opened, Loaded, Working, Certified, Past
    <2>2. 1 .. opened \subseteq DOMAIN config.listeners
        BY <2>1 DEF IInv, StateOK, Lists
    <2> QED
        BY <2>1, <2>2, ValidLemma
<1> QED
    BY <1>1, StartupInvariant, PTL

\* The one credential the users map keeps per username is that of every route of
\* the name (the comparison of Validate, the loop of server.New).
THEOREM CredentialsMatchRoutes == Spec => []UsersMatchRoutes
<1>1. IInv => UsersMatchRoutes
    BY DEF IInv, StartupInv, UsersMatchRoutes, Listening, Populated, Past, Credential, ToSet
<1> QED
    BY <1>1, StartupInvariant, PTL

\* Every configuration that is run satisfies what the other modules assume of it
\* (Validate).
THEOREM RunMeetsAssumptions == Spec => []AssumptionsHold
<1>1. IInv => AssumptionsHold
    <2> SUFFICES ASSUME IInv, store = "open" PROVE AssumptionsHold
        BY DEF AssumptionsHold
    <2>1. /\ Validate(config, envToken) /\ Complete(config) /\ Lists(config)
        BY DEF IInv, StartupInv, Opened, Loaded, Past
    <2>2. \A i, j \in DOMAIN config.routes :
             config.routes[i].name = config.routes[j].name => i = j
        BY <2>1, PairLemma
    <2>3. \A r \in ToSet(config.routes) :
             r.username # None /\ (r.webhook \/ config.logEnabled)
        BY <2>1 DEF Validate, validRoute, Storable, ToSet
    <2>4. config.concurrency \in Int \ {0}
        BY <2>1 DEF Complete, Numbers
    <2>5. config.concurrency >= 0 => config.concurrency >= 1
        BY <2>4
    <2> QED
        BY <2>2, <2>3, <2>5 DEF AssumptionsHold
<1> QED
    BY <1>1, StartupInvariant, PTL

\* A file that -check accepts fails to start only for something outside the
\* process, a signal, an address given twice or a negative concurrency: Build and
\* New find nothing that Validate has let through.
THEOREM CheckedFilesStart == Spec => []CheckPredictsStart
<1>1. IInv => CheckPredictsStart
    BY DEF IInv, StateOK, StartupInv, CheckPredictsStart
<1> QED
    BY <1>1, StartupInvariant, PTL
=============================================================================
