------------------------------ MODULE MCStartup ------------------------------
(***************************************************************************)
(* Configuration files for TLC: a complete one and its variations in every *)
(* field the checks and the defaults look at, listeners and certificate    *)
(* source, and pairs of routes, varied together.                           *)
(***************************************************************************)
EXTENDS Startup

route == [name |-> "a", username |-> "u", password |-> "p", bcrypt |-> None,
          webhook |-> TRUE, mode |-> None]

noTLS == [mode |-> None, files |-> FALSE, hostnames |-> FALSE, provider |-> None,
          token |-> FALSE]

base == [parses |-> TRUE, cidrs |-> TRUE, logEnabled |-> TRUE, web |-> TRUE,
         listeners |-> <<>>, tls |-> noTLS, mode |-> None, timeout |-> 0, maxRetries |-> 0,
         retryBackoff |-> 0, concurrency |-> 0, retentionDays |-> 1,
         routes |-> <<route>>]

listener(a, t) == [address |-> a, tls |-> t]

VariedListeners ==
    {<<>>} \cup {<<listener("A", t)>> : t \in TLSModes \cup {None, "ssl"}}
    \cup {<<listener("A", t), listener(b, "none")>> : t \in TLSModes, b \in {"A", "B", None}}

VariedTLS ==
    {noTLS, [noTLS EXCEPT !.mode = "acme"]}
    \cup {[noTLS EXCEPT !.mode = "files", !.files = f] : f \in BOOLEAN}
    \cup {[mode |-> "auto", files |-> FALSE, hostnames |-> h, provider |-> p, token |-> t] :
            h \in BOOLEAN, p \in {None, "cloudflare", "other"}, t \in BOOLEAN}

VariedRoutes ==
    {<<>>}
    \cup {<<[route EXCEPT !.webhook = w, !.mode = m]>> : w \in BOOLEAN, m \in Modes \cup {"later"}}
    \cup {<<[route EXCEPT !.password = p, !.bcrypt = b]>> : p \in {None, "p"}, b \in {None, "h"}}
    \cup {<<route, [route EXCEPT !.name = n, !.username = u, !.password = p]>> :
            n \in {"a", "b", None}, u \in {"u", "v", None}, p \in {"p", "q"}}

MCConfigs ==
    {[base EXCEPT !.listeners = l, !.tls = t] : l \in VariedListeners, t \in VariedTLS}
    \cup {[base EXCEPT !.routes = r, !.logEnabled = e, !.mode = m] :
            r \in VariedRoutes, e \in BOOLEAN, m \in {None, "sync", "later"}}
    \cup {[base EXCEPT !.concurrency = n, !.retentionDays = d] : n \in {-1, 0, 2}, d \in {-1, 0, 1}}
    \cup {[base EXCEPT !.parses = FALSE], [base EXCEPT !.cidrs = FALSE],
          [base EXCEPT !.web = FALSE]}

\* config.example.yaml with a password and a URL filled in.
Example ==
    [base EXCEPT !.listeners = <<listener(":2525", "starttls")>>, !.tls.mode = "none",
                 !.mode = "async", !.timeout = 30, !.maxRetries = 5, !.retryBackoff = 10,
                 !.concurrency = 4, !.retentionDays = 0, !.web = FALSE,
                 !.routes = <<[route EXCEPT !.mode = "async"]>>]

MCExample == {Example}
=============================================================================
