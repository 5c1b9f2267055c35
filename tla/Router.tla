-------------------------------- MODULE Router --------------------------------
(***************************************************************************)
(* internal/router: the route of a recipient. An address is a sequence of  *)
(* words and separators, which is as far as the conditions look into it.   *)
(***************************************************************************)
EXTENDS Integers, Sequences, SequencesExt, FiniteSetsExt

CONSTANTS
    RouteList,      \* the routes in configured order: [name, username, rcpt,
                    \* rcpt_domain, rcpt_localpart], <<>> for an unset condition
    Lower,          \* the lower-case form of every word and separator
    NoRoute

Configured == ToSet(RouteList)

ASSUME RouterAssumption ==
    /\ RouteList \in Seq(Configured)
    /\ \A rt \in Configured :
          {rt.rcpt, rt.rcpt_domain, rt.rcpt_localpart} \subseteq Seq(DOMAIN Lower)
    \* config.Validate: names are distinct.
    /\ \A i, j \in DOMAIN RouteList : RouteList[i].name = RouteList[j].name => i = j
    /\ NoRoute \notin {rt.name : rt \in Configured}

\* Faulty variant: strings are compared as they are.
EqualCase(s, t) == s = t

\* strings.EqualFold.
EqualFold(s, t) ==
    Len(s) = Len(t) /\ \A i \in DOMAIN s : Lower[s[i]] = Lower[t[i]]

\* split: the domain is what follows the last "@".
Ats(addr) == {i \in DOMAIN addr : addr[i] = "@"}
Local(addr)  == IF Ats(addr) = {} THEN addr ELSE SubSeq(addr, 1, Max(Ats(addr)) - 1)
Domain(addr) == IF Ats(addr) = {} THEN <<>> ELSE SubSeq(addr, Max(Ats(addr)) + 1, Len(addr))

\* stripTag: what precedes the first "+".
StripTag(local) ==
    LET pluses == {i \in DOMAIN local : local[i] = "+"} IN
    IF pluses = {} THEN local ELSE SubSeq(local, 1, Min(pluses) - 1)

\* A condition that is set compares equal to the value.
Holds(condition, value) == condition = <<>> \/ EqualFold(condition, value)

Matches(rt, addr) ==
    /\ Holds(rt.rcpt, addr)
    /\ Holds(rt.rcpt_domain, Domain(addr))
    /\ Holds(rt.rcpt_localpart, StripTag(Local(addr)))

\* The name of the first route of the user that matches.
Match(username, addr) ==
    LET hits == {i \in DOMAIN RouteList :
                   RouteList[i].username = username /\ Matches(RouteList[i], addr)}
    IN IF hits = {} THEN NoRoute ELSE RouteList[Min(hits)].name
=============================================================================
