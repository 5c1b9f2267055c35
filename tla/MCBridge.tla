------------------------------- MODULE MCBridge -------------------------------
(***************************************************************************)
(* An instance of Bridge for TLC: a route of each mode and a second async  *)
(* one so that an INSERT can fail between two; messages to each alone, to  *)
(* sync and async ones in either order, and with repeated recipients.      *)
(***************************************************************************)
EXTENDS Bridge

CONSTANTS s1, a1, a2, c1

MCMode == [r \in Routes |-> CASE r = s1 -> "sync"
                              [] r \in {a1, a2} -> "async"
                              [] r = c1 -> "capture"]

MCMessages == {<<s1>>, <<c1>>, <<a1, a1>>, <<c1, s1>>, <<a1, s1>>, <<a1, s1, a2>>}

MCCaptured == {<<c1>>}
=============================================================================
