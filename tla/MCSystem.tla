------------------------------- MODULE MCSystem -------------------------------
(***************************************************************************)
(* An instance of System for TLC: a sync and an async route, a message to  *)
(* the async one and one to both, submitted up to twice.                   *)
(***************************************************************************)
EXTENDS System

CONSTANTS s1, a1

MCMode == [r \in Routes |-> IF r = s1 THEN "sync" ELSE "async"]

MCJobs == (1 .. MaxTries) \X Routes

MCRouteOf == [j \in Jobs |-> j[2]]

MCMessages == {<<a1>>, <<a1, s1>>}
=============================================================================
