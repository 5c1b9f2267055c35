-------------------------- MODULE MCDeliveryWorker --------------------------
(***************************************************************************)
(* Instances of DeliveryWorker for TLC: two rows of two routes, so that a  *)
(* restart can take away the route of one and keep the other's.            *)
(***************************************************************************)
EXTENDS DeliveryWorker, TLC

CONSTANTS j1, j2, r1, r2

MCRouteOf == [j \in Jobs |-> IF j = j2 THEN r2 ELSE r1]

\* Goroutines are interchangeable, and so are the rows together with their
\* routes.
Symmetry ==
    Permutations(Goroutines)
        \cup {[x \in {j1, j2, r1, r2} |->
                 CASE x = j1 -> j2 [] x = j2 -> j1 [] x = r1 -> r2 [] x = r2 -> r1]}
=============================================================================
