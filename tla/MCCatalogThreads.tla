------------------------- MODULE MCCatalogThreads -------------------------
(* Small instances of CatalogThreads for TLC. *)
EXTENDS CatalogRefinement, TLC

Goroutines == Permutations(Thread)

Deployed(n) == [listed |-> [f \in Function |-> n],
                asked |-> [f \in Function |-> IF n = Absent THEN 0 ELSE n]]
EmptyOrReady == {Deployed(Absent), Deployed(1)}

\* A peer that runs everything, nothing, or has just lost its replicas.
Says == {[available |-> [f \in Function |-> n], overload |-> FALSE] : n \in {Absent, 0, 1}}
=============================================================================
