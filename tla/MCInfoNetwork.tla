--------------------------- MODULE MCInfoNetwork ---------------------------
(* Small instances of InfoNetwork for TLC. *)
EXTENDS InfoNetwork, TLC

Symmetry == Permutations(Provider)

\* Every function deployed, asking for n replicas of which m are available.
Deployed(m, n) == [listed |-> [f \in Function |-> m], asked |-> [f \in Function |-> n]]

\* A cluster whose functions are all ready.
JustReady == {Deployed(1, 1)}
=============================================================================
