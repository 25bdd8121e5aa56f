---------------------------- MODULE MCDeployments ----------------------------
(* Small instances of Deployments for TLC. *)
EXTENDS Deployments, TLC

CONSTANTS a, b

Slots == Permutations(Handler)

\* Two clusters, a with one worker and b with two; each ranks itself first.
AB == {a, b}
ABNear == (a :> <<a, b>> @@ b :> <<b, a>>)
ABWorkers == (a :> 1 @@ b :> 2)
Everywhere == (a :> AB @@ b :> AB)

Nowhere == [p \in AB |-> [f \in Function |-> Absent]]
All(n, m) == (a :> [f \in Function |-> n] @@ b :> [f \in Function |-> m])
EachRunsOne == {All(1, 1)}
AnyStart == {All(n, m) : n, m \in {Absent, 1, 2}}
OneOrNone == {Nowhere, All(1, Absent)}
NoOverload == {{}}
AnyOverload == SUBSET AB
==============================================================================
