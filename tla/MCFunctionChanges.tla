-------------------------- MODULE MCFunctionChanges --------------------------
(* Small instances of FunctionChanges for TLC. *)
EXTENDS FunctionChanges

CONSTANTS a, b

AB == {a, b}
Slots == Permutations(Handler)

\* The Secret pull is of a docker type in one cluster only.
Before == (a :> [pull |-> "dockercfg", token |-> "Opaque"]
           @@ b :> [pull |-> "Opaque", token |-> "Opaque"])
Numbers == ("0" :> 0 @@ "2" :> 2 @@ "4" :> 4)

Plain ==
  [service |-> "f", namespace |-> "", image |-> "v1", envProcess |-> "", envVars |-> EmptyMap,
   constraints |-> <<>>, secrets |-> EmptyBag, labels |-> Nil, annotations |-> Nil,
   limits |-> Nil, requests |-> Nil, readOnly |-> FALSE]

Full ==
  [service |-> "f", namespace |-> Namespace, image |-> "v2", envProcess |-> "p",
   envVars |-> [mode |-> "x", fprocess |-> "q"], constraints |-> << <<"disk", "ssd">>, <<"bad">> >>,
   secrets |-> SetToBag({"pull", "token"}), labels |-> "scale.min" :> "2",
   annotations |-> "ready.http.path" :> "/ready",
   limits |-> Nil, requests |-> [memory |-> Unset, cpu |-> 1],
   readOnly |-> TRUE]

\* A request that only names a pull secret, one that no cluster can take over,
\* and requests that are refused at different points.
Pulled == [Plain EXCEPT !.secrets = SetToBag({"pull"}), !.requests = [memory |-> 1, cpu |-> Unset],
             !.limits = [memory |-> Unset, cpu |-> 1]]
TooMany == [Plain EXCEPT !.labels = "scale.min" :> "4"]
Elsewhere == [Plain EXCEPT !.namespace = "other"]
Private == [Plain EXCEPT !.image = "private"]
Relabelled == [Plain EXCEPT !.labels = "faas_function" :> "g"]
Topics == [Plain EXCEPT !.annotations = "topic" :> "many"]
BadQuantity == [Plain EXCEPT !.limits = [memory |-> Malformed, cpu |-> Unset]]

AllRequests == {Full, Pulled, TooMany, Elsewhere, Private, Relabelled, Topics, BadQuantity}
GoodRequests == {Full, Pulled}
==============================================================================
