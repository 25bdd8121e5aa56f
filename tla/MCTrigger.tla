------------------------------ MODULE MCTrigger ------------------------------
(* A small instance of Trigger for TLC. *)
EXTENDS Trigger, TLC

CONSTANTS a, b

\* a has credentials for both clusters, b for its own.
AB == {a, b}
ABNear == (a :> <<a, b>> @@ b :> <<b, a>>)
ABKubeconfig == (a :> {a, b} @@ b :> {b})

\* b has measured nothing.  The times that a remembers: less than a millisecond,
\* or more; of a node that does not run the function perhaps none.
ABTime(ds, x, y) ==
  (a :> (a :> x @@ b :> y) @@ b :> [q \in AB |-> IF q \in ds THEN Unmeasured ELSE Absent])
NotRunning(ds) == IF ds = {} THEN {Absent} ELSE {Absent, 2}
ABStarts ==
  UNION {{[deployed |-> ds, time |-> ABTime(ds, x, y)] :
            x \in IF a \in ds THEN {0, 3} ELSE NotRunning(ds),
            y \in IF b \in ds THEN {2, 3} ELSE NotRunning(ds)} : ds \in SUBSET AB}
\* Busy on average, one busy CPU of two, and no sample.
Loads == {<<90, 90>>, <<100, 20>>, <<>>, Nil}
NoneFarOrAll == {{}, {b}, AB}
==============================================================================
