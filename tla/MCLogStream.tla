----------------------------- MODULE MCLogStream -----------------------------
(* Small instances of LogStream for TLC. *)
EXTENDS LogStream, TLC

CONSTANTS p, q

PQ == {p, q}

Line(age, kind) == [age |-> age, kind |-> kind]

\* A line older than 5 minutes, an unfinished one, and one without text.
Logs == (p :> <<Line(1, "partial")>> @@ q :> <<Line(400, "stamped"), Line(2, "bare")>>)

Asked(tail, since, follow) ==
  [namespace |-> "", tail |-> tail, since |-> since, follow |-> follow]

Requested ==
  {Asked(0, 500, FALSE), Asked(0, 0, FALSE), Asked(2, Nil, TRUE),
   [Asked(0, Nil, FALSE) EXCEPT !.namespace = "other"]}

\* p starts later.
Started == {{q}}
==============================================================================
