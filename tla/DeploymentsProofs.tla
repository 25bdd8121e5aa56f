-------------------------- MODULE DeploymentsProofs --------------------------
(***************************************************************************)
(* The handlers on the Deployments of several clusters, for any number of  *)
(* clusters, functions, handlers at the same time, faults and requests.    *)
(***************************************************************************)
EXTENDS Deployments, TLAPS

Replicated == 0 .. MaxInt32
Int32s == -(2^(Bits - 1)) .. MaxInt32

(***************************************************************************)
(* The local variables of a handler.  Each handler has its own steps, and  *)
(* only scaleUp leaves the cluster it was asked at.                        *)
(***************************************************************************)
Steps(op) ==
  CASE op = "deploy" -> {"count", "create", "createService"}
    [] op \in {"update", "updateMin"} -> {"get", "put", "updateService"}
    [] op = "delete" -> {"find", "deleteDeployment", "deleteService"}
    [] op = "set" -> {"get", "put"}
    [] op = "scaleUp" -> {"node", "count", "create", "createService", "get", "put"}
    [] op = "scaleDown" -> {"down", "get", "put", "deleteDeployment", "deleteService"}

Ops == {"deploy", "update", "updateMin", "delete", "set", "scaleUp", "scaleDown"}

Pcs == {"count", "create", "createService", "get", "put", "updateService", "find", "deleteDeployment",
        "deleteService", "node", "down"}

Locals == [op : Ops, pc : Pcs, at : Provider, f : Function, target : Provider, i : Nat \ {0},
           cnt : Int32s, n : Int32s]

\* The loop of scaleUp is at a node of the ranking, or past the last one.
Placed(s) ==
  /\ s.pc \in Steps(s.op)
  /\ s.op # "scaleUp" => s.target = s.at
  /\ s.i <= Len(Near[s.at]) + 1
  /\ s.pc # "node" => s.i <= Len(Near[s.at])
  /\ s.pc \in {"count", "create", "createService"} /\ s.op = "scaleUp" => s.cnt > 0

ObjectsType ==
  /\ deployment \in [Provider -> [Function -> Replicated \cup {Absent}]]
  /\ terminating \in [Provider -> SUBSET Function]
  /\ \A q \in Provider : \A f \in terminating[q] : Exists(q, f)
  /\ services \in [Provider -> SUBSET Function]

CatalogsType ==
  /\ view \in [Provider -> [Provider -> [Function -> Replicated]]]
  /\ known \in [Provider -> SUBSET Function] /\ awaited \in [Provider -> SUBSET Function]
  /\ listed \in [Provider -> [Provider -> SUBSET Function]]

HandlersType ==
  /\ handler \in [Handler -> Locals \cup {Idle}]
  /\ \A h \in Handler : handler[h] # Idle => Placed(handler[h])
  /\ conflict \subseteq {h \in Handler : handler[h].pc = "put"}

HistoryType ==
  /\ overlapped \in BOOLEAN
  /\ used \in [ops : Nat, faults : Nat]

TypeInv == ObjectsType /\ CatalogsType /\ HandlersType /\ HistoryType

(***************************************************************************)
(* A copy of a Deployment that the API server would accept is a true copy. *)
(***************************************************************************)
TrueCopies ==
  \A h \in Handler :
    handler[h] # Idle /\ handler[h].pc = "put" /\ handler[h].op = "update" /\ h \notin conflict =>
      /\ Exists(handler[h].target, handler[h].f)
      /\ handler[h].n = deployment[handler[h].target][handler[h].f]

(***************************************************************************)
(* As long as nothing overlaps or fails, only the Service that a handler   *)
(* is about to create or delete does not match its Deployment.             *)
(***************************************************************************)
Runs(q, f) == Exists(q, f) /\ f \notin terminating[q]

Matched(q, f) == f \in services[q] <=> Runs(q, f)

Halfway(s) == s # Idle /\ s.pc \in {"createService", "deleteService"}

Alone ==
  \A h, g \in Handler : h # g => handler[h] = Idle \/ handler[g] = Idle

AllMatch ==
  /\ \A q \in Provider, f \in Function :
       \/ Matched(q, f)
       \/ \E h \in Handler : Halfway(handler[h]) /\ handler[h].target = q /\ handler[h].f = f
  /\ \A h \in Handler :
       Halfway(handler[h]) =>
         IF handler[h].pc = "createService"
         THEN handler[h].f \notin services[handler[h].target] /\ Runs(handler[h].target, handler[h].f)
         ELSE ~Runs(handler[h].target, handler[h].f)

MatchInv == ~overlapped => Alone /\ (used.faults = 0 => AllMatch)

(***************************************************************************)
(* No number that scaleUp works with is below what the cluster had, unless *)
(* that was more than one for each worker.                                 *)
(***************************************************************************)
Enough(n, q) == n >= goal.before[q] \/ n >= Workers[q]

Climbs(s) ==
  /\ s.op = "scaleUp" /\ s.at = goal.at /\ s.f = goal.f
  /\ s.pc \in {"get", "put"} => Enough(s.n, s.target)
  /\ s.pc \in {"count", "create", "createService"} => goal.before[s.target] = 0

GoalInv ==
  goal # NoGoal /\ goal.op = "scaleUp" =>
    /\ goal.at \in Provider /\ goal.f \in Function /\ goal.before \in [Provider -> Replicated]
    /\ \A q \in Provider :
         /\ goal.f \notin terminating[q] /\ Enough(Running(q, goal.f), q)
         /\ Enough(view[goal.at][q][goal.f], q) /\ Enough(view[q][q][goal.f], q)
    /\ \A h \in Handler : handler[h] # Idle => Climbs(handler[h])

---------------------------------------------------------------------------
(* The integers *)

\* The conversion to int32 keeps what fits and wraps the rest.
LEMMA Int32Wraps ==
  ASSUME NEW x \in Int
  PROVE  Int32(x) \in Int32s /\ (x \in Replicated => Int32(x) = x)
<1> DEFINE half == 2^(Bits - 1)
<1>1. half \in Nat \ {0} /\ 2^Bits = 2 * half
  BY Int32Assumption
<1>2. MaxInt32 = half - 1 /\ Int32s = -half .. half - 1 /\ Replicated = 0 .. half - 1
  BY DEF MaxInt32, Int32s, Replicated
<1>3. Int32(x) = LET low == x % (2 * half) IN IF low < half THEN low ELSE low - 2 * half
  BY <1>1 DEF Int32
<1> HIDE DEF half
<1>4. x % (2 * half) \in 0 .. 2 * half - 1
  BY <1>1
<1>5. x \in 0 .. half - 1 => x % (2 * half) = x
  BY <1>1
<1> QED BY <1>1, <1>2, <1>3, <1>4, <1>5

---------------------------------------------------------------------------
(* Types *)

Others(h) == \A g \in Handler \ {h} : handler'[g] = handler[g]

LEMMA IdleOrNot == Idle.pc = "idle" /\ \A s \in Locals : s # Idle /\ s.pc # "idle"
<1>1. Idle.pc = "idle"
  BY DEF Idle
<1>2. \A s \in Locals : s.pc # "idle"
  BY DEF Locals, Pcs
<1> QED BY <1>1, <1>2

\* A handler at one of its steps.
LEMMA AtStep ==
  ASSUME TypeInv, NEW h \in Handler, handler[h].pc # "idle"
  PROVE  handler[h] \in Locals /\ handler[h] # Idle /\ Placed(handler[h])
BY IdleOrNot DEF TypeInv, HandlersType

\* The handler goes on with other local variables.
LEMMA Moves ==
  ASSUME TypeInv, NEW h \in Handler, NEW new \in Locals \cup {Idle}, new # Idle => Placed(new),
         handler' = [handler EXCEPT ![h] = new],
         ObjectsType', CatalogsType', HistoryType',
         conflict' \subseteq {g \in Handler : handler[g].pc = "put"}, new.pc = "put" \/ h \notin conflict'
  PROVE  TypeInv' /\ handler'[h] = new /\ Others(h)
<1>1. handler \in [Handler -> Locals \cup {Idle}]
  BY DEF TypeInv, HandlersType
<1>2. handler' \in [Handler -> Locals \cup {Idle}] /\ handler'[h] = new /\ Others(h)
  BY <1>1 DEF Others
<1>3. \A g \in Handler : handler'[g] # Idle => Placed(handler'[g])
  BY <1>2 DEF TypeInv, HandlersType, Others
<1>4. conflict' \subseteq {g \in Handler : handler'[g].pc = "put"}
  BY <1>2 DEF Others
<1>5. HandlersType'
  BY <1>2, <1>3, <1>4 DEF HandlersType, Placed
<1> QED BY <1>2, <1>5 DEF TypeInv

\* The API servers and the catalogs stay as they are.
LEMMA ObjectsKept ==
  ASSUME TypeInv, UNCHANGED <<objects, catalog>>
  PROVE  /\ ObjectsType' /\ CatalogsType' /\ UNCHANGED <<deployment, terminating, services, conflict, view>>
         /\ conflict' \subseteq {g \in Handler : handler[g].pc = "put"}
<1>1. UNCHANGED <<deployment, terminating, services, conflict, view, known, awaited, listed>>
  BY DEF objects, catalog
<1> QED BY <1>1 DEF TypeInv, ObjectsType, CatalogsType, HandlersType, Exists

LEMMA CatalogsKept ==
  ASSUME TypeInv, UNCHANGED catalog
  PROVE  CatalogsType' /\ UNCHANGED <<view, known, awaited, listed>>
<1>1. UNCHANGED <<view, known, awaited, listed>>
  BY DEF catalog
<1> QED BY <1>1 DEF TypeInv, CatalogsType

LEMMA ReplicatedIs == Replicated \subseteq Int32s /\ Replicated \subseteq Nat /\ Int32s \subseteq Int /\ Absent \notin Replicated
BY Int32Assumption DEF Replicated, Int32s, MaxInt32, Absent

LEMMA HistoryKept ==
  ASSUME TypeInv, UNCHANGED <<overload, used, overlapped>>
  PROVE  HistoryType' /\ UNCHANGED <<used, overlapped>>
BY DEF TypeInv, HistoryType

LEMMA Seen ==
  ASSUME TypeInv, NEW p \in Provider, NEW q \in Provider, NEW f \in Function
  PROVE  view[p][q][f] \in Replicated
BY DEF TypeInv, CatalogsType

\* A handler returns or fails.
LEMMA Ends ==
  ASSUME TypeInv, NEW h \in Handler, handler' = [handler EXCEPT ![h] = Idle],
         ObjectsType', CatalogsType', HistoryType',
         conflict' \subseteq {g \in Handler : handler[g].pc = "put"}, h \notin conflict'
  PROVE  TypeInv' /\ handler'[h] = Idle /\ Others(h)
<1> DEFINE new == Idle
<1>1. new \in Locals \cup {Idle} /\ (new # Idle => Placed(new)) /\ handler' = [handler EXCEPT ![h] = new]
  OBVIOUS
<1> HIDE DEF new
<1>2. TypeInv' /\ handler'[h] = new /\ Others(h)
  BY <1>1, Moves, Zenon
<1> QED BY <1>2 DEF new

\* A handler goes on to another step with the same local variables.
LEMMA GoesOn ==
  ASSUME TypeInv, NEW h \in Handler, NEW pc \in Pcs, handler[h].pc \notin {"idle", "node"},
         pc \in Steps(handler[h].op), Goto(h, pc),
         pc \in {"count", "create", "createService"} => handler[h].pc \in {"count", "create", "createService"},
         ObjectsType', CatalogsType', HistoryType',
         conflict' \subseteq {g \in Handler : handler[g].pc = "put"}, pc = "put" \/ h \notin conflict'
  PROVE  LET s == handler[h]
             new == handler'[h]
         IN  /\ TypeInv' /\ Others(h) /\ new \in Locals /\ new.pc = pc /\ new.op = s.op /\ new.at = s.at
             /\ new.f = s.f /\ new.target = s.target /\ new.i = s.i /\ new.cnt = s.cnt /\ new.n = s.n
<1> DEFINE s == handler[h]
           new == [s EXCEPT !.pc = pc]
<1>1. s \in Locals /\ Placed(s)
  BY AtStep
<1>2. handler' = [handler EXCEPT ![h] = new]
  BY DEF Goto, TypeInv, HandlersType
<1>3. /\ new \in Locals /\ new.pc = pc /\ new.op = s.op /\ new.at = s.at
      /\ new.f = s.f /\ new.target = s.target /\ new.i = s.i /\ new.cnt = s.cnt /\ new.n = s.n
  BY <1>1 DEF Locals
<1> HIDE DEF new
<1>4. Placed(new)
  BY <1>1, <1>3 DEF Placed
<1>5. TypeInv' /\ handler'[h] = new /\ Others(h)
  BY <1>2, <1>3, <1>4, Moves, Zenon
<1> QED BY <1>3, <1>5

\* What scaleUp makes of cnt replicas to place at a cluster q that has avail.
Places(new, i, q, avail, cnt) ==
  \/ new.pc = "node" /\ ~(cnt > 0) /\ new.i = i + 1 /\ new.cnt = cnt
  \/ /\ new.pc = "get" /\ cnt > 0 /\ new.i = i
     /\ cnt + avail \in Replicated =>
          new.n + new.cnt = cnt + avail /\ new.cnt >= 0 /\ (new.cnt = 0 \/ new.n = Workers[q])

\* scaleUp asks for more than there is, or for one replica for each worker.
LEMMA PlaceReplicasDoes ==
  ASSUME TypeInv, NEW h \in Handler, NEW s \in Locals, s.op = "scaleUp", s.i <= Len(Near[s.at]),
         NEW avail \in Replicated, NEW cnt \in Int32s, PlaceReplicas(h, s, avail, cnt),
         ObjectsType', CatalogsType', HistoryType',
         conflict' \subseteq {g \in Handler : handler[g].pc = "put"}, h \notin conflict'
  PROVE  LET new == handler'[h]
         IN  /\ TypeInv' /\ Others(h) /\ new \in Locals /\ new.op = "scaleUp" /\ new.at = s.at /\ new.f = s.f
             /\ new.target = s.target
             /\ new.pc \in {"node", "get"}
             /\ new.pc = "get" => new.n > avail \/ new.n = Workers[s.target]
             /\ Places(new, s.i, s.target, avail, cnt)
<1> DEFINE room == Workers[s.target] - avail
           cap == IF cnt < room THEN cnt ELSE room
           got == [s EXCEPT !.pc = "get", !.n = cap + avail, !.cnt = Int32(cnt - cap)]
           past == [s EXCEPT !.pc = "node", !.i = @ + 1, !.cnt = cnt]
           new == IF cnt > 0 THEN got ELSE past
<1>0. handler' = [handler EXCEPT ![h] = new]
  BY Zenon DEF PlaceReplicas
<1>1. Workers[s.target] \in 1 .. MaxInt32
  <2>1. PICK w : w = Workers[s.target]
    BY Zenon
  <2>2. w \in Nat \ {0} /\ w <= MaxInt32
    <3>1. s.target \in Provider
      BY Zenon DEF Locals
    <3> QED BY <2>1, <3>1, DeploymentsAssumption, Int32Assumption, Zenon
  <2>3. w \in 1 .. MaxInt32
    BY ONLY <2>2, Int32Assumption DEF MaxInt32
  <2> QED BY <2>1, <2>3, Zenon
<1>2. avail \in Nat /\ cnt \in Int /\ cap \in Int
  BY <1>1, ReplicatedIs
<1>3. cnt > 0 => cap + avail \in Int32s /\ (cap + avail > avail \/ cap + avail = Workers[s.target])
  BY SMTT(30), Zenon, <1>1, <1>2, Int32Assumption DEF Int32s, MaxInt32
<1>4. Int32(cnt - cap) \in Int32s /\ (cnt - cap \in Replicated => Int32(cnt - cap) = cnt - cap)
  BY <1>2, Int32Wraps
<1>7. ASSUME cnt > 0, cnt + avail \in Replicated
      PROVE  /\ cap + avail + Int32(cnt - cap) = cnt + avail /\ Int32(cnt - cap) >= 0
             /\ Int32(cnt - cap) = 0 \/ cap + avail = Workers[s.target]
  <2>1. cnt - cap \in Replicated /\ (cnt - cap = 0 \/ cap + avail = Workers[s.target])
    BY ONLY <1>1, <1>2, <1>7, Int32Assumption DEF Replicated, MaxInt32
  <2> HIDE DEF cap
  <2>2. Int32(cnt - cap) = cnt - cap
    BY <1>4, <2>1
  <2>3. cnt - cap \in Nat
    BY <2>1, ReplicatedIs, Zenon
  <2> QED BY <1>2, <2>1, <2>2, <2>3
<1> HIDE DEF cap
<1>5. CASE cnt > 0
  <2>1. new = got
    BY <1>5
  <2>2. /\ got \in Locals /\ got.pc = "get" /\ got.op = "scaleUp" /\ got.at = s.at /\ got.f = s.f
        /\ got.target = s.target /\ got.i = s.i /\ got.n = cap + avail /\ got.cnt = Int32(cnt - cap)
    BY <1>3, <1>4, <1>5, Zenon DEF Locals, Pcs
  <2> HIDE DEF got
  <2>3. Placed(got)
    BY <2>2 DEF Placed, Steps, Locals
  <2>4. handler' = [handler EXCEPT ![h] = got]
    BY <1>0, <2>1, Zenon
  <2>5. TypeInv' /\ handler'[h] = got /\ Others(h)
    BY <2>2, <2>3, <2>4, Moves, Zenon
  <2>6. Places(got, s.i, s.target, avail, cnt)
    BY <1>5, <1>7, <2>2 DEF Places
  <2> QED BY <1>3, <1>5, <2>2, <2>5, <2>6
<1>6. CASE ~(cnt > 0)
  <2>1. new = past
    BY <1>6
  <2>2. /\ past \in Locals /\ past.pc = "node" /\ past.op = "scaleUp" /\ past.at = s.at /\ past.f = s.f
        /\ past.target = s.target /\ past.i = s.i + 1 /\ past.cnt = cnt
    <3>1. s.i + 1 \in Nat \ {0}
      BY DEF Locals
    <3> QED BY <3>1, Zenon DEF Locals, Pcs
  <2> HIDE DEF past
  <2>3. Placed(past)
    <3>1. Len(Near[s.at]) \in Nat /\ s.i \in Nat
      BY DeploymentsAssumption DEF Locals
    <3> QED BY <2>2, <3>1 DEF Placed, Steps, Locals
  <2>4. handler' = [handler EXCEPT ![h] = past]
    BY <1>0, <2>1, Zenon
  <2>5. TypeInv' /\ handler'[h] = past /\ Others(h)
    BY <2>2, <2>3, <2>4, Moves, Zenon
  <2>6. Places(past, s.i, s.target, avail, cnt)
    BY <1>6, <2>2 DEF Places
  <2> QED BY <2>2, <2>5, <2>6
<1> QED BY <1>5, <1>6

---------------------------------------------------------------------------
(* What each step does to the handler that takes it and to the objects *)

\* Frames a step of one handler.
Framed == UNCHANGED <<overload, used, overlapped>>

LEMMA CheckLimitDoes ==
  ASSUME TypeInv, Framed, NEW h \in Handler, CheckLimit(h, handler[h])
  PROVE  LET s == handler[h]
             new == handler'[h]
         IN  /\ TypeInv' /\ Others(h) /\ s \in Locals /\ Placed(s) /\ s.pc = "count"
             /\ UNCHANGED <<deployment, terminating, services, conflict, view>>
             /\ \/ new = Idle /\ goal' = NoGoal
                \/ /\ new \in Locals /\ new.pc = "create" /\ new.op = s.op /\ new.at = s.at /\ new.f = s.f
                   /\ new.target = s.target /\ new.i = s.i /\ new.cnt = s.cnt /\ goal' = goal
<1> DEFINE s == handler[h]
<1>1. s.pc = "count" /\ UNCHANGED <<objects, catalog>> /\ ((Goto(h, "create") /\ UNCHANGED goal) \/ Fail(h))
  BY Zenon DEF CheckLimit
<1>2. s \in Locals /\ Placed(s)
  BY <1>1, AtStep
<1>3. /\ ObjectsType' /\ CatalogsType' /\ UNCHANGED <<deployment, terminating, services, conflict, view>>
      /\ conflict' \subseteq {g \in Handler : handler[g].pc = "put"} /\ HistoryType'
  BY <1>1, ObjectsKept, HistoryKept DEF Framed
<1>4. h \notin conflict'
  BY <1>1, <1>3
<1>5. CASE Fail(h)
  BY <1>1, <1>2, <1>3, <1>4, <1>5, Ends, Zenon DEF Fail
<1>6. CASE Goto(h, "create") /\ UNCHANGED goal
  <2>1. "create" \in Pcs /\ "create" \in Steps(s.op)
    BY <1>1, <1>2 DEF Placed, Steps, Locals, Ops, Pcs
  <2> QED BY <1>1, <1>2, <1>3, <1>4, <1>6, <2>1, GoesOn
<1> QED BY <1>1, <1>5, <1>6

LEMMA CreateDeploymentDoes ==
  ASSUME TypeInv, Framed, NEW h \in Handler, CreateDeployment(h, handler[h])
  PROVE  LET s == handler[h]
             new == handler'[h]
         IN  /\ TypeInv' /\ Others(h) /\ s \in Locals /\ Placed(s) /\ s.pc = "create"
             /\ UNCHANGED <<terminating, services, conflict, view>>
             /\ \/ new = Idle /\ goal' = NoGoal /\ UNCHANGED deployment
                \/ /\ new \in Locals /\ new.pc = "createService" /\ new.op = s.op /\ new.at = s.at /\ new.f = s.f
                   /\ new.target = s.target /\ new.i = s.i /\ new.cnt = s.cnt /\ goal' = goal /\ ~Exists(s.target, s.f)
                   /\ deployment' = [deployment EXCEPT ![s.target][s.f] = MinReplicas]
<1> DEFINE s == handler[h]
<1>1. s.pc = "create" /\ UNCHANGED <<terminating, services, conflict, view, known, listed>>
  BY Zenon DEF CreateDeployment
<1>2. s \in Locals /\ Placed(s) /\ s.target \in Provider /\ s.f \in Function
  BY <1>1, AtStep DEF Locals
<1>3. conflict' \subseteq {g \in Handler : handler[g].pc = "put"} /\ h \notin conflict' /\ HistoryType'
  BY <1>1, HistoryKept DEF Framed, TypeInv, HandlersType
<1>4. CASE Exists(s.target, s.f)
  <2>1. Fail(h) /\ UNCHANGED <<deployment, awaited>>
    BY <1>4, Zenon DEF CreateDeployment
  <2>2. ObjectsType' /\ CatalogsType'
    BY <1>1, <2>1 DEF TypeInv, ObjectsType, CatalogsType, Exists
  <2> QED BY <1>1, <1>2, <1>3, <2>1, <2>2, Ends, Zenon DEF Fail
<1>5. CASE ~Exists(s.target, s.f)
  <2>1. /\ deployment' = [deployment EXCEPT ![s.target][s.f] = MinReplicas]
        /\ awaited' = [awaited EXCEPT ![s.target] = @ \cup {s.f}]
        /\ Goto(h, "createService") /\ UNCHANGED goal
    BY <1>5, Zenon DEF CreateDeployment
  <2>2. MinReplicas \in Replicated
    BY DeploymentsAssumption, Int32Assumption DEF Replicated, MaxInt32
  <2>3. /\ deployment' \in [Provider -> [Function -> Replicated \cup {Absent}]]
        /\ \A q \in Provider, f \in Function : deployment'[q][f] = Absent => deployment[q][f] = Absent
    BY <1>2, <2>1, <2>2, ReplicatedIs DEF TypeInv, ObjectsType
  <2>4. ObjectsType'
    BY <1>1, <2>3 DEF TypeInv, ObjectsType, Exists
  <2>5. CatalogsType'
    BY <1>1, <1>2, <2>1 DEF TypeInv, CatalogsType
  <2>6. "createService" \in Pcs /\ "createService" \in Steps(s.op)
    BY SMTT(30), Zenon, <1>1, <1>2 DEF Placed, Steps, Locals, Ops, Pcs
  <2> QED BY <1>1, <1>2, <1>3, <1>5, <2>1, <2>4, <2>5, <2>6, GoesOn
<1> QED BY <1>4, <1>5

LEMMA CreateServiceDoes ==
  ASSUME TypeInv, Framed, NEW h \in Handler, CreateService(h, handler[h])
  PROVE  LET s == handler[h]
             new == handler'[h]
         IN  /\ TypeInv' /\ Others(h) /\ s \in Locals /\ Placed(s) /\ s.pc = "createService"
             /\ UNCHANGED <<deployment, terminating, conflict, view>>
             /\ \/ new = Idle /\ goal' = NoGoal /\ s.f \in services[s.target] /\ UNCHANGED services
                \/ /\ services' = [services EXCEPT ![s.target] = @ \cup {s.f}] /\ goal' = goal
                   /\ \/ new = Idle /\ s.op # "scaleUp"
                      \/ /\ new \in Locals /\ new.op = "scaleUp" /\ new.op = s.op /\ new.at = s.at /\ new.f = s.f
                         /\ new.target = s.target /\ new.pc \in {"node", "get"}
                         /\ new.pc = "get" => new.n > 1 \/ new.n = Workers[s.target]
                         /\ Places(new, s.i, s.target, 1, s.cnt - 1)
<1> DEFINE s == handler[h]
<1>1. s.pc = "createService" /\ UNCHANGED <<deployment, terminating, conflict, catalog>>
  BY Zenon DEF CreateService
<1>2. s \in Locals /\ Placed(s) /\ s.target \in Provider /\ s.f \in Function
  BY <1>1, AtStep DEF Locals
<1>3. conflict' \subseteq {g \in Handler : handler[g].pc = "put"} /\ h \notin conflict' /\ HistoryType'
  BY <1>1, HistoryKept DEF Framed, TypeInv, HandlersType
<1>4. CatalogsType' /\ UNCHANGED view
  BY <1>1, CatalogsKept
<1>5. CASE s.f \in services[s.target]
  <2>1. Fail(h) /\ UNCHANGED services
    BY <1>5, Zenon DEF CreateService
  <2>2. ObjectsType'
    BY <1>1, <2>1 DEF TypeInv, ObjectsType, Exists
  <2> QED BY <1>1, <1>2, <1>3, <1>4, <1>5, <2>1, <2>2, Ends, Zenon DEF Fail
<1>6. CASE s.f \notin services[s.target]
  <2>1. /\ services' = [services EXCEPT ![s.target] = @ \cup {s.f}]
        /\ IF s.op = "scaleUp" THEN PlaceReplicas(h, s, 1, s.cnt - 1) /\ UNCHANGED goal ELSE Return(h)
    BY <1>6, Zenon DEF CreateService
  <2>2. ObjectsType'
    BY <1>1, <1>2, <2>1 DEF TypeInv, ObjectsType, Exists
  <2>3. CASE s.op = "scaleUp"
    <3>1. s.cnt - 1 \in Int32s /\ 1 \in Replicated /\ s.i <= Len(Near[s.at])
      <4>1. s.cnt \in Int32s /\ s.cnt > 0 /\ s.i <= Len(Near[s.at])
        BY <1>1, <1>2, <2>3 DEF Placed, Locals
      <4>2. 2^(Bits - 1) \in Nat /\ 1 <= MaxInt32
        BY DeploymentsAssumption, Int32Assumption DEF MaxInt32
      <4> QED BY <4>1, <4>2 DEF Int32s, Replicated, MaxInt32
    <3> DEFINE one == 1
               left == s.cnt - 1
    <3>2. PlaceReplicas(h, s, one, left) /\ UNCHANGED goal /\ one \in Replicated /\ left \in Int32s
      BY <2>1, <2>3, <3>1
    <3> HIDE DEF left
    <3> QED BY <1>1, <1>2, <1>3, <1>4, <2>1, <2>2, <2>3, <3>1, <3>2, PlaceReplicasDoes, Zenon DEF left
  <2>4. CASE s.op # "scaleUp"
    BY <1>1, <1>2, <1>3, <1>4, <2>1, <2>2, <2>4, Ends DEF Return
  <2> QED BY <2>3, <2>4, Zenon
<1> QED BY <1>5, <1>6

LEMMA NextNodeDoes ==
  ASSUME TypeInv, Framed, NEW h \in Handler, NextNode(h, handler[h])
  PROVE  LET s == handler[h]
             new == handler'[h]
         IN  /\ TypeInv' /\ Others(h) /\ s \in Locals /\ s.op = "scaleUp" /\ s.pc = "node"
             /\ UNCHANGED <<deployment, terminating, services, conflict, view>>
             /\ \/ new = Idle /\ (goal' = NoGoal \/ s.cnt <= 0 \/ s.i > IF EnabledOffload THEN Len(Near[s.at]) ELSE 1)
                \/ /\ new \in Locals /\ new.op = s.op /\ new.at = s.at /\ new.f = s.f /\ goal' = goal
                   /\ s.cnt > 0 /\ s.i <= Len(Near[s.at])
                   /\ \/ new.pc = "node" /\ Near[s.at][s.i] \in overload /\ new.i = s.i + 1 /\ new.cnt = s.cnt
                      \/ /\ new.pc = "count" /\ view[s.at][new.target][s.f] = 0
                         /\ new.target = Near[s.at][s.i] /\ new.i = s.i /\ new.cnt = s.cnt
                      \/ /\ new.pc = "get" /\ new.target = Near[s.at][s.i]
                         /\ new.n > view[s.at][new.target][s.f] \/ new.n = Workers[new.target]
                         /\ Places(new, s.i, new.target, view[s.at][new.target][s.f], s.cnt)
             /\ goal' \in {goal, NoGoal}
<1> DEFINE s == handler[h]
           numNode == IF EnabledOffload THEN Len(Near[s.at]) ELSE 1
           p2pID == Near[s.at][s.i]
           avail == view[s.at][p2pID][s.f]
           here == [s EXCEPT !.target = p2pID]
<1>1. s.pc = "node" /\ UNCHANGED <<objects, catalog>>
  BY Zenon DEF NextNode
<1>2. s \in Locals /\ Placed(s)
  BY <1>1, AtStep
<1>3. /\ ObjectsType' /\ CatalogsType' /\ UNCHANGED <<deployment, terminating, services, conflict, view>>
      /\ conflict' \subseteq {g \in Handler : handler[g].pc = "put"} /\ HistoryType'
  BY <1>1, ObjectsKept, HistoryKept DEF Framed
<1>4. h \notin conflict' /\ s.op = "scaleUp"
  BY <1>1, <1>2, <1>3 DEF Placed, Steps, Locals, Ops
<1>5. CASE s.i > numNode \/ s.cnt <= 0
  <2>1. Return(h)
    BY <1>5, Zenon DEF NextNode
  <2> QED BY <1>1, <1>2, <1>3, <1>4, <1>5, <2>1, Ends, Zenon DEF Return
<1>6. CASE ~(s.i > numNode \/ s.cnt <= 0)
  <2>1. Len(Near[s.at]) \in Nat /\ s.i \in Nat \ {0} /\ 1 <= Len(Near[s.at])
    BY <1>2, DeploymentsAssumption DEF Locals
  <2>2. s.i <= numNode /\ s.cnt > 0
    <3>1. s.cnt \in Int /\ numNode \in Nat
      BY <1>2, <2>1, ReplicatedIs, Zenon DEF Locals
    <3> HIDE DEF numNode
    <3> QED BY <1>6, <2>1, <3>1
  <2>3. s.i <= Len(Near[s.at])
    BY <2>1, <2>2
  <2>4. p2pID \in Provider
    BY <1>2, <2>1, <2>3, DeploymentsAssumption DEF Locals
  <2>5. avail \in Replicated
    BY <1>2, <2>4, Seen, Zenon DEF Locals
  <2> HIDE DEF p2pID, numNode
  <2>6. /\ here \in Locals /\ here.op = s.op /\ here.pc = s.pc /\ here.at = s.at /\ here.f = s.f /\ here.i = s.i
        /\ here.target = p2pID /\ here.cnt = s.cnt
    BY SMTT(30), Zenon, <1>2, <2>4 DEF Locals
  <2>7. CASE p2pID \in overload
    <3> DEFINE k == s.i + 1
               new == [s EXCEPT !.i = k]
    <3>1. handler' = [handler EXCEPT ![h].i = @ + 1] /\ UNCHANGED goal
      BY <1>6, <2>7, Zenon DEF NextNode, numNode, p2pID
    <3>2. handler' = [handler EXCEPT ![h] = new]
      BY <3>1 DEF TypeInv, HandlersType
    <3>3. k \in Nat \ {0} /\ k <= Len(Near[s.at]) + 1
      BY <2>1, <2>3
    <3> HIDE DEF k
    <3>4. /\ new \in Locals /\ new.pc = "node" /\ new.op = s.op /\ new.at = s.at /\ new.f = s.f /\ new.i = k
          /\ new.cnt = s.cnt
      BY <1>1, <1>2, <3>3 DEF Locals
    <3> HIDE DEF new
    <3>5. Placed(new)
      BY <1>4, <3>3, <3>4 DEF Placed, Steps
    <3>6. TypeInv' /\ handler'[h] = new /\ Others(h)
      BY <1>3, <1>4, <3>2, <3>4, <3>5, Moves, Zenon
    <3> QED BY <1>1, <1>2, <1>3, <1>4, <2>2, <2>3, <2>7, <3>1, <3>4, <3>6 DEF k, p2pID
  <2>8. CASE p2pID \notin overload /\ avail = 0
    <3> DEFINE new == [here EXCEPT !.pc = "count"]
    <3>1. handler' = [handler EXCEPT ![h] = deployFunctionByP2PID(here)] /\ UNCHANGED goal
      BY <1>6, <2>8, Zenon DEF NextNode, numNode, p2pID
    <3> HIDE DEF here
    <3>2. handler' = [handler EXCEPT ![h] = new]
      BY <3>1 DEF deployFunctionByP2PID
    <3>3. /\ new \in Locals /\ new.pc = "count" /\ new.op = s.op /\ new.at = s.at /\ new.f = s.f /\ new.i = s.i
          /\ new.target = p2pID /\ new.cnt = s.cnt
      BY <2>6 DEF Locals, Pcs
    <3> HIDE DEF new
    <3>4. Placed(new)
      BY <1>2, <1>4, <2>2, <2>3, <3>3 DEF Placed, Steps
    <3>5. TypeInv' /\ handler'[h] = new /\ Others(h)
      BY <1>3, <1>4, <3>2, <3>3, <3>4, Moves, Zenon
    <3> QED BY <1>1, <1>2, <1>3, <1>4, <2>2, <2>3, <2>8, <3>1, <3>3, <3>5, Zenon DEF p2pID
  <2>9. CASE p2pID \notin overload /\ avail # 0 /\ p2pID \in Kubeconfig[s.at]
    <3>1. PlaceReplicas(h, here, avail, s.cnt) /\ UNCHANGED goal
      BY <1>6, <2>9, Zenon DEF NextNode, numNode, p2pID
    <3>2. s.cnt \in Int32s /\ here.i <= Len(Near[here.at])
      BY <1>2, <2>3, <2>6 DEF Locals
    <3>3. PICK other \in Locals : other = here
      BY <2>6
    <3>4. PICK there \in Replicated : there = avail
      BY <2>5
    <3>5. PICK c \in Int32s : c = s.cnt
      BY <3>2
    <3>6. PlaceReplicas(h, other, there, c) /\ other.i <= Len(Near[other.at]) /\ other.op = "scaleUp"
      BY <1>4, <2>6, <3>1, <3>2, <3>3, <3>4, <3>5
    <3>8. other.at = s.at /\ other.f = s.f /\ other.target = p2pID /\ other.i = s.i
      BY <2>6, <3>3
    <3> HIDE DEF here, avail
    <3> DEFINE new == handler'[h]
    <3>7. /\ TypeInv' /\ Others(h) /\ new \in Locals /\ new.op = "scaleUp" /\ new.at = other.at
          /\ new.f = other.f /\ new.target = other.target
          /\ new.pc \in {"node", "get"}
          /\ new.pc = "get" => new.n > there \/ new.n = Workers[other.target]
          /\ Places(new, other.i, other.target, there, c)
      <4>1. ObjectsType' /\ CatalogsType' /\ HistoryType'
        BY <1>3
      <4>2. conflict' \subseteq {g \in Handler : handler[g].pc = "put"} /\ h \notin conflict'
        BY <1>3, <1>4
      <4> HIDE DEF new
      <4> QED BY <3>6, <4>1, <4>2, PlaceReplicasDoes DEF new
    <3>9. new.pc = "get"
      BY <2>2, <3>5, <3>7 DEF Places
    <3> QED BY <1>1, <1>2, <1>3, <1>4, <2>2, <2>3, <3>1, <3>4, <3>5, <3>7, <3>8, <3>9, Zenon DEF avail, p2pID
  <2>10. CASE p2pID \notin overload /\ avail # 0 /\ p2pID \notin Kubeconfig[s.at]
    <3>1. Fail(h)
      BY <1>6, <2>10, Zenon DEF NextNode, numNode, p2pID
    <3> QED BY <1>1, <1>2, <1>3, <1>4, <3>1, Ends, Zenon DEF Fail
  <2> QED BY <2>7, <2>8, <2>9, <2>10, Zenon
<1> QED BY <1>5, <1>6, Zenon

LEMMA ScaleDownDoes ==
  ASSUME TypeInv, Framed, NEW h \in Handler, ScaleDown(h, handler[h])
  PROVE  LET s == handler[h]
             new == handler'[h]
         IN  /\ TypeInv' /\ Others(h) /\ s \in Locals /\ Placed(s) /\ s.pc = "down" /\ goal' = goal
             /\ UNCHANGED <<deployment, terminating, services, conflict, view>>
             /\ \/ new = Idle /\ (view[s.at][s.at][s.f] = 0 \/ s.cnt <= 0)
                \/ /\ new \in Locals /\ new.op = "scaleDown" /\ new.op = s.op /\ new.at = s.at /\ new.f = s.f
                   /\ \/ new.pc = "get" /\ new.n = view[s.at][s.at][s.f] - s.cnt
                      \/ new.pc = "deleteDeployment" /\ ~(view[s.at][s.at][s.f] > s.cnt)
<1> DEFINE s == handler[h]
           p2pID == Near[s.at][1]
           avail == view[s.at][p2pID][s.f]
           here == [s EXCEPT !.target = p2pID]
           less == [here EXCEPT !.pc = "get", !.n = avail - s.cnt]
           none == [here EXCEPT !.pc = "deleteDeployment"]
           new == IF avail > s.cnt THEN less ELSE none
<1>1. s.pc = "down" /\ UNCHANGED <<objects, catalog>>
  BY Zenon DEF ScaleDown
<1>2. s \in Locals /\ Placed(s)
  BY <1>1, AtStep
<1>3. /\ ObjectsType' /\ CatalogsType' /\ UNCHANGED <<deployment, terminating, services, conflict, view>>
      /\ conflict' \subseteq {g \in Handler : handler[g].pc = "put"} /\ HistoryType'
  BY <1>1, ObjectsKept, HistoryKept DEF Framed
<1>4. h \notin conflict' /\ s.op = "scaleDown"
  BY <1>1, <1>2, <1>3 DEF Placed, Steps, Locals, Ops
<1>5. CASE avail = 0 \/ s.cnt <= 0
  <2>1. Return(h)
    BY <1>5, Zenon DEF ScaleDown
  <2>2. p2pID = s.at
    BY <1>2, DeploymentsAssumption DEF Locals
  <2> QED BY <1>1, <1>2, <1>3, <1>4, <1>5, <2>1, <2>2, Ends, Zenon DEF Return
<1>6. CASE ~(avail = 0 \/ s.cnt <= 0)
  <2>1. handler' = [handler EXCEPT ![h] = new] /\ UNCHANGED goal
    BY <1>6, Zenon DEF ScaleDown
  <2>2. p2pID = s.at /\ p2pID \in Provider
    BY <1>2, DeploymentsAssumption DEF Locals
  <2>3. avail \in Replicated
    BY <1>2, <2>2, Seen DEF Locals
  <2>4. avail - s.cnt \in Int32s
    <3>1. s.cnt \in Int32s /\ s.cnt \in Int
      BY <1>2, ReplicatedIs, Zenon DEF Locals
    <3>2. s.cnt > 0
      BY <1>6, <3>1
    <3> HIDE DEF avail
    <3> QED BY <2>3, <3>1, <3>2, Int32Assumption DEF Int32s, Replicated, MaxInt32
  <2>5. PICK k \in Int32s : k = avail - s.cnt
    BY <2>4, Zenon
  <2> DEFINE fewer == [here EXCEPT !.pc = "get", !.n = k]
  <2>6. less = fewer
    BY <2>5, Zenon
  <2> HIDE DEF p2pID, avail
  <2>7. /\ here \in Locals /\ here.op = s.op /\ here.at = s.at /\ here.f = s.f /\ here.i = s.i
        /\ here.target = p2pID
    BY <1>2, <2>2 DEF Locals
  <2> HIDE DEF here
  <2>8. /\ fewer \in Locals /\ fewer.op = s.op /\ fewer.at = s.at /\ fewer.f = s.f /\ fewer.i = s.i
        /\ fewer.target = p2pID /\ fewer.pc = "get" /\ fewer.n = k
    BY <2>7, Zenon DEF Locals, Pcs
  <2>9. /\ none \in Locals /\ none.op = s.op /\ none.at = s.at /\ none.f = s.f /\ none.i = s.i
        /\ none.target = p2pID /\ none.pc = "deleteDeployment"
    BY <2>7 DEF Locals, Pcs
  <2> HIDE DEF fewer, none, less
  <2>10. /\ new \in Locals /\ new.op = s.op /\ new.at = s.at /\ new.f = s.f /\ new.i = s.i
         /\ new.target = p2pID
         /\ \/ new.pc = "get" /\ new.n = k
            \/ new.pc = "deleteDeployment" /\ ~(avail > s.cnt)
    BY <2>6, <2>8, <2>9
  <2> HIDE DEF new
  <2>11. Placed(new)
    BY <1>1, <1>2, <1>4, <2>2, <2>10 DEF Placed, Steps
  <2>12. TypeInv' /\ handler'[h] = new /\ Others(h)
    BY <1>3, <1>4, <2>1, <2>10, <2>11, Moves, Zenon
  <2> QED BY <1>1, <1>2, <1>3, <1>4, <2>1, <2>2, <2>5, <2>10, <2>12, Zenon DEF avail
<1> QED BY <1>5, <1>6, Zenon

LEMMA GetDeploymentDoes ==
  ASSUME TypeInv, Framed, NEW h \in Handler, GetDeployment(h, handler[h])
  PROVE  LET s == handler[h]
             new == handler'[h]
         IN  /\ TypeInv' /\ Others(h) /\ s \in Locals /\ Placed(s) /\ s.pc = "get"
             /\ UNCHANGED <<deployment, terminating, services, conflict, view>> /\ h \notin conflict
             /\ \/ new = Idle /\ goal' = NoGoal
                \/ /\ new \in Locals /\ new.pc = "put" /\ new.op = s.op /\ new.at = s.at /\ new.f = s.f
                   /\ new.target = s.target /\ new.i = s.i /\ new.cnt = s.cnt /\ goal' = goal /\ Exists(s.target, s.f)
                   /\ new.n = IF s.op = "update" THEN deployment[s.target][s.f] ELSE s.n
<1> DEFINE s == handler[h]
<1>1. s.pc = "get" /\ UNCHANGED <<objects, catalog>>
  BY Zenon DEF GetDeployment
<1>2. s \in Locals /\ Placed(s)
  BY <1>1, AtStep
<1>3. /\ ObjectsType' /\ CatalogsType' /\ UNCHANGED <<deployment, terminating, services, conflict, view>>
      /\ conflict' \subseteq {g \in Handler : handler[g].pc = "put"} /\ HistoryType'
  BY <1>1, ObjectsKept, HistoryKept DEF Framed
<1>4. h \notin conflict' /\ h \notin conflict
  BY <1>1, <1>3
<1>5. CASE ~Exists(s.target, s.f)
  <2>1. Fail(h)
    BY <1>5, Zenon DEF GetDeployment
  <2> QED BY <1>1, <1>2, <1>3, <1>4, <2>1, Ends, Zenon DEF Fail
<1>6. CASE Exists(s.target, s.f)
  <2> DEFINE copy == IF s.op = "update" THEN deployment[s.target][s.f] ELSE s.n
             new == [s EXCEPT !.pc = "put", !.n = copy]
  <2>1. /\ handler' = [handler EXCEPT ![h].pc = "put",
                ![h].n = IF s.op = "update" THEN deployment[s.target][s.f] ELSE @]
        /\ UNCHANGED goal
    BY <1>6, Zenon DEF GetDeployment
  <2>2. copy \in Int32s
    <3>1. s.n \in Int32s /\ s.target \in Provider /\ s.f \in Function
      BY <1>2 DEF Locals
    <3>2. deployment[s.target][s.f] \in Int32s
      <4>1. deployment[s.target][s.f] \in Replicated \cup {Absent}
        BY <3>1 DEF TypeInv, ObjectsType
      <4> QED BY <1>6, <4>1, ReplicatedIs, Zenon DEF Exists
    <3> QED BY <3>1, <3>2
  <2>3. handler' = [handler EXCEPT ![h] = new]
    <3>1. handler \in [Handler -> Locals \cup {Idle}]
      BY DEF TypeInv, HandlersType
    <3>2. [[s EXCEPT !.pc = "put"] EXCEPT !.n = copy] = new
      OBVIOUS
    <3> QED BY <1>2, <2>1, <3>1, <3>2, Zenon DEF Locals
  <2> HIDE DEF copy
  <2>4. /\ new \in Locals /\ new.pc = "put" /\ new.op = s.op /\ new.at = s.at /\ new.f = s.f
        /\ new.target = s.target /\ new.n = copy /\ new.i = s.i /\ new.cnt = s.cnt
    BY <1>2, <2>2, Zenon DEF Locals, Pcs
  <2> HIDE DEF new
  <2>5. Placed(new)
    BY <1>1, <1>2, <2>4 DEF Placed, Steps, Locals, Ops
  <2>6. TypeInv' /\ handler'[h] = new /\ Others(h)
    BY <1>3, <2>3, <2>4, <2>5, Moves, Zenon
  <2> QED BY <1>1, <1>2, <1>3, <1>4, <1>6, <2>1, <2>4, <2>6 DEF copy
<1> QED BY <1>5, <1>6, Zenon

LEMMA PutDeploymentDoes ==
  ASSUME TypeInv, Framed, NEW h \in Handler, PutDeployment(h, handler[h])
  PROVE  LET s == handler[h]
             new == handler'[h]
         IN  /\ TypeInv' /\ Others(h) /\ s \in Locals /\ Placed(s) /\ s.pc = "put"
             /\ UNCHANGED <<terminating, services, view>>
             /\ \/ new = Idle /\ goal' = NoGoal /\ UNCHANGED deployment /\ conflict' = conflict \ {h}
                \/ /\ h \notin conflict /\ Exists(s.target, s.f) /\ s.n \in Replicated /\ goal' = goal
                   /\ deployment' = [deployment EXCEPT ![s.target][s.f] = s.n]
                   /\ conflict' = (conflict \cup Holders(s.target, s.f)) \ {h}
                   /\ \/ new = Idle /\ s.op # "scaleUp"
                      \/ /\ new \in Locals /\ new.op = s.op /\ new.at = s.at /\ new.f = s.f
                         /\ new.pc = IF s.op = "scaleUp" THEN "node" ELSE "updateService"
                         /\ s.op = "scaleUp" => new.i = s.i + 1 /\ new.cnt = s.cnt
<1> DEFINE s == handler[h]
<1>1. s.pc = "put" /\ UNCHANGED <<terminating, services, catalog>>
  BY Zenon DEF PutDeployment
<1>2. s \in Locals /\ Placed(s) /\ s.target \in Provider /\ s.f \in Function
  BY <1>1, AtStep DEF Locals
<1>3. CatalogsType' /\ UNCHANGED view /\ HistoryType'
  BY <1>1, CatalogsKept, HistoryKept DEF Framed
<1>4. CASE h \in conflict \/ ~Exists(s.target, s.f) \/ s.n < 0
  <2>1. Fail(h) /\ UNCHANGED deployment /\ conflict' = conflict \ {h}
    BY <1>4, Zenon DEF PutDeployment
  <2>2. ObjectsType'
    BY <1>1, <2>1 DEF TypeInv, ObjectsType, Exists
  <2>3. conflict' \subseteq {g \in Handler : handler[g].pc = "put"} /\ h \notin conflict'
    BY <2>1 DEF TypeInv, HandlersType
  <2> QED BY <1>1, <1>2, <1>3, <2>1, <2>2, <2>3, Ends, Zenon DEF Fail
<1>5. CASE ~(h \in conflict \/ ~Exists(s.target, s.f) \/ s.n < 0)
  <2>1. /\ deployment' = [deployment EXCEPT ![s.target][s.f] = s.n]
        /\ conflict' = (conflict \cup Holders(s.target, s.f)) \ {h}
        /\ CASE s.op = "scaleUp" ->
                  handler' = [handler EXCEPT ![h].pc = "node", ![h].i = @ + 1] /\ UNCHANGED goal
             [] s.op \in {"update", "updateMin"} -> Goto(h, "updateService") /\ UNCHANGED goal
             [] OTHER -> Return(h)
    BY <1>5, Zenon DEF PutDeployment
  <2>2. s.n \in Replicated
    <3>1. s.n \in Int32s /\ s.n \in Int
      BY <1>2, ReplicatedIs, Zenon DEF Locals
    <3>2. ~(s.n < 0)
      BY <1>5, Zenon
    <3> QED BY ONLY <3>1, <3>2, Int32Assumption DEF Int32s, Replicated, MaxInt32
  <2>3. /\ deployment' \in [Provider -> [Function -> Replicated \cup {Absent}]]
        /\ \A q \in Provider, f \in Function : deployment'[q][f] = Absent => deployment[q][f] = Absent
    BY <1>2, <2>1, <2>2, ReplicatedIs DEF TypeInv, ObjectsType
  <2>4. ObjectsType'
    BY <1>1, <2>3 DEF TypeInv, ObjectsType, Exists
  <2>5. conflict' \subseteq {g \in Handler : handler[g].pc = "put"} /\ h \notin conflict'
    BY <2>1 DEF TypeInv, HandlersType, Holders
  <2>6. CASE s.op = "scaleUp"
    <3> DEFINE k == s.i + 1
               new == [s EXCEPT !.pc = "node", !.i = k]
    <3>1. handler' = [handler EXCEPT ![h].pc = "node", ![h].i = @ + 1] /\ UNCHANGED goal
      BY <2>1, <2>6
    <3>2. handler' = [handler EXCEPT ![h] = new]
      <4>1. handler \in [Handler -> Locals \cup {Idle}]
        BY DEF TypeInv, HandlersType
      <4> QED BY <1>2, <3>1, <4>1 DEF Locals
    <3>3. k \in Nat \ {0} /\ k <= Len(Near[s.at]) + 1
      <4>1. Len(Near[s.at]) \in Nat /\ s.i \in Nat /\ s.i <= Len(Near[s.at])
        BY <1>1, <1>2, DeploymentsAssumption DEF Locals, Placed
      <4> QED BY <4>1
    <3> HIDE DEF k
    <3>4. /\ new \in Locals /\ new.pc = "node" /\ new.op = s.op /\ new.at = s.at /\ new.f = s.f /\ new.i = k
          /\ new.cnt = s.cnt
      BY <1>2, <3>3, Zenon DEF Locals, Pcs
    <3> HIDE DEF new
    <3>5. Placed(new)
      BY <2>6, <3>3, <3>4 DEF Placed, Steps
    <3>6. TypeInv' /\ handler'[h] = new /\ Others(h)
      BY <1>3, <2>4, <2>5, <3>2, <3>4, <3>5, Moves, Zenon
    <3> QED BY <1>1, <1>2, <1>3, <1>5, <2>1, <2>2, <2>6, <3>1, <3>4, <3>6 DEF k
  <2>7. CASE s.op \in {"update", "updateMin"}
    <3>1. Goto(h, "updateService") /\ UNCHANGED goal
      BY <2>1, <2>7
    <3>2. "updateService" \in Pcs /\ "updateService" \in Steps(s.op)
      BY <2>7 DEF Steps, Pcs
    <3> QED BY <1>1, <1>2, <1>3, <1>5, <2>1, <2>2, <2>4, <2>5, <2>7, <3>1, <3>2, GoesOn
  <2>8. CASE s.op \notin {"scaleUp", "update", "updateMin"}
    <3>1. Return(h)
      BY <2>1, <2>8
    <3> QED BY <1>1, <1>2, <1>3, <1>5, <2>1, <2>2, <2>4, <2>5, <2>8, <3>1, Ends, Zenon DEF Return
  <2> QED BY <2>6, <2>7, <2>8, Zenon
<1> QED BY <1>4, <1>5, Zenon

LEMMA UpdateServiceDoes ==
  ASSUME TypeInv, Framed, NEW h \in Handler, UpdateService(h, handler[h])
  PROVE  LET s == handler[h]
         IN  /\ TypeInv' /\ Others(h) /\ s \in Locals /\ Placed(s) /\ s.pc = "updateService"
             /\ UNCHANGED <<deployment, terminating, services, conflict, view>>
             /\ handler'[h] = Idle /\ goal' \in {goal, NoGoal}
<1> DEFINE s == handler[h]
<1>1. s.pc = "updateService" /\ UNCHANGED <<objects, catalog>> /\ (Return(h) \/ Fail(h))
  BY Zenon DEF UpdateService
<1>2. s \in Locals /\ Placed(s)
  BY <1>1, AtStep
<1>3. /\ ObjectsType' /\ CatalogsType' /\ UNCHANGED <<deployment, terminating, services, conflict, view>>
      /\ conflict' \subseteq {g \in Handler : handler[g].pc = "put"} /\ HistoryType'
  BY <1>1, ObjectsKept, HistoryKept, Zenon DEF Framed
<1>4. h \notin conflict'
  BY <1>1, <1>3
<1>5. handler' = [handler EXCEPT ![h] = Idle] /\ goal' \in {goal, NoGoal}
  BY <1>1 DEF Return, Fail
<1> QED BY <1>1, <1>2, <1>3, <1>4, <1>5, Ends, Zenon

\* One entry of one catalog changes.
LEMMA ViewSet ==
  ASSUME view \in [Provider -> [Provider -> [Function -> Replicated]]],
         NEW p \in Provider, NEW q \in Provider, NEW f \in Function, NEW v \in Replicated
  PROVE  LET new == [view EXCEPT ![p][q][f] = v]
         IN  /\ new \in [Provider -> [Provider -> [Function -> Replicated]]]
             /\ \A a, b \in Provider, g \in Function :
                  new[a][b][g] = IF a = p /\ b = q /\ g = f THEN v ELSE view[a][b][g]
<1> DEFINE row == view[p][q]
           rows == view[p]
           newRow == [row EXCEPT ![f] = v]
           newRows == [rows EXCEPT ![q] = newRow]
           new == [view EXCEPT ![p] = newRows]
<1>1. rows \in [Provider -> [Function -> Replicated]] /\ row \in [Function -> Replicated]
  OBVIOUS
<1>2. [view EXCEPT ![p][q][f] = v] = new
  BY Zenon
<1> HIDE DEF row, rows
<1>3. newRow \in [Function -> Replicated] /\ \A g \in Function : newRow[g] = IF g = f THEN v ELSE row[g]
  BY <1>1
<1> HIDE DEF newRow
<1>4. newRows \in [Provider -> [Function -> Replicated]] /\ \A b \in Provider : newRows[b] = IF b = q THEN newRow ELSE rows[b]
  BY <1>1, <1>3
<1> HIDE DEF newRows
<1>5. /\ new \in [Provider -> [Provider -> [Function -> Replicated]]]
      /\ \A a \in Provider : new[a] = IF a = p THEN newRows ELSE view[a]
  BY <1>4
<1> HIDE DEF new
<1>6. \A a, b \in Provider, g \in Function :
        new[a][b][g] = IF a = p /\ b = q /\ g = f THEN v ELSE view[a][b][g]
  BY <1>3, <1>4, <1>5 DEF row, rows
<1> QED BY <1>2, <1>5, <1>6

LEMMA FindDeploymentDoes ==
  ASSUME TypeInv, Framed, NEW h \in Handler, FindDeployment(h, handler[h])
  PROVE  LET s == handler[h]
             new == handler'[h]
         IN  /\ TypeInv' /\ Others(h) /\ s \in Locals /\ Placed(s) /\ s.pc = "find"
             /\ UNCHANGED <<deployment, terminating, services, conflict>>
             /\ \/ new = Idle /\ goal' = NoGoal
                \/ /\ new \in Locals /\ new.pc = "deleteDeployment" /\ new.op = s.op /\ new.at = s.at /\ new.f = s.f
                   /\ goal' = goal
<1> DEFINE s == handler[h]
<1>1. s.pc = "find" /\ UNCHANGED <<objects, awaited, listed>>
  BY Zenon DEF FindDeployment
<1>2. s \in Locals /\ Placed(s) /\ s.at \in Provider /\ s.f \in Function
  BY <1>1, AtStep DEF Locals
<1>3. ObjectsType' /\ UNCHANGED <<deployment, terminating, services, conflict>>
  BY <1>1 DEF TypeInv, ObjectsType, Exists, objects
<1>4. conflict' \subseteq {g \in Handler : handler[g].pc = "put"} /\ h \notin conflict' /\ HistoryType'
  BY <1>1, <1>3, HistoryKept DEF Framed, TypeInv, HandlersType
<1>5. view' = view \/ view' = [view EXCEPT ![s.at][s.at][s.f] = 0]
  BY Zenon DEF FindDeployment
<1>6. /\ \/ known' = known
         \/ known' = [known EXCEPT ![s.at] =
              IF \A q \in Provider : view'[s.at][q][s.f] = 0 THEN @ \ {s.f} ELSE @]
      /\ Fail(h) \/ (Goto(h, "deleteDeployment") /\ UNCHANGED goal)
  <2>1. CASE ~Exists(s.at, s.f)
    BY <2>1, Zenon DEF FindDeployment
  <2>2. CASE Exists(s.at, s.f)
    <3> DEFINE K == [known EXCEPT ![s.at] =
                       IF \A q \in Provider : view'[s.at][q][s.f] = 0 THEN @ \ {s.f} ELSE @]
    <3>1. IF s.f \notin known[s.at]
          THEN Fail(h) /\ UNCHANGED known
          ELSE known' = K /\ Goto(h, "deleteDeployment") /\ UNCHANGED goal
      BY <2>2, Zenon DEF FindDeployment
    <3> HIDE DEF K
    <3>2. (known' = known \/ known' = K) /\ (Fail(h) \/ (Goto(h, "deleteDeployment") /\ UNCHANGED goal))
      BY <3>1
    <3> QED BY <3>2, Zenon DEF K
  <2> QED BY <2>1, <2>2, Zenon
<1>7. view' \in [Provider -> [Provider -> [Function -> Replicated]]]
  <2>1. 0 \in Replicated
    BY Int32Assumption DEF Replicated, MaxInt32
  <2>2. view \in [Provider -> [Provider -> [Function -> Replicated]]]
    BY DEF TypeInv, CatalogsType
  <2>3. [view EXCEPT ![s.at][s.at][s.f] = 0] \in [Provider -> [Provider -> [Function -> Replicated]]]
    <3>1. PICK none \in Replicated : none = 0
      BY <2>1
    <3>2. [view EXCEPT ![s.at][s.at][s.f] = none] \in [Provider -> [Provider -> [Function -> Replicated]]]
      BY <1>2, <2>2, ViewSet
    <3> QED BY <3>1, <3>2
  <2> QED BY <1>5, <2>2, <2>3, Zenon
<1>8. known' \in [Provider -> SUBSET Function]
  <2>1. known \in [Provider -> SUBSET Function]
    BY DEF TypeInv, CatalogsType
  <2>2. PICK drop : drop \in SUBSET Function /\ (known' = known \/ known' = [known EXCEPT ![s.at] = drop])
    <3>1. known[s.at] \in SUBSET Function /\ known[s.at] \ {s.f} \in SUBSET Function
      BY <1>2, <2>1
    <3>2. CASE \A q \in Provider : view'[s.at][q][s.f] = 0
      BY <1>6, <3>1, <3>2, Zenon
    <3>3. CASE ~\A q \in Provider : view'[s.at][q][s.f] = 0
      BY <1>6, <3>1, <3>3, Zenon
    <3> QED BY <3>2, <3>3, Zenon
  <2> QED BY <1>2, <2>1, <2>2
<1>9. CatalogsType'
  BY <1>1, <1>7, <1>8 DEF TypeInv, CatalogsType
<1>10. CASE Fail(h)
  BY <1>1, <1>2, <1>3, <1>4, <1>9, <1>10, Ends, Zenon DEF Fail
<1>11. CASE Goto(h, "deleteDeployment") /\ UNCHANGED goal
  <2>1. "deleteDeployment" \in Pcs /\ "deleteDeployment" \in Steps(s.op)
    BY <1>1, <1>2 DEF Placed, Steps, Locals, Ops, Pcs
  <2> QED BY <1>1, <1>2, <1>3, <1>4, <1>9, <1>11, <2>1, GoesOn, Zenon
<1> QED BY <1>6, <1>10, <1>11, Zenon

LEMMA DeleteDeploymentDoes ==
  ASSUME TypeInv, Framed, NEW h \in Handler, DeleteDeployment(h, handler[h])
  PROVE  LET s == handler[h]
             new == handler'[h]
         IN  /\ TypeInv' /\ Others(h) /\ s \in Locals /\ Placed(s) /\ s.pc = "deleteDeployment"
             /\ UNCHANGED <<deployment, services, view>>
             /\ \/ new = Idle /\ goal' = NoGoal /\ UNCHANGED <<terminating, conflict>>
                \/ /\ new \in Locals /\ new.pc = "deleteService" /\ new.op = s.op /\ new.at = s.at /\ new.f = s.f
                   /\ new.target = s.target /\ goal' = goal
                   /\ terminating' = [terminating EXCEPT ![s.target] = @ \cup {s.f}]
                   /\ conflict' = conflict \cup Holders(s.target, s.f)
<1> DEFINE s == handler[h]
<1>1. s.pc = "deleteDeployment" /\ UNCHANGED <<deployment, services, catalog>>
  BY Zenon DEF DeleteDeployment
<1>2. s \in Locals /\ Placed(s) /\ s.target \in Provider /\ s.f \in Function
  BY <1>1, AtStep DEF Locals
<1>3. CatalogsType' /\ UNCHANGED view /\ HistoryType'
  BY <1>1, CatalogsKept, HistoryKept DEF Framed
<1>4. CASE ~Exists(s.target, s.f)
  <2>1. Fail(h) /\ UNCHANGED <<terminating, conflict>>
    BY <1>4, Zenon DEF DeleteDeployment
  <2>2. ObjectsType' /\ conflict' \subseteq {g \in Handler : handler[g].pc = "put"} /\ h \notin conflict'
    BY <1>1, <2>1 DEF TypeInv, ObjectsType, HandlersType, Exists
  <2> QED BY <1>1, <1>2, <1>3, <2>1, <2>2, Ends, Zenon DEF Fail
<1>5. CASE Exists(s.target, s.f)
  <2>1. /\ terminating' = [terminating EXCEPT ![s.target] = @ \cup {s.f}]
        /\ conflict' = conflict \cup Holders(s.target, s.f)
        /\ Goto(h, "deleteService") /\ UNCHANGED goal
    BY <1>5, Zenon DEF DeleteDeployment
  <2>2. ObjectsType'
    BY <1>1, <1>2, <1>5, <2>1 DEF TypeInv, ObjectsType, Exists
  <2>3. conflict' \subseteq {g \in Handler : handler[g].pc = "put"} /\ h \notin conflict'
    BY <1>1, <2>1 DEF TypeInv, HandlersType, Holders
  <2>4. "deleteService" \in Pcs /\ "deleteService" \in Steps(s.op)
    BY <1>1, <1>2 DEF Placed, Steps, Locals, Ops, Pcs
  <2> QED BY <1>1, <1>2, <1>3, <2>1, <2>2, <2>3, <2>4, GoesOn, Zenon
<1> QED BY <1>4, <1>5, Zenon

LEMMA DeleteServiceDoes ==
  ASSUME TypeInv, Framed, NEW h \in Handler, DeleteService(h, handler[h])
  PROVE  LET s == handler[h]
         IN  /\ TypeInv' /\ Others(h) /\ s \in Locals /\ Placed(s) /\ s.pc = "deleteService"
             /\ UNCHANGED <<deployment, terminating, conflict, view>>
             /\ handler'[h] = Idle /\ goal' \in {goal, NoGoal}
             /\ services' = [services EXCEPT ![s.target] = @ \ {s.f}]
<1> DEFINE s == handler[h]
<1>1. /\ s.pc = "deleteService" /\ UNCHANGED <<deployment, terminating, conflict, catalog>>
      /\ Return(h) \/ Fail(h)
      /\ services' = [services EXCEPT ![s.target] = @ \ {s.f}]
  BY Zenon DEF DeleteService
<1>2. s \in Locals /\ Placed(s) /\ s.target \in Provider
  BY <1>1, AtStep, ZenonT(30) DEF Locals
<1>3. CatalogsType' /\ UNCHANGED view /\ HistoryType'
  BY <1>1, CatalogsKept, HistoryKept DEF Framed
<1>4. ObjectsType' /\ conflict' \subseteq {g \in Handler : handler[g].pc = "put"} /\ h \notin conflict'
  BY <1>1, <1>2 DEF TypeInv, ObjectsType, HandlersType, Exists
<1>5. handler' = [handler EXCEPT ![h] = Idle] /\ goal' \in {goal, NoGoal}
  BY <1>1 DEF Return, Fail
<1> QED BY <1>1, <1>2, <1>3, <1>4, <1>5, Ends, Zenon

---------------------------------------------------------------------------
(* Handlers begin *)

\* The local variables a handler may begin with.
Fresh(s) ==
  /\ s \in Locals /\ Placed(s) /\ s.target = s.at
  /\ s.pc \in {"count", "get", "find", "node", "down"}
  /\ s.op = "scaleUp" <=> s.pc = "node"
  /\ s.op = "scaleDown" <=> s.pc = "down"

\* The sums over the providers are natural numbers (SumOfFunction in DeploymentsTheorems).
SumsAreNatural == \A v \in [Provider -> Nat] : SumFunction(v) \in Nat

LEMMA ReplicasIsNat ==
  ASSUME TypeInv, SumsAreNatural, NEW p \in Provider, NEW f \in Function
  PROVE  Replicas(p, f) \in Nat
<1> DEFINE v == [q \in Provider |-> view[p][q][f]]
<1>1. v \in [Provider -> Nat]
  BY Seen, ReplicatedIs, Zenon
<1> HIDE DEF v
<1>2. SumFunction(v) \in Nat
  BY <1>1 DEF SumsAreNatural
<1> QED BY <1>2 DEF Replicas, v

LEMMA UpdaterIsFresh ==
  ASSUME TypeInv, SumsAreNatural, NEW kind, NEW p \in Provider, NEW f \in Function, NEW r \in Nat,
         NEW s \in MakeReplicaUpdater(kind, p, f, r)
  PROVE  Fresh(s) /\ s.at = p /\ s.f = f /\ (s.op = "scaleUp" => s.cnt \in Int32s)
<1> DEFINE replicas == IF Int32(r) >= MaxReplicas THEN MaxReplicas ELSE Int32(r)
           oldReplicas == Int32(Replicas(p, f))
           start == [Local EXCEPT !.at = p, !.f = f, !.target = p]
<1>1. Int32(r) \in Int32s /\ oldReplicas \in Int32s /\ MaxReplicas \in Int32s
  <2>1. Int32(r) \in Int32s /\ oldReplicas \in Int32s
    BY ReplicasIsNat, Int32Wraps
  <2>2. MaxReplicas \in Replicated
    BY DeploymentsAssumption, Int32Assumption DEF Replicated
  <2> QED BY <2>1, <2>2, ReplicatedIs
<1>2. replicas \in Int32s
  BY <1>1
<1> HIDE DEF replicas, oldReplicas
<1>3. Int32(replicas - oldReplicas) \in Int32s /\ Int32(oldReplicas - replicas) \in Int32s
  BY <1>1, <1>2, ReplicatedIs, Int32Wraps
<1>4. PICK up \in Int32s, down \in Int32s, n \in Int32s :
        up = Int32(replicas - oldReplicas) /\ down = Int32(oldReplicas - replicas) /\ n = replicas
  BY <1>2, <1>3
<1> DEFINE set == [start EXCEPT !.op = "set", !.pc = "get", !.n = n]
           more == [start EXCEPT !.op = "scaleUp", !.pc = "node", !.cnt = up]
           fewer == [start EXCEPT !.op = "scaleDown", !.pc = "down", !.cnt = down]
<1>5. s = set \/ s = more \/ s = fewer
  BY <1>4, Zenon DEF MakeReplicaUpdater, replicas, oldReplicas
<1>6. 0 \in Int32s /\ 1 \in Nat \ {0} /\ 1 <= Len(Near[p])
  BY DeploymentsAssumption, Int32Assumption DEF Int32s, MaxInt32
<1>7. start \in [op : {""}, pc : {""}, at : {p}, f : {f}, target : {p}, i : {1}, cnt : {0}, n : {0}]
  BY Zenon DEF Local
<1> HIDE DEF start
<1>8. /\ set \in Locals /\ set.op = "set" /\ set.pc = "get" /\ set.at = p /\ set.f = f /\ set.target = p /\ set.i = 1
  BY <1>6, <1>7, Zenon DEF Locals, Ops, Pcs
<1>9. /\ more \in Locals /\ more.op = "scaleUp" /\ more.pc = "node" /\ more.at = p /\ more.f = f
      /\ more.target = p /\ more.i = 1
  BY <1>6, <1>7, Zenon DEF Locals, Ops, Pcs
<1>10. /\ fewer \in Locals /\ fewer.op = "scaleDown" /\ fewer.pc = "down" /\ fewer.at = p /\ fewer.f = f
       /\ fewer.target = p /\ fewer.i = 1
  BY <1>6, <1>7, Zenon DEF Locals, Ops, Pcs
<1> HIDE DEF set, more, fewer
<1>11. CASE s = set
  <2>1. Placed(s)
    BY <1>6, <1>8, <1>11, DeploymentsAssumption DEF Placed, Steps
  <2> QED BY <1>8, <1>11, <2>1 DEF Fresh
<1>12. CASE s = more
  <2>1. Placed(s)
    BY <1>6, <1>9, <1>12, DeploymentsAssumption DEF Placed, Steps
  <2>2. s.cnt \in Int32s
    BY <1>9, <1>12 DEF Locals
  <2> QED BY <1>9, <1>12, <2>1, <2>2 DEF Fresh
<1>13. CASE s = fewer
  <2>1. Placed(s)
    BY <1>6, <1>10, <1>13, DeploymentsAssumption DEF Placed, Steps
  <2> QED BY <1>10, <1>13, <2>1 DEF Fresh
<1> QED BY <1>5, <1>11, <1>12, <1>13

LEMMA OperationIsFresh ==
  ASSUME TypeInv, SumsAreNatural, NEW kind \in Kinds, NEW p \in Provider, NEW f \in Function,
         NEW s \in Operations(kind, p, f)
  PROVE  Fresh(s) /\ s.at = p /\ s.f = f
<1> DEFINE start == [Local EXCEPT !.at = p, !.f = f, !.target = p, !.op = kind]
<1>1. kind \in {"deploy", "update", "delete", "scale", "set"}
  BY DeploymentsAssumption
<1>2. MinReplicas \in Int32s /\ 0 \in Int32s /\ 1 \in Nat \ {0} /\ 1 <= Len(Near[p])
  BY DeploymentsAssumption, Int32Assumption DEF Int32s, MaxInt32
<1>3. start \in [op : {kind}, pc : {""}, at : {p}, f : {f}, target : {p}, i : {1}, cnt : {0}, n : {0}]
  BY Zenon DEF Local
<1> HIDE DEF start
<1>4. CASE kind = "deploy"
  <2>1. s = [start EXCEPT !.pc = "count"]
    BY <1>4 DEF Operations, MakeDeployHandler, start
  <2>2. s \in Locals /\ s.op = "deploy" /\ s.pc = "count" /\ s.at = p /\ s.f = f /\ s.target = p /\ s.i = 1
    BY <1>2, <1>3, <1>4, <2>1, Zenon DEF Locals, Ops, Pcs
  <2>3. Placed(s)
    BY <1>2, <2>2, DeploymentsAssumption DEF Placed, Steps
  <2> QED BY <2>2, <2>3 DEF Fresh
<1>5. CASE kind = "delete"
  <2>1. s = [start EXCEPT !.pc = "find"]
    BY <1>5 DEF Operations, MakeDeleteHandler, start
  <2>2. s \in Locals /\ s.op = "delete" /\ s.pc = "find" /\ s.at = p /\ s.f = f /\ s.target = p /\ s.i = 1
    BY <1>2, <1>3, <1>5, <2>1, Zenon DEF Locals, Ops, Pcs
  <2>3. Placed(s)
    BY <1>2, <2>2, DeploymentsAssumption DEF Placed, Steps
  <2> QED BY <2>2, <2>3 DEF Fresh
<1>6. CASE kind = "update"
  <2>1. \/ s = [start EXCEPT !.pc = "get"]
        \/ s = [start EXCEPT !.pc = "get", !.op = "updateMin", !.n = MinReplicas]
    BY <1>6 DEF Operations, updateDeploymentSpec, start
  <2>2. /\ s \in Locals /\ s.op \in {"update", "updateMin"} /\ s.pc = "get" /\ s.at = p /\ s.f = f
        /\ s.target = p /\ s.i = 1
    <3>1. CASE s = [start EXCEPT !.pc = "get"]
      BY <1>2, <1>3, <1>6, <3>1, Zenon DEF Locals, Ops, Pcs
    <3>2. CASE s = [start EXCEPT !.pc = "get", !.op = "updateMin", !.n = MinReplicas]
      BY <1>2, <1>3, <3>2, Zenon DEF Locals, Ops, Pcs
    <3> QED BY <2>1, <3>1, <3>2
  <2>3. Placed(s)
    BY <1>2, <2>2, DeploymentsAssumption DEF Placed, Steps
  <2> QED BY <2>2, <2>3 DEF Fresh
<1>7. CASE kind \in {"scale", "set"}
  <2>1. \E r \in Requests : s \in MakeReplicaUpdater(kind, p, f, r)
    BY <1>7 DEF Operations
  <2>2. Requests \subseteq Nat
    BY DeploymentsAssumption
  <2> QED BY <2>1, <2>2, UpdaterIsFresh
<1> QED BY <1>1, <1>4, <1>5, <1>6, <1>7

LEMMA BeginDoes ==
  ASSUME TypeInv, SumsAreNatural, NEW h \in Handler, Begin(h)
  PROVE  /\ TypeInv' /\ Others(h) /\ handler[h] = Idle
         /\ UNCHANGED <<deployment, terminating, services, conflict, view, overload>>
         /\ overlapped' = (overlapped \/ ~Quiet) /\ used'.faults = used.faults
         /\ \E kind \in Kinds, p \in Provider, f \in Function :
              \E s \in Operations(kind, p, f) : handler'[h] = s /\ goal' = Goal(s) /\ Fresh(s) /\ s.at = p /\ s.f = f
<1>1. /\ handler[h] = Idle /\ UNCHANGED <<objects, catalog, overload>>
      /\ used' = [used EXCEPT !.ops = @ + 1] /\ overlapped' = (overlapped \/ ~Quiet)
  BY Zenon DEF Begin
<1>2. PICK kind \in Kinds, p \in Provider, f \in Function :
        \E s \in Operations(kind, p, f) : handler' = [handler EXCEPT ![h] = s] /\ goal' = Goal(s)
  BY Zenon DEF Begin
<1>3. PICK s \in Operations(kind, p, f) : handler' = [handler EXCEPT ![h] = s] /\ goal' = Goal(s)
  BY <1>2, Zenon
<1>4. Fresh(s) /\ s.at = p /\ s.f = f
  BY OperationIsFresh
<1>5. s \in Locals /\ Placed(s) /\ s.pc # "put"
  BY <1>4 DEF Fresh
<1>6. /\ ObjectsType' /\ CatalogsType' /\ UNCHANGED <<deployment, terminating, services, conflict, view>>
      /\ conflict' \subseteq {g \in Handler : handler[g].pc = "put"}
  BY <1>1, ObjectsKept
<1>7. HistoryType' /\ used'.faults = used.faults
  <2>1. used \in [ops : Nat, faults : Nat] /\ overlapped \in BOOLEAN
    BY DEF TypeInv, HistoryType
  <2>2. used' \in [ops : Nat, faults : Nat] /\ used'.faults = used.faults
    BY <1>1, <2>1
  <2>3. overlapped' \in BOOLEAN
    BY Zenon, <1>1
  <2> QED BY <2>2, <2>3 DEF HistoryType
<1>8. h \notin conflict'
  BY <1>1, <1>6, IdleOrNot
<1>9. TypeInv' /\ handler'[h] = s /\ Others(h)
  BY <1>3, <1>5, <1>6, <1>7, <1>8, Moves, Zenon
<1>10. \E t \in Operations(kind, p, f) : handler'[h] = t /\ goal' = Goal(t) /\ Fresh(t) /\ t.at = p /\ t.f = f
  BY Zenon, <1>3, <1>4, <1>9
<1> QED BY Zenon, <1>1, <1>6, <1>7, <1>9, <1>10

LEMMA FaultDoes ==
  ASSUME TypeInv, NEW h \in Handler, Fault(h, handler[h])
  PROVE  /\ TypeInv' /\ Others(h) /\ handler[h] # Idle /\ handler'[h] = Idle /\ goal' = NoGoal
         /\ UNCHANGED <<deployment, terminating, services, view, overlapped, overload>>
         /\ conflict' = conflict \ {h} /\ used'.faults # 0
<1>1. /\ handler[h].pc # "idle" /\ UNCHANGED <<deployment, terminating, services, catalog, overload, overlapped>>
      /\ used' = [used EXCEPT !.faults = @ + 1] /\ Fail(h) /\ conflict' = conflict \ {h}
  BY DEF Fault
<1>2. CatalogsType' /\ UNCHANGED view
  BY <1>1, CatalogsKept
<1>3. ObjectsType' /\ conflict' \subseteq {g \in Handler : handler[g].pc = "put"} /\ h \notin conflict'
  BY <1>1 DEF TypeInv, ObjectsType, HandlersType, Exists
<1>4. HistoryType' /\ used'.faults # 0
  BY <1>1 DEF TypeInv, HistoryType
<1>5. handler[h] # Idle
  BY <1>1, IdleOrNot
<1> QED BY <1>1, <1>2, <1>3, <1>4, <1>5, Ends, Zenon DEF Fail

---------------------------------------------------------------------------
(* The clusters and the catalogs *)

\* No handler takes part.
Watched == UNCHANGED <<overload, handler, used, overlapped, goal>>

LEMMA WatchedTypes ==
  ASSUME TypeInv, Watched, ObjectsType', CatalogsType', conflict' \subseteq {g \in Handler : handler[g].pc = "put"}
  PROVE  TypeInv'
BY DEF TypeInv, HandlersType, HistoryType, Placed, Watched

LEMMA RunningIs ==
  ASSUME TypeInv, NEW q \in Provider, NEW f \in Function
  PROVE  Running(q, f) \in Replicated
<1>1. deployment[q][f] \in Replicated \cup {Absent}
  BY DEF TypeInv, ObjectsType
<1>2. 0 \in Replicated
  BY Int32Assumption DEF Replicated, MaxInt32
<1> QED BY <1>1, <1>2 DEF Running, Exists

LEMMA CollectDoes ==
  ASSUME TypeInv, Watched, NEW q \in Provider, NEW f \in Function, Collect(q, f)
  PROVE  /\ TypeInv' /\ UNCHANGED <<services, view>> /\ f \in terminating[q] /\ Exists(q, f)
         /\ terminating' = [terminating EXCEPT ![q] = @ \ {f}]
         /\ deployment' = [deployment EXCEPT ![q][f] = Absent]
         /\ conflict' = conflict \cup Holders(q, f)
<1>1. /\ f \in terminating[q] /\ terminating' = [terminating EXCEPT ![q] = @ \ {f}]
      /\ deployment' = [deployment EXCEPT ![q][f] = Absent]
      /\ conflict' = conflict \cup Holders(q, f) /\ UNCHANGED <<services, catalog>>
  BY DEF Collect
<1>2. CatalogsType' /\ UNCHANGED view
  BY <1>1, CatalogsKept
<1>3. /\ deployment' \in [Provider -> [Function -> Replicated \cup {Absent}]]
      /\ \A r \in Provider, g \in Function : deployment'[r][g] = Absent => deployment[r][g] = Absent \/ (r = q /\ g = f)
  BY <1>1 DEF TypeInv, ObjectsType
<1>4. /\ terminating' \in [Provider -> SUBSET Function]
      /\ \A r \in Provider : \A g \in terminating'[r] : g \in terminating[r] /\ ~(r = q /\ g = f)
  BY <1>1 DEF TypeInv, ObjectsType
<1>5. ObjectsType'
  BY <1>1, <1>3, <1>4 DEF TypeInv, ObjectsType, Exists
<1>6. conflict' \subseteq {g \in Handler : handler[g].pc = "put"}
  BY <1>1 DEF TypeInv, HandlersType, Holders
<1>7. Exists(q, f)
  BY <1>1 DEF TypeInv, ObjectsType
<1> QED BY <1>1, <1>2, <1>5, <1>6, <1>7, WatchedTypes

\* What a catalog learns is what a cluster runs, or what another catalog says.
Learns ==
  \A p, q \in Provider, f \in Function :
    view'[p][q][f] \in {view[p][q][f], view[q][q][f], Running(q, f)}

LEMMA LearnsTypes ==
  ASSUME TypeInv, Watched, UNCHANGED objects, CatalogsType'
  PROVE  TypeInv' /\ UNCHANGED <<deployment, terminating, services, conflict>>
<1>1. UNCHANGED <<deployment, terminating, services, conflict>>
  BY DEF objects
<1>2. ObjectsType' /\ conflict' \subseteq {g \in Handler : handler[g].pc = "put"}
  BY <1>1 DEF TypeInv, ObjectsType, HandlersType, Exists
<1> QED BY <1>1, <1>2, WatchedTypes

LEMMA AddFuncDoes ==
  ASSUME TypeInv, Watched, NEW q \in Provider, NEW f \in Function, AddFunc(q, f)
  PROVE  TypeInv' /\ UNCHANGED <<deployment, terminating, services, conflict>> /\ Learns
<1>1. UNCHANGED objects /\ UNCHANGED listed /\ awaited' = [awaited EXCEPT ![q] = @ \ {f}]
  BY Zenon DEF AddFunc
<1>2. awaited' \in [Provider -> SUBSET Function] /\ listed' \in [Provider -> [Provider -> SUBSET Function]]
  BY <1>1 DEF TypeInv, CatalogsType
<1>3. view \in [Provider -> [Provider -> [Function -> Replicated]]] /\ known \in [Provider -> SUBSET Function]
  BY DEF TypeInv, CatalogsType
<1>4. CASE Running(q, f) > 0
  <2>1. view' = [view EXCEPT ![q][q][f] = Running(q, f)] /\ known' = [known EXCEPT ![q] = @ \cup {f}]
    BY Zenon, <1>4 DEF AddFunc
  <2>2. PICK v \in Replicated : v = Running(q, f)
    BY RunningIs
  <2>3. /\ [view EXCEPT ![q][q][f] = v] \in [Provider -> [Provider -> [Function -> Replicated]]]
        /\ \A a, b \in Provider, g \in Function :
             [view EXCEPT ![q][q][f] = v][a][b][g] = IF a = q /\ b = q /\ g = f THEN v ELSE view[a][b][g]
    BY <1>3, ViewSet
  <2>4. view' = [view EXCEPT ![q][q][f] = v]
    BY Zenon, <2>1, <2>2
  <2>5. known' \in [Provider -> SUBSET Function]
    BY <1>3, <2>1
  <2>6. CatalogsType'
    BY <1>2, <2>3, <2>4, <2>5, Zenon DEF CatalogsType
  <2>7. Learns
    BY <2>2, <2>3, <2>4 DEF Learns
  <2> QED BY <1>1, <2>6, <2>7, LearnsTypes
<1>5. CASE ~(Running(q, f) > 0)
  <2>1. UNCHANGED <<view, known>>
    BY Zenon, <1>5 DEF AddFunc
  <2>2. CatalogsType' /\ Learns
    BY <1>2, <1>3, <2>1 DEF CatalogsType, Learns
  <2> QED BY <1>1, <2>2, LearnsTypes
<1> QED BY Zenon, <1>4, <1>5

LEMMA UpdateFuncDoes ==
  ASSUME TypeInv, Watched, NEW q \in Provider, NEW f \in Function, UpdateFunc(q, f)
  PROVE  TypeInv' /\ UNCHANGED <<deployment, terminating, services, conflict>> /\ Learns
<1>1. UNCHANGED <<objects, known, awaited, listed>> /\ view' = [view EXCEPT ![q][q][f] = Running(q, f)]
  BY Zenon DEF UpdateFunc
<1>2. view \in [Provider -> [Provider -> [Function -> Replicated]]]
  BY DEF TypeInv, CatalogsType
<1>3. PICK v \in Replicated : v = Running(q, f)
  BY RunningIs
<1>4. /\ [view EXCEPT ![q][q][f] = v] \in [Provider -> [Provider -> [Function -> Replicated]]]
      /\ \A a, b \in Provider, g \in Function :
           [view EXCEPT ![q][q][f] = v][a][b][g] = IF a = q /\ b = q /\ g = f THEN v ELSE view[a][b][g]
  BY <1>2, ViewSet
<1>5. view' = [view EXCEPT ![q][q][f] = v]
  BY ZenonT(30), <1>1, <1>3
<1>6. CatalogsType' /\ Learns
  BY <1>1, <1>3, <1>4, <1>5 DEF TypeInv, CatalogsType, Learns
<1> QED BY <1>1, <1>6, LearnsTypes

LEMMA HearDoes ==
  ASSUME TypeInv, Watched, NEW p \in Provider, NEW q \in Provider, Hear(p, q)
  PROVE  TypeInv' /\ UNCHANGED <<deployment, terminating, services, conflict>> /\ Learns
<1>1. /\ UNCHANGED <<objects, awaited, listed>> /\ view' = [view EXCEPT ![p][q] = view[q][q]]
      /\ known' = [known EXCEPT ![p] = @ \cup {f \in Function : view[q][q][f] > 0}]
  BY Zenon DEF Hear
<1>2. view' \in [Provider -> [Provider -> [Function -> Replicated]]] /\ Learns
  <2>1. view \in [Provider -> [Provider -> [Function -> Replicated]]]
    BY DEF TypeInv, CatalogsType
  <2>2. /\ view' \in [Provider -> [Provider -> [Function -> Replicated]]]
        /\ \A a, b \in Provider : view'[a][b] = IF a = p /\ b = q THEN view[q][q] ELSE view[a][b]
    BY <1>1, <2>1
  <2> QED BY <2>2, Zenon DEF Learns
<1>3. known' \in [Provider -> SUBSET Function]
  BY <1>1 DEF TypeInv, CatalogsType
<1>4. CatalogsType'
  BY <1>1, <1>2, <1>3 DEF TypeInv, CatalogsType
<1> QED BY <1>1, <1>2, <1>4, LearnsTypes

LEMMA RefreshDoes ==
  ASSUME TypeInv, Watched, NEW p \in Provider, NEW q \in Provider, Refresh(p, q)
  PROVE  TypeInv' /\ UNCHANGED <<deployment, terminating, services, conflict>> /\ Learns
<1>1. /\ UNCHANGED <<objects, view, known, awaited>>
      /\ listed' = [listed EXCEPT ![p][q] = {f \in Function : Exists(q, f)}]
  BY Zenon DEF Refresh
<1>2. listed' \in [Provider -> [Provider -> SUBSET Function]]
  <2>1. PICK F \in SUBSET Function : F = {f \in Function : Exists(q, f)}
    BY Zenon
  <2>2. listed' = [listed EXCEPT ![p][q] = F]
    BY Zenon, <1>1, <2>1
  <2> QED BY <2>2 DEF TypeInv, CatalogsType
<1>3. CatalogsType' /\ Learns
  BY <1>1, <1>2 DEF TypeInv, CatalogsType, Learns
<1> QED BY <1>1, <1>3, LearnsTypes

LEMMA EnvironmentDoes ==
  ASSUME TypeInv, Watched, Environment
  PROVE  /\ TypeInv'
         /\ \/ \E q \in Provider, f \in Function : Collect(q, f)
            \/ UNCHANGED <<deployment, terminating, services, conflict>> /\ Learns
<1>1. CASE \E q \in Provider, f \in Function : Collect(q, f)
  BY Zenon, <1>1, CollectDoes
<1>2. CASE \E q \in Provider, f \in Function : AddFunc(q, f) \/ UpdateFunc(q, f)
  BY Zenon, <1>2, AddFuncDoes, UpdateFuncDoes
<1>3. CASE \E p, q \in Provider : Hear(p, q) \/ Refresh(p, q)
  BY Zenon, <1>3, HearDoes, RefreshDoes
<1> QED BY Zenon, <1>1, <1>2, <1>3 DEF Environment

---------------------------------------------------------------------------
(* The types are kept *)

LEMMA InitTypes ==
  ASSUME Init
  PROVE  TypeInv /\ Quiet
<1>1. /\ deployment \in [Provider -> [Function -> Replicated \cup {Absent}]]
      /\ terminating = [q \in Provider |-> {}]
      /\ services = [q \in Provider |-> {f \in Function : Exists(q, f)}]
      /\ view = [p \in Provider |-> [q \in Provider |-> [f \in Function |-> Running(q, f)]]]
      /\ known = [p \in Provider |-> {f \in Function : Total(f) > 0}]
      /\ awaited = [p \in Provider |-> {}]
      /\ listed = [p \in Provider |-> [q \in Provider |-> IF q \in Kubeconfig[p] THEN services[q] ELSE {}]]
      /\ handler = [h \in Handler |-> Idle]
      /\ conflict = {} /\ overlapped = FALSE /\ goal = NoGoal
      /\ used = [ops |-> 0, faults |-> 0]
  BY Int32Assumption, Zenon DEF Init, Replicated
<1>2. ObjectsType
  BY <1>1, Zenon DEF ObjectsType
<1>3. ASSUME NEW q \in Provider, NEW f \in Function PROVE Running(q, f) \in Replicated
  <2>1. deployment[q][f] \in Replicated \cup {Absent}
    BY <1>1, Zenon
  <2>2. 0 \in Replicated
    BY SMTT(30), Zenon, Int32Assumption DEF Replicated, MaxInt32
  <2> QED BY <2>1, <2>2, Zenon DEF Running, Exists
<1>4. view \in [Provider -> [Provider -> [Function -> Replicated]]]
  BY SMTT(30), Zenon, <1>1, <1>3
<1>5. listed \in [Provider -> [Provider -> SUBSET Function]]
  BY SMTT(30), Zenon, <1>1
<1>6. CatalogsType
  BY SMTT(30), Zenon, <1>1, <1>4, <1>5 DEF CatalogsType
<1>7. HandlersType /\ Quiet
  BY <1>1 DEF HandlersType, Quiet
<1>8. HistoryType
  BY <1>1, Zenon DEF HistoryType
<1> QED BY <1>2, <1>6, <1>7, <1>8 DEF TypeInv

LEMMA StepTypes ==
  ASSUME TypeInv, Framed, NEW h \in Handler, Step(h, handler[h])
  PROVE  TypeInv' /\ Others(h) /\ handler[h] \in Locals
<1> DEFINE s == handler[h]
<1>1. CASE CheckLimit(h, s) \/ CreateDeployment(h, s) \/ CreateService(h, s) \/ NextNode(h, s)
  BY Zenon, <1>1, CheckLimitDoes, CreateDeploymentDoes, CreateServiceDoes, NextNodeDoes
<1>2. CASE ScaleDown(h, s) \/ GetDeployment(h, s) \/ PutDeployment(h, s) \/ UpdateService(h, s)
  BY Zenon, <1>2, ScaleDownDoes, GetDeploymentDoes, PutDeploymentDoes, UpdateServiceDoes
<1>3. CASE FindDeployment(h, s) \/ DeleteDeployment(h, s) \/ DeleteService(h, s)
  BY Zenon, <1>3, FindDeploymentDoes, DeleteDeploymentDoes, DeleteServiceDoes
<1> QED BY Zenon, <1>1, <1>2, <1>3 DEF Step

LEMMA NextTypes ==
  ASSUME TypeInv, SumsAreNatural, [Next]_vars
  PROVE  TypeInv'
<1>1. ASSUME NEW h \in Handler, Begin(h) PROVE TypeInv'
  BY <1>1, BeginDoes
<1>2. ASSUME NEW h \in Handler, Fault(h, handler[h]) PROVE TypeInv'
  BY <1>2, FaultDoes
<1>3. ASSUME NEW h \in Handler, Step(h, handler[h]), UNCHANGED <<overload, used, overlapped>> PROVE TypeInv'
  BY <1>3, StepTypes DEF Framed
<1>4. ASSUME Environment, UNCHANGED <<overload, handler, used, overlapped, goal>> PROVE TypeInv'
  BY SMTT(30), Zenon, <1>4, EnvironmentDoes DEF Watched
<1>5. ASSUME UNCHANGED vars PROVE TypeInv'
  <2>1. UNCHANGED <<objects, catalog>> /\ UNCHANGED handler /\ UNCHANGED <<overload, used, overlapped>>
    BY <1>5 DEF vars
  <2>2. ObjectsType' /\ CatalogsType' /\ conflict' \subseteq {g \in Handler : handler[g].pc = "put"} /\ HistoryType'
    BY SMTT(30), Zenon, <2>1, ObjectsKept, HistoryKept
  <2> QED BY <2>1, <2>2 DEF TypeInv, HandlersType, Placed
<1> QED BY ZenonT(30), <1>1, <1>2, <1>3, <1>4, <1>5 DEF Next

LEMMA TypeInvImpliesTypeOK == TypeInv => TypeOK
<1> SUFFICES ASSUME TypeInv PROVE TypeOK
  OBVIOUS
<1>1. ASSUME NEW h \in Handler, handler[h] # Idle
      PROVE  /\ handler[h].at \in Provider /\ handler[h].target \in Provider /\ handler[h].f \in Function
             /\ handler[h].i \in 1 .. Len(Near[handler[h].at]) + 1
             /\ handler[h].cnt \in -(2^(Bits - 1)) .. MaxInt32
  <2>1. handler[h] \in Locals /\ Placed(handler[h])
    BY <1>1 DEF TypeInv, HandlersType
  <2>2. /\ handler[h].at \in Provider /\ handler[h].target \in Provider /\ handler[h].f \in Function
        /\ handler[h].i \in Nat \ {0} /\ handler[h].cnt \in Int32s
    BY SMTT(30), Zenon, <2>1 DEF Locals
  <2>3. handler[h].i <= Len(Near[handler[h].at]) + 1 /\ Len(Near[handler[h].at]) \in Nat
    BY <2>1, <2>2, DeploymentsAssumption DEF Placed
  <2> QED BY <2>2, <2>3 DEF Int32s
<1>2. conflict \subseteq {h \in Handler : handler[h] # Idle}
  BY IdleOrNot DEF TypeInv, HandlersType
<1> QED BY <1>1, <1>2 DEF TypeInv, ObjectsType, CatalogsType, TypeOK, Replicated

---------------------------------------------------------------------------
(* Copies of Deployments *)

\* The handlers that are not in M stay where they are.  A copy of theirs that
\* is still good is of a Deployment that has not changed.
LEMMA CopiesKept ==
  ASSUME TypeInv, TrueCopies, NEW M \in SUBSET Handler,
         \A g \in Handler \ M : handler'[g] = handler[g],
         conflict \ M \subseteq conflict',
         \A q \in Provider, f \in Function :
           deployment'[q][f] # deployment[q][f] => ~Exists(q, f) \/ Holders(q, f) \ M \subseteq conflict',
         \A h \in M :
           handler'[h] # Idle /\ handler'[h].pc = "put" /\ handler'[h].op = "update" /\ h \notin conflict' =>
             /\ deployment'[handler'[h].target][handler'[h].f] # Absent
             /\ handler'[h].n = deployment'[handler'[h].target][handler'[h].f]
  PROVE  TrueCopies'
<1> SUFFICES ASSUME NEW g \in Handler, handler'[g] # Idle, handler'[g].pc = "put", handler'[g].op = "update",
                    g \notin conflict'
             PROVE  /\ deployment'[handler'[g].target][handler'[g].f] # Absent
                    /\ handler'[g].n = deployment'[handler'[g].target][handler'[g].f]
  BY SMTT(30), Zenon DEF TrueCopies, Exists
<1>1. CASE g \in M
  BY SMTT(30), Zenon, <1>1
<1>2. CASE g \notin M
  <2>1. handler'[g] = handler[g] /\ handler[g] # Idle /\ g \notin conflict
    BY <1>2
  <2>2. PICK q \in Provider, f \in Function : q = handler[g].target /\ f = handler[g].f
    BY <2>1, ZenonT(30) DEF TypeInv, HandlersType, Locals
  <2>3. Exists(q, f) /\ handler[g].n = deployment[q][f]
    BY SMTT(30), Zenon, <2>1, <2>2 DEF TrueCopies
  <2>4. g \in Holders(q, f) \ M
    BY SMTT(30), Zenon, <1>2, <2>1, <2>2 DEF Holders
  <2>5. deployment'[q][f] = deployment[q][f]
    BY <2>3, <2>4
  <2> QED BY SMTT(30), Zenon, <2>1, <2>2, <2>3, <2>5 DEF Exists
<1> QED BY <1>1, <1>2, ZenonT(30)

\* The steps that neither change a Deployment nor read one.
LEMMA CopiesIgnored ==
  ASSUME TypeInv, TrueCopies, NEW h \in Handler, Others(h), UNCHANGED deployment,
         conflict \ {h} \subseteq conflict', handler'[h].pc # "put"
  PROVE  TrueCopies'
<1>1. {h} \in SUBSET Handler /\ \A g \in Handler \ {h} : handler'[g] = handler[g]
  BY DEF Others
<1> QED BY <1>1, CopiesKept, Zenon

LEMMA StepCopies ==
  ASSUME TypeInv, TrueCopies, Framed, NEW h \in Handler, Step(h, handler[h])
  PROVE  TrueCopies' /\ (handler[h].op = "update" => deployment' = deployment)
<1> DEFINE s == handler[h]
           new == handler'[h]
<1>1. CASE CheckLimit(h, s) \/ CreateService(h, s) \/ UpdateService(h, s) \/ DeleteService(h, s)
  <2>1. /\ Others(h) /\ UNCHANGED <<deployment, conflict>>
        /\ new = Idle \/ new.pc \in {"create", "node", "get"}
    BY Zenon, <1>1, CheckLimitDoes, CreateServiceDoes, UpdateServiceDoes, DeleteServiceDoes
  <2> QED BY <2>1, IdleOrNot, CopiesIgnored
<1>2. CASE NextNode(h, s) \/ ScaleDown(h, s) \/ FindDeployment(h, s)
  <2>1. /\ Others(h) /\ UNCHANGED <<deployment, conflict>>
        /\ new = Idle \/ new.pc \in {"node", "count", "get", "deleteDeployment"}
    BY Zenon, <1>2, NextNodeDoes, ScaleDownDoes, FindDeploymentDoes
  <2> QED BY <2>1, IdleOrNot, CopiesIgnored
<1>3. CASE CreateDeployment(h, s)
  <2>1. /\ Others(h) /\ UNCHANGED conflict /\ s \in Locals /\ Placed(s) /\ s.pc = "create"
        /\ new = Idle \/ new.pc = "createService"
        /\ UNCHANGED deployment \/ (~Exists(s.target, s.f) /\ deployment' = [deployment EXCEPT ![s.target][s.f] = MinReplicas])
    BY Zenon, <1>3, CreateDeploymentDoes
  <2>2. \A q \in Provider, f \in Function : deployment'[q][f] # deployment[q][f] => ~Exists(q, f)
    <3>1. PICK t \in Provider, g \in Function : t = s.target /\ g = s.f
      BY <2>1, Zenon DEF Locals
    <3>2. deployment \in [Provider -> [Function -> Replicated \cup {Absent}]]
      BY Zenon DEF TypeInv, ObjectsType
    <3>3. UNCHANGED deployment \/ (~Exists(t, g) /\ deployment' = [deployment EXCEPT ![t][g] = MinReplicas])
      BY <2>1, <3>1, Zenon
    <3> QED BY ONLY <3>2, <3>3, t \in Provider, g \in Function
  <2>3. s.op # "update"
    BY <2>1 DEF Placed, Steps
  <2>4. \A g \in Handler \ {h} : handler'[g] = handler[g]
    BY <2>1 DEF Others
  <2>5. new.pc # "put" /\ {h} \in SUBSET Handler
    BY <2>1, IdleOrNot
  <2>6. TrueCopies'
    BY <2>1, <2>2, <2>4, <2>5, CopiesKept, Zenon
  <2> QED BY <2>3, <2>6
<1>4. CASE GetDeployment(h, s)
  <2>1. /\ Others(h) /\ UNCHANGED <<deployment, conflict>> /\ s \in Locals
        /\ \/ new = Idle
           \/ /\ new.op = s.op /\ new.f = s.f /\ new.target = s.target /\ Exists(s.target, s.f)
              /\ new.n = IF s.op = "update" THEN deployment[s.target][s.f] ELSE s.n
    BY Zenon, <1>4, GetDeploymentDoes
  <2>2. \A g \in Handler \ {h} : handler'[g] = handler[g]
    BY <2>1, Zenon DEF Others
  <2>3. \A q \in Provider, f \in Function :
          deployment'[q][f] # deployment[q][f] => ~Exists(q, f) \/ Holders(q, f) \ {h} \subseteq conflict'
    BY <2>1, Zenon
  <2>4. \A g \in {h} :
          handler'[g] # Idle /\ handler'[g].pc = "put" /\ handler'[g].op = "update" /\ g \notin conflict' =>
            /\ deployment'[handler'[g].target][handler'[g].f] # Absent
            /\ handler'[g].n = deployment'[handler'[g].target][handler'[g].f]
    BY <2>1, Zenon DEF Exists
  <2>5. {h} \in SUBSET Handler /\ conflict \ {h} \subseteq conflict'
    BY <2>1
  <2>6. TrueCopies'
    BY <2>2, <2>3, <2>4, <2>5, CopiesKept, Zenon
  <2> QED BY <2>1, <2>6, Zenon
<1>5. CASE PutDeployment(h, s)
  <2>1. /\ Others(h) /\ s \in Locals /\ s.pc = "put" /\ s # Idle
        /\ new = Idle \/ new.pc \in {"node", "updateService"}
        /\ \/ UNCHANGED deployment /\ conflict' = conflict \ {h}
           \/ /\ h \notin conflict
              /\ deployment' = [deployment EXCEPT ![s.target][s.f] = s.n]
              /\ conflict' = (conflict \cup Holders(s.target, s.f)) \ {h}
    BY Zenon, <1>5, PutDeploymentDoes, IdleOrNot
  <2>2. PICK q \in Provider, f \in Function : q = s.target /\ f = s.f
    BY <2>1 DEF Locals
  <2>3. CASE UNCHANGED deployment /\ conflict' = conflict \ {h}
    <3>1. TrueCopies'
      BY <2>1, <2>3, IdleOrNot, CopiesIgnored
    <3> QED BY <2>3, <3>1
  <2>4. CASE /\ h \notin conflict /\ deployment' = [deployment EXCEPT ![q][f] = s.n]
             /\ conflict' = (conflict \cup Holders(q, f)) \ {h}
    <3>1. deployment \in [Provider -> [Function -> Replicated \cup {Absent}]]
      BY DEF TypeInv, ObjectsType
    <3>2. s.op = "update" => deployment' = deployment
      <4>1. s.op = "update" => s.n = deployment[q][f]
        BY <2>1, <2>2, <2>4 DEF TrueCopies
      <4>2. [deployment EXCEPT ![q][f] = deployment[q][f]] = deployment
        BY <3>1
      <4> QED BY SMTT(30), Zenon, <2>4, <4>1, <4>2
    <3>3. \A r \in Provider, g \in Function :
            deployment'[r][g] # deployment[r][g] => Holders(r, g) \ {h} \subseteq conflict'
      BY <2>4, <3>1
    <3>4. new.pc # "put" /\ {h} \in SUBSET Handler /\ conflict \ {h} \subseteq conflict'
      BY <2>1, <2>4, IdleOrNot
    <3>5. \A g \in Handler \ {h} : handler'[g] = handler[g]
      BY <2>1 DEF Others
    <3>6. TrueCopies'
      BY <3>3, <3>4, <3>5, CopiesKept, Zenon
    <3> QED BY <3>2, <3>6
  <2> QED BY <2>1, <2>2, <2>3, <2>4
<1>6. CASE DeleteDeployment(h, s)
  <2>1. /\ Others(h) /\ UNCHANGED deployment /\ conflict \subseteq conflict'
        /\ new = Idle \/ new.pc = "deleteService"
    <3>1. /\ Others(h) /\ UNCHANGED deployment
          /\ conflict' = conflict \/ conflict' = conflict \cup Holders(s.target, s.f)
          /\ new = Idle \/ new.pc = "deleteService"
      BY Zenon, <1>6, DeleteDeploymentDoes
    <3> QED BY <3>1, Zenon
  <2> QED BY <2>1, IdleOrNot, CopiesIgnored, Zenon
<1> QED BY Zenon, <1>1, <1>2, <1>3, <1>4, <1>5, <1>6 DEF Step

LEMMA NextCopies ==
  ASSUME TypeInv, SumsAreNatural, TrueCopies, [Next]_vars
  PROVE  /\ TrueCopies'
         /\ \A h \in Handler :
              handler[h] # Idle /\ handler'[h] # handler[h] =>
                (handler[h].op = "update" => deployment' = deployment)
<1> DEFINE Kept == \A h \in Handler :
              handler[h] # Idle /\ handler'[h] # handler[h] =>
                (handler[h].op = "update" => deployment' = deployment)
<1>1. ASSUME NEW h \in Handler, Begin(h)
      PROVE  TrueCopies' /\ Kept
  <2>1. /\ Others(h) /\ UNCHANGED <<deployment, conflict>>
        /\ \E s : handler'[h] = s /\ Fresh(s)
    BY Zenon, <1>1, BeginDoes
  <2>2. handler'[h].pc # "put"
    BY <2>1 DEF Fresh
  <2>3. TrueCopies'
    BY <2>1, <2>2, CopiesIgnored
  <2> QED BY <2>1, <2>3
<1>2. ASSUME NEW h \in Handler, Fault(h, handler[h])
      PROVE  TrueCopies' /\ Kept
  <2>1. Others(h) /\ UNCHANGED deployment /\ conflict' = conflict \ {h} /\ handler'[h] = Idle
    BY Zenon, <1>2, FaultDoes
  <2>2. TrueCopies'
    BY <2>1, IdleOrNot, CopiesIgnored
  <2> QED BY <2>1, <2>2
<1>3. ASSUME NEW h \in Handler, Step(h, handler[h]), Framed
      PROVE  TrueCopies' /\ Kept
  <2>1. TrueCopies' /\ Others(h)
    BY Zenon, <1>3, StepCopies, StepTypes
  <2>2. handler[h].op = "update" => deployment' = deployment
    BY Zenon, <1>3, StepCopies
  <2>3. Kept
    <3> SUFFICES ASSUME NEW g \in Handler, handler'[g] # handler[g], handler[g].op = "update"
                 PROVE  deployment' = deployment
      BY Zenon
    <3>1. g = h
      BY <2>1 DEF Others
    <3> QED BY <2>2, <3>1
  <2> QED BY <2>1, <2>3
<1>4. ASSUME Environment, Watched
      PROVE  TrueCopies' /\ Kept
  <2>1. handler' = handler
    BY <1>4 DEF Watched
  <2>2. ASSUME NEW q \in Provider, NEW f \in Function, Collect(q, f)
        PROVE  TrueCopies'
    <3>1. /\ deployment' = [deployment EXCEPT ![q][f] = Absent]
          /\ conflict' = conflict \cup Holders(q, f)
      BY Zenon, <1>4, <2>2, CollectDoes
    <3>2. \A r \in Provider, g \in Function :
            deployment'[r][g] # deployment[r][g] => ~Exists(r, g) \/ Holders(r, g) \ {} \subseteq conflict'
      BY <3>1 DEF TypeInv, ObjectsType
    <3>3. {} \in SUBSET Handler /\ conflict \ {} \subseteq conflict'
      BY <3>1
    <3>4. /\ \A g \in Handler \ {} : handler'[g] = handler[g]
          /\ \A g \in {} :
               handler'[g] # Idle /\ handler'[g].pc = "put" /\ handler'[g].op = "update" /\ g \notin conflict' =>
                 /\ deployment'[handler'[g].target][handler'[g].f] # Absent
                 /\ handler'[g].n = deployment'[handler'[g].target][handler'[g].f]
      BY <2>1
    <3> QED BY Zenon, <3>2, <3>3, <3>4, CopiesKept
  <2>3. CASE UNCHANGED <<deployment, terminating, services, conflict>>
    BY <2>1, <2>3 DEF TrueCopies, Exists
  <2>4. TrueCopies'
    BY ZenonT(30), <1>4, <2>2, <2>3, EnvironmentDoes
  <2> QED BY <2>1, <2>4
<1>5. CASE UNCHANGED vars
  <2>1. UNCHANGED <<handler, deployment, conflict>>
    BY Zenon, <1>5 DEF vars, objects
  <2> QED BY <2>1 DEF TrueCopies, Exists
<1> QED BY ZenonT(30), <1>1, <1>2, <1>3, <1>4, <1>5 DEF Next, Framed, Watched

---------------------------------------------------------------------------
(* scaleDown stays at home *)

LEMMA StepOwnUnit ==
  ASSUME TypeInv, Framed, NEW h \in Handler, Step(h, handler[h]), handler[h].op = "scaleDown",
         NEW q \in Provider \ {handler[h].at}
  PROVE  deployment'[q] = deployment[q] /\ terminating'[q] = terminating[q]
<1> DEFINE s == handler[h]
<1>1. s \in Locals /\ Placed(s)
  BY StepTypes, IdleOrNot DEF TypeInv, HandlersType
<1>2. s.target = s.at /\ s.target # q
  BY <1>1 DEF Placed
<1>3. /\ UNCHANGED deployment \/ \E n : deployment' = [deployment EXCEPT ![s.target][s.f] = n]
      /\ UNCHANGED terminating \/ terminating' = [terminating EXCEPT ![s.target] = @ \cup {s.f}]
  BY Zenon DEF Step, CheckLimit, CreateDeployment, CreateService, NextNode, ScaleDown, GetDeployment, PutDeployment,
     UpdateService, FindDeployment, DeleteDeployment, DeleteService, objects
<1>4. deployment \in [Provider -> [Function -> Replicated \cup {Absent}]] /\ terminating \in [Provider -> SUBSET Function]
  BY DEF TypeInv, ObjectsType
<1>5. deployment'[q] = deployment[q]
  BY <1>2, <1>3, <1>4, ZenonT(30)
<1>6. terminating'[q] = terminating[q]
  BY <1>2, <1>3, <1>4
<1> QED BY <1>5, <1>6

LEMMA NextOwnUnit ==
  ASSUME TypeInv, SumsAreNatural, [Next]_vars, NEW h \in Handler, handler[h] # Idle, handler'[h] # handler[h],
         handler[h].op = "scaleDown", NEW q \in Provider \ {handler[h].at}
  PROVE  deployment'[q] = deployment[q] /\ terminating'[q] = terminating[q]
<1>1. ASSUME NEW g \in Handler, Begin(g) \/ Fault(g, handler[g])
      PROVE  UNCHANGED <<deployment, terminating>>
  BY ZenonT(30), <1>1, BeginDoes, FaultDoes
<1>2. ASSUME NEW g \in Handler, Step(g, handler[g]), Framed
      PROVE  deployment'[q] = deployment[q] /\ terminating'[q] = terminating[q]
  <2>1. Others(g)
    BY Zenon, <1>2, StepTypes
  <2>2. g = h
    BY <2>1 DEF Others
  <2> QED BY <1>2, <2>2, StepOwnUnit
<1>3. ~UNCHANGED vars /\ ~UNCHANGED handler
  BY DEF vars
<1> QED BY Zenon, <1>1, <1>2, <1>3 DEF Next, Framed

---------------------------------------------------------------------------
(* Services match Deployments *)

\* A step touches no Deployment and no Service but those of f at q.
OnlyAt(q, f) ==
  \A r \in Provider, g \in Function :
    r # q \/ g # f => (Runs(r, g)' <=> Runs(r, g)) /\ (g \in services'[r] <=> g \in services[r])

\* A handler that runs alone changes the Deployment and the Service of its
\* target, and leaves the two matched or is halfway.
LEMMA MatchStep ==
  ASSUME TypeInv, TypeInv', NEW h \in Handler, Others(h), Alone, handler[h] # Idle,
         NEW q \in Provider, NEW f \in Function, handler[h].target = q, handler[h].f = f, AllMatch,
         OnlyAt(q, f),
         \/ ~Halfway(handler'[h]) /\ (f \in services'[q] <=> Runs(q, f)')
         \/ /\ Halfway(handler'[h]) /\ handler'[h].target = q /\ handler'[h].f = f
            /\ IF handler'[h].pc = "createService" THEN f \notin services'[q] /\ Runs(q, f)' ELSE ~Runs(q, f)'
  PROVE  AllMatch'
<1>1. \A g \in Handler \ {h} : handler[g] = Idle /\ handler'[g] = Idle
  BY SMTT(30), Zenon DEF Others, Alone
<1>2. \A g \in Handler \ {h} : ~Halfway(handler[g]) /\ ~Halfway(handler'[g])
  BY <1>1 DEF Halfway
<1>3. ASSUME NEW r \in Provider, NEW g \in Function, r # q \/ g # f
      PROVE  Matched(r, g)'
  <2>1. Matched(r, g)
    <3>1. Matched(r, g) \/ \E k \in Handler : Halfway(handler[k]) /\ handler[k].target = r /\ handler[k].f = g
      BY ZenonT(30) DEF AllMatch
    <3>2. ASSUME NEW k \in Handler, Halfway(handler[k]), handler[k].target = r, handler[k].f = g
          PROVE  FALSE
      <4>1. k = h
        BY <1>2, <3>2, Zenon
      <4> QED BY <1>3, <3>2, <4>1, Zenon
    <3> QED BY <3>1, <3>2, Zenon
  <2> QED BY <1>3, <2>1, Zenon DEF Matched, OnlyAt
<1>4. Matched(q, f)' \/ (Halfway(handler'[h]) /\ handler'[h].target = q /\ handler'[h].f = f)
  BY Zenon DEF Matched
<1>5. ASSUME NEW r \in Provider, NEW g \in Function
      PROVE  \/ Matched(r, g)'
             \/ \E k \in Handler : Halfway(handler'[k]) /\ handler'[k].target = r /\ handler'[k].f = g
  BY <1>3, <1>4
<1>6. ASSUME NEW k \in Handler, Halfway(handler[k])'
      PROVE  (IF handler[k].pc = "createService"
              THEN handler[k].f \notin services[handler[k].target] /\ Runs(handler[k].target, handler[k].f)
              ELSE ~Runs(handler[k].target, handler[k].f))'
  <2>1. k = h
    BY <1>2, <1>6, ZenonT(30) DEF Halfway
  <2>2. handler'[h].target = q /\ handler'[h].f = f
    BY SMTT(30), Zenon, <1>6, <2>1 DEF Halfway
  <2>3. IF handler'[h].pc = "createService" THEN f \notin services'[q] /\ Runs(q, f)' ELSE ~Runs(q, f)'
    BY <1>6, <2>1 DEF Halfway
  <2> QED BY Zenon, <2>1, <2>2, <2>3 DEF Runs, Exists
<1> QED BY Zenon, <1>5, <1>6 DEF AllMatch, Halfway

\* Most steps change no Deployment and no Service.
LEMMA MatchKept ==
  ASSUME TypeInv, TypeInv', NEW h \in Handler, Others(h), Alone, handler[h] \in Locals, ~Halfway(handler[h]),
         UNCHANGED <<deployment, terminating, services>>, AllMatch, ~Halfway(handler'[h])
  PROVE  AllMatch'
<1>1. PICK q \in Provider, f \in Function : handler[h].target = q /\ handler[h].f = f
  BY SMTT(30), Zenon DEF Locals
<1>2. \A r \in Provider, g \in Function : (Runs(r, g)' <=> Runs(r, g)) /\ (g \in services'[r] <=> g \in services[r])
  BY DEF Runs, Exists
<1>3. \A g \in Handler : ~Halfway(handler[g])
  BY SMTT(30), Zenon, IdleOrNot DEF Alone, Halfway
<1>4. Matched(q, f)
  BY SMTT(30), Zenon, <1>3 DEF AllMatch
<1>5. f \in services'[q] <=> Runs(q, f)'
  BY <1>2, <1>4 DEF Matched
<1>6. OnlyAt(q, f)
  BY <1>2, Zenon DEF OnlyAt
<1> QED BY <1>1, <1>5, <1>6, IdleOrNot, MatchStep, Zenon

LEMMA StepMatches ==
  ASSUME TypeInv, Framed, NEW h \in Handler, Step(h, handler[h]), Alone, AllMatch
  PROVE  AllMatch'
<1> DEFINE s == handler[h]
           new == handler'[h]
<1>1. TypeInv' /\ Others(h) /\ s \in Locals /\ s # Idle
  BY SMTT(30), Zenon, StepTypes, IdleOrNot
<1>2. PICK q \in Provider, f \in Function : s.target = q /\ s.f = f
  BY <1>1 DEF Locals
<1>3. ASSUME ~Halfway(s)
      PROVE  Matched(q, f)
  <2>1. \A g \in Handler \ {h} : ~Halfway(handler[g])
    BY <1>1, Zenon DEF Alone, Halfway
  <2> QED BY <1>3, <2>1, Zenon DEF AllMatch
<1>4. CASE CheckLimit(h, s) \/ NextNode(h, s) \/ ScaleDown(h, s) \/ GetDeployment(h, s)
  <2>1. /\ UNCHANGED <<deployment, terminating, services>>
        /\ s.pc \in {"count", "node", "down", "get"}
        /\ new = Idle \/ new.pc \in {"create", "node", "count", "get", "deleteDeployment", "put"}
    BY Zenon, <1>4, CheckLimitDoes, NextNodeDoes, ScaleDownDoes, GetDeploymentDoes
  <2>2. ~Halfway(s) /\ ~Halfway(new)
    BY <2>1 DEF Halfway
  <2> QED BY <1>1, <2>1, <2>2, MatchKept
<1>5. CASE UpdateService(h, s) \/ FindDeployment(h, s)
  <2>1. /\ UNCHANGED <<deployment, terminating, services>>
        /\ s.pc \in {"updateService", "find"}
        /\ new = Idle \/ new.pc = "deleteDeployment"
    BY Zenon, <1>5, UpdateServiceDoes, FindDeploymentDoes
  <2>2. ~Halfway(s) /\ ~Halfway(new)
    BY <2>1 DEF Halfway
  <2> QED BY <1>1, <2>1, <2>2, MatchKept, Zenon
<1>6. CASE CreateDeployment(h, s)
  <2>1. s.pc = "create" /\ UNCHANGED <<terminating, services>>
    BY Zenon, <1>6, CreateDeploymentDoes
  <2>2. CASE new = Idle /\ UNCHANGED deployment
    <3>1. ~Halfway(s) /\ ~Halfway(new)
      BY <2>1, <2>2 DEF Halfway
    <3> QED BY <1>1, <2>1, <2>2, <3>1, MatchKept
  <2>3. CASE /\ new \in Locals /\ new.pc = "createService" /\ new.f = s.f /\ new.target = s.target
             /\ ~Exists(q, f) /\ deployment' = [deployment EXCEPT ![q][f] = MinReplicas]
    <3>1. /\ deployment \in [Provider -> [Function -> Replicated \cup {Absent}]]
          /\ MinReplicas # Absent
      <4>1. MinReplicas # Absent
        BY ONLY DeploymentsAssumption DEF Absent
      <4> QED BY <4>1, Zenon DEF TypeInv, ObjectsType
    <3>2. OnlyAt(q, f)
      BY <2>1, <2>3, <3>1, Zenon DEF OnlyAt, Runs, Exists
    <3>3. f \notin terminating[q]
      BY <2>3, Zenon DEF TypeInv, ObjectsType
    <3>4. f \notin services[q]
      BY <1>3, <2>1, <2>3 DEF Halfway, Matched, Runs
    <3>5. f \notin services'[q] /\ Runs(q, f)'
      BY <2>1, <2>3, <3>1, <3>3, <3>4 DEF Runs, Exists
    <3>6. Halfway(new)
      BY <2>3, IdleOrNot DEF Halfway
    <3> QED BY <1>1, <1>2, <2>3, <3>2, <3>5, <3>6, MatchStep, Zenon
  <2> QED BY Zenon, <1>2, <1>6, <2>2, <2>3, CreateDeploymentDoes
<1>7. CASE CreateService(h, s)
  <2>1. /\ s.pc = "createService" /\ UNCHANGED <<deployment, terminating>>
        /\ new = Idle \/ new.pc \in {"node", "get"}
    BY Zenon, <1>7, CreateServiceDoes
  <2>2. Halfway(s) /\ ~Halfway(new)
    BY <1>1, <2>1 DEF Halfway
  <2>3. f \notin services[q] /\ Runs(q, f)
    BY <1>2, <2>1, <2>2, Zenon DEF AllMatch
  <2>4. services' = [services EXCEPT ![q] = @ \cup {f}]
    BY Zenon, <1>2, <1>7, <2>3, CreateServiceDoes
  <2>5. services \in [Provider -> SUBSET Function]
    BY SMTT(30), Zenon DEF TypeInv, ObjectsType
  <2>6. OnlyAt(q, f)
    BY <2>1, <2>4, <2>5 DEF OnlyAt, Runs, Exists
  <2>7. f \in services'[q] <=> Runs(q, f)'
    BY <2>1, <2>3, <2>4, <2>5 DEF Runs, Exists
  <2> QED BY <1>1, <1>2, <2>2, <2>6, <2>7, MatchStep, Zenon
<1>8. CASE PutDeployment(h, s)
  <2>1. /\ s.pc = "put" /\ UNCHANGED <<terminating, services>>
        /\ new = Idle \/ new.pc \in {"node", "updateService"}
        /\ \/ UNCHANGED deployment
           \/ Exists(q, f) /\ s.n \in Replicated /\ deployment' = [deployment EXCEPT ![q][f] = s.n]
    BY Zenon, <1>2, <1>8, PutDeploymentDoes
  <2>2. ~Halfway(s) /\ ~Halfway(new)
    BY <2>1 DEF Halfway
  <2>3. deployment \in [Provider -> [Function -> Replicated \cup {Absent}]]
    BY DEF TypeInv, ObjectsType
  <2>4. \A r \in Provider, g \in Function : Exists(r, g)' <=> Exists(r, g)
    BY <2>1, <2>3, ReplicatedIs DEF Exists
  <2>5. \A r \in Provider, g \in Function : (Runs(r, g)' <=> Runs(r, g)) /\ (g \in services'[r] <=> g \in services[r])
    BY <2>1, <2>4 DEF Runs
  <2>6. f \in services'[q] <=> Runs(q, f)'
    BY <1>3, <2>2, <2>5 DEF Matched
  <2>7. OnlyAt(q, f)
    BY <2>5, Zenon DEF OnlyAt
  <2> QED BY <1>1, <1>2, <2>2, <2>6, <2>7, MatchStep, Zenon
<1>9. CASE DeleteDeployment(h, s)
  <2>1. s.pc = "deleteDeployment" /\ UNCHANGED <<deployment, services>>
    BY Zenon, <1>9, DeleteDeploymentDoes
  <2>2. CASE new = Idle /\ UNCHANGED terminating
    <3>1. ~Halfway(s) /\ ~Halfway(new)
      BY <2>1, <2>2 DEF Halfway
    <3> QED BY <1>1, <2>1, <2>2, <3>1, MatchKept
  <2>3. CASE /\ new \in Locals /\ new.pc = "deleteService" /\ new.f = s.f /\ new.target = s.target
             /\ terminating' = [terminating EXCEPT ![q] = @ \cup {f}]
    <3>1. terminating \in [Provider -> SUBSET Function]
      BY DEF TypeInv, ObjectsType
    <3>2. OnlyAt(q, f)
      BY <2>1, <2>3, <3>1, Zenon DEF OnlyAt, Runs, Exists
    <3>3. ~Runs(q, f)'
      BY <2>3, <3>1 DEF Runs
    <3>4. Halfway(new) /\ new.pc # "createService"
      BY <2>3, IdleOrNot DEF Halfway
    <3> QED BY <1>1, <1>2, <2>3, <3>2, <3>3, <3>4, MatchStep, Zenon
  <2> QED BY Zenon, <1>2, <1>9, <2>2, <2>3, DeleteDeploymentDoes
<1>10. CASE DeleteService(h, s)
  <2>1. /\ s.pc = "deleteService" /\ UNCHANGED <<deployment, terminating>> /\ new = Idle
        /\ services' = [services EXCEPT ![q] = @ \ {f}]
    BY Zenon, <1>2, <1>10, DeleteServiceDoes
  <2>2. Halfway(s) /\ ~Halfway(new)
    BY <1>1, <2>1 DEF Halfway
  <2>3. ~Runs(q, f)
    BY <1>2, <2>1, <2>2, Zenon DEF AllMatch
  <2>4. services \in [Provider -> SUBSET Function]
    BY DEF TypeInv, ObjectsType
  <2>5. OnlyAt(q, f)
    BY <2>1, <2>4 DEF OnlyAt, Runs, Exists
  <2>6. f \in services'[q] <=> Runs(q, f)'
    BY <2>1, <2>3, <2>4 DEF Runs, Exists
  <2> QED BY <1>1, <1>2, <2>2, <2>5, <2>6, MatchStep, Zenon
<1> QED BY Zenon, <1>4, <1>5, <1>6, <1>7, <1>8, <1>9, <1>10 DEF Step

LEMMA AloneKept ==
  ASSUME NEW h \in Handler, Others(h), Quiet \/ (Alone /\ handler[h] # Idle)
  PROVE  Alone'
BY DEF Others, Quiet, Alone

LEMMA NextMatches ==
  ASSUME TypeInv, SumsAreNatural, MatchInv, [Next]_vars
  PROVE  MatchInv'
<1>1. ASSUME NEW h \in Handler, Begin(h)
      PROVE  MatchInv'
  <2>1. /\ TypeInv' /\ Others(h) /\ UNCHANGED <<deployment, terminating, services>>
        /\ overlapped' = (overlapped \/ ~Quiet) /\ used'.faults = used.faults
        /\ \E s : handler'[h] = s /\ Fresh(s)
    BY Zenon, <1>1, BeginDoes
  <2>2. ~Halfway(handler'[h])
    BY <2>1 DEF Fresh, Halfway
  <2>3. ASSUME Quiet, AllMatch
        PROVE  AllMatch'
    <3>1. \A g \in Handler : ~Halfway(handler[g]) /\ ~Halfway(handler[g])'
      BY <2>1, <2>2, <2>3 DEF Quiet, Others, Halfway
    <3>2. \A q \in Provider, f \in Function : Matched(q, f)
      BY <2>3, <3>1 DEF AllMatch
    <3>3. \A q \in Provider, f \in Function : Matched(q, f)'
      BY <2>1, <3>2 DEF Matched, Runs, Exists
    <3> QED BY Zenon, <3>1, <3>3 DEF AllMatch
  <2>4. Quiet => Alone'
    BY <2>1, AloneKept
  <2> QED BY Zenon, <2>1, <2>3, <2>4 DEF MatchInv
<1>2. ASSUME NEW h \in Handler, Fault(h, handler[h])
      PROVE  MatchInv'
  <2>1. Others(h) /\ handler[h] # Idle /\ overlapped' = overlapped /\ used'.faults # 0
    BY Zenon, <1>2, FaultDoes
  <2> QED BY Zenon, <2>1, AloneKept DEF MatchInv
<1>3. ASSUME NEW h \in Handler, Step(h, handler[h]), Framed
      PROVE  MatchInv'
  <2>1. Others(h) /\ handler[h] # Idle /\ UNCHANGED <<overlapped, used>>
    BY <1>3, StepTypes, IdleOrNot DEF Framed
  <2>2. Alone => Alone'
    BY <2>1, AloneKept
  <2>3. Alone /\ AllMatch => AllMatch'
    BY <1>3, StepMatches
  <2> QED BY Zenon, <2>1, <2>2, <2>3 DEF MatchInv
<1>4. ASSUME Environment, Watched
      PROVE  MatchInv'
  <2>1. UNCHANGED <<handler, overlapped, used>>
    BY <1>4 DEF Watched
  <2>2. ASSUME NEW q \in Provider, NEW f \in Function, Collect(q, f)
        PROVE  UNCHANGED services /\ \A r \in Provider, g \in Function : Runs(r, g)' <=> Runs(r, g)
    <3>1. /\ UNCHANGED services /\ f \in terminating[q]
          /\ terminating' = [terminating EXCEPT ![q] = @ \ {f}]
          /\ deployment' = [deployment EXCEPT ![q][f] = Absent]
      BY Zenon, <1>4, <2>2, CollectDoes
    <3>2. /\ deployment \in [Provider -> [Function -> Replicated \cup {Absent}]]
          /\ terminating \in [Provider -> SUBSET Function]
      BY DEF TypeInv, ObjectsType
    <3> QED BY <3>1, <3>2 DEF Runs, Exists
  <2>3. UNCHANGED <<deployment, terminating, services, conflict>> =>
          UNCHANGED services /\ \A r \in Provider, g \in Function : Runs(r, g)' <=> Runs(r, g)
    BY DEF Runs, Exists
  <2>4. UNCHANGED services /\ \A r \in Provider, g \in Function : Runs(r, g)' <=> Runs(r, g)
    BY Zenon, <1>4, <2>2, <2>3, EnvironmentDoes
  <2>5. AllMatch => AllMatch'
    <3> SUFFICES ASSUME AllMatch
                 PROVE  AllMatch'
      OBVIOUS
    <3>1. \A q \in Provider, f \in Function : Matched(q, f)' <=> Matched(q, f)
      BY <2>4 DEF Matched
    <3>2. \A h \in Handler : Halfway(handler[h])' <=> Halfway(handler[h])
      BY <2>1
    <3>3. ASSUME NEW h \in Handler, Halfway(handler[h])'
          PROVE  (IF handler[h].pc = "createService"
                  THEN handler[h].f \notin services[handler[h].target] /\ Runs(handler[h].target, handler[h].f)
                  ELSE ~Runs(handler[h].target, handler[h].f))'
      <4>1. Halfway(handler[h])
        BY <3>2, <3>3
      <4>2. PICK q \in Provider, f \in Function : handler[h].target = q /\ handler[h].f = f
        BY SMTT(30), Zenon, <4>1 DEF Halfway, TypeInv, HandlersType, Locals
      <4>3. IF handler[h].pc = "createService" THEN f \notin services[q] /\ Runs(q, f) ELSE ~Runs(q, f)
        BY SMTT(30), Zenon, <4>1, <4>2 DEF AllMatch
      <4>4. IF handler[h].pc = "createService" THEN f \notin services'[q] /\ Runs(q, f)' ELSE ~Runs(q, f)'
        BY <2>4, <4>3
      <4> QED BY Zenon, <2>1, <4>2, <4>4 DEF Runs, Exists
    <3>4. \A q \in Provider, f \in Function :
            \/ Matched(q, f)'
            \/ \E h \in Handler : (Halfway(handler[h]) /\ handler[h].target = q /\ handler[h].f = f)'
      <4> TAKE q \in Provider, f \in Function
      <4>1. CASE Matched(q, f)
        BY Zenon, <3>1, <4>1
      <4>2. CASE \E h \in Handler : Halfway(handler[h]) /\ handler[h].target = q /\ handler[h].f = f
        <5>1. PICK h \in Handler : Halfway(handler[h]) /\ handler[h].target = q /\ handler[h].f = f
          BY Zenon, <4>2
        <5>2. Halfway(handler[h])' /\ handler'[h].target = q /\ handler'[h].f = f
          BY Zenon, <2>1, <3>2, <5>1
        <5> QED BY Zenon, <5>2
      <4> QED BY Zenon, <4>1, <4>2 DEF AllMatch
    <3> QED BY Zenon, <3>3, <3>4 DEF AllMatch
  <2>6. Alone => Alone'
    BY <2>1 DEF Alone
  <2> QED BY Zenon, <2>1, <2>5, <2>6 DEF MatchInv
<1>5. CASE UNCHANGED vars
  <2>1. UNCHANGED <<overlapped, used, handler, deployment, terminating, services>>
    BY Zenon, <1>5 DEF vars, objects
  <2>2. AllMatch' <=> AllMatch
    BY SMTT(30), Zenon, <2>1 DEF AllMatch, Halfway, Matched, Runs, Exists
  <2> QED BY <2>1, <2>2 DEF MatchInv, Alone
<1> QED BY Zenon, <1>1, <1>2, <1>3, <1>4, <1>5 DEF Next, Framed, Watched

LEMMA InitMatches ==
  ASSUME Init
  PROVE  TrueCopies /\ MatchInv
<1>1. Quiet /\ TypeInv
  BY InitTypes
<1>2. /\ terminating = [q \in Provider |-> {}]
      /\ services = [q \in Provider |-> {f \in Function : Exists(q, f)}]
  BY Zenon DEF Init
<1>3. \A q \in Provider, f \in Function : Matched(q, f)
  BY <1>2 DEF Matched, Runs
<1>4. \A h \in Handler : ~Halfway(handler[h])
  BY <1>1 DEF Quiet, Halfway
<1>5. MatchInv
  BY ZenonT(30), <1>1, <1>3, <1>4 DEF MatchInv, AllMatch, Alone, Quiet
<1> QED BY <1>1, <1>5 DEF TrueCopies, Quiet

LEMMA MatchInvImpliesServicesMatch == MatchInv => ServicesMatch
<1> SUFFICES ASSUME MatchInv, Quiet, ~overlapped, used.faults = 0
             PROVE  \A q \in Provider, f \in Function :
                      f \in services[q] <=> Exists(q, f) /\ f \notin terminating[q]
  BY Zenon DEF ServicesMatch
<1>1. AllMatch /\ \A h \in Handler : ~Halfway(handler[h])
  BY DEF MatchInv, Quiet, Halfway
<1> QED BY <1>1 DEF AllMatch, Matched, Runs

---------------------------------------------------------------------------
(* scaleUp takes only the excess away *)

\* What the clusters and catalogs have of the function that is scaled up.
EnoughEverywhere ==
  \A q \in Provider :
    /\ goal.f \notin terminating[q] /\ Enough(Running(q, goal.f), q)
    /\ Enough(view[goal.at][q][goal.f], q) /\ Enough(view[q][q][goal.f], q)

Climbing == goal # NoGoal /\ goal.op = "scaleUp"

LEMMA GoalKept ==
  ASSUME GoalInv, Climbing, goal' = goal, NEW h \in Handler, Others(h), EnoughEverywhere',
         handler'[h] = Idle \/ Climbs(handler[h])'
  PROVE  GoalInv'
<1>1. ASSUME NEW g \in Handler, handler'[g] # Idle
      PROVE  Climbs(handler[g])'
  <2>1. CASE g = h
    BY <1>1, <2>1
  <2>2. CASE g # h
    <3>1. handler'[g] = handler[g] /\ Climbs(handler[g])
      BY <1>1, <2>2 DEF Others, GoalInv, Climbing
    <3> QED BY ZenonT(30), <3>1 DEF Climbs, Enough
  <2> QED BY <2>1, <2>2
<1> QED BY Zenon, <1>1 DEF GoalInv, Climbing, EnoughEverywhere

LEMMA StepClimbs ==
  ASSUME TypeInv, Framed, GoalInv, Climbing, NEW h \in Handler, Step(h, handler[h]), goal' = goal
  PROVE  GoalInv'
<1> DEFINE s == handler[h]
           new == handler'[h]
<1>1. /\ TypeInv' /\ Others(h) /\ s \in Locals /\ s # Idle /\ Placed(s) /\ Climbs(s)
      /\ goal.at \in Provider /\ goal.f \in Function /\ goal.before \in [Provider -> Replicated]
  BY StepTypes, IdleOrNot, Zenon DEF TypeInv, HandlersType, GoalInv, Climbing
<1>2. s.op = "scaleUp" /\ s.at = goal.at /\ s.f = goal.f /\ s.pc \in {"node", "count", "create", "createService", "get", "put"}
  BY <1>1 DEF Climbs, Placed, Steps
<1>3. EnoughEverywhere
  BY Zenon DEF GoalInv, Climbing, EnoughEverywhere
<1>4. UNCHANGED <<deployment, terminating, view>> => EnoughEverywhere'
  BY ZenonT(30), <1>3 DEF EnoughEverywhere, Enough, Running, Exists
<1>5. ASSUME NEW q \in Provider
      PROVE  /\ goal.before[q] \in Nat /\ Workers[q] \in Nat \ {0} /\ Running(q, goal.f) \in Nat
             /\ view[goal.at][q][goal.f] \in Nat
  <2>1. PICK f \in Function : f = goal.f
    BY <1>1
  <2>2. Running(q, f) \in Nat
    BY RunningIs, ReplicatedIs, Zenon
  <2>3. view[goal.at][q][goal.f] \in Nat
    <3>1. view[goal.at][q][goal.f] \in Replicated
      <4>1. view \in [Provider -> [Provider -> [Function -> Replicated]]]
        BY Zenon DEF TypeInv, CatalogsType
      <4>2. PICK p \in Provider, g \in Function : p = goal.at /\ g = goal.f
        BY <1>1, Zenon
      <4>3. view[p][q][g] \in Replicated
        BY ONLY <4>1, q \in Provider, p \in Provider, g \in Function
      <4> QED BY <4>2, <4>3, Zenon
    <3> QED BY <3>1, ReplicatedIs, Zenon
  <2>4. goal.before[q] \in Nat
    BY <1>1, ReplicatedIs, Zenon
  <2>5. Workers[q] \in Nat \ {0}
    BY DeploymentsAssumption, Zenon
  <2> QED BY <2>1, <2>2, <2>3, <2>4, <2>5
<1>6. CASE CheckLimit(h, s)
  <2>1. /\ UNCHANGED <<deployment, terminating, view>> /\ s.pc = "count"
        /\ \/ new = Idle
           \/ new.op = s.op /\ new.at = s.at /\ new.f = s.f /\ new.pc = "create" /\ new.target = s.target
    BY Zenon, <1>6, CheckLimitDoes
  <2>2. new = Idle \/ Climbs(s)'
    BY <1>1, <2>1, Zenon DEF Climbs
  <2> QED BY <1>1, <1>4, <2>1, <2>2, GoalKept, Zenon
<1>7. CASE CreateDeployment(h, s)
  <2>1. /\ UNCHANGED <<terminating, view>> /\ s.pc = "create"
        /\ \/ new = Idle /\ UNCHANGED deployment
           \/ /\ new.op = s.op /\ new.at = s.at /\ new.f = s.f /\ new.pc = "createService" /\ new.target = s.target
              /\ deployment' = [deployment EXCEPT ![s.target][s.f] = MinReplicas]
    BY Zenon, <1>7, CreateDeploymentDoes
  <2>2. PICK t \in Provider : t = s.target
    BY ZenonT(30), <1>1 DEF Locals
  <2>3. goal.before[t] = 0
    BY SMTT(30), Zenon, <1>1, <2>1, <2>2 DEF Climbs
  <2>4. new = Idle \/ Climbs(s)'
    BY <1>1, <2>1, <2>2, <2>3 DEF Climbs
  <2>5. ASSUME NEW q \in Provider
        PROVE  Enough(Running(q, goal.f), q)'
    <3>1. Running(q, goal.f)' \in Nat
      <4>1. PICK f \in Function : f = goal.f
        BY <1>1, Zenon
      <4>2. deployment'[q][f] \in Replicated \cup {Absent}
        <5>1. deployment' \in [Provider -> [Function -> Replicated \cup {Absent}]]
          BY <1>1, Zenon DEF TypeInv, ObjectsType
        <5> QED BY <5>1, Zenon
      <4> QED BY <4>1, <4>2, ReplicatedIs, Zenon DEF Running, Exists
    <3>2. q # t => Running(q, goal.f)' = Running(q, goal.f)
      BY <2>1, <2>2, Zenon DEF Running, Exists, TypeInv, ObjectsType
    <3>3. Enough(Running(q, goal.f), q)
      BY <1>3, Zenon DEF EnoughEverywhere
    <3> HIDE DEF Running
    <3>4. CASE q = t
      BY SMTT(30), Zenon, <2>3, <3>1, <3>4 DEF Enough
    <3>5. CASE q # t
      BY <3>2, <3>3, <3>5 DEF Enough
    <3> QED BY <3>4, <3>5
  <2>6. EnoughEverywhere'
    BY Zenon, <1>3, <2>1, <2>5 DEF EnoughEverywhere, Enough
  <2> QED BY <1>1, <2>4, <2>6, GoalKept, Zenon
<1>8. CASE CreateService(h, s)
  <2>1. /\ UNCHANGED <<deployment, terminating, view>> /\ s.pc = "createService"
        /\ \/ new = Idle
           \/ /\ new \in Locals /\ new.op = s.op /\ new.at = s.at /\ new.f = s.f /\ new.pc \in {"node", "get"}
              /\ new.target = s.target /\ (new.pc = "get" => new.n > 1 \/ new.n = Workers[s.target])
    BY Zenon, <1>8, CreateServiceDoes
  <2>2. PICK t \in Provider : t = s.target
    BY <1>1 DEF Locals
  <2>3. goal.before[t] = 0 /\ Workers[t] \in Nat
    BY <1>1, <1>5, <2>1, <2>2, Zenon DEF Climbs
  <2>4. CASE new = Idle
    BY <1>1, <1>4, <2>1, <2>4, GoalKept, Zenon
  <2>5. CASE new # Idle
    <3>1. new.n \in Int
      BY <2>1, <2>5, ReplicatedIs, Zenon DEF Locals
    <3>2. new.pc = "get" => Enough(new.n, t)
      <4>1. PICK n \in Int, w \in Nat : n = new.n /\ w = Workers[t]
        BY <2>3, <3>1, Zenon
      <4>2. new.pc = "get" => n > 1 \/ n = w
        BY <2>1, <2>2, <2>5, <4>1, Zenon
      <4>3. new.pc = "get" => n >= 0 \/ n >= w
        BY ONLY <4>2, n \in Int, w \in Nat
      <4> QED BY <2>3, <4>1, <4>3, Zenon DEF Enough
    <3>3. Climbs(s)'
      BY <1>1, <2>1, <2>2, <2>5, <3>2, Zenon DEF Climbs, Enough
    <3> QED BY <1>1, <1>4, <2>1, <3>3, GoalKept, Zenon
  <2> QED BY <2>4, <2>5
<1>9. CASE NextNode(h, s)
  <2>1. /\ UNCHANGED <<deployment, terminating, view>>
        /\ \/ new = Idle
           \/ /\ new \in Locals /\ new.op = s.op /\ new.at = s.at /\ new.f = s.f
              /\ \/ new.pc = "node"
                 \/ new.pc = "count" /\ view[s.at][new.target][s.f] = 0
                 \/ new.pc = "get" /\ (new.n > view[s.at][new.target][s.f] \/ new.n = Workers[new.target])
    BY Zenon, <1>9, NextNodeDoes
  <2>2. CASE new = Idle
    BY <1>1, <1>4, <2>1, <2>2, GoalKept, Zenon
  <2>3. CASE new # Idle
    <3>1. PICK t \in Provider, n \in Int : t = new.target /\ n = new.n
      BY <2>1, <2>3, ReplicatedIs, Zenon DEF Locals
    <3>2. PICK v \in Nat : v = view[goal.at][t][goal.f]
      BY SMTT(30), Zenon, <1>5
    <3>3. Enough(v, t)
      BY <1>3, <3>2 DEF EnoughEverywhere
    <3>4. PICK before \in Nat, w \in Nat \ {0} : before = goal.before[t] /\ w = Workers[t]
      BY <1>5
    <3>5. v >= before \/ v >= w
      BY <3>3, <3>4, Zenon DEF Enough
    <3>6. \/ new.pc = "node"
          \/ new.pc = "count" /\ v = 0
          \/ new.pc = "get" /\ (n > v \/ n = w)
      BY <1>2, <2>1, <2>3, <3>1, <3>2, <3>4, Zenon
    <3>7. new.pc = "count" => goal.before[t] = 0
      BY ONLY <3>4, <3>5, <3>6, v \in Nat, before \in Nat, w \in Nat \ {0}
    <3>8. new.pc = "get" => Enough(n, t)
      <4>1. new.pc = "get" => n >= before \/ n >= w
        BY ONLY <3>5, <3>6, v \in Nat, n \in Int, before \in Nat, w \in Nat \ {0}
      <4> QED BY <3>4, <4>1, Zenon DEF Enough
    <3>9. Climbs(s)'
      BY <1>1, <2>1, <2>3, <3>1, <3>7, <3>8, Zenon DEF Climbs, Enough
    <3> QED BY <1>1, <1>4, <2>1, <3>9, GoalKept, Zenon
  <2> QED BY <2>2, <2>3
<1>10. CASE GetDeployment(h, s)
  <2>1. /\ UNCHANGED <<deployment, terminating, view>> /\ s.pc = "get"
        /\ \/ new = Idle
           \/ /\ new.op = s.op /\ new.at = s.at /\ new.f = s.f /\ new.pc = "put" /\ new.target = s.target
              /\ new.n = IF s.op = "update" THEN deployment[s.target][s.f] ELSE s.n
    BY Zenon, <1>10, GetDeploymentDoes
  <2>2. new = Idle \/ Climbs(s)'
    BY <1>1, <1>2, <2>1, Zenon DEF Climbs, Enough
  <2> QED BY <1>1, <1>4, <2>1, <2>2, GoalKept, Zenon
<1>11. CASE PutDeployment(h, s)
  <2>1. /\ UNCHANGED <<terminating, view>> /\ s.pc = "put"
        /\ \/ new = Idle
           \/ /\ new.op = s.op /\ new.at = s.at /\ new.f = s.f /\ new.pc \in {"node", "updateService"}
        /\ \/ UNCHANGED deployment
           \/ deployment' = [deployment EXCEPT ![s.target][s.f] = s.n] /\ s.n \in Replicated
    BY ZenonT(30), <1>11, PutDeploymentDoes
  <2>2. PICK t \in Provider : t = s.target
    BY <1>1 DEF Locals
  <2>3. Enough(s.n, t)
    BY <1>1, <2>1, <2>2 DEF Climbs
  <2>4. new = Idle \/ Climbs(s)'
    BY <1>1, <2>1, Zenon DEF Climbs
  <2>5. ASSUME NEW q \in Provider
        PROVE  Enough(Running(q, goal.f), q)'
    <3>1. goal.f \notin terminating[q] /\ Enough(Running(q, goal.f), q)
      BY <1>3, Zenon DEF EnoughEverywhere
    <3>2. \/ Running(q, goal.f)' = Running(q, goal.f)
          \/ q = t /\ Running(q, goal.f)' = s.n
      <4>1. PICK f \in Function : f = goal.f
        BY <1>1, Zenon
      <4>2. deployment \in [Provider -> [Function -> Replicated \cup {Absent}]]
        BY Zenon DEF TypeInv, ObjectsType
      <4>3. \/ deployment'[q][f] = deployment[q][f]
            \/ q = t /\ deployment'[q][f] = s.n /\ s.n \in Replicated
        <5>1. UNCHANGED deployment \/ (deployment' = [deployment EXCEPT ![t][f] = s.n] /\ s.n \in Replicated)
          BY <1>2, <2>1, <2>2, <4>1, Zenon
        <5> QED BY ONLY <4>2, <5>1, q \in Provider, t \in Provider, f \in Function
      <4>4. f \notin terminating[q] /\ terminating' = terminating /\ goal'.f = f
        BY <2>1, <3>1, <4>1, Zenon
      <4> QED BY <4>1, <4>3, <4>4, ReplicatedIs, Zenon DEF Running, Exists
    <3> QED BY <2>3, <3>1, <3>2, Zenon DEF Enough
  <2>6. EnoughEverywhere'
    BY Zenon, <1>3, <2>1, <2>5 DEF EnoughEverywhere, Enough
  <2> QED BY <1>1, <2>4, <2>6, GoalKept, Zenon
<1>12. ~ScaleDown(h, s) /\ ~UpdateService(h, s) /\ ~FindDeployment(h, s) /\ ~DeleteDeployment(h, s) /\ ~DeleteService(h, s)
  BY <1>2, Zenon DEF ScaleDown, UpdateService, FindDeployment, DeleteDeployment, DeleteService
<1> QED BY Zenon, <1>6, <1>7, <1>8, <1>9, <1>10, <1>11, <1>12 DEF Step

\* A request to scale up begins alone, with catalogs that are up to date.
LEMMA BeginClimbs ==
  ASSUME TypeInv, SumsAreNatural, NEW h \in Handler, Begin(h)
  PROVE  GoalInv'
<1> SUFFICES ASSUME Climbing'
             PROVE  GoalInv'
  BY Zenon DEF GoalInv, Climbing
<1>1. PICK s : handler'[h] = s /\ goal' = Goal(s) /\ Fresh(s)
  BY Zenon, BeginDoes
<1>2. Others(h) /\ UNCHANGED <<deployment, terminating, view>>
  BY Zenon, BeginDoes
<1> DEFINE now == [q \in Provider |-> Running(q, s.f)]
           n == Total(s.f) + (IF s.op = "scaleUp" THEN s.cnt ELSE - s.cnt)
           promise == [n |-> n, f |-> s.f, at |-> s.at, op |-> s.op, before |-> now]
<1>3. s.at \in Provider /\ s.f \in Function
  BY <1>1, Zenon DEF Fresh, Locals
<1>4. /\ Quiet /\ goal' = promise
      /\ \A q \in Provider :
           /\ view[s.at][q][s.f] = Running(q, s.f) /\ view[q][q][s.f] = Running(q, s.f)
           /\ s.f \notin terminating[q]
  BY Zenon, <1>1 DEF Goal, Climbing
<1>5. now \in [Provider -> Replicated]
  BY <1>3, RunningIs
<1>6. \A q \in Provider : now[q] = Running(q, s.f)
  OBVIOUS
<1> HIDE DEF n, now
<1>7. promise.f = s.f /\ promise.at = s.at /\ promise.op = s.op /\ promise.before = now
  OBVIOUS
<1> HIDE DEF promise
<1>8. \A q \in Provider : Running(q, s.f)' = Running(q, s.f) /\ now[q] \in Nat
  BY <1>2, <1>5, ReplicatedIs, Zenon DEF Running, Exists
<1>9. EnoughEverywhere'
  <2> SUFFICES ASSUME NEW q \in Provider
               PROVE  (/\ goal.f \notin terminating[q] /\ Enough(Running(q, goal.f), q)
                       /\ Enough(view[goal.at][q][goal.f], q) /\ Enough(view[q][q][goal.f], q))'
    BY Zenon DEF EnoughEverywhere
  <2>1. goal'.f \notin terminating'[q]
    BY <1>2, <1>4, <1>7, ZenonT(30)
  <2>2. goal'.before[q] = now[q] /\ now[q] >= now[q]
    BY <1>4, <1>7, <1>8
  <2>3. Running(q, goal.f)' = now[q] /\ view'[goal'.at][q][goal'.f] = now[q] /\ view'[q][q][goal'.f] = now[q]
    BY <1>2, <1>4, <1>6, <1>7, <1>8, Zenon
  <2> QED BY Zenon, <2>1, <2>2, <2>3 DEF Enough
<1>10. ASSUME NEW g \in Handler, handler'[g] # Idle
       PROVE  Climbs(handler[g])'
  <2>1. handler'[g] = s
    BY <1>1, <1>2, <1>4, <1>10, Zenon DEF Others, Quiet
  <2>2. s.op = "scaleUp" /\ s.pc = "node"
    BY <1>1, <1>4, <1>7, Zenon DEF Climbing, Fresh
  <2> QED BY <1>4, <1>7, <2>1, <2>2, Zenon DEF Climbs
<1> QED BY Zenon, <1>3, <1>4, <1>5, <1>7, <1>9, <1>10 DEF GoalInv, EnoughEverywhere

LEMMA EnvironmentClimbs ==
  ASSUME TypeInv, Environment, Watched, GoalInv, Climbing
  PROVE  GoalInv'
<1>1. UNCHANGED <<handler, goal>> /\ EnoughEverywhere
  BY Zenon DEF Watched, GoalInv, Climbing, EnoughEverywhere
<1>2. PICK f \in Function, p \in Provider : f = goal.f /\ p = goal.at
  BY Zenon DEF GoalInv, Climbing
<1>3. ASSUME NEW q \in Provider, NEW g \in Function, Collect(q, g)
      PROVE  EnoughEverywhere'
  <2>1. /\ UNCHANGED view /\ g \in terminating[q]
        /\ terminating' = [terminating EXCEPT ![q] = @ \ {g}]
        /\ deployment' = [deployment EXCEPT ![q][g] = Absent]
    BY Zenon, <1>3, CollectDoes
  <2>2. g # f
    BY <1>1, <1>2, <2>1 DEF EnoughEverywhere
  <2>3. \A r \in Provider : deployment'[r][f] = deployment[r][f]
    BY <2>1, <2>2 DEF TypeInv, ObjectsType
  <2>4. \A r \in Provider : f \in terminating'[r] <=> f \in terminating[r]
    BY <2>1, <2>2 DEF TypeInv, ObjectsType
  <2>5. \A r \in Provider : Running(r, f)' = Running(r, f)
    BY <2>3, <2>4, Zenon DEF Running, Exists
  <2> QED BY Zenon, <1>1, <1>2, <2>1, <2>4, <2>5 DEF EnoughEverywhere, Enough
<1>4. UNCHANGED <<deployment, terminating, services, conflict>> /\ Learns => EnoughEverywhere'
  <2> SUFFICES ASSUME UNCHANGED <<deployment, terminating>>, Learns, NEW q \in Provider
               PROVE  (/\ goal.f \notin terminating[q] /\ Enough(Running(q, goal.f), q)
                       /\ Enough(view[goal.at][q][goal.f], q) /\ Enough(view[q][q][goal.f], q))'
    BY Zenon DEF EnoughEverywhere
  <2>1. /\ f \notin terminating[q] /\ Enough(Running(q, f), q)
        /\ Enough(view[p][q][f], q) /\ Enough(view[q][q][f], q)
    BY Zenon, <1>1, <1>2 DEF EnoughEverywhere
  <2>2. /\ view'[p][q][f] \in {view[p][q][f], view[q][q][f], Running(q, f)}
        /\ view'[q][q][f] \in {view[q][q][f], Running(q, f)}
    BY Zenon DEF Learns
  <2>3. Enough(view'[p][q][f], q) /\ Enough(view'[q][q][f], q)
    BY Zenon, <2>1, <2>2
  <2>4. Running(q, f)' = Running(q, f)
    BY DEF Running, Exists
  <2> QED BY Zenon, <1>1, <1>2, <2>1, <2>3, <2>4 DEF Enough
<1>5. EnoughEverywhere'
  BY Zenon, <1>3, <1>4, EnvironmentDoes
<1>6. ASSUME NEW h \in Handler, handler'[h] # Idle
      PROVE  Climbs(handler[h])'
  <2>1. Climbs(handler[h])
    BY <1>1, <1>6 DEF GoalInv, Climbing
  <2> QED BY ZenonT(30), <1>1, <2>1 DEF Climbs, Enough
<1> QED BY Zenon, <1>1, <1>5, <1>6 DEF GoalInv, Climbing, EnoughEverywhere

LEMMA NextClimbs ==
  ASSUME TypeInv, SumsAreNatural, GoalInv, [Next]_vars
  PROVE  GoalInv'
<1>1. goal' = NoGoal => GoalInv'
  BY Zenon DEF GoalInv
<1>2. ASSUME NEW h \in Handler, Fault(h, handler[h])
      PROVE  GoalInv'
  BY Zenon, <1>1, <1>2, FaultDoes
<1>3. goal' = goal /\ ~Climbing => GoalInv'
  BY Zenon DEF GoalInv, Climbing
<1>4. ASSUME NEW h \in Handler, Step(h, handler[h]), Framed
      PROVE  GoalInv'
  <2>1. goal' \in {goal, NoGoal}
    BY Zenon, <1>4 DEF Step, CheckLimit, CreateDeployment, CreateService, NextNode, ScaleDown, GetDeployment,
       PutDeployment, UpdateService, FindDeployment, DeleteDeployment, DeleteService, Return, Fail
  <2> QED BY Zenon, <1>1, <1>3, <1>4, <2>1, StepClimbs
<1>5. ASSUME Environment, Watched
      PROVE  GoalInv'
  <2>1. goal' = goal
    BY <1>5 DEF Watched
  <2> QED BY <1>3, <1>5, <2>1, EnvironmentClimbs
<1>6. CASE UNCHANGED vars
  BY Zenon, <1>6 DEF vars, objects, catalog, GoalInv, Enough, Climbs, Running, Exists
<1> QED BY Zenon, <1>2, <1>4, <1>5, <1>6, BeginClimbs DEF Next, Framed, Watched

LEMMA GoalInvImpliesOnlyExcessIsLowered == GoalInv => OnlyExcessIsLowered
BY Zenon DEF GoalInv, OnlyExcessIsLowered, Enough

==============================================================================
