----------------------------- MODULE Deployments -----------------------------
(***************************************************************************)
(* The handlers that create, change, scale and delete functions, on the    *)
(* Deployments and Services of several clusters (pkg/handlers/deploy.go,   *)
(* update.go, delete.go, replica_updater.go).                              *)
(*                                                                         *)
(* A handler is a sequence of calls to the API server of a cluster.  A     *)
(* step is one call with the local code around it; the handlers of all     *)
(* providers interleave.  What a provider knows of the clusters is its     *)
(* catalog, which lags behind (InfoNetwork says how it catches up).        *)
(***************************************************************************)
EXTENDS Integers, Sequences, FiniteSets, Functions

CONSTANTS
  Provider,      \* one per cluster
  Function,
  Near,          \* Near[p]: SortedP2PID, from near to far; p comes first
  Kubeconfig,    \* Kubeconfig[p]: the clusters p has credentials for
  Workers,       \* Workers[q]: the nodes of cluster q
  MinReplicas,   \* the label com.openfaas.scale.min, 1 when there is none
  MaxReplicas, MaxFunctions,
  EnabledOffload,
  Bits,          \* the width of an int32
  Requests,      \* the replicas a scale request may ask for
  Starts,        \* the Deployments there are at first
  Overloads,     \* the sets of providers that may be overloaded
  Handler,       \* slots for handlers that run at the same time
  Kinds,         \* the handlers that may run
  MaxOps,        \* bound on the handlers of one behaviour
  MaxFaults      \* bound on the calls that fail, and handlers that die

Absent == -1

ASSUME DeploymentsAssumption ==
  /\ IsFiniteSet(Provider)
  /\ \A p \in Provider : Near[p] \in Seq(Provider) /\ Near[p] # <<>> /\ Near[p][1] = p
  /\ \A p \in Provider : p \in Kubeconfig[p] /\ Workers[p] \in Nat \ {0}
  /\ MinReplicas \in Nat \ {0} /\ MaxReplicas \in Nat \ {0} /\ MaxFunctions \in Nat
  /\ Requests \subseteq Nat \ {0} /\ Bits \in Nat \ {0}
  /\ Kinds \subseteq {"deploy", "update", "delete", "scale", "set"}
  /\ MaxOps \in Nat /\ MaxFaults \in Nat

\* Spec.Replicas and the other replica counts of the code are int32.
MaxInt32 == 2^(Bits - 1) - 1

ASSUME Int32Assumption ==
  /\ 2^(Bits - 1) \in Nat \ {0} /\ 2^Bits = 2 * 2^(Bits - 1)
  /\ MinReplicas <= MaxInt32 /\ MaxReplicas <= MaxInt32
  /\ \A p \in Provider : Workers[p] <= MaxInt32
  /\ Starts \subseteq [Provider -> [Function -> 0 .. MaxInt32 \cup {Absent}]]

VARIABLES
  deployment,   \* Spec.Replicas of the Deployment, or Absent
  terminating,  \* Deployments deleted in the foreground, still being collected
  services,     \* the Services of every cluster
  view,         \* view[p][q][f]: AvailableFunctionsReplicas in p's catalog
  known,        \* the keys of p's FunctionCatalog
  awaited,      \* functions whose AddFunc waits for the first ready replica
  listed,       \* listed[p][q]: the functions in p's DeployLister for q
  overload,     \* the overloaded providers
  handler,      \* the handlers' program counters and local variables
  conflict      \* handlers whose copy of a Deployment is out of date

VARIABLES       \* history
  used,         \* handlers begun and faults
  overlapped,   \* two handlers have run at the same time
  goal          \* the promise of a scale request that runs alone

objects == <<deployment, terminating, services, conflict>>
catalog == <<view, known, awaited, listed>>
vars == <<objects, catalog, overload, handler, used, overlapped, goal>>

Idle == [pc |-> "idle"]
NoGoal == [n |-> 0]
Quiet == \A h \in Handler : handler[h] = Idle

Exists(q, f) == deployment[q][f] # Absent

\* The replicas a cluster will run.
Running(q, f) ==
  IF Exists(q, f) /\ f \notin terminating[q] THEN deployment[q][f] ELSE 0

Total(f) == SumFunction([q \in Provider |-> Running(q, f)])

\* FunctionCatalog[f].Replicas (see ReplicasAreCounted in InfoNetwork).
Replicas(p, f) == SumFunction([q \in Provider |-> view[p][q][f]])

\* int32(x)
Int32(x) ==
  LET low == x % 2^Bits IN IF low < 2^(Bits - 1) THEN low ELSE low - 2^Bits

---------------------------------------------------------------------------
(* How handlers proceed *)

Goto(h, pc) == handler' = [handler EXCEPT ![h].pc = pc]

Return(h) == handler' = [handler EXCEPT ![h] = Idle] /\ UNCHANGED goal

\* An early return with an error, or a panic, which the HTTP server recovers.
Fail(h) ==
  /\ handler' = [handler EXCEPT ![h] = Idle]
  /\ goal' = NoGoal

\* The API server refuses an Update of a Deployment that changed since Get:
\* the handlers that hold a copy of it.
Holders(q, f) ==
  {h \in Handler : handler[h].pc = "put" /\ handler[h].target = q /\ handler[h].f = f}

---------------------------------------------------------------------------
(* makeFunction, for the deploy handler and for deployFunctionByP2PID *)

\* The Deployments with a label faas_function in the lister's cache.
FunctionCount(p, q) == Cardinality(listed[p][q])

\* The limit is tested against the lister's cache.  A provider without
\* credentials for the cluster has no lister either.
CheckLimit(h, s) ==
  /\ s.pc = "count"
  /\ IF s.target \in Kubeconfig[s.at] /\ FunctionCount(s.at, s.target) + 1 <= MaxFunctions
     THEN Goto(h, "create") /\ UNCHANGED goal
     ELSE Fail(h)
  /\ UNCHANGED <<objects, catalog>>

CreateDeployment(h, s) ==
  /\ s.pc = "create"
  /\ IF Exists(s.target, s.f)
     THEN Fail(h) /\ UNCHANGED <<deployment, awaited>>
     ELSE /\ deployment' = [deployment EXCEPT ![s.target][s.f] = MinReplicas]
          /\ awaited' = [awaited EXCEPT ![s.target] = @ \cup {s.f}]
          /\ Goto(h, "createService") /\ UNCHANGED goal
  /\ UNCHANGED <<terminating, services, conflict, view, known, listed>>

\* Mutant: the new replicas without the ones there are.
PlaceReplicasAnew(h, s, avail, cnt) ==
  LET room == Workers[s.target] - avail
      cap == IF cnt < room THEN cnt ELSE room
  IN  handler' = [handler EXCEPT ![h] =
        IF cnt > 0
        THEN [s EXCEPT !.pc = "get", !.n = cap, !.cnt = Int32(cnt - cap)]
        ELSE [s EXCEPT !.pc = "node", !.i = @ + 1, !.cnt = cnt]]

\* Mutant: what was placed is not subtracted.
PlaceReplicasUncounted(h, s, avail, cnt) ==
  LET room == Workers[s.target] - avail
      cap == IF cnt < room THEN cnt ELSE room
  IN  handler' = [handler EXCEPT ![h] =
        IF cnt > 0
        THEN [s EXCEPT !.pc = "get", !.n = cap + avail, !.cnt = cnt]
        ELSE [s EXCEPT !.pc = "node", !.i = @ + 1, !.cnt = cnt]]

\* scaleUp with avail replicas at the node and cnt more to place: fill the
\* workers of the cluster, or go on to the next node.
PlaceReplicas(h, s, avail, cnt) ==
  LET room == Workers[s.target] - avail
      cap == IF cnt < room THEN cnt ELSE room
  IN  handler' = [handler EXCEPT ![h] =
        IF cnt > 0
        THEN [s EXCEPT !.pc = "get", !.n = cap + avail, !.cnt = Int32(cnt - cap)]
        ELSE [s EXCEPT !.pc = "node", !.i = @ + 1, !.cnt = cnt]]

\* "deploy success mean scale up one instance"
CreateService(h, s) ==
  /\ s.pc = "createService"
  /\ IF s.f \in services[s.target]
     THEN Fail(h) /\ UNCHANGED services
     ELSE /\ services' = [services EXCEPT ![s.target] = @ \cup {s.f}]
          /\ IF s.op = "scaleUp"
             THEN PlaceReplicas(h, s, 1, s.cnt - 1) /\ UNCHANGED goal
             ELSE Return(h)
  /\ UNCHANGED <<deployment, terminating, conflict, catalog>>

---------------------------------------------------------------------------
(* scaleUp, scaleDown *)

deployFunctionByP2PID(s) == [s EXCEPT !.pc = "count"]

\* The loop "from near to far".
NextNode(h, s) ==
  /\ s.pc = "node"
  /\ LET numNode == IF EnabledOffload THEN Len(Near[s.at]) ELSE 1
         p2pID == Near[s.at][s.i]
         avail == view[s.at][p2pID][s.f]
         here == [s EXCEPT !.target = p2pID]
     IN  IF s.i > numNode \/ s.cnt <= 0
         THEN Return(h)
         ELSE IF p2pID \in overload
         THEN handler' = [handler EXCEPT ![h].i = @ + 1] /\ UNCHANGED goal
         ELSE IF avail = 0
         THEN handler' = [handler EXCEPT ![h] = deployFunctionByP2PID(here)] /\ UNCHANGED goal
         ELSE IF p2pID \in Kubeconfig[s.at]
         THEN PlaceReplicas(h, here, avail, s.cnt) /\ UNCHANGED goal
         ELSE Fail(h)
  /\ UNCHANGED <<objects, catalog>>

\* Mutant: the last node instead of the first.
ScaleDownFarthest(h, s) ==
  /\ s.pc = "down"
  /\ LET p2pID == Near[s.at][Len(Near[s.at])]
         avail == view[s.at][p2pID][s.f]
         here == [s EXCEPT !.target = p2pID]
     IN  IF avail = 0 \/ s.cnt <= 0
         THEN Return(h)
         ELSE /\ handler' = [handler EXCEPT ![h] =
                   IF avail > s.cnt
                   THEN [here EXCEPT !.pc = "get", !.n = avail - s.cnt]
                   ELSE [here EXCEPT !.pc = "deleteDeployment"]]
              /\ UNCHANGED goal
  /\ UNCHANGED <<objects, catalog>>

\* scaleDown looks at the first node only.
ScaleDown(h, s) ==
  /\ s.pc = "down"
  /\ LET p2pID == Near[s.at][1]
         avail == view[s.at][p2pID][s.f]
         here == [s EXCEPT !.target = p2pID]
     IN  IF avail = 0 \/ s.cnt <= 0
         THEN Return(h)
         ELSE /\ handler' = [handler EXCEPT ![h] =
                   IF avail > s.cnt
                   THEN [here EXCEPT !.pc = "get", !.n = avail - s.cnt]
                   ELSE [here EXCEPT !.pc = "deleteDeployment"]]
              /\ UNCHANGED goal
  /\ UNCHANGED <<objects, catalog>>

\* Get, then Update, of a Deployment: the end of scaleUp, scaleDown, of a
\* request marked as offloaded ("set") and of updateDeploymentSpec, which
\* leaves the replicas alone unless the request has the label.
GetDeployment(h, s) ==
  /\ s.pc = "get"
  /\ IF ~Exists(s.target, s.f)
     THEN Fail(h)
     ELSE /\ handler' = [handler EXCEPT ![h].pc = "put",
                ![h].n = IF s.op = "update" THEN deployment[s.target][s.f] ELSE @]
          /\ UNCHANGED goal
  /\ UNCHANGED <<objects, catalog>>

\* Mutant: without the resource version.
PutDeploymentBlind(h, s) ==
  /\ s.pc = "put"
  /\ IF ~Exists(s.target, s.f) \/ s.n < 0
     THEN Fail(h) /\ UNCHANGED deployment /\ conflict' = conflict \ {h}
     ELSE /\ deployment' = [deployment EXCEPT ![s.target][s.f] = s.n]
          /\ conflict' = (conflict \cup Holders(s.target, s.f)) \ {h}
          /\ CASE s.op = "scaleUp" ->
                    handler' = [handler EXCEPT ![h].pc = "node", ![h].i = @ + 1] /\ UNCHANGED goal
               [] s.op \in {"update", "updateMin"} -> Goto(h, "updateService") /\ UNCHANGED goal
               [] OTHER -> Return(h)
  /\ UNCHANGED <<terminating, services, catalog>>

PutDeployment(h, s) ==
  /\ s.pc = "put"
  /\ IF h \in conflict \/ ~Exists(s.target, s.f) \/ s.n < 0
     THEN Fail(h) /\ UNCHANGED deployment /\ conflict' = conflict \ {h}
     ELSE /\ deployment' = [deployment EXCEPT ![s.target][s.f] = s.n]
          /\ conflict' = (conflict \cup Holders(s.target, s.f)) \ {h}
          /\ CASE s.op = "scaleUp" ->
                    handler' = [handler EXCEPT ![h].pc = "node", ![h].i = @ + 1] /\ UNCHANGED goal
               [] s.op \in {"update", "updateMin"} -> Goto(h, "updateService") /\ UNCHANGED goal
               [] OTHER -> Return(h)
  /\ UNCHANGED <<terminating, services, catalog>>

UpdateService(h, s) ==
  /\ s.pc = "updateService"
  /\ IF s.f \in services[s.target] THEN Return(h) ELSE Fail(h)
  /\ UNCHANGED <<objects, catalog>>

---------------------------------------------------------------------------
(* MakeDeleteHandler, deleteFunction *)

\* Mutant: one replica less instead of none.
FindDeploymentDecrements(h, s) ==
  /\ s.pc = "find"
  /\ IF ~Exists(s.at, s.f)
     THEN Fail(h) /\ UNCHANGED <<view, known>>
     ELSE /\ view' = [view EXCEPT ![s.at][s.at][s.f] = @ - 1]
          /\ IF s.f \notin known[s.at]
             THEN Fail(h) /\ UNCHANGED known
             ELSE /\ known' = [known EXCEPT ![s.at] =
                       IF \A q \in Provider : view'[s.at][q][s.f] = 0 THEN @ \ {s.f} ELSE @]
                  /\ Goto(h, "deleteDeployment") /\ UNCHANGED goal
  /\ UNCHANGED <<objects, awaited, listed>>

\* The catalog is updated ("report before delete"); for a function outside
\* FunctionCatalog this panics, and nothing is deleted.
FindDeployment(h, s) ==
  /\ s.pc = "find"
  /\ IF ~Exists(s.at, s.f)
     THEN Fail(h) /\ UNCHANGED <<view, known>>
     ELSE /\ view' = [view EXCEPT ![s.at][s.at][s.f] = 0]
          /\ IF s.f \notin known[s.at]
             THEN Fail(h) /\ UNCHANGED known
             ELSE /\ known' = [known EXCEPT ![s.at] =
                       IF \A q \in Provider : view'[s.at][q][s.f] = 0 THEN @ \ {s.f} ELSE @]
                  /\ Goto(h, "deleteDeployment") /\ UNCHANGED goal
  /\ UNCHANGED <<objects, awaited, listed>>

DeleteDeployment(h, s) ==
  /\ s.pc = "deleteDeployment"
  /\ IF ~Exists(s.target, s.f)
     THEN Fail(h) /\ UNCHANGED <<terminating, conflict>>
     ELSE /\ terminating' = [terminating EXCEPT ![s.target] = @ \cup {s.f}]
          /\ conflict' = conflict \cup Holders(s.target, s.f)
          /\ Goto(h, "deleteService") /\ UNCHANGED goal
  /\ UNCHANGED <<deployment, services, catalog>>

\* Mutant: the Service stays.
DeleteServiceForgotten(h, s) ==
  /\ s.pc = "deleteService"
  /\ IF s.f \in services[s.target] THEN Return(h) ELSE Fail(h)
  /\ services' = [services EXCEPT ![s.target] = @]
  /\ UNCHANGED <<deployment, terminating, conflict, catalog>>

DeleteService(h, s) ==
  /\ s.pc = "deleteService"
  /\ IF s.f \in services[s.target] THEN Return(h) ELSE Fail(h)
  /\ services' = [services EXCEPT ![s.target] = @ \ {s.f}]
  /\ UNCHANGED <<deployment, terminating, conflict, catalog>>

---------------------------------------------------------------------------
(* Handlers begin *)

Local == [op |-> "", pc |-> "", at |-> "", f |-> "", target |-> "", i |-> 1, cnt |-> 0, n |-> 0]

\* MakeReplicaUpdater up to the choice of what to do.
MakeReplicaUpdater(kind, p, f, request) ==
  LET replicas == IF Int32(request) >= MaxReplicas THEN MaxReplicas ELSE Int32(request)
      oldReplicas == Int32(Replicas(p, f))
      start == [Local EXCEPT !.at = p, !.f = f, !.target = p]
  IN  IF f \notin known[p] \/ oldReplicas = replicas
      THEN {}
      ELSE {IF kind = "set"
            THEN [start EXCEPT !.op = "set", !.pc = "get", !.n = replicas]
            ELSE IF oldReplicas < replicas
            THEN [start EXCEPT !.op = "scaleUp", !.pc = "node", !.cnt = Int32(replicas - oldReplicas)]
            ELSE [start EXCEPT !.op = "scaleDown", !.pc = "down", !.cnt = Int32(oldReplicas - replicas)]}

MakeDeployHandler(start) == {[start EXCEPT !.pc = "count"]}

MakeDeleteHandler(start) == {[start EXCEPT !.pc = "find"]}

\* The request has the label for the least replicas, or it has not.
updateDeploymentSpec(start) ==
  {[start EXCEPT !.pc = "get"],
   [start EXCEPT !.pc = "get", !.op = "updateMin", !.n = MinReplicas]}

Operations(kind, p, f) ==
  LET start == [Local EXCEPT !.at = p, !.f = f, !.target = p, !.op = kind]
  IN  CASE kind = "deploy" -> MakeDeployHandler(start)
        [] kind = "delete" -> MakeDeleteHandler(start)
        [] kind = "update" -> updateDeploymentSpec(start)
        [] OTHER -> UNION {MakeReplicaUpdater(kind, p, f, r) : r \in Requests}

\* What a scale request promises when nothing else is going on and the
\* catalogs are up to date.
Goal(s) ==
  IF /\ Quiet /\ s.op \in {"scaleUp", "scaleDown"}
     /\ \A q \in Provider :
          /\ view[s.at][q][s.f] = Running(q, s.f) /\ view[q][q][s.f] = Running(q, s.f)
          /\ s.f \notin terminating[q]
  THEN [n |-> Total(s.f) + (IF s.op = "scaleUp" THEN s.cnt ELSE - s.cnt),
        f |-> s.f, at |-> s.at, op |-> s.op, before |-> [q \in Provider |-> Running(q, s.f)]]
  ELSE NoGoal

Begin(h) ==
  /\ handler[h] = Idle
  /\ used.ops < MaxOps
  /\ used' = [used EXCEPT !.ops = @ + 1]
  /\ \E kind \in Kinds, p \in Provider, f \in Function :
       \E s \in Operations(kind, p, f) :
         /\ handler' = [handler EXCEPT ![h] = s]
         /\ goal' = Goal(s)
  /\ overlapped' = (overlapped \/ ~Quiet)
  /\ UNCHANGED <<objects, catalog, overload>>

\* A call to an API server fails, or the process ends.
Fault(h, s) ==
  /\ s.pc \notin {"idle", "node", "down", "count"}
  /\ used.faults < MaxFaults
  /\ used' = [used EXCEPT !.faults = @ + 1]
  /\ Fail(h)
  /\ conflict' = conflict \ {h}
  /\ UNCHANGED <<deployment, terminating, services, catalog, overload, overlapped>>

---------------------------------------------------------------------------
(* The clusters and the catalogs (external: Kubernetes and InfoNetwork) *)

\* The garbage collector has deleted the last pod.
Collect(q, f) ==
  /\ f \in terminating[q]
  /\ terminating' = [terminating EXCEPT ![q] = @ \ {f}]
  /\ deployment' = [deployment EXCEPT ![q][f] = Absent]
  /\ conflict' = conflict \cup Holders(q, f)
  /\ UNCHANGED <<services, catalog>>

\* q learns of its own replicas: from AddFunc for a new Deployment, which
\* gives up on one that goes away, and from UpdateFunc as long as there are any.
AddFunc(q, f) ==
  /\ f \in awaited[q]
  /\ awaited' = [awaited EXCEPT ![q] = @ \ {f}]
  /\ IF Running(q, f) > 0
     THEN /\ view' = [view EXCEPT ![q][q][f] = Running(q, f)]
          /\ known' = [known EXCEPT ![q] = @ \cup {f}]
     ELSE UNCHANGED <<view, known>>
  /\ UNCHANGED <<objects, listed>>

UpdateFunc(q, f) ==
  /\ view[q][q][f] > 0
  /\ view[q][q][f] # Running(q, f)
  /\ view' = [view EXCEPT ![q][q][f] = Running(q, f)]
  /\ UNCHANGED <<objects, known, awaited, listed>>

\* p hears from q.
Hear(p, q) ==
  /\ view[p][q] # view[q][q]
  /\ view' = [view EXCEPT ![p][q] = view[q][q]]
  /\ known' = [known EXCEPT ![p] = @ \cup {f \in Function : view[q][q][f] > 0}]
  /\ UNCHANGED <<objects, awaited, listed>>

\* The cache of a lister catches up.
Refresh(p, q) ==
  /\ q \in Kubeconfig[p]
  /\ listed' = [listed EXCEPT ![p][q] = {f \in Function : Exists(q, f)}]
  /\ listed' # listed
  /\ UNCHANGED <<objects, view, known, awaited>>

---------------------------------------------------------------------------
Init ==
  /\ deployment \in Starts
  /\ terminating = [q \in Provider |-> {}]
  /\ services = [q \in Provider |-> {f \in Function : Exists(q, f)}]
  /\ view = [p \in Provider |-> [q \in Provider |-> [f \in Function |-> Running(q, f)]]]
  /\ known = [p \in Provider |-> {f \in Function : Total(f) > 0}]
  /\ awaited = [p \in Provider |-> {}]
  /\ listed = [p \in Provider |-> [q \in Provider |-> IF q \in Kubeconfig[p] THEN services[q] ELSE {}]]
  /\ overload \in Overloads
  /\ handler = [h \in Handler |-> Idle]
  /\ conflict = {} /\ overlapped = FALSE /\ goal = NoGoal
  /\ used = [ops |-> 0, faults |-> 0]

Step(h, s) ==
  \/ CheckLimit(h, s) \/ CreateDeployment(h, s) \/ CreateService(h, s)
  \/ NextNode(h, s) \/ ScaleDown(h, s)
  \/ GetDeployment(h, s) \/ PutDeployment(h, s) \/ UpdateService(h, s)
  \/ FindDeployment(h, s) \/ DeleteDeployment(h, s) \/ DeleteService(h, s)

Environment ==
  \/ \E q \in Provider, f \in Function : Collect(q, f) \/ AddFunc(q, f) \/ UpdateFunc(q, f)
  \/ \E p, q \in Provider : Hear(p, q) \/ Refresh(p, q)

Next ==
  \/ \E h \in Handler :
       \/ Begin(h) \/ Fault(h, handler[h])
       \/ Step(h, handler[h]) /\ UNCHANGED <<overload, used, overlapped>>
  \/ Environment /\ UNCHANGED <<overload, handler, used, overlapped, goal>>

Spec == Init /\ [][Next]_vars

---------------------------------------------------------------------------
(* Properties *)

\* The types of the variables.
TypeOK ==
  /\ deployment \in [Provider -> [Function -> 0 .. MaxInt32 \cup {Absent}]]
  /\ terminating \in [Provider -> SUBSET Function]
  /\ \A q \in Provider : \A f \in terminating[q] : Exists(q, f)
  /\ services \in [Provider -> SUBSET Function]
  /\ view \in [Provider -> [Provider -> [Function -> 0 .. MaxInt32]]]
  /\ known \in [Provider -> SUBSET Function] /\ awaited \in [Provider -> SUBSET Function]
  /\ listed \in [Provider -> [Provider -> SUBSET Function]]
  /\ conflict \subseteq {h \in Handler : handler[h] # Idle}
  /\ \A h \in Handler : handler[h] # Idle =>
       /\ handler[h].at \in Provider /\ handler[h].target \in Provider /\ handler[h].f \in Function
       /\ handler[h].i \in 1 .. Len(Near[handler[h].at]) + 1
       /\ handler[h].cnt \in -(2^(Bits - 1)) .. MaxInt32

\* makeFunction creates a Deployment and then its Service, deleteFunction
\* deletes them in the same order: a function is left with one of the two only
\* when a call failed or two handlers overlapped.
ServicesMatch ==
  Quiet /\ ~overlapped /\ used.faults = 0 =>
    \A q \in Provider, f \in Function :
      f \in services[q] <=> Exists(q, f) /\ f \notin terminating[q]

\* The replicas there were, and what a request takes away, fit an int32.
Fits ==
  LET old == SumFunction(goal.before)
  IN  old <= MaxInt32 /\ (goal.op = "scaleDown" => goal.n < old)

\* A scale request that runs alone, on a catalog that is up to date and in
\* numbers that fit an int32, and that answers 202: the function has the
\* replicas that were asked for, unless every cluster scaleUp may use is full,
\* or scaleDown has nothing left at home.  The last cluster scaleUp deploys to
\* may start with more than the one replica it counts.
TargetReached ==
  Quiet /\ goal # NoGoal /\ Fits =>
    \/ Total(goal.f) = goal.n
    \/ goal.op = "scaleUp" /\ Total(goal.f) \in goal.n + 1 .. goal.n + MinReplicas - 1
    \/ /\ goal.op = "scaleUp" /\ Total(goal.f) < goal.n
       /\ \A i \in DOMAIN Near[goal.at] :
            LET q == Near[goal.at][i]
            IN  (EnabledOffload \/ i = 1) /\ q \notin overload =>
                  Running(q, goal.f) >= Workers[q]
    \/ goal.op = "scaleDown" /\ Running(goal.at, goal.f) = 0 /\ Total(goal.f) > goal.n

\* The same request, when it asks for more, takes replicas away from a cluster
\* only down to one for each of its workers (the capacity below zero in
\* scaleUp), even if the ranking names the cluster twice.
OnlyExcessIsLowered ==
  goal # NoGoal /\ goal.op = "scaleUp" =>
    \A q \in Provider :
      Running(q, goal.f) >= goal.before[q] \/ Running(q, goal.f) >= Workers[q]

\* replica_updater.go:222, "we want only scale down in its own unit".
OwnUnit ==
  [][\A h \in Handler :
       handler[h] # Idle /\ handler'[h] # handler[h] =>
         (handler[h].op = "scaleDown" =>
            \A q \in Provider \ {handler[h].at} :
              deployment'[q] = deployment[q] /\ terminating'[q] = terminating[q])]_vars

\* updateDeploymentSpec writes back the whole Deployment it read: a request
\* without the label for the least replicas never undoes what another handler
\* scaled in between.
UpdateKeepsReplicas ==
  [][\A h \in Handler :
       handler[h] # Idle /\ handler'[h] # handler[h] =>
         (handler[h].op = "update" => deployment' = deployment)]_vars

\* replica_updater.go:58, "replicas cannot be set to 0 in OpenFaaS CE": scaling
\* leaves a replica of every function.
NeverScaledToZero == \A f \in Function : Total(f) > 0
=============================================================================
