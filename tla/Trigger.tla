------------------------------- MODULE Trigger -------------------------------
(* Invoking one function (pkg/handlers/trigger.go) at several providers: the  *)
(* choice of a node by its execution times, deploying on demand, offloading,  *)
(* the moving average, exploring other nodes.  A step is a run of a handler   *)
(* between two points at which another goroutine or provider can interfere.   *)
EXTENDS Integers, Sequences, SequencesExt

CONSTANTS
  Provider,
  Near,            \* Near[p]: SortedP2PID of p
  Kubeconfig,      \* Kubeconfig[p]: the clusters p has credentials for
  EnabledOffload,
  Times,           \* the times in ms that a call may take
  Entry,           \* the providers that clients call
  Starts,          \* where the function runs at first, and the execution times
                   \* that earlier requests have left
  Overloads,       \* the nodes that may be overloaded at first
  Samples,         \* the loads in percent that Prometheus may report, one a CPU or
                   \* machine; or Nil when a query fails
  MaxInt,          \* the weights of the chooser add up to less
  Request,         \* slots for the requests of clients
  MaxHops,         \* how often the model lets a request be forwarded
  MaxRequests, MaxChanges,
  Nil

VARIABLES
  deployed,  \* the clusters with a Deployment of the function
  ready,     \* those of them in which a replica is ready
  view,      \* view[p]: the nodes with AvailableFunctionsReplicas > 0 at p
  time,      \* time[p][q]: FunctionExecutionTime of node q at p, or Absent
  overload,  \* the nodes with Overload
  known,     \* the providers with the function in FunctionCatalog
  handler,   \* handler[r][d]: MakeTriggerHandler of request r after d hops
  spawned,   \* <<p, q>>: a goroutine of p that deploys on q
  ended,     \* the providers whose process has ended
  aborts,    \* how the target of a request was found that met a missing time
  used       \* requests and changes so far

clusterVars == <<deployed, ready>>
catalogVars == <<view, time, overload, known>>
vars == <<clusterVars, catalogVars, handler, spawned, ended, aborts, used>>

Absent == -1
Unmeasured == 1
weightRRfactory == 4
overloadPenaltyFactory == 4
CPUOverloadThreshold == 80
MemOverloadThreshold == 80
NoNode == "no node"
Hop == 0 .. MaxHops

ASSUME TriggerAssumption ==
  /\ IsFiniteSet(Provider) /\ NoNode \notin Provider
  /\ Near \in [Provider -> Seq(Provider)] /\ Kubeconfig \in [Provider -> SUBSET Provider]
  /\ EnabledOffload \in BOOLEAN
  /\ Times \subseteq Nat /\ Entry \subseteq Provider /\ Overloads \subseteq SUBSET Provider
  /\ \A x \in Starts :
       /\ x.deployed \subseteq Provider /\ x.time \in [Provider -> [Provider -> Nat \cup {Absent}]]
       /\ \A p \in Provider, q \in x.deployed : x.time[p][q] # Absent
  /\ MaxInt \in Nat /\ MaxHops \in Nat /\ MaxRequests \in Nat /\ MaxChanges \in Nat

Idle == [pc |-> "idle", at |-> NoNode, target |-> NoNode, offload |-> FALSE,
         how |-> "none", tmpTime |-> 0]

Running(r, d) == handler[r][d].pc # "idle" /\ handler[r][d].at \notin ended
Step(r, d, s) == handler' = [handler EXCEPT ![r][d] = s]
Goto(r, d, pc) == handler' = [handler EXCEPT ![r][d].pc = pc]
Return(r, d) == Step(r, d, Idle)

---------------------------------------------------------------------------
(* weightExecTimeScheduler, findSuitableNode *)

Factor(q) == weightRRfactory + (IF q \in overload THEN overloadPenaltyFactory ELSE 0)

Product(f, S) == FoldFunctionOnSet(LAMBDA x, y : x * y, 1, f, S)

\* Mutant: the weight grows with the node's own time.
WeightDirect(p, q) ==
  LET min == Min({time[p][r] : r \in view[p]})
  IN  (10 * time[p][q] ^ Factor(q)) \div (min ^ Factor(q))

\* With x = (time / min) ^ Factor for every candidate: the product of all x,
\* divided by the candidate's own, times 10, cut to an integer.
Weight(p, q) ==
  LET min == Min({time[p][r] : r \in view[p]})
      x == [r \in view[p] |-> time[p][r] ^ Factor(r)]
      rest == view[p] \ {q}
  IN  (10 * Product(x, rest)) 
        \div (min ^ SumFunctionOnSet([r \in rest |-> Factor(r)], rest))

\* NewChooser refuses weights that are too large.  A time of 0 makes every
\* weight NaN, which becomes 0 or a number that is too large.
NewChooserSucceeds(p) ==
  /\ \A q \in view[p] : time[p][q] # 0
  /\ SumFunctionOnSet([q \in view[p] |-> Weight(p, q)], view[p]) < MaxInt

\* The first node near p that satisfies the test.
FirstNear(p, Test(_)) ==
  LET is == {i \in DOMAIN Near[p] : Test(Near[p][i])}
  IN  IF is = {} THEN NoNode ELSE Near[p][Min(is)]

Chosen(s, q, how) ==
  [s EXCEPT !.target = q, !.how = how, !.pc = IF how = "deploy" THEN "deploy" ELSE "proxy"]

\* An unmeasured candidate is taken at once; without candidates the first node
\* that is not overloaded, to be deployed on; without that the empty key.
findSuitableNode(r, d, s) ==
  /\ s.pc = "choose"
  /\ LET p == s.at
         unmeasured == {q \in view[p] : time[p][q] = Unmeasured}
     IN  \/ /\ unmeasured # {}
            /\ \E q \in unmeasured : Step(r, d, Chosen(s, q, "scheduler"))
            /\ UNCHANGED time
         \/ /\ view[p] # {} /\ unmeasured = {} /\ NewChooserSucceeds(p)
            /\ \E q \in view[p] : Weight(p, q) > 0 /\ Step(r, d, Chosen(s, q, "scheduler"))
            /\ UNCHANGED time
         \/ /\ view[p] # {} /\ unmeasured = {} /\ ~NewChooserSucceeds(p)
            /\ time' = [time EXCEPT ![p] = [q \in Provider |->
                          IF q \in view[p] THEN Unmeasured ELSE @[q]]]
            /\ Step(r, d, Chosen(s, p, "fallback"))
         \/ /\ view[p] = {}
            /\ LET q == FirstNear(p, LAMBDA n : n \notin overload)
               IN  IF q = NoNode THEN Return(r, d) ELSE Step(r, d, Chosen(s, q, "deploy"))
            /\ UNCHANGED time
  /\ UNCHANGED <<clusterVars, view, overload, known, spawned, ended, aborts, used>>

---------------------------------------------------------------------------
(* MakeTriggerHandler *)

\* What the handler of a request at p does first.  How the target was found
\* is passed on for the properties; the code passes the mark alone.
MakeTriggerHandler(p, offload, how) ==
  IF p \notin known THEN Idle
  ELSE [Idle EXCEPT !.at = p, !.target = p, !.offload = offload, !.how = how,
          !.pc = IF ~offload /\ EnabledOffload THEN "choose" ELSE "proxy"]

Begin(r) ==
  /\ used.requests < MaxRequests
  /\ \A d \in Hop : ~Running(r, d)
  /\ \E p \in Entry \ ended :
       handler' = [handler EXCEPT ![r] = [d \in Hop |->
         IF d = 0 THEN MakeTriggerHandler(p, FALSE, "local") ELSE Idle]]
  /\ used' = [used EXCEPT !.requests = @ + 1]
  /\ UNCHANGED <<clusterVars, catalogVars, spawned, ended, aborts>>

\* makeFunction on a node for which p has credentials: its errors are ignored.
deployFunctionByP2PID(q) == deployed' \in {deployed, deployed \cup {q}}

\* Without credentials the Factory is nil: net/http recovers and the request
\* is over.
Deploy(r, d, s) ==
  /\ s.pc = "deploy"
  /\ IF s.target \notin Kubeconfig[s.at]
     THEN Return(r, d) /\ UNCHANGED deployed
     ELSE /\ Goto(r, d, "wait")
          /\ IF s.at \in known THEN deployFunctionByP2PID(s.target) ELSE UNCHANGED deployed
  /\ UNCHANGED <<ready, catalogVars, spawned, ended, aborts, used>>

\* Mutant: no timeout.
WaitForever(r, d, s) ==
  /\ s.pc = "wait" /\ s.target \in ready
  /\ Goto(r, d, "proxy")
  /\ UNCHANGED <<clusterVars, catalogVars, spawned, ended, aborts, used>>

\* WaitDeployReadyAndReport: a ready replica, or the end of 300 seconds or of
\* the watch, which ends the request before the exploration is deferred.
Wait(r, d, s) ==
  /\ s.pc = "wait"
  /\ \/ s.target \in ready /\ Goto(r, d, "proxy")
     \/ Return(r, d)
  /\ UNCHANGED <<clusterVars, catalogVars, spawned, ended, aborts, used>>

\* The end of a handler that chose its target: the deferred exploration.
Leave(s) == IF s.offload \/ ~EnabledOffload THEN Idle ELSE [s EXCEPT !.pc = "explore"]

---------------------------------------------------------------------------
(* offloadRequest, proxyRequest *)

\* The local resolver finds an endpoint: the lister's cache may lag behind the
\* cluster.
ProxyLocal(r, d, s) ==
  /\ s.pc = "proxy" /\ s.target = s.at
  /\ Goto(r, d, "load")
  /\ UNCHANGED <<clusterVars, catalogVars, spawned, ended, aborts, used>>

\* A method other than GET and POST, no endpoint in the lister's cache, or a
\* request that cannot be built: answered at once, and not timed.
NotSent(r, d, s) ==
  /\ s.pc = "proxy"
  /\ Step(r, d, Leave(s))
  /\ UNCHANGED <<clusterVars, catalogVars, spawned, ended, aborts, used>>

\* Mutant: the request is forwarded without the mark.
ProxyRemoteUnmarked(r, d, s) ==
  /\ s.pc = "proxy" /\ s.target # s.at /\ d < MaxHops /\ s.target \notin ended
  /\ handler' = [handler EXCEPT ![r][d].pc = "await",
                   ![r][d + 1] = MakeTriggerHandler(s.target, FALSE, s.how)]
  /\ UNCHANGED <<clusterVars, catalogVars, spawned, ended, aborts, used>>

\* markAsOffloadRequest, and the call to the gateway of the other cluster.
ProxyRemote(r, d, s) ==
  /\ s.pc = "proxy" /\ s.target # s.at /\ d < MaxHops /\ s.target \notin ended
  /\ handler' = [handler EXCEPT ![r][d].pc = "await",
                   ![r][d + 1] = MakeTriggerHandler(s.target, TRUE, s.how)]
  /\ UNCHANGED <<clusterVars, catalogVars, spawned, ended, aborts, used>>

\* The answer, or an error: the call cannot be made or its timeout ends.  The
\* other handler goes on in that case.
Answered(r, d, s) ==
  /\ \/ s.pc = "await"
     \/ s.pc = "proxy" /\ s.target # s.at
  /\ Goto(r, d, "load")
  /\ UNCHANGED <<clusterVars, catalogVars, spawned, ended, aborts, used>>

\* The deferred function of proxyRequest, first half: Load.  Without an entry
\* it is a nil dereference; the exploration runs nevertheless.
LoadTime(r, d, s) ==
  /\ s.pc = "load"
  /\ LET old == time[s.at][s.target]
     IN  IF old = Absent
         THEN Step(r, d, Leave(s)) /\ aborts' = aborts \cup {s.how}
         ELSE /\ \E t \in Times : Step(r, d, [s EXCEPT !.pc = "store",
                                   !.tmpTime = IF old = Unmeasured THEN t ELSE (old + t) \div 2])
              /\ UNCHANGED aborts
  /\ UNCHANGED <<clusterVars, catalogVars, spawned, ended, used>>

\* Second half: Store.
StoreTime(r, d, s) ==
  /\ s.pc = "store"
  /\ time' = [time EXCEPT ![s.at][s.target] = s.tmpTime]
  /\ Step(r, d, Leave(s))
  /\ UNCHANGED <<clusterVars, view, overload, known, spawned, ended, aborts, used>>

---------------------------------------------------------------------------
(* explorePotentialNode, and the goroutine that deploys there *)

\* The first node nearby that does not run the function and was faster when it
\* did, else the first that never did.
explorePotentialNode(p, target) ==
  LET idle(n) == n \notin view[p]
      faster == FirstNear(p, LAMBDA n :
                  idle(n) /\ time[p][n] # Absent /\ time[p][n] < time[p][target])
  IN  IF faster # NoNode THEN faster
      ELSE FirstNear(p, LAMBDA n : idle(n) /\ time[p][n] = Absent)

Explored(p, target) ==
  LET q == explorePotentialNode(p, target)
  IN  spawned' = IF q = NoNode THEN spawned ELSE spawned \cup {<<p, q>>}

\* Mutant: the exploration itself runs in the goroutine.
ExploreInBackground(r, d, s) ==
  /\ s.pc = "explore"
  /\ Return(r, d)
  /\ IF time[s.at][s.target] = Absent
     THEN ended' = ended \cup {s.at} /\ UNCHANGED spawned
     ELSE Explored(s.at, s.target) /\ UNCHANGED ended
  /\ UNCHANGED <<clusterVars, catalogVars, aborts, used>>

Explore(r, d, s) ==
  /\ s.pc = "explore"
  /\ Return(r, d)
  /\ IF time[s.at][s.target] = Absent
     THEN aborts' = aborts \cup {s.how} /\ UNCHANGED spawned
     ELSE Explored(s.at, s.target) /\ UNCHANGED aborts
  /\ UNCHANGED <<clusterVars, catalogVars, ended, used>>

\* Nothing recovers from a panic in this goroutine: without credentials for q
\* the process ends.
DeployInBackground(p, q) ==
  /\ <<p, q>> \in spawned /\ p \notin ended
  /\ spawned' = spawned \ {<<p, q>>}
  /\ CASE p \notin known -> UNCHANGED <<deployed, ended>>
       [] p \in known /\ q \in Kubeconfig[p] -> deployFunctionByP2PID(q) /\ UNCHANGED ended
       [] OTHER -> ended' = ended \cup {p} /\ UNCHANGED deployed
  /\ UNCHANGED <<ready, catalogVars, handler, aborts, used>>

---------------------------------------------------------------------------
(* What happens around the handlers *)

Change == used.changes < MaxChanges /\ used' = [used EXCEPT !.changes = @ + 1]

BecomeReady(q) ==
  /\ q \in deployed \ ready
  /\ ready' = ready \cup {q}
  /\ UNCHANGED <<deployed, catalogVars, handler, spawned, ended, aborts, used>>

\* The last ready replica fails.
BecomeUnready(q) ==
  /\ Change /\ q \in ready
  /\ ready' = ready \ {q}
  /\ UNCHANGED <<deployed, catalogVars, handler, spawned, ended, aborts>>

\* The average load is above the threshold.  No sample at all is NaN, which is
\* above nothing.
queryResourceAverageLoad(samples, threshold) ==
  FoldLeft(LAMBDA x, y : x + y, 0, samples) > threshold * Len(samples)

\* log.Fatalf: a query that fails ends the provider.
updatePressureFails(q) ==
  /\ Change /\ q \notin ended /\ Nil \in Samples
  /\ ended' = ended \cup {q}
  /\ UNCHANGED <<clusterVars, catalogVars, handler, spawned, aborts>>

\* The two loads count alike; the peers hear of a change only.
updatePressure(q) ==
  /\ Change /\ q \notin ended
  /\ \E cpu, mem \in Samples \ {Nil} :
       overload' = IF \/ queryResourceAverageLoad(cpu, CPUOverloadThreshold)
                      \/ queryResourceAverageLoad(mem, MemOverloadThreshold)
                   THEN overload \cup {q} ELSE overload \ {q}
  /\ overload' # overload
  /\ UNCHANGED <<clusterVars, view, time, known, handler, spawned, ended, aborts>>

\* The informer of the own cluster reports a new Deployment.
AddFunc(p) ==
  /\ p \in ready \ view[p] /\ p \notin ended
  /\ view' = [view EXCEPT ![p] = @ \cup {p}]
  /\ time' = [time EXCEPT ![p][p] = Unmeasured]
  /\ known' = known \cup {p}
  /\ UNCHANGED <<clusterVars, overload, handler, spawned, ended, aborts, used>>

\* Mutant: no execution time for a function that is new on the node.
unpackNodeInfoMsgUntimed(p, q) ==
  /\ p # q /\ {p, q} \cap ended = {} /\ q \in view[q] \ view[p]
  /\ view' = [view EXCEPT ![p] = @ \cup {q}]
  /\ known' = known \cup {p}
  /\ UNCHANGED <<clusterVars, time, overload, handler, spawned, ended, aborts, used>>

\* What q says of itself reaches p.  A function that is new on q, or has more
\* replicas there than before, gets a new chance.
unpackNodeInfoMsg(p, q) ==
  /\ p # q /\ {p, q} \cap ended = {}
  /\ \/ /\ q \in view[q] \ view[p]
        /\ view' = [view EXCEPT ![p] = @ \cup {q}]
        /\ time' = [time EXCEPT ![p][q] = Unmeasured]
        /\ known' = known \cup {p}
        /\ UNCHANGED used
     \/ /\ Change /\ q \in view[q] \cap view[p]
        /\ time' = [time EXCEPT ![p][q] = Unmeasured]
        /\ UNCHANGED <<view, known>>
     \/ /\ q \in view[p] \ view[q]
        /\ view' = [view EXCEPT ![p] = @ \ {q}]
        /\ UNCHANGED <<time, known, used>>
  /\ UNCHANGED <<clusterVars, overload, handler, spawned, ended, aborts>>

\* Mutant: the Deployment is deleted and its replicas stay.
MakeDeleteHandlerOrphans(q) ==
  /\ Change /\ q \in deployed \cap known /\ q \notin ended
  /\ view' = [view EXCEPT ![q] = @ \ {q}]
  /\ known' = IF view'[q] = {} THEN known \ {q} ELSE known
  /\ deployed' = deployed \ {q}
  /\ UNCHANGED <<ready, time, overload, handler, spawned, ended, aborts>>

\* The catalog first, then the Deployment with its replicas.  The execution
\* time stays behind.
MakeDeleteHandler(q) ==
  /\ Change /\ q \in deployed \cap known /\ q \notin ended
  /\ view' = [view EXCEPT ![q] = @ \ {q}]
  /\ known' = IF view'[q] = {} THEN known \ {q} ELSE known
  /\ deployed' = deployed \ {q} /\ ready' = ready \ {q}
  /\ UNCHANGED <<time, overload, handler, spawned, ended, aborts>>

---------------------------------------------------------------------------
\* The catalogs agree with the clusters at first.
Init ==
  /\ \E x \in Starts : deployed = x.deployed /\ time = x.time
  /\ ready = deployed
  /\ view = [p \in Provider |-> deployed]
  /\ overload \in Overloads
  /\ known = Provider
  /\ handler = [r \in Request |-> [d \in Hop |-> Idle]]
  /\ spawned = {} /\ ended = {} /\ aborts = {}
  /\ used = [requests |-> 0, changes |-> 0]

HandlerStep(r, d) ==
  /\ Running(r, d)
  /\ LET s == handler[r][d]
     IN  \/ findSuitableNode(r, d, s) \/ Deploy(r, d, s) \/ Wait(r, d, s)
         \/ ProxyLocal(r, d, s) \/ ProxyRemote(r, d, s) \/ NotSent(r, d, s) \/ Answered(r, d, s)
         \/ LoadTime(r, d, s) \/ StoreTime(r, d, s) \/ Explore(r, d, s)

Next ==
  \/ \E r \in Request : Begin(r)
  \/ \E r \in Request, d \in Hop : HandlerStep(r, d)
  \/ \E p, q \in Provider : DeployInBackground(p, q) \/ unpackNodeInfoMsg(p, q)
  \/ \E q \in Provider :
       BecomeReady(q) \/ BecomeUnready(q) \/ updatePressure(q) \/ updatePressureFails(q) \/ AddFunc(q) \/ MakeDeleteHandler(q)

Spec == Init /\ [][Next]_vars

\* A handler that can go on does: the wait for a Deployment and the call of
\* another provider have timeouts, and an event stream is assumed to end.
FairSpec == Spec /\ \A r \in Request, d \in Hop : WF_vars(HandlerStep(r, d))

---------------------------------------------------------------------------
State ==
  [pc : {"idle", "choose", "deploy", "wait", "proxy", "await", "load", "store", "explore"},
   at : Provider \cup {NoNode}, target : Provider \cup {NoNode}, offload : BOOLEAN,
   how : {"none", "local", "scheduler", "fallback", "deploy"}, tmpTime : Nat]

\* Every variable has its type, and only a Deployment has ready replicas.
TypeOK ==
  /\ deployed \subseteq Provider /\ ready \subseteq deployed
  /\ view \in [Provider -> SUBSET Provider]
  /\ time \in [Provider -> [Provider -> Nat \cup {Absent}]]
  /\ overload \subseteq Provider /\ known \subseteq Provider
  /\ handler \in [Request -> [Hop -> State]]
  /\ spawned \subseteq Provider \X Provider /\ ended \subseteq Provider
  /\ aborts \subseteq {"local", "scheduler", "fallback", "deploy"}
  /\ used \in [requests : 0 .. MaxRequests, changes : 0 .. MaxChanges]

\* A request is forwarded at most once, whatever the provider that receives it
\* believes about the clusters (markAsOffloadRequest, trigger.go:74).
OneHop == \A r \in Request, d \in Hop : d > 1 => handler[r][d].pc = "idle"

\* The scheduler looks at nodes that a catalog says run the function.  A
\* request it has placed finds the execution times it updates afterwards
\* (trigger.go:89, 275), at the provider that placed it and at the one it was
\* sent to, whatever is reported, reset and deleted meanwhile.
PlacedNeverAborts == "scheduler" \notin aborts

\* weightExecTimeScheduler gives every candidate a chance, and a candidate that
\* is as fast as another and no more overloaded at least the same.
FasterIsLikelier ==
  \A p \in Provider :
    (\A q \in view[p] : time[p][q] > Unmeasured)
    => \A q, r \in view[p] :
         /\ Weight(p, q) > 0
         /\ time[p][q] <= time[p][r] /\ (q \in overload => r \in overload)
            => Weight(p, q) >= Weight(p, r)

\* Panics of a handler are recovered.  No request ends a provider's process,
\* unless it explores a cluster that it has no credentials for (trigger.go:69);
\* Prometheus does, when it does not answer.
CrashNeedsMissingConfig ==
  [][\A p \in ended' \ ended :
       updatePressureFails(p) \/ \E q \in Provider \ Kubeconfig[p] : <<p, q>> \in spawned]_vars

\* Every request is over in the end, also when the function it deployed on
\* demand never becomes ready or the other provider dies.
EveryRequestEnds == \A r \in Request : Running(r, 0) ~> ~Running(r, 0)
=============================================================================
