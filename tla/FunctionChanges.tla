--------------------------- MODULE FunctionChanges ---------------------------
(***************************************************************************)
(* One function through deploy, update, delete and the copies that other   *)
(* nodes make of it, while its Secrets come and go: what is in the         *)
(* Deployment, the Service and the FunctionCatalog.  Deployments counts    *)
(* replicas, this module follows the contents (FunctionSpec).              *)
(*                                                                         *)
(* A step is one call to an API server with the local code around it.      *)
(***************************************************************************)
EXTENDS FunctionSpec

CONSTANTS
  Provider,     \* one per cluster, with credentials for all of them
  Entry,        \* the providers clients call
  SecretNames,
  Present,      \* Present[c][n]: the type a Secret has before, or Nil; kubectl
                \* makes those of a docker type
  Requests,     \* what clients send
  Kinds,        \* the handlers that may run
  Clock,        \* the readings of the clock, for the label uid
  Handler, MaxOps, MaxFaults

VARIABLES
  deployment,   \* deployment[c]: its contents, or Nil
  terminating,  \* the clusters whose Deployment is being deleted
  service,      \* service[c]: its annotations, or Nil
  secrets,      \* secrets[c][n]: its type, or Nil
  catalog,      \* catalog[p]: the status in FunctionCatalog, or Nil
  replicas,     \* replicas[p][q]: AvailableFunctionsReplicas: none, zero or some
  awaited,      \* the clusters whose AddFunc waits for a ready replica
  handler,      \* program counters and local variables
  stale         \* handlers whose copy of an object is out of date

VARIABLES       \* history
  written,      \* written[c]: the operation, request and Secrets it comes from
  changes,      \* Deployments that clients have made, changed or deleted
  overlapped,   \* two handlers have run at the same time
  used          \* handlers and faults (failed calls, restarts) so far

objects == <<deployment, terminating, service, secrets, stale>>
knowledge == <<catalog, replicas, awaited>>
history == <<written, changes>>
vars == <<objects, knowledge, handler, history, overlapped, used>>

Idle == [pc |-> "idle"]
Busy(h) == handler[h].pc \notin {"idle", "done"}
Become(h, s) == handler' = [handler EXCEPT ![h] = s]
Goto(s, pc) == [s EXCEPT !.pc = pc]

\* The answer of a handler.  200 is what net/http sends for a handler that
\* returns without a status.
Done(s, code) == [pc |-> "done", op |-> s.op, code |-> code]

Dies(s) == Done(s, 0)

\* Writing an object makes the copies that other handlers hold out of date.
Holders(pc, c, n) ==
  {h \in Handler : handler[h].pc = pc /\ handler[h].target = c /\ (n # Nil => handler[h].r = n)}

---------------------------------------------------------------------------
(* Deploying: MakeDeployHandler, deployFunctionByP2PID, makeFunction *)

\* After GetSecrets: the rest is local, up to the call of Create or Update.
WithSecrets(s) ==
  IF s.todo # {} THEN s
  ELSE IF s.op = "update" THEN [Goto(s, "put") EXCEPT !.d = Updated(s.r, @, s.got, s.uid)]
  ELSE IF ~isAnonymous(s.r.image) \/ ~Valid(s.r) THEN Done(s, 400)
  ELSE [Goto(s, "create") EXCEPT !.d = makeDeploymentSpec(s.r, s.got)]

makeFunction(op, p, q, r) ==
  WithSecrets([pc |-> "secrets", op |-> op, at |-> p, target |-> q, r |-> r, d |-> Nil,
               todo |-> BagToSet(r.secrets), got |-> EmptyMap, uid |-> Nil])

MakeDeployHandler(p, r) ==
  IF ValidateDeployRequest(r) /\ RightNamespace(r)
  THEN makeFunction("deploy", p, p, r)
  ELSE Done([op |-> "deploy"], 400)

\* GetSecrets reads one Secret after the other.
GetSecrets(h, s) ==
  /\ s.pc = "secrets"
  /\ \E n \in s.todo :
       Become(h, IF secrets[s.target][n] = Nil THEN Done(s, 400)
                 ELSE WithSecrets([s EXCEPT !.todo = @ \ {n},
                        !.got = n :> secrets[s.target][n] @@ @]))
  /\ UNCHANGED <<objects, knowledge, history>>

\* A new Deployment; a client's counts as a change.
Create(h, s) ==
  /\ s.pc = "create"
  /\ IF deployment[s.target] # Nil \/ ~Admissible(s.d)
     THEN Become(h, Done(s, 500)) /\ UNCHANGED <<deployment, awaited, history>>
     ELSE /\ deployment' = [deployment EXCEPT ![s.target] = s.d]
          /\ awaited' = awaited \cup {s.target}
          /\ written' = [written EXCEPT ![s.target] = [op |-> s.op, r |-> s.r, got |-> s.got]]
          /\ changes' = IF s.op = "deploy" THEN changes + 1 ELSE changes
          /\ Become(h, Goto(s, "createService"))
  /\ UNCHANGED <<terminating, service, secrets, stale, catalog, replicas>>

CreateService(h, s) ==
  /\ s.pc = "createService"
  /\ IF service[s.target] # Nil
     THEN Become(h, Done(s, 400)) /\ UNCHANGED service
     ELSE /\ service' = [service EXCEPT ![s.target] = makeServiceSpec(s.r)]
          /\ Become(h, Done(s, 202))
  /\ UNCHANGED <<deployment, terminating, secrets, stale, knowledge, history>>

---------------------------------------------------------------------------
(* MakeUpdateHandler: an error that is not "not found" is logged only *)

MakeUpdateHandler(p, r) ==
  LET s == [pc |-> "get", op |-> "update", at |-> p, target |-> p, r |-> r, d |-> Nil,
            todo |-> BagToSet(r.secrets), got |-> EmptyMap, uid |-> Nil]
  IN  IF ValidateDeployRequest(r) /\ RightNamespace(r) /\ ValidAnnotations(r)
      THEN s ELSE Done(s, 400)

GetDeployment(h, s) ==
  /\ s.pc = "get"
  /\ \E uid \in Clock :
       Become(h, IF deployment[s.target] = Nil THEN Done(s, 404)
                 ELSE IF ~isAnonymous(s.r.image) \/ ~ValidResources(s.r) THEN Done(s, 200)
                 ELSE WithSecrets([Goto(s, "secrets") EXCEPT
                        !.d = deployment[s.target], !.uid = uid]))
  /\ UNCHANGED <<objects, knowledge, history>>

\* Mutant: the error of the call is logged and the answer is 202.
PutAcceptsErrors(h, s) ==
  /\ s.pc = "put"
  /\ IF deployment[s.target] = Nil \/ h \in stale \/ ~Admissible(s.d)
     THEN /\ Become(h, Done(s, 202))
          /\ stale' = stale \ {h}
          /\ UNCHANGED <<deployment, history>>
     ELSE /\ deployment' = [deployment EXCEPT ![s.target] = s.d]
          /\ written' = [written EXCEPT ![s.target] = [op |-> s.op, r |-> s.r, got |-> s.got]]
          /\ changes' = changes + 1
          /\ stale' = stale \cup (Holders("put", s.target, Nil) \ {h})
          /\ Become(h, Goto(s, "getService"))
  /\ UNCHANGED <<terminating, service, secrets, knowledge>>

\* A copy that is out of date, or that the API server does not admit, is refused.
PutDeployment(h, s) ==
  /\ s.pc = "put"
  /\ IF deployment[s.target] = Nil \/ h \in stale \/ ~Admissible(s.d)
     THEN /\ Become(h, Done(s, IF deployment[s.target] = Nil THEN 500 ELSE 200))
          /\ stale' = stale \ {h}
          /\ UNCHANGED <<deployment, history>>
     ELSE /\ deployment' = [deployment EXCEPT ![s.target] = s.d]
          /\ written' = [written EXCEPT ![s.target] = [op |-> s.op, r |-> s.r, got |-> s.got]]
          /\ changes' = changes + 1
          /\ stale' = stale \cup (Holders("put", s.target, Nil) \ {h})
          /\ Become(h, Goto(s, "getService"))
  /\ UNCHANGED <<terminating, service, secrets, knowledge>>

GetService(h, s) ==
  /\ s.pc = "getService"
  /\ Become(h, IF service[s.target] = Nil THEN Done(s, 404) ELSE Goto(s, "putService"))
  /\ UNCHANGED <<objects, knowledge, history>>

PutService(h, s) ==
  /\ s.pc = "putService"
  /\ IF service[s.target] = Nil \/ h \in stale
     THEN Become(h, Done(s, 500)) /\ stale' = stale \ {h} /\ UNCHANGED service
     ELSE /\ service' = [service EXCEPT ![s.target] = buildAnnotations(s.r)]
          /\ stale' = stale \cup (Holders("putService", s.target, Nil) \ {h})
          /\ Become(h, Done(s, 202))
  /\ UNCHANGED <<deployment, terminating, secrets, knowledge, history>>

---------------------------------------------------------------------------
(* MakeDeleteHandler; the catalog is changed before the cluster *)

MakeDeleteHandler(p) == [pc |-> "find", op |-> "delete", at |-> p, target |-> p, r |-> Nil]

\* makeDeploymentSpec puts the label on the Deployment and on its template.
isFunction(d) == "faas_function" \in DOMAIN d.labels

\* DeleteAvailableFunctions panics without an entry; the entry goes away when
\* no node is known to have replicas.
FindDeployment(h, s) ==
  /\ s.pc = "find"
  /\ IF deployment[s.target] = Nil
     THEN Become(h, Done(s, 404)) /\ UNCHANGED <<catalog, replicas>>
     ELSE IF ~isFunction(deployment[s.target])
     THEN Become(h, Done(s, 400)) /\ UNCHANGED <<catalog, replicas>>
     ELSE /\ replicas' = [replicas EXCEPT ![s.at][s.at] = "none"]
          /\ IF catalog[s.at] = Nil
             THEN Become(h, Dies(s)) /\ UNCHANGED catalog
             ELSE /\ Become(h, Goto(s, "delete"))
                  /\ catalog' = IF "some" \in Range(replicas'[s.at]) THEN catalog
                                ELSE [catalog EXCEPT ![s.at] = Nil]
  /\ UNCHANGED <<objects, awaited, history>>

\* Mutant: that there is no Deployment any more goes unnoticed.
DeleteMissing(h, s) ==
  /\ s.pc = "delete"
  /\ terminating' = terminating \cup {s.target}
  /\ stale' = stale \cup Holders("put", s.target, Nil)
  /\ changes' = changes + 1
  /\ Become(h, Goto(s, "deleteService"))
  /\ UNCHANGED <<deployment, service, secrets, knowledge, written>>

\* Foreground deletion.
DeleteDeployment(h, s) ==
  /\ s.pc = "delete"
  /\ IF deployment[s.target] = Nil
     THEN Become(h, Done(s, 404)) /\ UNCHANGED <<terminating, stale, changes>>
     ELSE /\ terminating' = terminating \cup {s.target}
          /\ stale' = stale \cup Holders("put", s.target, Nil)
          /\ changes' = changes + 1
          /\ Become(h, Goto(s, "deleteService"))
  /\ UNCHANGED <<deployment, service, secrets, knowledge, written>>

DeleteService(h, s) ==
  /\ s.pc = "deleteService"
  /\ Become(h, Done(s, IF service[s.target] = Nil THEN 404 ELSE 202))
  /\ service' = [service EXCEPT ![s.target] = Nil]
  /\ stale' = stale \cup Holders("putService", s.target, Nil)
  /\ UNCHANGED <<deployment, terminating, secrets, knowledge, history>>

Collect(c) ==
  /\ c \in terminating
  /\ terminating' = terminating \ {c}
  /\ deployment' = [deployment EXCEPT ![c] = Nil]
  /\ written' = [written EXCEPT ![c] = Nil]
  /\ stale' = stale \cup Holders("put", c, Nil)
  /\ UNCHANGED <<service, secrets, knowledge, changes>>

---------------------------------------------------------------------------
(* SecretsHandler, secretClient *)

\* The key "namespace" of the body; of a GET the parameter, which may be empty.
\* A method without a body to look at passes.
NewNamespaceResolver(method, namespace) ==
  \/ namespace \in {Nil, Namespace}
  \/ method = "GET" /\ namespace = ""
  \/ method \notin {"GET", "POST", "PUT", "DELETE"}

ProcessErrorReasons(reason) ==
  CASE reason = "NotFound" -> 404
    [] reason \in {"AlreadyExists", "Conflict"} -> 409
    [] reason = "Invalid" -> 422
    [] OTHER -> 500

\* Namespaces are the default one here.
validateSecret(n) == n # ""

\* The one key is the name.
getValidSecretData(n) == {n}

\* secretClient: why a call fails, or "none".  An empty name is refused before
\* anything is sent.
CreateFails(c, n) ==
  IF ~validateSecret(n) THEN "Unknown" ELSE IF secrets[c][n] # Nil THEN "AlreadyExists" ELSE "none"

MissingFails(c, n) ==
  IF ~validateSecret(n) THEN "Unknown" ELSE IF secrets[c][n] = Nil THEN "NotFound" ELSE "none"

DeleteFails(c, n) == MissingFails(c, n)

\* The label selects the Secrets that createSecret has made, not kubectl's.
List(c) == {n \in SecretNames : secrets[c][n] = "Opaque"}

Accepted(s, reason) == Done(s, IF reason = "none" THEN 202 ELSE ProcessErrorReasons(reason))

listSecrets(h, s) ==
  /\ Become(h, Done(s, 200) @@ [names |-> List(s.target)])
  /\ UNCHANGED <<secrets, stale>>

createSecret(h, s) ==
  LET reason == CreateFails(s.target, s.r)
  IN  /\ Become(h, Accepted(s, reason))
      /\ secrets' = IF reason = "none" THEN [secrets EXCEPT ![s.target][s.r] = "Opaque"] ELSE secrets
      /\ UNCHANGED stale

deleteSecret(h, s) ==
  LET reason == DeleteFails(s.target, s.r)
  IN  /\ Become(h, Accepted(s, reason))
      /\ secrets' = IF reason = "none" THEN [secrets EXCEPT ![s.target][s.r] = Nil] ELSE secrets
      /\ stale' = stale \cup Holders("putSecret", s.target, s.r)

\* Replace reads the Secret first.
replaceSecret(h, s) ==
  LET reason == MissingFails(s.target, s.r)
  IN  /\ Become(h, IF reason = "none" THEN s ELSE Accepted(s, reason))
      /\ UNCHANGED <<secrets, stale>>

\* GET and other methods have no body that names a Secret.
ServeHTTP(h) ==
  \E p \in Entry, method \in {"GET", "POST", "PUT", "DELETE", "PATCH"}, namespace \in {Nil, "other"} :
  \E n \in IF method \in {"GET", "PATCH"} THEN {""} ELSE SecretNames \cup {""} :
    LET s == [pc |-> "putSecret", op |-> method, at |-> p, target |-> p, r |-> n]
    IN  IF ~NewNamespaceResolver(method, namespace) \/ method = "PATCH"
        THEN Become(h, Done(s, 400)) /\ UNCHANGED <<secrets, stale>>
        ELSE \/ method = "GET" /\ listSecrets(h, s)
             \/ method = "POST" /\ createSecret(h, s)
             \/ method = "PUT" /\ replaceSecret(h, s)
             \/ method = "DELETE" /\ deleteSecret(h, s)

\* Replace keeps type and labels.  The API server refuses a docker Secret
\* without its key.
Replace(h, s) ==
  /\ s.pc = "putSecret"
  /\ LET reason == IF secrets[s.target][s.r] = Nil THEN "NotFound"
                   ELSE IF h \in stale THEN "Conflict"
                   ELSE IF IsPull(secrets[s.target][s.r]) /\ ".dockercfg" \notin getValidSecretData(s.r)
                   THEN "Invalid" ELSE "none"
     IN  /\ Become(h, Done(s, IF reason = "none" THEN 202 ELSE ProcessErrorReasons(reason)))
         /\ stale' = IF reason = "none"
                     THEN stale \cup (Holders("putSecret", s.target, s.r) \ {h})
                     ELSE stale \ {h}
  /\ UNCHANGED <<deployment, terminating, service, secrets, knowledge, history>>

---------------------------------------------------------------------------
(* Beginning and failing *)

\* scaleUp and the trigger handler deploy on a node without replicas.
deployFunctionByP2PID(p, q) == makeFunction("copy", p, q, RequestOf(catalog[p]))

Operations(h) ==
  \/ \E p \in Entry :
       \/ /\ "deploy" \in Kinds
          /\ \E r \in Requests : Become(h, MakeDeployHandler(p, r))
       \/ /\ "update" \in Kinds
          /\ \E r \in Requests : Become(h, MakeUpdateHandler(p, r))
       \/ "delete" \in Kinds /\ Become(h, MakeDeleteHandler(p))
  \/ /\ "copy" \in Kinds
     /\ \E p, q \in Provider :
          /\ catalog[p] # Nil /\ replicas[p][q] # "some"
          /\ Become(h, deployFunctionByP2PID(p, q))

Begin(h) ==
  /\ handler[h] = Idle /\ used.ops < MaxOps
  /\ \/ Operations(h) /\ UNCHANGED <<secrets, stale>>
     \/ "secret" \in Kinds /\ ServeHTTP(h)
  /\ used' = [used EXCEPT !.ops = @ + 1]
  /\ overlapped' = (overlapped \/ \E g \in Handler : Busy(g))
  /\ UNCHANGED <<deployment, terminating, service, knowledge, history>>

\* The client has the answer.
End(h) ==
  /\ handler[h].pc = "done"
  /\ Become(h, Idle)
  /\ UNCHANGED <<objects, knowledge, history>>

\* What a handler answers when its call fails for another reason.
FaultCode(s) ==
  CASE s.op \in {"deploy", "copy"} -> IF s.pc = "create" THEN 500 ELSE 400
    [] s.op = "update" -> IF s.pc = "getService" THEN 404
                          ELSE IF s.pc = "putService" THEN 500 ELSE 200
    [] OTHER -> 500

Fault(h, s) ==
  /\ Busy(h) /\ used.faults < MaxFaults
  /\ used' = [used EXCEPT !.faults = @ + 1]
  /\ Become(h, Done(s, FaultCode(s)))
  /\ stale' = stale \ {h}
  /\ UNCHANGED <<deployment, terminating, service, secrets, knowledge, history, overlapped>>

---------------------------------------------------------------------------
(* What the providers learn *)

\* AddFunc reports the Deployment as it is when a replica is ready, or gives
\* up after 300 s; AddAvailableFunctions keeps an entry that exists.
AddFunc(p) ==
  /\ p \in awaited
  /\ awaited' = awaited \ {p}
  /\ \/ UNCHANGED <<catalog, replicas>>
     \/ /\ deployment[p] # Nil
        /\ replicas' = [replicas EXCEPT ![p][p] = "some"]
        /\ catalog' = [catalog EXCEPT ![p] =
                         IF @ = Nil THEN AsFunctionStatus(deployment[p]) ELSE @]
  /\ UNCHANGED <<objects, history>>

\* UpdateAvailableFunctions changes the replicas only.
UpdateFunc(p) ==
  /\ replicas[p][p] = "some" /\ p \in terminating
  /\ replicas' = [replicas EXCEPT ![p][p] = "zero"]
  /\ UNCHANGED <<objects, catalog, awaited, history>>

\* p receives what q publishes (InfoNetwork has the delays and losses).
Hear(p, q) ==
  /\ replicas[p][q] # replicas[q][q] /\ catalog[q] # Nil
  /\ replicas' = [replicas EXCEPT ![p][q] = replicas[q][q]]
  /\ catalog' = [catalog EXCEPT ![p] =
                   IF @ = Nil /\ replicas[q][q] # "none" THEN catalog[q] ELSE @]
  /\ UNCHANGED <<objects, awaited, history>>

\* initSelfCatagory and ListFunctionStatus: a provider starts anew from the
\* Deployment of its cluster; AddFunc sees it again.
Restart(p) ==
  /\ used.faults < MaxFaults
  /\ used' = [used EXCEPT !.faults = @ + 1]
  /\ handler' = [h \in Handler |->
                   IF Busy(h) /\ handler[h].at = p THEN Dies(handler[h]) ELSE handler[h]]
  /\ stale' = stale \ {h \in Handler : Busy(h) /\ handler[h].at = p}
  /\ \E ready \in {"zero", "some"} :
       LET own == IF deployment[p] = Nil THEN "none" ELSE ready
       IN  replicas' = [replicas EXCEPT ![p] = [q \in Provider |-> IF q = p THEN own ELSE "none"]]
  /\ catalog' = [catalog EXCEPT ![p] =
                   IF deployment[p] = Nil THEN Nil ELSE AsFunctionStatus(deployment[p])]
  /\ awaited' = IF deployment[p] = Nil THEN awaited \ {p} ELSE awaited \cup {p}
  /\ UNCHANGED <<deployment, terminating, service, secrets, history, overlapped>>

---------------------------------------------------------------------------
Init ==
  /\ deployment = [c \in Provider |-> Nil] /\ service = deployment /\ written = deployment
  /\ terminating = {} /\ awaited = {} /\ stale = {}
  /\ secrets = Present
  /\ catalog = [p \in Provider |-> Nil]
  /\ replicas = [p \in Provider |-> [q \in Provider |-> "none"]]
  /\ handler = [h \in Handler |-> Idle]
  /\ changes = 0 /\ overlapped = FALSE
  /\ used = [ops |-> 0, faults |-> 0]

Step(h, s) ==
  \/ GetSecrets(h, s) \/ Create(h, s) \/ CreateService(h, s)
  \/ GetDeployment(h, s) \/ PutDeployment(h, s) \/ GetService(h, s) \/ PutService(h, s)
  \/ FindDeployment(h, s) \/ DeleteDeployment(h, s) \/ DeleteService(h, s)
  \/ Replace(h, s) \/ End(h)

Next ==
  \/ \E h \in Handler :
       \/ Begin(h) \/ Fault(h, handler[h])
       \/ Step(h, handler[h]) /\ UNCHANGED <<overlapped, used>>
  \/ /\ \/ \E p \in Provider : Collect(p) \/ AddFunc(p) \/ UpdateFunc(p)
        \/ \E p, q \in Provider : Hear(p, q)
     /\ UNCHANGED <<handler, overlapped, used>>
  \/ \E p \in Provider : Restart(p)

Spec == Init /\ [][Next]_vars

---------------------------------------------------------------------------
(* Properties *)

Quiet == \A h \in Handler : ~Busy(h)
Clusters == {c \in Provider : deployment[c] # Nil}

\* The types of the variables.
TypeOK ==
  /\ \A c \in Clusters : deployment[c].replicas \in Nat /\ written[c] # Nil
  /\ terminating \subseteq Clusters
  /\ secrets \in [Provider -> [SecretNames -> {Nil, "Opaque", "dockercfg"}]]
  /\ replicas \in [Provider -> [Provider -> {"none", "zero", "some"}]]
  /\ awaited \subseteq Provider
  /\ \A h \in stale : Busy(h)
  /\ changes \in Nat /\ overlapped \in BOOLEAN
  /\ \A h \in Handler : handler[h] # Idle =>
       handler[h].pc \in {"done", "secrets", "create", "createService", "get", "put", "getService",
                          "putService", "find", "delete", "deleteService", "putSecret"}

\* updateDeploymentSpec changes the Deployment there is, through any number of
\* updates: the result is what deploying the last request would have made,
\* save for the label uid, for the replicas if no label asks for them, and for
\* the pull secrets, which ConfigureSecrets only adds.
UpdateLeavesNothingBehind ==
  \A c \in Clusters :
    LET w == written[c]
        d == deployment[c]
        fresh == makeDeploymentSpec(w.r, w.got)
        labels == Map(w.r.labels)
    IN  d = [fresh EXCEPT
               !.labels = IF w.op = "update" /\ "uid" \notin DOMAIN labels
                          THEN @ @@ "uid" :> d.labels["uid"] ELSE @,
               !.replicas = IF w.op = "update" /\ getMinReplicaCount(labels, 0) = 0
                            THEN d.replicas ELSE @,
               !.pullSecrets = @ (+) (d.pullSecrets (-) @)]

\* A function that one cluster has admitted can be admitted by any other, with
\* two exceptions: a limit for one resource makes the limit of the other 0,
\* below what is requested; and a pull secret that updates have added twice is
\* no docker Secret in the other cluster.
CopyIsAdmissible ==
  \A p \in Provider :
    catalog[p] # Nil =>
      LET st == catalog[p]
          r == RequestOf(st)
      IN  \A types \in [BagToSet(r.secrets) -> {"Opaque", "dockercfg"}] :
            \/ Admissible(makeDeploymentSpec(r, types))
            \/ /\ st.limits # Nil /\ st.requests # Nil
               /\ \E k \in {"memory", "cpu"} : st.limits[k] = 0 /\ st.requests[k] > 0
               /\ \E k \in {"memory", "cpu"} : st.limits[k] > 0
            \/ \E n \in DOMAIN types : types[n] = "Opaque" /\ st.secrets[n] > 1

\* makeFunction writes the annotations to Deployment and Service, and
\* MakeUpdateHandler changes both: they differ, or one is missing, only after
\* handlers overlapped or a call or a provider failed between the two.
ServiceAgrees ==
  Quiet /\ ~overlapped /\ used.faults = 0 =>
    \A c \in Provider \ terminating :
      service[c] = IF deployment[c] = Nil THEN Nil ELSE deployment[c].annotations

\* A deployment or an update that is answered with 202 is what the cluster has,
\* in the Deployment and in the Service, unless another handler ran meanwhile
\* or the garbage collector has taken a Deployment that was being deleted.
AcceptedIsApplied ==
  [][\A h \in Handler :
       LET s == handler[h]
       IN  /\ Busy(h) /\ s.op \in {"deploy", "update", "copy"} /\ ~overlapped
           /\ handler'[h] = Done(s, 202) /\ deployment[s.target] # Nil
           => /\ written[s.target].r = s.r
              /\ service'[s.target] = deployment'[s.target].annotations]_vars

\* ValidateDeployRequest is not called for the copies other nodes make: every
\* Deployment keeps to its limits all the same.
RestrictionsKept ==
  \A c \in Clusters :
    deployment[c].replicas \in 1 .. MaxReplicas /\ validateScalingLabels(deployment[c].labels)

\* The Deployment that deployFunctionByP2PID makes from the status of a
\* function shows that same status again (all that AsFunctionStatus reads):
\* copies of copies do not drift.  As long as clients have deployed the function
\* once and neither updated nor deleted it, every cluster runs what every
\* FunctionCatalog shows.  (After an update that is no longer so: an entry that
\* exists is kept.)
OneFunctionEverywhere ==
  /\ \A c \in Clusters :
       written[c].op = "copy" =>
         LET st == AsFunctionStatus(deployment[c])
         IN  \A k \in DOMAIN st : st[k] = written[c].r[k]
  /\ changes <= 1 =>
       \A p \in Provider : catalog[p] # Nil =>
         \A c \in Clusters : AsFunctionStatus(deployment[c]) = catalog[p]
==============================================================================
