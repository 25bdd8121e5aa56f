---------------------------- MODULE FunctionSpec ----------------------------
(***************************************************************************)
(* What a request for a function turns into, and what is read back: the    *)
(* Deployment (pkg/handlers/deploy.go, validate.go, pkg/k8s/secrets.go,    *)
(* securityContext.go, probes.go), the FunctionStatus of a Deployment      *)
(* (function_status.go), and the request made from a status when another   *)
(* node deploys the function (replica_updater.go).                         *)
(*                                                                         *)
(* Maps are functions; a list whose order nothing depends on is a bag.  A  *)
(* quantity stands for the text it is parsed from and printed as.          *)
(***************************************************************************)
EXTENDS Integers, Sequences, Bags, SequencesExt

CONSTANTS
  Name,            \* the name of the function
  Namespace,
  ValidNames,      \* the names that match validDNS
  PublicImages,    \* the images the registry shows to everyone
  Numeral,         \* what strconv.Atoi makes of a text, if anything
  MaxReplicas,
  HTTPProbe, SetNonRootUser,   \* of DeploymentConfig
  Nil

ASSUME FunctionSpecAssumption ==
  /\ Name \in ValidNames /\ MaxReplicas \in Nat \ {0}
  /\ HTTPProbe \in BOOLEAN /\ SetNonRootUser \in BOOLEAN

Unset == -1        \* an empty quantity
Malformed == -2
EmptyMap == [k \in {} |-> Nil]

Map(m) == IF m = Nil THEN EmptyMap ELSE m

---------------------------------------------------------------------------
(* ValidateDeployRequest *)

Atoi(v) == IF v \in DOMAIN Numeral THEN Numeral[v] ELSE 0

\* Mutant: the least number of replicas is not looked at.
ValidScalingWithoutMin(labels) ==
  /\ "scale.zero" \in DOMAIN labels => labels["scale.zero"] # "true"
  /\ {"scale.zero-duration", "scale.target", "scale.type"} \cap DOMAIN labels = {}
  /\ \A k \in {"scale.max"} \cap DOMAIN labels : Atoi(labels[k]) <= MaxReplicas

\* The labels that start with com.openfaas.  A text that is no number passes.
validateScalingLabels(labels) ==
  /\ "scale.zero" \in DOMAIN labels => labels["scale.zero"] # "true"
  /\ {"scale.zero-duration", "scale.target", "scale.type"} \cap DOMAIN labels = {}
  /\ \A k \in {"scale.max", "scale.min"} \cap DOMAIN labels : Atoi(labels[k]) <= MaxReplicas

ValidateDeployRequest(r) ==
  r.service \in ValidNames /\ r.image # "" /\ validateScalingLabels(Map(r.labels))

\* The handlers work in one namespace.
RightNamespace(r) == r.namespace \in {"", Namespace}

isAnonymous(image) == image \in PublicImages

---------------------------------------------------------------------------
(* The parts of a Deployment *)

ValidAnnotations(r) ==
  LET m == Map(r.annotations)
  IN  /\ "topic" \in DOMAIN m => m["topic"] # "many"
      /\ {"amazonaws.com", "gke.io"} \cap DOMAIN m = {}

buildAnnotations(r) ==
  Map(r.annotations) @@ "prometheus.io.scrape" :> "false"

\* Sorted by name, and stable: the process comes before a variable of its name.
buildEnvVars(r) ==
  LET process == IF r.envProcess = "" THEN <<>> ELSE <<r.envProcess>>
      variable(n) == IF n \in DOMAIN r.envVars THEN <<r.envVars[n]>> ELSE <<>>
  IN  [n \in DOMAIN r.envVars \cup (IF process = <<>> THEN {} ELSE {"fprocess"}) |->
         IF n = "fprocess" THEN process \o variable(n) ELSE variable(n)]

\* A constraint that is not of the form key=value is dropped; the last of a key counts.
createSelector(constraints) ==
  FoldLeft(LAMBDA m, c : IF Len(c) = 2 THEN c[1] :> c[2] @@ m ELSE m,
           EmptyMap, constraints)

Quantities(res) ==
  IF res = Nil THEN EmptyMap
  ELSE [k \in {x \in DOMAIN res : res[x] # Unset} |-> res[k]]

ValidResources(r) ==
  \A res \in {r.limits, r.requests} : Malformed \notin Range(Quantities(res))

createResources(r) == [limits |-> Quantities(r.limits), requests |-> Quantities(r.requests)]

\* The text is cut to an int32 after ValidateDeployRequest has bounded it.
getMinReplicaCount(labels, replicas) ==
  IF "scale.min" \in DOMAIN labels /\ Atoi(labels["scale.min"]) > 0
  THEN Atoi(labels["scale.min"]) ELSE replicas

\* Liveness and readiness ask the same file, or the same path unless the
\* annotation names another one for readiness.
MakeProbes(r) ==
  LET m == Map(r.annotations)
  IN  IF ~HTTPProbe THEN [liveness |-> "/tmp/.lock", readiness |-> "/tmp/.lock"]
      ELSE [liveness |-> "/_/health",
            readiness |-> IF "ready.http.path" \in DOMAIN m THEN m["ready.http.path"] ELSE "/_/health"]

removeVolume(name, volumes) == SelectSeq(volumes, LAMBDA v : v.name # name)
removeVolumeMount(name, mounts) == SelectSeq(mounts, LAMBDA m : m.name # name)

\* Mutant: the volume of an earlier request is not taken out first.
KeepTempVolume(r, d) ==
  [d EXCEPT
     !.readOnly = r.readOnly,
     !.volumes = IF r.readOnly THEN Append(@, [name |-> "temp", sources |-> EmptyBag]) ELSE @,
     !.mounts = removeVolumeMount("temp", @)
                  \o (IF r.readOnly THEN <<[name |-> "temp", path |-> "/tmp"]>> ELSE <<>>)]

ConfigureReadOnlyRootFilesystem(r, d) ==
  [d EXCEPT
     !.readOnly = r.readOnly,
     !.volumes = removeVolume("temp", @)
                   \o (IF r.readOnly THEN <<[name |-> "temp", sources |-> EmptyBag]>> ELSE <<>>),
     !.mounts = removeVolumeMount("temp", @)
                  \o (IF r.readOnly THEN <<[name |-> "temp", path |-> "/tmp"]>> ELSE <<>>)]

ConfigureContainerUserID(d) == [d EXCEPT !.user = IF SetNonRootUser THEN 12000 ELSE Unset]

Filtered(bag, S) == [x \in DOMAIN bag \cap S |-> bag[x]]
IsPull(type) == type \in {"dockercfg", "dockerconfigjson"}

\* existing[n]: the type of Secret n when GetSecrets read it.  Pull secrets are added
\* to the ones there are, all others replace the projected volume.
ConfigureSecrets(r, d, existing) ==
  LET volumeName == "projected-secrets"
      pulls == {n \in BagToSet(r.secrets) : IsPull(existing[n])}
      sources == Filtered(r.secrets, BagToSet(r.secrets) \ pulls)
      some == sources # EmptyBag
  IN  [d EXCEPT
         !.pullSecrets = @ (+) Filtered(r.secrets, pulls),
         !.volumes = removeVolume(volumeName, @)
                       \o (IF some THEN <<[name |-> volumeName, sources |-> sources]>> ELSE <<>>),
         !.mounts = removeVolumeMount(volumeName, @)
                      \o (IF some THEN <<[name |-> volumeName, path |-> "/var/openfaas/secrets"]>>
                          ELSE <<>>)]

ReadFunctionSecretsSpec(d) ==
  LET i == SelectInSeq(d.volumes, LAMBDA v : v.name = "projected-secrets")
  IN  d.pullSecrets (+) (IF i = 0 THEN EmptyBag ELSE d.volumes[i].sources)

---------------------------------------------------------------------------
(* Making and changing a Deployment *)

Valid(r) == ValidAnnotations(r) /\ ValidResources(r)

makeDeploymentSpec(r, existing) ==
  LET d == [image |-> r.image,
            replicas |-> getMinReplicaCount(Map(r.labels), 1),
            labels |-> Map(r.labels) @@ "faas_function" :> r.service,
            annotations |-> buildAnnotations(r),
            env |-> buildEnvVars(r), nodeSelector |-> createSelector(r.constraints),
            resources |-> createResources(r), probes |-> MakeProbes(r),
            readOnly |-> r.readOnly, user |-> Unset,
            volumes |-> <<>>, mounts |-> <<>>, pullSecrets |-> EmptyBag]
  IN  ConfigureSecrets(r, ConfigureContainerUserID(ConfigureReadOnlyRootFilesystem(r, d)), existing)

\* Mutant: the Service gets the annotations of the request only.
ServiceFromRequest(r) == Map(r.annotations)

makeServiceSpec(r) == buildAnnotations(r)

\* updateDeploymentSpec on the copy d of the Deployment.
Updated(r, d, existing, uid) ==
  LET e == [d EXCEPT !.image = r.image, !.env = buildEnvVars(r),
              !.nodeSelector = createSelector(r.constraints),
              !.labels = Map(r.labels) @@ "faas_function" :> r.service @@ "uid" :> uid,
              !.replicas = getMinReplicaCount(Map(r.labels), @),
              !.annotations = buildAnnotations(r), !.resources = createResources(r),
              !.probes = MakeProbes(r)]
  IN  ConfigureSecrets(r, ConfigureContainerUserID(ConfigureReadOnlyRootFilesystem(r, e)), existing)

\* What the API server refuses: labels the selector does not match, volumes
\* that have one name, mounts without a volume or at one place, a request above
\* its limit, a Secret that is projected twice.
Admissible(d) ==
  LET names(seq) == {seq[i].name : i \in DOMAIN seq}
      res == d.resources
  IN  /\ d.labels["faas_function"] = Name
      /\ Cardinality(names(d.volumes)) = Len(d.volumes)
      /\ names(d.mounts) \subseteq names(d.volumes)
      /\ Cardinality({m.path : m \in Range(d.mounts)}) = Len(d.mounts)
      /\ \A k \in DOMAIN res.limits \cap DOMAIN res.requests : res.requests[k] <= res.limits[k]
      /\ \A v \in Range(d.volumes) : \A n \in BagToSet(v.sources) : v.sources[n] = 1

---------------------------------------------------------------------------
(* Reading a Deployment *)

\* Mutant: the quantities are given even when there are none.
SummaryAlways(q) ==
  LET amount(k) == IF k \in DOMAIN q THEN q[k] ELSE 0
  IN  [memory |-> amount("memory"), cpu |-> amount("cpu")]

\* The quantities of a status are both there, "0" if unset, or neither.
Summary(q) ==
  LET amount(k) == IF k \in DOMAIN q THEN q[k] ELSE 0
  IN  IF amount("memory") = 0 /\ amount("cpu") = 0 THEN Nil
      ELSE [memory |-> amount("memory"), cpu |-> amount("cpu")]

AsFunctionStatus(d) ==
  LET envVars == [n \in DOMAIN d.env |-> Last(d.env[n])]
  IN  [image |-> d.image, labels |-> d.labels, annotations |-> d.annotations,
       secrets |-> ReadFunctionSecretsSpec(d), envVars |-> envVars,
       envProcess |-> IF "fprocess" \in DOMAIN envVars THEN envVars["fprocess"] ELSE "",
       limits |-> Summary(d.resources.limits), requests |-> Summary(d.resources.requests)]

\* Mutant: the Secrets are forgotten.
RequestWithoutSecrets(st) ==
  [service |-> Name, namespace |-> Namespace, image |-> st.image, envProcess |-> st.envProcess,
   envVars |-> st.envVars, constraints |-> <<>>, secrets |-> EmptyBag, labels |-> st.labels,
   annotations |-> st.annotations, limits |-> st.limits, requests |-> st.requests, readOnly |-> FALSE]

\* The request deployFunctionByP2PID makes of a status.  AsFunctionStatus sets
\* neither the constraints nor the read-only root filesystem.
RequestOf(st) ==
  [service |-> Name, namespace |-> Namespace, image |-> st.image, envProcess |-> st.envProcess,
   envVars |-> st.envVars, constraints |-> <<>>, secrets |-> st.secrets, labels |-> st.labels,
   annotations |-> st.annotations, limits |-> st.limits, requests |-> st.requests,
   readOnly |-> FALSE]
=============================================================================
