------------------------------ MODULE Catalog ------------------------------
(***************************************************************************)
(* The catalog one provider keeps of the whole info network, and the       *)
(* operations on it (pkg/catalog/catalog.go, catalog_local_level.go,       *)
(* catalog_cluster_level.go, info_room.go).                                *)
(*                                                                         *)
(* Every operation is an operator from the catalog before the call to the  *)
(* catalog after it, named like the Go function it stands for.  The        *)
(* provider's own NodeCatalog entry, which the code files under the key    *)
(* "0" (selfCatagoryKey), is the entry of the provider itself here.        *)
(***************************************************************************)
EXTENDS Integers, FiniteSets

CONSTANTS
  Provider,   \* the providers of the info network
  Function,   \* the names of functions
  MaxCount    \* bound on the replicas of one function in one cluster

ASSUME CatalogAssumption == IsFiniteSet(Provider) /\ MaxCount \in Nat \ {0}

(***************************************************************************)
(* A Go map is a total function whose value is Absent at a missing key.    *)
(***************************************************************************)
Absent == -1

Count == 0 .. MaxCount

Present(map) == {f \in Function : map[f] # Absent}

NoEntries == [f \in Function |-> Absent]

(***************************************************************************)
(* nodes            the keys of NodeCatalog                                *)
(* available        NodeCatalog[q].AvailableFunctionsReplicas              *)
(* execTime         the keys of NodeCatalog[q].FunctionExecutionTime       *)
(* overload         NodeCatalog[q].Overload                                *)
(* functionCatalog  FunctionCatalog[f].Replicas                            *)
(* counted          history: the functions whose Replicas was computed by  *)
(*                  updatetReplicas since the process started              *)
(***************************************************************************)
CatalogType ==
  [nodes : SUBSET Provider,
   available : [Provider -> [Function -> Count \cup {Absent}]],
   execTime : [Provider -> SUBSET Function],
   overload : [Provider -> BOOLEAN],
   functionCatalog : [Function -> Nat \cup {Absent}],
   counted : SUBSET Function]

\* What a provider tells the others about itself.
NodeInfoMsg ==
  [available : [Function -> Count \cup {Absent}], overload : BOOLEAN]

(***************************************************************************)
(* The uint64 sum of updatetReplicas over NodeCatalog, written as the      *)
(* number of instances so that the laws of cardinality apply to it.        *)
(***************************************************************************)
Instances(c, f) ==
  {ins \in c.nodes \X (1 .. MaxCount) : ins[2] <= c.available[ins[1]][f]}

Replicas(c, f) == Cardinality(Instances(c, f))

Recount(c, fs) ==
  [c EXCEPT !.functionCatalog =
              [f \in Function |-> IF f \in fs THEN Replicas(c, f)
                                              ELSE c.functionCatalog[f]],
            !.counted = c.counted \cup fs]

updatetReplicas(c) == Recount(c, Present(c.functionCatalog))

updatetReplicasWithFunctionName(c, f) == Recount(c, {f})

(***************************************************************************)
(* Writing FunctionCatalog[f] where the key may be missing.  The Replicas  *)
(* it is created with is overwritten before the operation ends.            *)
(***************************************************************************)
AddIfMissing(c, fs) ==
  [c EXCEPT !.functionCatalog =
     [f \in Function |-> IF f \in fs /\ c.functionCatalog[f] = Absent
                         THEN 0 ELSE c.functionCatalog[f]]]

---------------------------------------------------------------------------
(* catalog_local_level.go: the entry of one node *)

addAvailableFunctions(c, q, f, n) ==
  [c EXCEPT !.execTime[q] = @ \cup {f}, !.available[q][f] = n]

updateAvailableFunctions(c, q, f, n) == [c EXCEPT !.available[q][f] = n]

\* The execution time of the function stays behind.
deleteAvailableFunctions(c, q, f) == [c EXCEPT !.available[q][f] = Absent]

---------------------------------------------------------------------------
(* catalog_cluster_level.go: the operations of provider p on its catalog c *)

AddAvailableFunctions(c, p, f, n) ==
  updatetReplicasWithFunctionName(
    AddIfMissing(addAvailableFunctions(c, p, f, n), {f}), f)

UpdateAvailableFunctions(c, p, f, n) ==
  updatetReplicasWithFunctionName(updateAvailableFunctions(c, p, f, n), f)

\* An explicit delete forgets the function once nobody runs it any more.
DeleteAvailableFunctions(c, p, f) ==
  LET d == updatetReplicasWithFunctionName(deleteAvailableFunctions(c, p, f), f)
  IN  IF d.functionCatalog[f] = 0
      THEN [d EXCEPT !.functionCatalog[f] = Absent]
      ELSE d

---------------------------------------------------------------------------
(* catalog.go, info_room.go: the entries of the other providers *)

\* NewNodeWithIp: an empty node, unless q is there already.
NewNodeCatalogEntry(c, q) ==
  IF q \in c.nodes
  THEN c
  ELSE [c EXCEPT !.nodes = @ \cup {q},
                 !.available[q] = NoEntries,
                 !.execTime[q] = {},
                 !.overload[q] = FALSE]

packNodeInfoMsg(c, p) ==
  [available |-> c.available[p], overload |-> c.overload[p]]

\* Mutant: functions the message no longer names are kept.
unpackNodeInfoMsgMerged(c, m, q) ==
  updatetReplicas(
    AddIfMissing(
      [c EXCEPT !.overload[q] = m.overload,
                !.execTime[q] = @ \cup {f \in Function : m.available[f] > 0},
                !.available[q] = [f \in Function |->
                   IF m.available[f] = Absent THEN @[f] ELSE m.available[f]]],
      Present(m.available)))

\* Mutant: the sums are not computed again.
unpackNodeInfoMsgUncounted(c, m, q) ==
  AddIfMissing(
    [c EXCEPT !.overload[q] = m.overload,
              !.execTime[q] = @ \cup {f \in Function : m.available[f] > 0},
              !.available[q] = m.available],
    Present(m.available))

\* Mutant: no execution time for a function that is new at q.
unpackNodeInfoMsgUntimed(c, m, q) ==
  updatetReplicas(
    AddIfMissing(
      [c EXCEPT !.overload[q] = m.overload, !.available[q] = m.available],
      Present(m.available)))

\* Everything said before about q is replaced, except its execution times.
unpackNodeInfoMsg(c, m, q) ==
  updatetReplicas(
    AddIfMissing(
      [c EXCEPT !.overload[q] = m.overload,
                !.execTime[q] = @ \cup {f \in Function : m.available[f] > 0},
                !.available[q] = m.available],
      Present(m.available)))

\* initSelfCatagory: Replicas is what the Deployment asks for (asked), while
\* the replicas of the node are the ones that are available (listed).
initSelfCatagory(p, listed, asked) ==
  [nodes |-> {p},
   available |-> [q \in Provider |-> IF q = p THEN listed ELSE NoEntries],
   execTime |-> [q \in Provider |-> IF q = p THEN Present(listed) ELSE {}],
   overload |-> [q \in Provider |-> FALSE],
   functionCatalog |->
     [f \in Function |-> IF listed[f] = Absent THEN Absent ELSE asked[f]],
   counted |-> {}]

---------------------------------------------------------------------------
(* What every catalog c of a provider p keeps between two operations *)

\* The scheduler loads the execution time of every node with replicas
\* (trigger.go:121): a node known to run a function has an entry for it.
ExecutionTimeKnown(c) ==
  \A q \in Provider, f \in Function :
    c.available[q][f] > 0 => f \in c.execTime[q]

\* packNodeInfoMsg dereferences FunctionCatalog at every function of the
\* provider's own node (info_room.go:115).
OwnFunctionsCatalogued(c, p) ==
  \A f \in Function :
    c.available[p][f] # Absent => c.functionCatalog[f] # Absent

\* The handlers answer "not found" for a function outside FunctionCatalog: one
\* that runs on a known node is never outside it.
RunningIsCatalogued(c) ==
  \A q \in c.nodes, f \in Function :
    c.available[q][f] > 0 => c.functionCatalog[f] # Absent

\* "replicas means the replicas in the entire p2p network"
\* (catalog_cluster_level.go:108), from the first time it is computed.
ReplicasCounted(c) ==
  \A f \in c.counted :
    c.functionCatalog[f] \in {Absent, Replicas(c, f)}
=============================================================================
