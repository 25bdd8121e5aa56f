--------------------------- MODULE CatalogProofs ---------------------------
(***************************************************************************)
(* Every operation on a catalog keeps the promises stated in Catalog, for  *)
(* any number of providers, functions and replicas.                        *)
(***************************************************************************)
EXTENDS Catalog, FiniteSetTheorems, TLAPS

(***************************************************************************)
(* The invariant of the catalog c of provider p.  The four promises are    *)
(* inductive together with the type.                                       *)
(***************************************************************************)
CatalogInv(c, p) ==
  /\ c \in CatalogType
  /\ p \in c.nodes
  /\ ExecutionTimeKnown(c)
  /\ OwnFunctionsCatalogued(c, p)
  /\ RunningIsCatalogued(c)
  /\ ReplicasCounted(c)

---------------------------------------------------------------------------
(* Counting *)

\* The instances of a function are finitely many, so Replicas is a number.
LEMMA ReplicasType ==
  ASSUME NEW c \in CatalogType, NEW f \in Function
  PROVE  /\ IsFiniteSet(Instances(c, f))
         /\ Replicas(c, f) \in Nat
<1>1. IsFiniteSet(c.nodes)
  <2>1. c.nodes \subseteq Provider
    BY DEF CatalogType
  <2> QED BY <2>1, FS_Subset, CatalogAssumption
<1>2. IsFiniteSet(1 .. MaxCount)
  BY FS_Interval, CatalogAssumption
<1>3. IsFiniteSet(c.nodes \X (1 .. MaxCount))
  BY <1>1, <1>2, FS_Product, Zenon
<1>4. IsFiniteSet(Instances(c, f))
  <2>1. Instances(c, f) \subseteq c.nodes \X (1 .. MaxCount)
    BY DEF Instances
  <2> QED BY <1>3, <2>1, FS_Subset
<1> QED BY <1>4, FS_CardinalityType DEF Replicas

\* When Replicas is 0 no known node runs the function.
LEMMA ReplicasZero ==
  ASSUME NEW c \in CatalogType, NEW f \in Function, Replicas(c, f) = 0
  PROVE  \A q \in c.nodes : ~(c.available[q][f] > 0)
<1>1. Instances(c, f) = {}
  BY ReplicasType, FS_EmptySet DEF Replicas
<1> SUFFICES ASSUME NEW q \in c.nodes, c.available[q][f] > 0
             PROVE  FALSE
  OBVIOUS
<1>2. c.available[q][f] \in Count /\ c.available[q][f] >= 1
  BY DEF CatalogType, Count, Absent
<1>3. <<q, 1>> \in c.nodes \X (1 .. MaxCount)
  BY CatalogAssumption
<1>4. <<q, 1>> \in Instances(c, f)
  BY <1>2, <1>3 DEF Instances
<1> QED BY <1>1, <1>4

\* Replicas depends on what the known nodes say about the function only.
LEMMA SameInstances ==
  ASSUME NEW c, NEW d, NEW f,
         c.nodes = d.nodes,
         \A q \in c.nodes : c.available[q][f] = d.available[q][f]
  PROVE  Replicas(c, f) = Replicas(d, f)
<1>1. Instances(c, f) = Instances(d, f)
  BY DEF Instances
<1> QED BY <1>1 DEF Replicas
---------------------------------------------------------------------------
(* Recounting *)

\* Counting fs anew restores the promises at fs: it is enough that they hold
\* at the other functions.
LEMMA RecountInv ==
  ASSUME NEW p \in Provider, NEW c \in CatalogType, p \in c.nodes,
         NEW fs \in SUBSET Function,
         ExecutionTimeKnown(c),
         \A g \in Function \ fs :
           /\ c.available[p][g] # Absent => c.functionCatalog[g] # Absent
           /\ \A q \in c.nodes :
                c.available[q][g] > 0 => c.functionCatalog[g] # Absent
           /\ g \in c.counted => c.functionCatalog[g] \in {Absent, Replicas(c, g)}
  PROVE  CatalogInv(Recount(c, fs), p)
<1> DEFINE d == Recount(c, fs)
<1>1. /\ d.nodes = c.nodes
      /\ d.available = c.available
      /\ d.execTime = c.execTime
      /\ d.overload = c.overload
      /\ d.functionCatalog = [f \in Function |-> IF f \in fs THEN Replicas(c, f)
                                                 ELSE c.functionCatalog[f]]
      /\ d.counted = c.counted \cup fs
  BY DEF Recount, CatalogType
<1>2. \A f \in Function : Replicas(c, f) \in Nat /\ Replicas(d, f) = Replicas(c, f)
  BY <1>1, ReplicasType, SameInstances
<1>3. d \in CatalogType
  BY <1>2, Zenon DEF Recount, CatalogType
<1>4. ExecutionTimeKnown(d)
  BY <1>1 DEF ExecutionTimeKnown
<1>5. \A f \in fs : d.functionCatalog[f] # Absent /\ d.functionCatalog[f] = Replicas(d, f)
  BY <1>1, <1>2 DEF Absent
<1>6. \A g \in Function \ fs : d.functionCatalog[g] = c.functionCatalog[g]
  BY <1>1
<1>7. OwnFunctionsCatalogued(d, p)
  BY <1>1, <1>5, <1>6 DEF OwnFunctionsCatalogued
<1>8. RunningIsCatalogued(d)
  BY <1>1, <1>5, <1>6 DEF RunningIsCatalogued
<1>9. ReplicasCounted(d)
  <2> SUFFICES ASSUME NEW f \in d.counted
               PROVE  d.functionCatalog[f] \in {Absent, Replicas(d, f)}
    BY DEF ReplicasCounted
  <2>1. CASE f \in fs
    BY <2>1, <1>5
  <2>2. CASE f \notin fs
    <3>1. f \in c.counted /\ f \in Function \ fs
      BY <1>1, <2>2 DEF CatalogType
    <3> QED BY <3>1, <1>2, <1>6
  <2> QED BY <2>1, <2>2
<1> QED BY <1>1, <1>3, <1>4, <1>7, <1>8, <1>9 DEF CatalogInv

---------------------------------------------------------------------------
(* The operations of the provider on its own node *)

\* An operation that touches one function and counts it anew.
LEMMA OneFunctionInv ==
  ASSUME NEW p \in Provider, NEW c, CatalogInv(c, p), NEW f \in Function,
         NEW d \in CatalogType,
         d.nodes = c.nodes, d.counted = c.counted,
         ExecutionTimeKnown(d),
         \A g \in Function \ {f} :
           /\ d.functionCatalog[g] = c.functionCatalog[g]
           /\ \A q \in Provider : d.available[q][g] = c.available[q][g]
  PROVE  CatalogInv(updatetReplicasWithFunctionName(d, f), p)
<1>1. p \in d.nodes /\ d.nodes \subseteq Provider /\ d.counted \subseteq Function
  BY DEF CatalogInv, CatalogType
<1>2. \A g \in Function \ {f} : Replicas(d, g) = Replicas(c, g)
  BY <1>1, SameInstances
<1>3. \A g \in Function \ {f} :
        /\ d.available[p][g] # Absent => d.functionCatalog[g] # Absent
        /\ \A q \in d.nodes :
             d.available[q][g] > 0 => d.functionCatalog[g] # Absent
        /\ g \in d.counted => d.functionCatalog[g] \in {Absent, Replicas(d, g)}
  BY <1>1, <1>2
     DEF CatalogInv, OwnFunctionsCatalogued, RunningIsCatalogued, ReplicasCounted
<1> QED BY <1>1, <1>3, RecountInv DEF updatetReplicasWithFunctionName

\* AddAvailableFunctions keeps the invariant.
LEMMA AddInv ==
  ASSUME NEW p \in Provider, NEW c, CatalogInv(c, p),
         NEW f \in Function, NEW n \in Count
  PROVE  CatalogInv(AddAvailableFunctions(c, p, f, n), p)
<1> DEFINE d == AddIfMissing(addAvailableFunctions(c, p, f, n), {f})
<1>1. c \in CatalogType /\ ExecutionTimeKnown(c)
  BY DEF CatalogInv
<1>2. /\ d \in CatalogType
      /\ d.nodes = c.nodes /\ d.counted = c.counted
      /\ d.available = [c.available EXCEPT ![p][f] = n]
      /\ d.execTime = [c.execTime EXCEPT ![p] = @ \cup {f}]
      /\ \A g \in Function \ {f} : d.functionCatalog[g] = c.functionCatalog[g]
  BY <1>1, Zenon DEF AddIfMissing, addAvailableFunctions, CatalogType
<1> HIDE DEF d
<1>3. ExecutionTimeKnown(d)
  BY <1>1, <1>2 DEF ExecutionTimeKnown, CatalogType
<1>4. \A g \in Function \ {f}, q \in Provider :
        d.available[q][g] = c.available[q][g]
  BY <1>1, <1>2 DEF CatalogType
<1>5. CatalogInv(updatetReplicasWithFunctionName(d, f), p)
  BY <1>2, <1>3, <1>4, OneFunctionInv, Zenon
<1> QED BY <1>5 DEF AddAvailableFunctions, d

\* UpdateAvailableFunctions keeps the invariant at a function the provider has
\* replicas of, the only ones UpdateFunc calls it for.
LEMMA UpdateInv ==
  ASSUME NEW p \in Provider, NEW c, CatalogInv(c, p),
         NEW f \in Function, NEW n \in Count, c.available[p][f] > 0
  PROVE  CatalogInv(UpdateAvailableFunctions(c, p, f, n), p)
<1> DEFINE d == updateAvailableFunctions(c, p, f, n)
<1>1. c \in CatalogType /\ ExecutionTimeKnown(c)
  BY DEF CatalogInv
<1>2. /\ d \in CatalogType
      /\ d.nodes = c.nodes /\ d.counted = c.counted
      /\ d.available = [c.available EXCEPT ![p][f] = n]
      /\ d.execTime = c.execTime /\ d.functionCatalog = c.functionCatalog
  BY <1>1, Zenon DEF updateAvailableFunctions, CatalogType
<1> HIDE DEF d
<1>3. ExecutionTimeKnown(d)
  BY <1>1, <1>2 DEF ExecutionTimeKnown, CatalogType
<1>4. \A g \in Function \ {f}, q \in Provider :
        d.available[q][g] = c.available[q][g]
  BY <1>1, <1>2 DEF CatalogType
<1>5. CatalogInv(updatetReplicasWithFunctionName(d, f), p)
  BY <1>2, <1>3, <1>4, OneFunctionInv, Zenon
<1> QED BY <1>5 DEF UpdateAvailableFunctions, d

\* Removing a function of the provider's own node, whether or not the rest of
\* the operation is reached.
LEMMA LocalDelete ==
  ASSUME NEW p \in Provider, NEW c, CatalogInv(c, p), NEW f \in Function
  PROVE  LET d == deleteAvailableFunctions(c, p, f) IN
         /\ d \in CatalogType /\ d.nodes = c.nodes /\ d.counted = c.counted
         /\ d.functionCatalog = c.functionCatalog
         /\ d.available = [c.available EXCEPT ![p][f] = Absent]
         /\ ExecutionTimeKnown(d)
         /\ \A g \in Function \ {f}, q \in Provider :
              d.available[q][g] = c.available[q][g]
<1> DEFINE d == deleteAvailableFunctions(c, p, f)
<1>1. c \in CatalogType /\ ExecutionTimeKnown(c)
  BY DEF CatalogInv
<1>2. /\ d \in CatalogType
      /\ d.nodes = c.nodes /\ d.counted = c.counted
      /\ d.available = [c.available EXCEPT ![p][f] = Absent]
      /\ d.execTime = c.execTime /\ d.functionCatalog = c.functionCatalog
  BY <1>1, Zenon DEF deleteAvailableFunctions, CatalogType
<1> HIDE DEF d
<1>3. ExecutionTimeKnown(d)
  BY <1>1, <1>2 DEF ExecutionTimeKnown, CatalogType, Absent
<1>4. \A g \in Function \ {f}, q \in Provider :
        d.available[q][g] = c.available[q][g]
  BY <1>1, <1>2 DEF CatalogType
<1> QED BY <1>2, <1>3, <1>4 DEF d

\* DeleteAvailableFunctions keeps the invariant: the function leaves
\* FunctionCatalog only when its last replica is gone.
LEMMA DeleteInv ==
  ASSUME NEW p \in Provider, NEW c, CatalogInv(c, p), NEW f \in Function
  PROVE  CatalogInv(DeleteAvailableFunctions(c, p, f), p)
<1> DEFINE a == deleteAvailableFunctions(c, p, f)
           d == updatetReplicasWithFunctionName(a, f)
           e == [d EXCEPT !.functionCatalog[f] = Absent]
<1> HIDE DEF a
<1>0. /\ a \in CatalogType /\ a.nodes = c.nodes /\ a.counted = c.counted
      /\ a.functionCatalog = c.functionCatalog
      /\ a.available = [c.available EXCEPT ![p][f] = Absent]
      /\ ExecutionTimeKnown(a)
      /\ \A g \in Function \ {f}, q \in Provider :
           a.available[q][g] = c.available[q][g]
  BY LocalDelete DEF a
<1>1. CatalogInv(d, p)
  BY <1>0, OneFunctionInv, Zenon
<1>2. c.available \in [Provider -> [Function -> Count \cup {Absent}]]
  BY DEF CatalogInv, CatalogType
<1>3. d.available[p][f] = Absent
  BY <1>0, <1>2 DEF updatetReplicasWithFunctionName, Recount, CatalogType
<1>4. d.functionCatalog[f] = Replicas(a, f) /\ d.available = a.available /\ d.nodes = a.nodes
  BY <1>0 DEF updatetReplicasWithFunctionName, Recount, CatalogType
<1> HIDE DEF d
<1>5. ASSUME d.functionCatalog[f] = 0
      PROVE  CatalogInv(e, p)
  <2>1. \A q \in d.nodes : ~(d.available[q][f] > 0)
    BY <1>0, <1>4, <1>5, ReplicasZero, Zenon
  <2>2. d \in CatalogType
    BY <1>1 DEF CatalogInv
  <2>3. /\ e \in CatalogType /\ e.nodes = d.nodes /\ e.available = d.available
        /\ e.execTime = d.execTime /\ e.counted = d.counted
        /\ e.functionCatalog = [d.functionCatalog EXCEPT ![f] = Absent]
    BY <2>2, Zenon DEF CatalogType
  <2> HIDE DEF e
  <2>4. \A g \in Function : Replicas(e, g) = Replicas(d, g)
    BY <2>3, SameInstances
  <2>5. ExecutionTimeKnown(e) /\ p \in e.nodes
    BY <1>1, <2>3 DEF CatalogInv, ExecutionTimeKnown
  <2>6. OwnFunctionsCatalogued(e, p)
    BY <1>1, <1>3, <2>2, <2>3 DEF CatalogInv, OwnFunctionsCatalogued, CatalogType
  <2>7. RunningIsCatalogued(e)
    BY <1>1, <2>1, <2>2, <2>3 DEF CatalogInv, RunningIsCatalogued, CatalogType
  <2>8. ReplicasCounted(e)
    BY <1>1, <2>2, <2>3, <2>4 DEF CatalogInv, ReplicasCounted, CatalogType
  <2> QED BY <2>3, <2>5, <2>6, <2>7, <2>8 DEF CatalogInv
<1> QED BY <1>1, <1>5 DEF DeleteAvailableFunctions, a, d

---------------------------------------------------------------------------
(* The entries of other providers *)

\* A new, empty node changes no promise.
LEMMA NewNodeInv ==
  ASSUME NEW p \in Provider, NEW q \in Provider, NEW c, CatalogInv(c, p)
  PROVE  /\ CatalogInv(NewNodeCatalogEntry(c, q), p)
         /\ q \in NewNodeCatalogEntry(c, q).nodes
<1>1. CASE q \in c.nodes
  BY <1>1 DEF NewNodeCatalogEntry
<1>2. CASE q \notin c.nodes
  <2> DEFINE d == NewNodeCatalogEntry(c, q)
  <2>1. c \in CatalogType /\ p # q /\ p \in c.nodes
    BY <1>2 DEF CatalogInv
  <2>2. /\ d \in CatalogType
        /\ d.nodes = c.nodes \cup {q}
        /\ d.available = [c.available EXCEPT ![q] = NoEntries]
        /\ d.execTime = [c.execTime EXCEPT ![q] = {}]
        /\ d.functionCatalog = c.functionCatalog /\ d.counted = c.counted
    BY <1>2, <2>1, Zenon DEF NewNodeCatalogEntry, CatalogType, NoEntries
  <2> HIDE DEF d
  <2>3. \A g \in Function : d.available[q][g] = -1
    BY <2>1, <2>2 DEF NoEntries, Absent, CatalogType
  <2>4. \A r \in Provider \ {q} : d.available[r] = c.available[r] /\ d.execTime[r] = c.execTime[r]
    BY <2>1, <2>2 DEF CatalogType
  <2>5. ASSUME NEW g \in Function PROVE Replicas(d, g) = Replicas(c, g)
    <3>1. \A i \in 1 .. MaxCount : ~(i <= -1)
      BY CatalogAssumption
    <3>2. Instances(d, g) \subseteq Instances(c, g)
      BY <2>1, <2>2, <2>3, <2>4, <3>1 DEF Instances, CatalogType
    <3>3. Instances(c, g) \subseteq Instances(d, g)
      BY <1>2, <2>1, <2>2, <2>4 DEF Instances, CatalogType
    <3>4. Instances(d, g) = Instances(c, g)
      BY <3>2, <3>3, Zenon
    <3> QED BY <3>4, Zenon DEF Replicas
  <2>6. ExecutionTimeKnown(d)
    BY <2>1, <2>3, <2>4 DEF CatalogInv, ExecutionTimeKnown
  <2>7. OwnFunctionsCatalogued(d, p)
    BY <2>1, <2>2, <2>4 DEF CatalogInv, OwnFunctionsCatalogued
  <2>8. RunningIsCatalogued(d)
    <3> SUFFICES ASSUME NEW r \in d.nodes, NEW g \in Function, d.available[r][g] > 0
                 PROVE  d.functionCatalog[g] # Absent
      BY DEF RunningIsCatalogued
    <3>1. r \in c.nodes /\ r \in Provider \ {q}
      BY <2>1, <2>2, <2>3 DEF CatalogType
    <3> QED BY <3>1, <2>2, <2>4 DEF CatalogInv, RunningIsCatalogued
  <2>9. ReplicasCounted(d)
    BY <2>1, <2>2, <2>5 DEF CatalogInv, ReplicasCounted, CatalogType
  <2> QED BY <2>1, <2>2, <2>6, <2>7, <2>8, <2>9 DEF CatalogInv, d
<1> QED BY <1>1, <1>2

\* unpackNodeInfoMsg keeps the invariant of the receiver, for any message about
\* another node it has an entry of.
LEMMA UnpackInv ==
  ASSUME NEW p \in Provider, NEW q \in Provider, p # q,
         NEW c, CatalogInv(c, p), q \in c.nodes, NEW m \in NodeInfoMsg
  PROVE  CatalogInv(unpackNodeInfoMsg(c, m, q), p)
<1> DEFINE a == [c EXCEPT !.overload[q] = m.overload,
                   !.execTime[q] = @ \cup {f \in Function : m.available[f] > 0},
                   !.available[q] = m.available]
           d == AddIfMissing(a, Present(m.available))
           fs == Present(d.functionCatalog)
<1>1. /\ c \in CatalogType /\ ExecutionTimeKnown(c)
      /\ m.available \in [Function -> Count \cup {Absent}] /\ m.overload \in BOOLEAN
  BY DEF CatalogInv, NodeInfoMsg
<1>2. /\ a \in CatalogType /\ a.nodes = c.nodes /\ a.counted = c.counted
      /\ a.functionCatalog = c.functionCatalog
      /\ a.available = [c.available EXCEPT ![q] = m.available]
      /\ a.execTime = [c.execTime EXCEPT
                         ![q] = @ \cup {f \in Function : m.available[f] > 0}]
  BY <1>1, Zenon DEF CatalogType
<1> HIDE DEF a
<1>3. /\ d \in CatalogType /\ d.nodes = c.nodes /\ d.counted = c.counted
      /\ d.available = a.available /\ d.execTime = a.execTime
      /\ d.functionCatalog = [f \in Function |->
           IF f \in Present(m.available) /\ a.functionCatalog[f] = Absent
           THEN 0 ELSE a.functionCatalog[f]]
  BY <1>2, Zenon DEF AddIfMissing, CatalogType
<1> HIDE DEF d
<1>4. ExecutionTimeKnown(d)
  BY <1>1, <1>2, <1>3 DEF ExecutionTimeKnown, CatalogType
<1>5. \A g \in Function \ fs :
        /\ d.functionCatalog[g] = Absent
        /\ c.functionCatalog[g] = Absent
        /\ m.available[g] = Absent
  BY <1>2, <1>3 DEF Present, Absent
<1>6. \A r \in Provider \ {q} : d.available[r] = c.available[r]
  BY <1>1, <1>2, <1>3 DEF CatalogType
<1>7. d.available[q] = m.available
  BY <1>1, <1>2, <1>3 DEF CatalogType
<1>8. \A g \in Function \ fs :
        /\ d.available[p][g] # Absent => d.functionCatalog[g] # Absent
        /\ \A r \in d.nodes : d.available[r][g] > 0 => d.functionCatalog[g] # Absent
        /\ g \in d.counted => d.functionCatalog[g] \in {Absent, Replicas(d, g)}
  <2> SUFFICES ASSUME NEW g \in Function \ fs
               PROVE  /\ ~(d.available[p][g] # Absent)
                      /\ \A r \in d.nodes : ~(d.available[r][g] > 0)
    BY <1>5
  <2>1. ~(d.available[p][g] # Absent)
    BY <1>5, <1>6 DEF CatalogInv, OwnFunctionsCatalogued
  <2>2. ASSUME NEW r \in d.nodes PROVE ~(d.available[r][g] > 0)
    <3>1. CASE r = q
      BY <3>1, <1>5, <1>7 DEF Absent
    <3>2. CASE r # q
      BY <3>2, <1>1, <1>3, <1>5, <1>6 DEF CatalogInv, RunningIsCatalogued, CatalogType
    <3> QED BY <3>1, <3>2
  <2> QED BY <2>1, <2>2
<1>9. CatalogInv(Recount(d, fs), p)
  <2>1. p \in d.nodes /\ fs \in SUBSET Function
    BY <1>3 DEF CatalogInv, Present
  <2> QED BY <1>3, <1>4, <1>8, <2>1, RecountInv
<1> QED BY <1>9 DEF unpackNodeInfoMsg, updatetReplicas, a, d

---------------------------------------------------------------------------
(* Start-up, and the delete handler that panics *)

\* The catalog initSelfCatagory builds has the invariant, although its
\* Replicas are not the counted ones yet.
LEMMA InitSelfInv ==
  ASSUME NEW p \in Provider,
         NEW listed \in [Function -> Count \cup {Absent}],
         NEW asked \in [Function -> Count]
  PROVE  CatalogInv(initSelfCatagory(p, listed, asked), p)
<1> DEFINE c == initSelfCatagory(p, listed, asked)
<1>1. /\ c.nodes = {p} /\ c.counted = {}
      /\ c.available = [q \in Provider |-> IF q = p THEN listed ELSE NoEntries]
      /\ c.execTime = [q \in Provider |-> IF q = p THEN Present(listed) ELSE {}]
      /\ c.functionCatalog = [f \in Function |->
           IF listed[f] = Absent THEN Absent ELSE asked[f]]
  BY DEF initSelfCatagory
<1>2. c \in CatalogType
  BY CatalogAssumption DEF initSelfCatagory, CatalogType, NoEntries, Present, Count, Absent
<1> HIDE DEF c
<1>3. ExecutionTimeKnown(c)
  BY <1>1 DEF ExecutionTimeKnown, Present, NoEntries, Absent
<1>4. OwnFunctionsCatalogued(c, p) /\ RunningIsCatalogued(c)
  BY <1>1 DEF OwnFunctionsCatalogued, RunningIsCatalogued, Absent, Count
<1>5. ReplicasCounted(c) /\ p \in c.nodes
  BY <1>1 DEF ReplicasCounted
<1> QED BY <1>2, <1>3, <1>4, <1>5 DEF CatalogInv, c

\* A DeleteAvailableFunctions that panics at a function outside FunctionCatalog
\* has removed nothing by then.
LEMMA DeletePanicInv ==
  ASSUME NEW p \in Provider, NEW c, CatalogInv(c, p), NEW f \in Function,
         c.functionCatalog[f] = Absent
  PROVE  deleteAvailableFunctions(c, p, f) = c
<1>1. c \in CatalogType /\ c.available[p][f] = Absent
  BY DEF CatalogInv, OwnFunctionsCatalogued
<1>2. [c.available EXCEPT ![p][f] = Absent] = c.available
  BY <1>1 DEF CatalogType
<1> QED BY <1>1, <1>2 DEF deleteAvailableFunctions, CatalogType

---------------------------------------------------------------------------
(* What an operation leaves alone: what others are told is what              *)
(* packNodeInfoMsg makes of an entry                                         *)

\* From c to d no entry but the one of q says anything new.
OnlyEntry(c, d, q) ==
  \A r \in Provider \ {q} : packNodeInfoMsg(d, r) = packNodeInfoMsg(c, r)

OwnOnly(c, d, p) == d.nodes = c.nodes /\ OnlyEntry(c, d, p)

\* Computing the sums changes no entry.
LEMMA RecountEntries ==
  ASSUME NEW c \in CatalogType, NEW fs
  PROVE  /\ Recount(c, fs).nodes = c.nodes
         /\ Recount(c, fs).available = c.available /\ Recount(c, fs).overload = c.overload
BY DEF Recount, CatalogType

\* Nor does entering the missing functions of FunctionCatalog.
LEMMA AddIfMissingEntries ==
  ASSUME NEW c \in CatalogType, NEW fs
  PROVE  LET d == AddIfMissing(c, fs) IN
         d \in CatalogType /\ d.nodes = c.nodes /\ d.available = c.available /\ d.overload = c.overload
<1> DEFINE k == [f \in Function |-> IF f \in fs /\ c.functionCatalog[f] = Absent
                                    THEN 0 ELSE c.functionCatalog[f]]
<1>1. k \in [Function -> Nat \cup {Absent}]
  BY DEF CatalogType
<1>2. AddIfMissing(c, fs) = [c EXCEPT !.functionCatalog = k]
  BY Zenon DEF AddIfMissing
<1> HIDE DEF k
<1> QED BY <1>1, <1>2, Zenon DEF CatalogType

\* Entries that differ at q only.
LEMMA OnlyEntryIs ==
  ASSUME NEW c \in CatalogType, NEW d, NEW q \in Provider, NEW e, NEW o,
         d.available = [c.available EXCEPT ![q] = e], d.overload = [c.overload EXCEPT ![q] = o]
  PROVE  OnlyEntry(c, d, q)
<1>1. c.available \in [Provider -> [Function -> Count \cup {Absent}]] /\ c.overload \in [Provider -> BOOLEAN]
  BY DEF CatalogType
<1>2. \A r \in Provider \ {q} : d.available[r] = c.available[r] /\ d.overload[r] = c.overload[r]
  BY <1>1, Zenon
<1> QED BY <1>2, Zenon DEF OnlyEntry, packNodeInfoMsg

\* A handler changes the entry of its own provider only.
LEMMA OwnEntry ==
  ASSUME NEW p \in Provider, NEW c, CatalogInv(c, p)
  PROVE  /\ \A f \in Function, n \in Count : OwnOnly(c, AddAvailableFunctions(c, p, f, n), p)
         /\ \A f \in Function, n \in Count : OwnOnly(c, UpdateAvailableFunctions(c, p, f, n), p)
         /\ \A f \in Function : OwnOnly(c, DeleteAvailableFunctions(c, p, f), p)
         /\ OwnOnly(c, [c EXCEPT !.overload[p] = ~ @], p)
<1>1. c \in CatalogType /\ c.available \in [Provider -> [Function -> Count \cup {Absent}]]
      /\ c.overload \in [Provider -> BOOLEAN]
  BY DEF CatalogInv, CatalogType
<1>2. [c.overload EXCEPT ![p] = c.overload[p]] = c.overload
  BY <1>1
<1>3. \A f \in Function : \A x :
        [c.available EXCEPT ![p][f] = x] = [c.available EXCEPT ![p] = [c.available[p] EXCEPT ![f] = x]]
  BY <1>1
<1>4. ASSUME NEW f \in Function, NEW n \in Count
      PROVE  OwnOnly(c, AddAvailableFunctions(c, p, f, n), p)
  <2> DEFINE a == addAvailableFunctions(c, p, f, n)
             b == AddIfMissing(a, {f})
             d == AddAvailableFunctions(c, p, f, n)
  <2>1. /\ a \in CatalogType /\ a.nodes = c.nodes /\ a.overload = c.overload
        /\ a.available = [c.available EXCEPT ![p][f] = n]
    BY <1>1, Zenon DEF addAvailableFunctions, CatalogType
  <2> HIDE DEF a
  <2>2. b \in CatalogType /\ b.nodes = a.nodes /\ b.overload = a.overload /\ b.available = a.available
    BY <2>1, AddIfMissingEntries, Zenon
  <2>3. d = Recount(b, {f})
    BY Zenon DEF AddAvailableFunctions, updatetReplicasWithFunctionName, a
  <2> HIDE DEF b, d
  <2>4. d.nodes = c.nodes /\ d.overload = c.overload /\ d.available = [c.available EXCEPT ![p][f] = n]
    BY <2>1, <2>2, <2>3, RecountEntries, Zenon
  <2>5. OnlyEntry(c, d, p)
    BY <1>1, <1>2, <1>3, <2>4, OnlyEntryIs, Zenon
  <2> QED BY <2>4, <2>5, Zenon DEF OwnOnly, d
<1>5. ASSUME NEW f \in Function, NEW n \in Count
      PROVE  OwnOnly(c, UpdateAvailableFunctions(c, p, f, n), p)
  <2> DEFINE a == updateAvailableFunctions(c, p, f, n)
             d == UpdateAvailableFunctions(c, p, f, n)
  <2>1. /\ a \in CatalogType /\ a.nodes = c.nodes /\ a.overload = c.overload
        /\ a.available = [c.available EXCEPT ![p][f] = n]
    BY <1>1, Zenon DEF updateAvailableFunctions, CatalogType
  <2>2. d = Recount(a, {f})
    BY Zenon DEF UpdateAvailableFunctions, updatetReplicasWithFunctionName
  <2> HIDE DEF a, d
  <2>3. d.nodes = c.nodes /\ d.overload = c.overload /\ d.available = [c.available EXCEPT ![p][f] = n]
    BY <2>1, <2>2, RecountEntries, Zenon
  <2>4. OnlyEntry(c, d, p)
    BY <1>1, <1>2, <1>3, <2>3, OnlyEntryIs, Zenon
  <2> QED BY <2>3, <2>4, Zenon DEF OwnOnly, d
<1>6. ASSUME NEW f \in Function
      PROVE  OwnOnly(c, DeleteAvailableFunctions(c, p, f), p)
  <2> DEFINE a == deleteAvailableFunctions(c, p, f)
             b == updatetReplicasWithFunctionName(a, f)
             d == DeleteAvailableFunctions(c, p, f)
  <2>1. /\ a \in CatalogType /\ a.nodes = c.nodes /\ a.overload = c.overload
        /\ a.available = [c.available EXCEPT ![p][f] = Absent]
    BY <1>1, Zenon DEF deleteAvailableFunctions, CatalogType
  <2> HIDE DEF a
  <2>2. b.nodes = c.nodes /\ b.overload = c.overload /\ b.available = [c.available EXCEPT ![p][f] = Absent]
    BY <2>1, RecountEntries, Zenon DEF updatetReplicasWithFunctionName
  <2>3. b \in [nodes : {b.nodes}, available : {b.available}, execTime : {b.execTime},
               overload : {b.overload}, functionCatalog : {b.functionCatalog}, counted : {b.counted}]
    BY <2>1, Zenon DEF updatetReplicasWithFunctionName, Recount, CatalogType
  <2>4. d = b \/ d = [b EXCEPT !.functionCatalog[f] = Absent]
    BY Zenon DEF DeleteAvailableFunctions, a
  <2> HIDE DEF b, d
  <2>5. d.nodes = c.nodes /\ d.overload = c.overload /\ d.available = [c.available EXCEPT ![p][f] = Absent]
    BY <2>2, <2>3, <2>4
  <2>6. OnlyEntry(c, d, p)
    BY <1>1, <1>2, <1>3, <2>5, OnlyEntryIs, Zenon
  <2> QED BY <2>5, <2>6, Zenon DEF OwnOnly, d
<1>7. OwnOnly(c, [c EXCEPT !.overload[p] = ~ @], p)
  <2> DEFINE d == [c EXCEPT !.overload[p] = ~ @]
  <2>1. /\ d.nodes = c.nodes /\ d.available = c.available
        /\ d.overload = [c.overload EXCEPT ![p] = ~ c.overload[p]]
    BY <1>1 DEF CatalogType
  <2>2. [c.available EXCEPT ![p] = c.available[p]] = c.available
    BY <1>1
  <2> HIDE DEF d
  <2>3. OnlyEntry(c, d, p)
    BY <1>1, <2>1, <2>2, OnlyEntryIs, Zenon
  <2> QED BY <2>1, <2>3, Zenon DEF OwnOnly, d
<1> QED BY <1>4, <1>5, <1>6, <1>7, Zenon

\* NewNodeCatalogEntry leaves an entry that is there as it is.
LEMMA NewEntry ==
  ASSUME NEW q \in Provider, NEW c \in CatalogType
  PROVE  LET d == NewNodeCatalogEntry(c, q) IN
         /\ d \in CatalogType /\ d.nodes = c.nodes \cup {q} /\ OnlyEntry(c, d, q)
         /\ q \in c.nodes => d = c
<1> DEFINE d == NewNodeCatalogEntry(c, q)
<1>1. CASE q \in c.nodes
  BY <1>1, Zenon DEF NewNodeCatalogEntry, OnlyEntry
<1>2. CASE q \notin c.nodes
  <2>1. /\ d \in CatalogType /\ d.nodes = c.nodes \cup {q}
        /\ d.available = [c.available EXCEPT ![q] = NoEntries]
        /\ d.overload = [c.overload EXCEPT ![q] = FALSE]
    BY <1>2, Zenon DEF NewNodeCatalogEntry, CatalogType, NoEntries
  <2> HIDE DEF d
  <2>2. OnlyEntry(c, d, q)
    BY <2>1, OnlyEntryIs, Zenon
  <2> QED BY <1>2, <2>1, <2>2 DEF d
<1> QED BY <1>1, <1>2, Zenon

\* unpackNodeInfoMsg replaces the entry of q by what the message says.
LEMMA UnpackedEntry ==
  ASSUME NEW q \in Provider, NEW c \in CatalogType, NEW m \in NodeInfoMsg
  PROVE  LET d == unpackNodeInfoMsg(c, m, q) IN
         d.nodes = c.nodes /\ OnlyEntry(c, d, q) /\ packNodeInfoMsg(d, q) = m
<1> DEFINE a == [c EXCEPT !.overload[q] = m.overload,
                   !.execTime[q] = @ \cup {f \in Function : m.available[f] > 0},
                   !.available[q] = m.available]
           b == AddIfMissing(a, Present(m.available))
           d == unpackNodeInfoMsg(c, m, q)
<1>1. /\ m.available \in [Function -> Count \cup {Absent}] /\ m.overload \in BOOLEAN
      /\ m = [available |-> m.available, overload |-> m.overload]
  BY DEF NodeInfoMsg
<1>2. /\ a \in CatalogType /\ a.nodes = c.nodes
      /\ a.available = [c.available EXCEPT ![q] = m.available]
      /\ a.overload = [c.overload EXCEPT ![q] = m.overload]
  BY <1>1, Zenon DEF CatalogType
<1> HIDE DEF a
<1>3. b \in CatalogType /\ b.nodes = a.nodes /\ b.overload = a.overload /\ b.available = a.available
  BY <1>2, AddIfMissingEntries, Zenon
<1>4. d = Recount(b, Present(b.functionCatalog))
  BY Zenon DEF unpackNodeInfoMsg, updatetReplicas, a
<1> HIDE DEF b, d
<1>5. PICK e, o : e = m.available /\ o = m.overload
  BY Zenon
<1>6. /\ d.nodes = c.nodes /\ d.available = [c.available EXCEPT ![q] = e]
      /\ d.overload = [c.overload EXCEPT ![q] = o]
  BY <1>2, <1>3, <1>4, <1>5, RecountEntries, Zenon
<1>7. /\ OnlyEntry(c, d, q)
      /\ d.available[q] = e /\ d.overload[q] = o
  <2>1. OnlyEntry(c, d, q)
    BY <1>6, OnlyEntryIs, Zenon
  <2>2. d.available[q] = e /\ d.overload[q] = o
    BY <1>6 DEF CatalogType
  <2> QED BY <2>1, <2>2, Zenon
<1>8. packNodeInfoMsg(d, q) = m
  BY <1>1, <1>5, <1>7, Zenon DEF packNodeInfoMsg
<1> QED BY <1>6, <1>7, <1>8, Zenon DEF d
=============================================================================
