------------------------- MODULE InfoNetworkProofs -------------------------
(***************************************************************************)
(* The safety properties of InfoNetwork, for any number of providers and   *)
(* functions and any bounds.                                               *)
(***************************************************************************)
EXTENDS InfoNetwork, CatalogProofs, SequenceTheorems

(***************************************************************************)
(* The conjuncts of TypeOK in groups, one per tuple of variables, so that  *)
(* an action is asked only about the groups it touches.                    *)
(***************************************************************************)
Catalogs ==
  /\ cat \in [Provider -> CatalogType]
  /\ \A p \in Provider : CatalogInv(cat[p], p)

LocalType ==
  /\ phase \in [Provider -> {"listening", "up"}]
  /\ stuck \in [Provider -> BOOLEAN] /\ unsent \in [Provider -> BOOLEAN]
  /\ blocked \in [Provider -> Nat]

LinkType ==
  /\ links \in SUBSET SUBSET Provider
  /\ fresh \in [Provider -> SUBSET Provider]
  /\ hello \in [Provider -> SUBSET Provider]
  /\ seeking \in [Provider -> SUBSET Provider]
  /\ dialed \in [Provider -> SUBSET Provider]
  /\ rooms \in [Provider -> SUBSET Provider]
  /\ unnoticed \in [Provider -> SUBSET Provider]

WireType ==
  /\ gossip \in [Provider -> [Provider -> Seq(NodeInfoMsg)]]
  /\ streams \in [Provider -> [Provider -> Seq(NodeInfoMsg)]]
  /\ covers \in [Provider -> SUBSET Provider]
  /\ source \in [Provider -> [Provider -> {"none", "stream", "room"}]]

(***************************************************************************)
(* HandlePeerFound stops seeking a peer at the last attempt, so an attempt *)
(* is left whenever it tries again: what keeps tries in its type.          *)
(***************************************************************************)
TriesInv ==
  /\ tries \in [Provider -> [Provider -> 0 .. MaxRetries]]
  /\ \A p, q \in Provider :
       /\ phase[p] = "listening" => tries[p][q] = 0 /\ q \notin seeking[p]
       /\ q \in seeking[p] => tries[p][q] < MaxRetries

CatInv ==
  Catalogs /\ LocalType /\ LinkType /\ WireType /\ TriesInv /\ used \in [Bound -> Nat]

---------------------------------------------------------------------------
(* Helpers *)

\* Taking one message out of a queue leaves a queue of messages.
LEMMA DropType ==
  ASSUME NEW S, NEW s \in Seq(S), NEW i \in 1 .. Len(s)
  PROVE  Drop(s, i) \in Seq(S)
<1>1. SubSeq(s, 1, i - 1) \in Seq(S) /\ SubSeq(s, i + 1, Len(s)) \in Seq(S)
  BY SubSeqProperties
<1> QED BY <1>1, ConcatProperties DEF Drop

\* Within only counts.
LEMMA WithinType ==
  ASSUME used \in [Bound -> Nat], NEW b \in Bound, NEW limit, Within(b, limit)
  PROVE  used' \in [Bound -> Nat]
BY DEF Within

\* A step that replaces the catalog of one provider by another sound one.
LEMMA CatStep ==
  ASSUME Catalogs, NEW p \in Provider, NEW d, CatalogInv(d, p),
         cat' = [cat EXCEPT ![p] = d]
  PROVE  Catalogs'
<1>1. \A r \in Provider : CatalogInv(cat'[r], r)
  BY DEF Catalogs
<1>2. \A r \in Provider : cat'[r] \in CatalogType
  BY <1>1 DEF CatalogInv
<1> QED BY <1>1, <1>2 DEF Catalogs

\* A step keeps the groups whose variables it leaves alone.
LEMMA Stutter ==
  ASSUME CatInv
  PROVE  /\ UNCHANGED cat => Catalogs'
         /\ UNCHANGED <<phase, stuck, blocked, unsent>> => LocalType'
         /\ UNCHANGED <<links, fresh, hello, seeking, dialed, rooms, unnoticed>>
              => LinkType'
         /\ UNCHANGED <<gossip, streams, covers, source>> => WireType'
         /\ UNCHANGED <<phase, tries, seeking>> => TriesInv'
         /\ UNCHANGED used => used' \in [Bound -> Nat]
<1>1. UNCHANGED cat => Catalogs'
  BY DEF CatInv, Catalogs
<1>2. UNCHANGED <<phase, stuck, blocked, unsent>> => LocalType'
  BY DEF CatInv, LocalType
<1>3. UNCHANGED <<links, fresh, hello, seeking, dialed, rooms, unnoticed>> => LinkType'
  BY DEF CatInv, LinkType
<1>4. UNCHANGED <<gossip, streams, covers, source>> => WireType'
  BY DEF CatInv, WireType
<1>5. UNCHANGED <<phase, tries, seeking>> => TriesInv'
  BY DEF CatInv, TriesInv
<1> QED BY <1>1, <1>2, <1>3, <1>4, <1>5 DEF CatInv

\* The facts about one catalog that the actions below start from.
LEMMA CatFacts ==
  ASSUME CatInv, NEW p \in Provider
  PROVE  /\ CatalogInv(cat[p], p) /\ cat[p] \in CatalogType /\ p \in cat[p].nodes
         /\ packNodeInfoMsg(cat[p], p) \in NodeInfoMsg
<1>1. CatalogInv(cat[p], p) /\ cat[p] \in CatalogType /\ p \in cat[p].nodes
  BY DEF CatInv, Catalogs, CatalogInv
<1> QED BY <1>1 DEF packNodeInfoMsg, NodeInfoMsg, CatalogType

\* The conjuncts together are the type invariant.
LEMMA CatInvTypeOK == CatInv => TypeOK
<1> SUFFICES ASSUME CatInv PROVE TypeOK
  OBVIOUS
<1>1. \A p \in Provider : p \in cat[p].nodes
  BY CatFacts
<1> QED BY <1>1 DEF CatInv, Catalogs, LocalType, LinkType, WireType, TriesInv, TypeOK

---------------------------------------------------------------------------
(* Changes of the local cluster *)

\* publishInfo counts a sender or records a lost change.
LEMMA PublishInfoType ==
  ASSUME CatInv, NEW p \in Provider, publishInfo(p)
  PROVE  blocked' \in [Provider -> Nat] /\ unsent' \in [Provider -> BOOLEAN]
<1>1. blocked \in [Provider -> Nat] /\ unsent \in [Provider -> BOOLEAN]
  BY DEF CatInv, LocalType
<1>2. CASE phase[p] = "up"
  BY <1>1, <1>2 DEF publishInfo
<1>3. CASE phase[p] # "up"
  BY <1>1, <1>3, Zenon DEF publishInfo
<1> QED BY <1>2, <1>3

\* A handler that changes its own catalog and publishes.
LEMMA LocalStepCat ==
  ASSUME CatInv, NEW p \in Provider, NEW d, CatalogInv(d, p),
         cat' = [cat EXCEPT ![p] = d],
         publishInfo(p) \/ UNCHANGED <<blocked, unsent>>,
         stuck' \in [Provider -> BOOLEAN],
         UNCHANGED <<phase, linkVars, wireVars>>,
         NEW b \in Bound, NEW limit, Within(b, limit)
  PROVE  CatInv'
<1>1. Catalogs'
  BY CatStep, Zenon DEF CatInv
<1>2. blocked' \in [Provider -> Nat] /\ unsent' \in [Provider -> BOOLEAN]
  <2>1. CASE publishInfo(p)
    BY <2>1, PublishInfoType
  <2>2. CASE UNCHANGED <<blocked, unsent>>
    BY <2>2 DEF CatInv, LocalType
  <2> QED BY <2>1, <2>2
<1>3. phase' \in [Provider -> {"listening", "up"}]
  BY DEF CatInv, LocalType
<1>4. LocalType'
  BY <1>2, <1>3 DEF LocalType
<1>5. used' \in [Bound -> Nat]
  BY WithinType DEF CatInv
<1>6. LinkType' /\ WireType' /\ TriesInv'
  BY Stutter DEF linkVars, wireVars
<1> QED BY <1>1, <1>4, <1>5, <1>6 DEF CatInv

\* The changes of the local cluster keep the types and the catalogs.
LEMMA LocalChangeCat ==
  ASSUME CatInv, NEW p \in Provider,
         \/ \E f \in Function, n \in 1 .. MaxCount : AddFunc(p, f, n)
         \/ \E f \in Function, n \in Count : UpdateFunc(p, f, n)
         \/ \E f \in Function : DeleteFunction(p, f)
         \/ ListenUpdateInfo(p)
  PROVE  CatInv'
<1>0. /\ CatalogInv(cat[p], p) /\ cat[p] \in CatalogType
      /\ stuck \in [Provider -> BOOLEAN] /\ "changes" \in Bound
  BY CatFacts DEF CatInv, LocalType, Bound
<1>1. ASSUME NEW f \in Function, NEW n \in 1 .. MaxCount, AddFunc(p, f, n)
      PROVE  CatInv'
  <2>1. n \in Count
    BY CatalogAssumption DEF Count
  <2>2. CatalogInv(AddAvailableFunctions(cat[p], p, f, n), p)
    BY <1>0, <2>1, AddInv
  <2> QED BY <1>0, <1>1, <2>2, LocalStepCat, Zenon DEF AddFunc
<1>2. ASSUME NEW f \in Function, NEW n \in Count, UpdateFunc(p, f, n)
      PROVE  CatInv'
  <2>1. CatalogInv(UpdateAvailableFunctions(cat[p], p, f, n), p)
    BY <1>0, <1>2, UpdateInv DEF UpdateFunc
  <2>2. stuck' \in [Provider -> BOOLEAN]
    BY <1>0, <1>2 DEF UpdateFunc
  <2> QED BY <1>0, <1>2, <2>1, <2>2, LocalStepCat, Zenon DEF UpdateFunc
<1>3. ASSUME NEW f \in Function, DeleteFunction(p, f)
      PROVE  CatInv'
  <2>1. CASE cat[p].functionCatalog[f] = Absent
    <3>1. deleteAvailableFunctions(cat[p], p, f) = cat[p]
      BY <1>0, <2>1, DeletePanicInv
    <3> QED BY <1>0, <1>3, <2>1, <3>1, LocalStepCat DEF DeleteFunction
  <2>2. CASE cat[p].functionCatalog[f] # Absent
    <3>1. CatalogInv(DeleteAvailableFunctions(cat[p], p, f), p)
      BY <1>0, DeleteInv
    <3> QED BY <1>0, <1>3, <2>2, <3>1, LocalStepCat DEF DeleteFunction
  <2> QED BY <2>1, <2>2
<1>4. CASE ListenUpdateInfo(p)
  <2> DEFINE d == [cat[p] EXCEPT !.overload[p] = ~ @]
  <2>1. CatalogInv(d, p)
    <3>1. /\ d \in CatalogType /\ d.nodes = cat[p].nodes
          /\ d.available = cat[p].available /\ d.execTime = cat[p].execTime
          /\ d.functionCatalog = cat[p].functionCatalog /\ d.counted = cat[p].counted
      BY <1>0, Zenon DEF CatalogType
    <3> HIDE DEF d
    <3>2. \A f \in Function : Replicas(d, f) = Replicas(cat[p], f)
      BY <3>1, SameInstances
    <3>3. d.counted \subseteq Function
      BY <3>1 DEF CatalogType
    <3> QED BY <1>0, <3>1, <3>2, <3>3
            DEF CatalogInv, ExecutionTimeKnown, OwnFunctionsCatalogued,
                RunningIsCatalogued, ReplicasCounted
  <2>2. cat' = [cat EXCEPT ![p] = d]
    BY <1>4 DEF ListenUpdateInfo
  <2> HIDE DEF d
  <2> QED BY <1>0, <1>4, <2>1, <2>2, LocalStepCat, Zenon DEF ListenUpdateInfo
<1> QED BY <1>1, <1>2, <1>3, <1>4
---------------------------------------------------------------------------
(* The end of a process and the start of the next *)

\* A new process starts from a sound catalog and with nothing else.
LEMMA RestartCat ==
  ASSUME CatInv, NEW p \in Provider, Restart(p)
  PROVE  CatInv'
<1>1. Catalogs'
  <2>1. PICK boot \in Boots :
          cat' = [cat EXCEPT ![p] = initSelfCatagory(p, boot.listed, boot.asked)]
    BY Zenon DEF Restart
  <2>2. CatalogInv(initSelfCatagory(p, boot.listed, boot.asked), p)
    BY NetworkAssumption, InitSelfInv DEF BootType
  <2> QED BY <2>1, <2>2, CatStep, Zenon DEF CatInv
<1>2. LocalType'
  <2>1. blocked' \in [Provider -> Nat] /\ phase' \in [Provider -> {"listening", "up"}]
    BY DEF Restart, CatInv, LocalType
  <2>2. stuck' \in [Provider -> BOOLEAN] /\ unsent' \in [Provider -> BOOLEAN]
    BY DEF Restart, CatInv, LocalType
  <2> QED BY <2>1, <2>2 DEF LocalType
<1>3. LinkType'
  BY DEF Restart, CatInv, LinkType
<1>4. WireType'
  <2>1. /\ gossip' \in [Provider -> [Provider -> Seq(NodeInfoMsg)]]
        /\ streams' \in [Provider -> [Provider -> Seq(NodeInfoMsg)]]
    BY DEF Restart, CatInv, WireType
  <2>2. covers' \in [Provider -> SUBSET Provider]
    BY DEF Restart, CatInv, WireType
  <2>3. source' \in [Provider -> [Provider -> {"none", "stream", "room"}]]
    BY DEF Restart, CatInv, WireType
  <2> QED BY <2>1, <2>2, <2>3 DEF WireType
<1>5. TriesInv'
  <2>1. /\ tries \in [Provider -> [Provider -> 0 .. MaxRetries]]
        /\ phase \in [Provider -> {"listening", "up"}]
        /\ seeking \in [Provider -> SUBSET Provider]
    BY Zenon DEF CatInv, LocalType, LinkType, TriesInv
  <2>2. /\ tries' = [tries EXCEPT ![p] = [q \in Provider |-> 0]]
        /\ phase' = [phase EXCEPT ![p] = "listening"]
        /\ seeking' = [seeking EXCEPT ![p] = {}]
    BY Zenon DEF Restart
  <2>3. tries' \in [Provider -> [Provider -> 0 .. MaxRetries]]
    BY ONLY <2>1, <2>2, NetworkAssumption, p \in Provider
  <2>4. ASSUME NEW r \in Provider, NEW q \in Provider
        PROVE  /\ phase'[r] = "listening" => tries'[r][q] = 0 /\ q \notin seeking'[r]
               /\ q \in seeking'[r] => tries'[r][q] < MaxRetries
    <3>1. CASE r = p
      <4>1. tries'[r][q] = 0 /\ q \notin seeking'[r]
        BY ONLY <2>1, <2>2, <3>1, p \in Provider, q \in Provider
      <4> QED BY <4>1, Zenon
    <3>2. CASE r # p
      <4>1. /\ phase'[r] = phase[r] /\ tries'[r] = tries[r]
            /\ seeking'[r] = seeking[r]
        BY ONLY <2>1, <2>2, <3>2, r \in Provider
      <4> QED BY <4>1, Zenon DEF CatInv, TriesInv
    <3> QED BY <3>1, <3>2, Zenon
  <2> QED BY <2>3, <2>4, Zenon DEF TriesInv
<1>6. used' \in [Bound -> Nat]
  BY WithinType DEF Restart, CatInv, Bound
<1> QED BY <1>1, <1>2, <1>3, <1>4, <1>5, <1>6 DEF CatInv

---------------------------------------------------------------------------
(* Discovery *)

\* A link that comes up is between two providers and is heard of by them.
LEMMA LinkUpType ==
  ASSUME LinkType, NEW p \in Provider, NEW q \in Provider, LinkUp(p, q)
  PROVE  /\ links' \in SUBSET SUBSET Provider
         /\ fresh' \in [Provider -> SUBSET Provider]
         /\ unnoticed' \in [Provider -> SUBSET Provider]
BY DEF LinkType, LinkUp

\* Links come and go and entries are added.
LEMMA DiscoveryCat ==
  ASSUME CatInv, NEW p \in Provider, NEW q \in Provider,
         \/ InitInfoNetwork(p)
         \/ Connect(p, q) \/ ConnectFails(p, q) \/ subscribeInfoRoom(p, q)
         \/ Connected(p, q) \/ NewStream(p, q) \/ Disconnected(p, q)
  PROVE  CatInv'
<1>0. LinkType /\ WireType
  BY DEF CatInv
<1>1. CASE InitInfoNetwork(p)
  <2>1. LinkType'
    BY <1>0, <1>1 DEF InitInfoNetwork, LinkType
  <2>2. LocalType'
    <3>1. phase' \in [Provider -> {"listening", "up"}]
      BY <1>1 DEF InitInfoNetwork, CatInv, LocalType
    <3> QED BY <1>1, <3>1 DEF InitInfoNetwork, CatInv, LocalType
  <2>3. TriesInv'
    BY SMTT(30), Zenon, <1>1, NetworkAssumption
    DEF InitInfoNetwork, CatInv, LocalType, LinkType, TriesInv
  <2> QED BY <1>1, <2>1, <2>2, <2>3, Stutter DEF InitInfoNetwork, CatInv, wireVars
<1>2. CASE Connect(p, q)
  <2>1. LinkType'
    <3>1. dialed' \in [Provider -> SUBSET Provider]
      BY <1>0, <1>2 DEF Connect, LinkType
    <3> QED BY <1>0, <1>2, <3>1, LinkUpType DEF Connect, LinkType
  <2> QED BY <1>2, <2>1, Stutter DEF Connect, CatInv, catVars, wireVars
<1>3. CASE ConnectFails(p, q)
  <2>1. LinkType'
    BY <1>0, <1>3 DEF ConnectFails, LinkType
  <2>2. TriesInv'
    <3>1. /\ tries[p][q] < MaxRetries /\ tries[p][q] \in 0 .. MaxRetries
          /\ tries \in [Provider -> [Provider -> 0 .. MaxRetries]]
          /\ seeking \in [Provider -> SUBSET Provider]
          /\ q \in seeking[p] /\ phase[p] # "listening" /\ MaxRetries \in Nat
      BY <1>0, <1>3, NetworkAssumption DEF ConnectFails, CatInv, TriesInv, LinkType
    <3>2. tries' = [tries EXCEPT ![p] = [tries[p] EXCEPT ![q] = tries[p][q] + 1]]
      BY <1>3 DEF ConnectFails
    <3>3. tries' \in [Provider -> [Provider -> 0 .. MaxRetries]]
      BY <3>1, <3>2
    <3>4. /\ phase' = phase
          /\ seeking' = [seeking EXCEPT ![p] =
               IF tries'[p][q] = MaxRetries THEN seeking[p] \ {q} ELSE seeking[p]]
      BY <1>3, Zenon DEF ConnectFails, catVars
    <3>5. ASSUME NEW r \in Provider, NEW s \in Provider
          PROVE  /\ phase'[r] = "listening" => tries'[r][s] = 0 /\ s \notin seeking'[r]
                 /\ s \in seeking'[r] => tries'[r][s] < MaxRetries
      <4>1. CASE r = p /\ s = q
        <5>1. tries'[p][q] \in 0 .. MaxRetries
          BY <3>3, Zenon
        <5>2. q \in seeking'[p] => tries'[p][q] # MaxRetries
          BY ONLY <3>1, <3>4, p \in Provider
        <5>3. \A m \in Nat : \A n \in 0 .. m : n # m => n < m
          OBVIOUS
        <5>4. q \in seeking'[p] => tries'[p][q] < MaxRetries
          BY <3>1, <5>1, <5>2, <5>3, Zenon
        <5> QED BY <3>1, <3>4, <4>1, <5>4, Zenon
      <4>2. CASE ~(r = p /\ s = q)
        <5>1. tries'[r][s] = tries[r][s]
          BY ONLY <3>1, <3>2, <4>2, r \in Provider, s \in Provider
        <5>2. s \in seeking'[r] => s \in seeking[r]
          BY ONLY SMTT(30), Zenon, <3>1, <3>4, r \in Provider
        <5> QED BY <3>4, <5>1, <5>2, Zenon DEF CatInv, TriesInv
      <4> QED BY <4>1, <4>2, Zenon
    <3> QED BY <3>3, <3>5, Zenon DEF TriesInv
  <2> QED BY <1>3, <2>1, <2>2, Stutter DEF ConnectFails, CatInv, catVars, wireVars
<1>4. CASE subscribeInfoRoom(p, q)
  <2>1. LinkType'
    BY SMTT(30), Zenon, <1>0, <1>4 DEF subscribeInfoRoom, hasSubscribed, LinkType
  <2>2. TriesInv'
    <3>1. \A r \in Provider : seeking'[r] \subseteq seeking[r]
      BY <1>0, <1>4 DEF subscribeInfoRoom, hasSubscribed, LinkType
    <3> QED BY <1>4, <3>1 DEF subscribeInfoRoom, hasSubscribed, CatInv, TriesInv, catVars
  <2> QED BY <1>4, <2>1, <2>2, Stutter DEF subscribeInfoRoom, hasSubscribed, CatInv, catVars, wireVars
<1>5. CASE Connected(p, q)
  <2>1. Catalogs'
    <3>1. CatalogInv(NewNodeCatalogEntry(cat[p], q), p)
      BY CatFacts, NewNodeInv
    <3> QED BY <1>5, <3>1, CatStep, Zenon DEF Connected, CatInv
  <2>2. LinkType'
    BY <1>0, <1>5 DEF Connected, LinkType
  <2> QED BY <1>5, <2>1, <2>2, Stutter DEF Connected, CatInv, wireVars
<1>6. CASE NewStream(p, q)
  <2>1. LinkType'
    <3>1. hello' \in [Provider -> SUBSET Provider]
      BY <1>0, <1>6 DEF NewStream, LinkType
    <3>2. CASE Linked(p, q)
      BY <1>0, <1>6, <3>1, <3>2 DEF NewStream, LinkType
    <3>3. CASE ~Linked(p, q)
      BY <1>0, <1>6, <3>1, <3>3, LinkUpType DEF NewStream, LinkType
    <3> QED BY <3>2, <3>3
  <2>2. WireType'
    <3>1. Append(streams[p][q], packNodeInfoMsg(cat[p], p)) \in Seq(NodeInfoMsg)
      <4>1. streams[p][q] \in Seq(NodeInfoMsg)
        BY SMTT(30), Zenon, <1>0 DEF WireType
      <4>2. packNodeInfoMsg(cat[p], p) \in NodeInfoMsg
        BY CatFacts
      <4> QED BY ONLY <4>1, <4>2, AppendProperties
    <3>2. streams' \in [Provider -> [Provider -> Seq(NodeInfoMsg)]]
      BY SMTT(30), Zenon, <1>0, <1>6, <3>1 DEF NewStream, WireType
    <3> QED BY <1>0, <1>6, <3>2 DEF NewStream, WireType
  <2> QED BY <1>6, <2>1, <2>2, Stutter DEF NewStream, CatInv, catVars
<1>7. CASE Disconnected(p, q)
  <2>1. WireType'
    <3>1. gossip' \in [Provider -> [Provider -> Seq(NodeInfoMsg)]]
      BY <1>0, <1>7 DEF Disconnected, WireType
    <3>2. covers' \in [Provider -> SUBSET Provider]
      BY SMTT(30), Zenon, <1>0, <1>7 DEF Disconnected, WireType
    <3> QED BY <1>0, <1>7, <3>1, <3>2 DEF Disconnected, WireType
  <2>2. LinkType'
    BY SMTT(30), Zenon, <1>0, <1>7 DEF Disconnected, LinkType
  <2>3. used' \in [Bound -> Nat]
    BY <1>7, WithinType DEF Disconnected, CatInv, Bound
  <2> QED BY <1>7, <2>1, <2>2, <2>3, Stutter DEF Disconnected, CatInv, catVars
<1> QED BY <1>1, <1>2, <1>3, <1>4, <1>5, <1>6, <1>7

---------------------------------------------------------------------------
(* Messages *)

\* publishLoop sends what it packs.
LEMMA PublishLoopCat ==
  ASSUME CatInv, NEW p \in Provider, publishLoop(p)
  PROVE  CatInv'
<1>0. WireType
  BY DEF CatInv
<1>1. LocalType'
  <2>1. blocked' \in [Provider -> Nat]
    BY DEF publishLoop, CatInv, LocalType
  <2>2. unsent' \in [Provider -> BOOLEAN]
    BY Zenon DEF publishLoop, CatInv, LocalType
  <2> QED BY <2>1, <2>2 DEF publishLoop, CatInv, LocalType
<1>2. WireType'
  <2>1. \A r \in Provider :
          Append(gossip[p][r], packNodeInfoMsg(cat[p], p)) \in Seq(NodeInfoMsg)
    <3>1. \A r \in Provider : gossip[p][r] \in Seq(NodeInfoMsg)
      BY <1>0 DEF WireType
    <3>2. packNodeInfoMsg(cat[p], p) \in NodeInfoMsg
      BY CatFacts
    <3> QED BY ONLY <3>1, <3>2, AppendProperties
  <2> DEFINE sent == [q \in Provider |->
                       IF q \in Receivers(p)
                       THEN Append(gossip[p][q], packNodeInfoMsg(cat[p], p))
                       ELSE gossip[p][q]]
             reached == [q \in Provider |->
               IF q \in Receivers(p) THEN covers[q] \cup {p} ELSE covers[q] \ {p}]
  <2>2. \/ gossip' = [gossip EXCEPT ![p] = sent] /\ covers' = reached
        \/ UNCHANGED <<gossip, covers>>
    BY DEF publishLoop
  <2>3. sent \in [Provider -> Seq(NodeInfoMsg)]
    BY <1>0, <2>1 DEF WireType
  <2>4. reached \in [Provider -> SUBSET Provider]
    BY <1>0 DEF WireType
  <2> HIDE DEF sent, reached
  <2>5. gossip' \in [Provider -> [Provider -> Seq(NodeInfoMsg)]]
    BY <1>0, <2>2, <2>3, Zenon DEF WireType
  <2>6. covers' \in [Provider -> SUBSET Provider]
    BY <1>0, <2>2, <2>4 DEF WireType
  <2> QED BY <1>0, <2>5, <2>6 DEF publishLoop, WireType
<1>3. used' \in [Bound -> Nat]
  <2>1. used' = used \/ Within("losses", MaxLosses)
    BY DEF publishLoop
  <2> QED BY <2>1, WithinType DEF CatInv, Bound
<1> QED BY <1>1, <1>2, <1>3, Stutter DEF publishLoop, CatInv, linkVars

\* A message unpacked into a catalog makes a catalog.
LEMMA MessageCat ==
  ASSUME CatInv, NEW p \in Provider, NEW q \in Provider, p # q,
         \/ subscribeLoop(p, q) \/ LoseMessage(p, q)
         \/ streamAvailableFunctions(p, q)
  PROVE  CatInv'
<1>0. WireType /\ gossip[q][p] \in Seq(NodeInfoMsg) /\ streams[q][p] \in Seq(NodeInfoMsg)
  BY DEF CatInv, WireType
<1>2. CASE subscribeLoop(p, q)
  <2>1. PICK i \in Deliverable(q, p) :
          /\ cat' = [cat EXCEPT ![p] = unpackNodeInfoMsg(cat[p], gossip[q][p][i], q)]
          /\ gossip' = [gossip EXCEPT ![q][p] = Drop(gossip[q][p], i)]
    BY <1>2, Zenon DEF subscribeLoop
  <2>2. i \in 1 .. Len(gossip[q][p])
    BY <1>0 DEF Deliverable
  <2>3. gossip[q][p][i] \in NodeInfoMsg /\ Drop(gossip[q][p], i) \in Seq(NodeInfoMsg)
    BY SMTT(30), Zenon, <1>0, <2>2, DropType, ElementOfSeq
  <2>4. CatalogInv(unpackNodeInfoMsg(cat[p], gossip[q][p][i], q), p)
    BY SMTT(30), Zenon, <1>2, <2>3, CatFacts, UnpackInv DEF subscribeLoop
  <2>5. WireType'
    BY SMTT(30), Zenon, <1>0, <1>2, <2>1, <2>3 DEF subscribeLoop, WireType
  <2> QED BY <1>2, <2>1, <2>4, <2>5, CatStep, Stutter, Zenon DEF subscribeLoop, CatInv, linkVars
<1>3. CASE LoseMessage(p, q)
  <2>1. PICK i \in 1 .. Len(gossip[q][p]) :
          gossip' = [gossip EXCEPT ![q][p] = Drop(gossip[q][p], i)]
    BY <1>3, Zenon DEF LoseMessage
  <2>2. Drop(gossip[q][p], i) \in Seq(NodeInfoMsg)
    BY <1>0, <2>1, DropType
  <2>3. WireType'
    BY <1>0, <1>3, <2>1, <2>2 DEF LoseMessage, WireType
  <2>4. used' \in [Bound -> Nat]
    BY <1>3, WithinType DEF LoseMessage, CatInv, Bound
  <2> QED BY <1>3, <2>3, <2>4, Stutter DEF LoseMessage, CatInv, catVars, linkVars
<1>4. CASE streamAvailableFunctions(p, q)
  <2>1. PICK i \in 1 .. Len(streams[q][p]) :
          /\ cat' = [cat EXCEPT ![p] =
               unpackNodeInfoMsg(NewNodeCatalogEntry(cat[p], q), streams[q][p][i], q)]
          /\ streams' = [streams EXCEPT ![q][p] = Drop(streams[q][p], i)]
    BY <1>4, Zenon DEF streamAvailableFunctions
  <2>2. streams[q][p][i] \in NodeInfoMsg /\ Drop(streams[q][p], i) \in Seq(NodeInfoMsg)
    BY <1>0, <2>1, DropType, ElementOfSeq
  <2>3. /\ CatalogInv(NewNodeCatalogEntry(cat[p], q), p)
        /\ q \in NewNodeCatalogEntry(cat[p], q).nodes
    BY CatFacts, NewNodeInv, Zenon
  <2>4. CatalogInv(unpackNodeInfoMsg(NewNodeCatalogEntry(cat[p], q), streams[q][p][i], q), p)
    BY <2>2, <2>3, UnpackInv, ZenonT(30)
  <2>5. WireType'
    BY <1>0, <1>4, <2>1, <2>2 DEF streamAvailableFunctions, WireType
  <2> QED BY <1>4, <2>1, <2>4, <2>5, CatStep, Stutter, Zenon
          DEF streamAvailableFunctions, CatInv, linkVars
<1> QED BY <1>2, <1>3, <1>4

---------------------------------------------------------------------------
(* The first theorems *)

\* Every provider starts from a sound catalog.
LEMMA InitCat == Init => CatInv
<1> SUFFICES ASSUME Init PROVE CatInv
  OBVIOUS
<1>1. Catalogs
  <2>1. PICK boot \in [Provider -> Boots] :
          cat = [p \in Provider |-> initSelfCatagory(p, boot[p].listed, boot[p].asked)]
    BY ZenonT(30) DEF Init
  <2>2. ASSUME NEW p \in Provider PROVE CatalogInv(cat[p], p)
    <3>1. boot[p] \in BootType
      BY NetworkAssumption, Zenon
    <3>2. boot[p].listed \in [Function -> Count \cup {Absent}] /\ boot[p].asked \in [Function -> Count]
      BY ONLY SMTT(30), Zenon, <3>1 DEF BootType
    <3> QED BY <2>1, <3>2, InitSelfInv
  <2>3. \A p \in Provider : cat[p] \in CatalogType
    BY <2>2 DEF CatalogInv
  <2> QED BY <2>1, <2>2, <2>3 DEF Catalogs
<1>2. LocalType /\ LinkType
  BY DEF Init, LocalType, LinkType
<1>3. WireType
  BY DEF Init, WireType
<1>4. TriesInv /\ used \in [Bound -> Nat]
  BY NetworkAssumption DEF Init, TriesInv
<1> QED BY <1>1, <1>2, <1>3, <1>4 DEF CatInv

\* Every step keeps the types and the catalogs.
LEMMA NextCat == CatInv /\ [Next]_vars => CatInv'
<1> SUFFICES ASSUME CatInv, [Next]_vars PROVE CatInv'
  OBVIOUS
<1>1. ASSUME NEW p \in Provider, LocalStep(p) PROVE CatInv'
  BY <1>1, LocalChangeCat, DiscoveryCat, PublishLoopCat, RestartCat DEF LocalStep
<1>2. ASSUME NEW pq \in Pair, PeerStep(pq[1], pq[2]) PROVE CatInv'
  <2>1. pq[1] \in Provider /\ pq[2] \in Provider /\ pq[1] # pq[2]
    BY DEF Pair
  <2> QED BY <1>2, <2>1, DiscoveryCat, MessageCat, RestartCat, Zenon
          DEF PeerStep, NewStreamFails, subscribeLoopCrash, streamBreaks
<1>3. CASE UNCHANGED vars
  BY <1>3, Stutter DEF vars, catVars, linkVars, wireVars, CatInv
<1> QED BY <1>1, <1>2, <1>3 DEF Next

\* The variables keep their types, and a provider is in its own catalog, in
\* every behaviour of the info network.
THEOREM TypeCorrect == Spec => []TypeOK
BY InitCat, NextCat, CatInvTypeOK, PTL DEF Spec

\* The entries that the scheduler and packNodeInfoMsg dereference
\* (trigger.go:121, info_room.go:115) are there in every reachable catalog.
THEOREM CatalogsStaySound == Spec => []CatalogsSound
<1>1. CatInv => CatalogsSound
  BY DEF CatInv, Catalogs, CatalogInv, CatalogsSound
<1> QED BY <1>1, InitCat, NextCat, PTL DEF Spec

\* Replicas is the number of replicas over all known nodes from the first time
\* updatetReplicas computed it (catalog_cluster_level.go:108).
THEOREM ReplicasStayCounted == Spec => []ReplicasAreCounted
<1>1. CatInv => ReplicasAreCounted
  BY DEF CatInv, Catalogs, CatalogInv, ReplicasAreCounted
<1> QED BY <1>1, InitCat, NextCat, PTL DEF Spec

---------------------------------------------------------------------------
(* How a step changes the catalogs *)

\* A step replaces the catalog of a, and there at most what it says of b.
Changes(a, b) ==
  \E d : /\ cat' = [cat EXCEPT ![a] = d] /\ cat[a].nodes \subseteq d.nodes
         /\ OnlyEntry(cat[a], d, b)

\* Entries are never taken away, and all the other views stay as they were.
LEMMA ChangesViews ==
  ASSUME CatInv, NEW a \in Provider, NEW b \in Provider, Changes(a, b)
  PROVE  /\ \A p \in Provider : cat[p].nodes \subseteq cat'[p].nodes
         /\ \A p, q \in Provider : p # a => View(p, q)' = View(p, q)
         /\ \A p, q \in Provider : q # b => View(p, q)' = View(p, q)
<1>1. PICK d : /\ cat' = [cat EXCEPT ![a] = d] /\ cat[a].nodes \subseteq d.nodes
               /\ OnlyEntry(cat[a], d, b)
  BY Zenon DEF Changes
<1>2. cat \in [Provider -> CatalogType]
  BY Zenon DEF CatInv, Catalogs
<1>3. \A p \in Provider : cat'[p] = IF p = a THEN d ELSE cat[p]
  BY <1>1, <1>2, Zenon
<1>4. \A p \in Provider : cat[p].nodes \subseteq cat'[p].nodes
  BY <1>1, <1>3, Zenon
<1>5. ASSUME NEW p \in Provider, NEW q \in Provider, p # a \/ q # b
      PROVE  View(p, q)' = View(p, q)
  <2>1. CASE p = a
    BY <1>1, <1>3, <1>5, <2>1, Zenon DEF View, OnlyEntry
  <2>2. CASE p # a
    BY <1>3, <2>2, Zenon DEF View
  <2> QED BY <2>1, <2>2, Zenon
<1> QED BY <1>4, <1>5, Zenon

\* A handler of p changes the entry of p, or nothing at all.
LEMMA LocalChanges ==
  ASSUME CatInv, NEW p \in Provider,
         \/ \E f \in Function, n \in 1 .. MaxCount : AddFunc(p, f, n)
         \/ \E f \in Function, n \in Count : UpdateFunc(p, f, n)
         \/ \E f \in Function : DeleteFunction(p, f)
         \/ ListenUpdateInfo(p)
  PROVE  Changes(p, p) /\ (publishInfo(p) \/ UNCHANGED <<cat, blocked, unsent>>)
<1>0. CatalogInv(cat[p], p) /\ cat \in [Provider -> CatalogType]
  BY CatFacts, Zenon DEF CatInv, Catalogs
<1>1. ASSUME NEW f \in Function, NEW n \in 1 .. MaxCount, AddFunc(p, f, n)
      PROVE  Changes(p, p) /\ publishInfo(p)
  <2>1. n \in Count
    BY CatalogAssumption DEF Count
  <2>2. PICK d : d = AddAvailableFunctions(cat[p], p, f, n)
    BY Zenon
  <2>3. OwnOnly(cat[p], d, p)
    BY <1>0, <2>1, <2>2, OwnEntry, Zenon
  <2>4. cat' = [cat EXCEPT ![p] = d] /\ publishInfo(p)
    BY <1>1, <2>2, Zenon DEF AddFunc
  <2> QED BY <2>3, <2>4, Zenon DEF Changes, OwnOnly
<1>2. ASSUME NEW f \in Function, NEW n \in Count, UpdateFunc(p, f, n)
      PROVE  Changes(p, p) /\ publishInfo(p)
  <2>1. PICK d : d = UpdateAvailableFunctions(cat[p], p, f, n)
    BY Zenon
  <2>2. OwnOnly(cat[p], d, p)
    BY <1>0, <2>1, OwnEntry, Zenon
  <2>3. cat' = [cat EXCEPT ![p] = d] /\ publishInfo(p)
    BY <1>2, <2>1, Zenon DEF UpdateFunc
  <2> QED BY <2>2, <2>3, Zenon DEF Changes, OwnOnly
<1>3. ASSUME NEW f \in Function, DeleteFunction(p, f)
      PROVE  Changes(p, p) /\ (publishInfo(p) \/ UNCHANGED <<cat, blocked, unsent>>)
  <2>1. CASE cat[p].functionCatalog[f] = Absent
    <3>1. deleteAvailableFunctions(cat[p], p, f) = cat[p]
      BY <1>0, <2>1, DeletePanicInv, Zenon
    <3>2. cat' = [cat EXCEPT ![p] = cat[p]] /\ UNCHANGED <<blocked, unsent>>
      BY <1>3, <2>1, <3>1, Zenon DEF DeleteFunction
    <3>3. cat' = cat
      BY ONLY <1>0, <3>2
    <3> QED BY <3>2, <3>3, Zenon DEF Changes, OnlyEntry
  <2>2. CASE cat[p].functionCatalog[f] # Absent
    <3>1. PICK d : d = DeleteAvailableFunctions(cat[p], p, f)
      BY Zenon
    <3>2. OwnOnly(cat[p], d, p)
      BY <1>0, <3>1, OwnEntry, Zenon
    <3>3. cat' = [cat EXCEPT ![p] = d] /\ publishInfo(p)
      BY <1>3, <2>2, <3>1, Zenon DEF DeleteFunction
    <3> QED BY <3>2, <3>3, Zenon DEF Changes, OwnOnly
  <2> QED BY <2>1, <2>2, Zenon
<1>4. CASE ListenUpdateInfo(p)
  <2>1. PICK d : d = [cat[p] EXCEPT !.overload[p] = ~ @]
    BY Zenon
  <2>2. OwnOnly(cat[p], d, p)
    BY <1>0, <2>1, OwnEntry, Zenon
  <2>3. cat' = [cat EXCEPT ![p] = d] /\ publishInfo(p)
    BY <1>4, <2>1, Zenon DEF ListenUpdateInfo
  <2> QED BY <2>2, <2>3, Zenon DEF Changes, OwnOnly
<1> QED BY <1>1, <1>2, <1>3, <1>4, Zenon

\* What p learns of q changes its entry of q.
LEMMA MessageChanges ==
  ASSUME CatInv, NEW p \in Provider, NEW q \in Provider, p # q,
         Connected(p, q) \/ subscribeLoop(p, q) \/ streamAvailableFunctions(p, q)
  PROVE  Changes(p, q)
<1>0. /\ cat[p] \in CatalogType
      /\ gossip[q][p] \in Seq(NodeInfoMsg) /\ streams[q][p] \in Seq(NodeInfoMsg)
  <2>1. cat[p] \in CatalogType
    BY CatFacts, Zenon
  <2> QED BY <2>1 DEF CatInv, WireType
<1>1. CASE Connected(p, q)
  <2>1. PICK d : d = NewNodeCatalogEntry(cat[p], q)
    BY Zenon
  <2>2. d.nodes = cat[p].nodes \cup {q} /\ OnlyEntry(cat[p], d, q)
    BY <1>0, <2>1, NewEntry, Zenon
  <2>3. cat' = [cat EXCEPT ![p] = d]
    BY <1>1, <2>1, Zenon DEF Connected
  <2> QED BY <2>2, <2>3, Zenon DEF Changes
<1>2. CASE subscribeLoop(p, q)
  <2>1. PICK i \in Deliverable(q, p) :
          cat' = [cat EXCEPT ![p] = unpackNodeInfoMsg(cat[p], gossip[q][p][i], q)]
    BY <1>2, Zenon DEF subscribeLoop
  <2>2. i \in 1 .. Len(gossip[q][p])
    BY <1>0 DEF Deliverable
  <2>3. PICK m \in NodeInfoMsg : m = gossip[q][p][i]
    BY <1>0, <2>2, ElementOfSeq, Zenon
  <2>4. PICK d : d = unpackNodeInfoMsg(cat[p], m, q)
    BY Zenon
  <2>5. d.nodes = cat[p].nodes /\ OnlyEntry(cat[p], d, q)
    BY <1>0, <2>4, UnpackedEntry, Zenon
  <2>6. cat' = [cat EXCEPT ![p] = d]
    BY <2>1, <2>3, <2>4, Zenon
  <2> QED BY <2>5, <2>6, Zenon DEF Changes
<1>3. CASE streamAvailableFunctions(p, q)
  <2>1. PICK i \in 1 .. Len(streams[q][p]) : cat' = [cat EXCEPT ![p] =
          unpackNodeInfoMsg(NewNodeCatalogEntry(cat[p], q), streams[q][p][i], q)]
    BY <1>3, Zenon DEF streamAvailableFunctions
  <2>2. PICK m \in NodeInfoMsg : m = streams[q][p][i]
    BY <1>0, <2>1, ElementOfSeq, Zenon
  <2>3. PICK c \in CatalogType : c = NewNodeCatalogEntry(cat[p], q)
    BY <1>0, NewEntry, Zenon
  <2>4. c.nodes = cat[p].nodes \cup {q} /\ OnlyEntry(cat[p], c, q)
    BY <1>0, <2>3, NewEntry, Zenon
  <2>5. PICK d : d = unpackNodeInfoMsg(c, m, q)
    BY Zenon
  <2>6. d.nodes = c.nodes /\ OnlyEntry(c, d, q)
    BY <2>5, UnpackedEntry, Zenon
  <2>7. cat' = [cat EXCEPT ![p] = d]
    BY <2>1, <2>2, <2>3, <2>5, Zenon
  <2>8. OnlyEntry(cat[p], d, q)
    BY <2>4, <2>6, Zenon DEF OnlyEntry
  <2> QED BY <2>4, <2>6, <2>7, <2>8, Zenon DEF Changes
<1> QED BY <1>1, <1>2, <1>3, Zenon

---------------------------------------------------------------------------
(* The rooms joined before the entry exists *)

(***************************************************************************)
(* What CrashWindow needs of every peer q of p: a room is joined once and  *)
(* is not sought any more, and a peer that is linked or was dialed is in   *)
(* the catalog or its Connected callback is still to come, or never comes. *)
(***************************************************************************)
WindowAt(p, q) ==
  /\ q \in rooms[p] => phase[p] = "up" /\ q \notin seeking[p]
  /\ q \notin cat[p].nodes =>
       /\ Linked(p, q) \/ q \in dialed[p] => q \in fresh[p] \/ q \in unnoticed[p]
       /\ q \in rooms[p] => (q \in fresh[p] /\ q \notin dialed[p]) \/ q \in unnoticed[p]

Window == \A p, q \in Provider : WindowAt(p, q)

\* The property is part of it.
LEMMA WindowIsProperty == CatInv /\ Window => CrashWindow
<1> SUFFICES ASSUME CatInv, Window, NEW p \in Provider, NEW q \in rooms[p] \ cat[p].nodes
             PROVE  q \in (fresh[p] \ dialed[p]) \cup unnoticed[p]
  BY Zenon DEF CrashWindow
<1>1. q \in Provider
  BY DEF CatInv, LinkType
<1> QED BY <1>1, Zenon DEF Window, WindowAt

\* A step that seeks, joins and dials no more, and only adds entries, callbacks
\* and, with their callbacks, links.
LEMMA WindowGrows ==
  ASSUME Window, NEW r \in Provider, NEW s \in Provider,
         phase'[r] = phase[r], s \in seeking'[r] => s \in seeking[r],
         s \in rooms'[r] => s \in rooms[r], s \in dialed'[r] => s \in dialed[r],
         cat[r].nodes \subseteq cat'[r].nodes,
         s \in fresh[r] => s \in fresh'[r] \/ s \in cat'[r].nodes,
         s \in unnoticed[r] => s \in unnoticed'[r],
         Linked(r, s)' => Linked(r, s) \/ s \in fresh'[r] \/ s \in unnoticed'[r] \/ s \in cat'[r].nodes
  PROVE  WindowAt(r, s)'
<1>1. WindowAt(r, s)
  BY Zenon DEF Window
<1>2. s \notin cat'[r].nodes => s \notin cat[r].nodes
  BY Zenon
<1> QED BY <1>1, <1>2, Zenon DEF WindowAt

\* Most steps change no link.
LEMMA WindowKept ==
  ASSUME Window, UNCHANGED <<phase, links, fresh, seeking, dialed, rooms, unnoticed>>,
         \A p \in Provider : cat[p].nodes \subseteq cat'[p].nodes
  PROVE  Window'
<1>1. ASSUME NEW r \in Provider, NEW s \in Provider
      PROVE  WindowAt(r, s)'
  BY WindowGrows, Zenon DEF Linked
<1> QED BY <1>1, Zenon DEF Window

\* A link that comes up is noticed, or the callback was not registered yet.
LEMMA LinkUpDoes ==
  ASSUME LinkType, NEW p \in Provider, NEW q \in Provider, LinkUp(p, q),
         NEW r \in Provider, NEW s \in Provider
  PROVE  /\ fresh[r] \subseteq fresh'[r] /\ unnoticed[r] \subseteq unnoticed'[r]
         /\ r # s /\ Linked(r, s)' => Linked(r, s) \/ s \in fresh'[r] \/ s \in unnoticed'[r]
         /\ p # q => q \in fresh'[p] \/ q \in unnoticed'[p]
<1>1. /\ links' = links \cup {{p, q}}
      /\ \A t \in Provider :
           /\ fresh'[t] = fresh[t] \cup {u \in {p, q} \ {t} : t \in {p, q} /\ phase[t] = "up"}
           /\ unnoticed'[t] = unnoticed[t] \cup {u \in {p, q} \ {t} : t \in {p, q} /\ phase[t] # "up"}
  BY Zenon DEF LinkUp
<1>2. fresh[r] \subseteq fresh'[r] /\ unnoticed[r] \subseteq unnoticed'[r]
  BY <1>1, Zenon
<1>3. \A t \in {p, q} : \A u \in {p, q} \ {t} : u \in fresh'[t] \/ u \in unnoticed'[t]
  BY <1>1, Zenon
<1>4. ASSUME r # s, Linked(r, s)', ~Linked(r, s)
      PROVE  s \in fresh'[r] \/ s \in unnoticed'[r]
  <2>1. {r, s} = {p, q}
    BY <1>1, <1>4, Zenon DEF Linked
  <2>2. r \in {p, q} /\ s \in {p, q} \ {r}
    BY <1>4, <2>1, Zenon
  <2> QED BY <1>3, <2>2, Zenon
<1> QED BY <1>2, <1>3, <1>4, Zenon

\* The steps of discovery keep the window: a Connect that opened the link
\* returns after its callback, and the room of a peer that was found linked is
\* joined while the callback is to come or was missed.
LEMMA DiscoveryWindow ==
  ASSUME CatInv, Window, NEW p \in Provider, NEW q \in Provider, p # q,
         \/ Connect(p, q) \/ ConnectFails(p, q) \/ subscribeInfoRoom(p, q)
         \/ Connected(p, q) \/ NewStream(p, q) \/ Disconnected(p, q)
  PROVE  Window'
<1>0. /\ LinkType /\ cat \in [Provider -> CatalogType]
      /\ fresh \in [Provider -> SUBSET Provider] /\ seeking \in [Provider -> SUBSET Provider]
      /\ dialed \in [Provider -> SUBSET Provider] /\ rooms \in [Provider -> SUBSET Provider]
      /\ phase \in [Provider -> {"listening", "up"}]
      /\ \A r, s \in Provider : s \in seeking[r] => phase[r] = "up"
  BY Zenon DEF CatInv, LinkType, LocalType, TriesInv, Catalogs
<1>00. \A r \in Provider : r \in cat[r].nodes
  BY CatFacts, Zenon
<1> SUFFICES ASSUME NEW r \in Provider, NEW s \in Provider
             PROVE  WindowAt(r, s)'
  BY Zenon DEF Window
<1>1. CASE Connect(p, q)
  <2>1. /\ q \in seeking[p] /\ LinkUp(p, q) /\ dialed' = [dialed EXCEPT ![p] = @ \cup {q}]
        /\ UNCHANGED <<cat, phase, seeking, rooms>>
    BY <1>1, Zenon DEF Connect, catVars
  <2>2. /\ fresh[r] \subseteq fresh'[r] /\ unnoticed[r] \subseteq unnoticed'[r]
        /\ r # s /\ Linked(r, s)' => Linked(r, s) \/ s \in fresh'[r] \/ s \in unnoticed'[r]
        /\ q \in fresh'[p] \/ q \in unnoticed'[p]
    BY <1>0, <2>1, LinkUpDoes, Zenon
  <2>3. CASE r = p /\ s = q
    <3>1. WindowAt(p, q)
      BY Zenon DEF Window
    <3>2. q \notin rooms[p]
      BY <2>1, <3>1, Zenon DEF WindowAt
    <3> QED BY <2>1, <2>2, <2>3, <3>2, Zenon DEF WindowAt
  <2>4. CASE ~(r = p /\ s = q)
    <3>1. s \in dialed'[r] => s \in dialed[r]
      BY <1>0, <2>1, <2>4, Zenon
    <3>2. Linked(r, s)' => Linked(r, s) \/ s \in fresh'[r] \/ s \in unnoticed'[r] \/ s \in cat'[r].nodes
      BY <1>00, <2>1, <2>2, Zenon
    <3> QED BY <2>1, <2>2, <3>1, <3>2, WindowGrows, Zenon
  <2> QED BY <2>3, <2>4, Zenon
<1>2. CASE ConnectFails(p, q)
  <2>1. /\ seeking' = [seeking EXCEPT ![p] = IF tries'[p][q] = MaxRetries THEN @ \ {q} ELSE @]
        /\ UNCHANGED <<cat, phase, links, fresh, dialed, rooms, unnoticed>>
    BY <1>2, Zenon DEF ConnectFails, catVars
  <2>2. s \in seeking'[r] => s \in seeking[r]
    BY <1>0, <2>1, Zenon
  <2> QED BY <2>1, <2>2, WindowGrows, Zenon DEF Linked
<1>3. CASE subscribeInfoRoom(p, q)
  <2>1. /\ q \in seeking[p] /\ (IF q \in dialed[p] THEN q \notin fresh[p] ELSE Linked(p, q))
        /\ rooms' = rooms \/ rooms' = [rooms EXCEPT ![p] = @ \cup {q}]
        /\ seeking' = [seeking EXCEPT ![p] = @ \ {q}]
        /\ UNCHANGED <<cat, phase, links, fresh, dialed, unnoticed>>
    BY <1>3, Zenon DEF subscribeInfoRoom, hasSubscribed, catVars
  <2>2. CASE r = p /\ s = q
    <3>1. WindowAt(p, q) /\ phase[p] = "up"
      BY <1>0, <2>1, Zenon DEF Window
    <3>2. q \notin seeking'[p]
      BY <1>0, <2>1, Zenon
    <3>3. Linked(p, q)' <=> Linked(p, q)
      BY <2>1, Zenon DEF Linked
    <3> QED BY <2>1, <2>2, <3>1, <3>2, <3>3, Zenon DEF WindowAt
  <2>3. CASE ~(r = p /\ s = q)
    <3>1. s \in rooms'[r] => s \in rooms[r]
      BY <1>0, <2>1, <2>3
    <3>2. s \in seeking'[r] => s \in seeking[r]
      BY <1>0, <2>1, Zenon
    <3> QED BY <2>1, <3>1, <3>2, WindowGrows, Zenon DEF Linked
  <2> QED BY <2>2, <2>3, Zenon
<1>4. CASE Connected(p, q)
  <2>1. /\ fresh' = [fresh EXCEPT ![p] = @ \ {q}] /\ cat' = [cat EXCEPT ![p] = NewNodeCatalogEntry(@, q)]
        /\ UNCHANGED <<phase, links, seeking, dialed, rooms, unnoticed>>
    BY <1>4, Zenon DEF Connected
  <2>2. q \in cat'[p].nodes
    <3>1. cat'[p] = NewNodeCatalogEntry(cat[p], q)
      BY <1>0, <2>1, Zenon
    <3>2. q \in NewNodeCatalogEntry(cat[p], q).nodes
      BY CatFacts, NewNodeInv, Zenon
    <3> QED BY <3>1, <3>2, Zenon
  <2>3. s \in fresh[r] => s \in fresh'[r] \/ s \in cat'[r].nodes
    BY <1>0, <2>1, <2>2, Zenon
  <2>4. cat[r].nodes \subseteq cat'[r].nodes
    BY <1>4, MessageChanges, ChangesViews, Zenon
  <2> QED BY <2>1, <2>3, <2>4, WindowGrows, Zenon DEF Linked
<1>5. CASE NewStream(p, q)
  <2>1. /\ UNCHANGED <<cat, phase, seeking, dialed, rooms>>
        /\ UNCHANGED <<links, fresh, unnoticed>> \/ LinkUp(p, q)
    BY <1>5, Zenon DEF NewStream, catVars
  <2>2. CASE UNCHANGED <<links, fresh, unnoticed>>
    BY <2>1, <2>2, WindowGrows, Zenon DEF Linked
  <2>3. CASE LinkUp(p, q)
    <3>1. /\ fresh[r] \subseteq fresh'[r] /\ unnoticed[r] \subseteq unnoticed'[r]
          /\ r # s /\ Linked(r, s)' => Linked(r, s) \/ s \in fresh'[r] \/ s \in unnoticed'[r]
      BY <1>0, <2>3, LinkUpDoes, Zenon
    <3>2. Linked(r, s)' => Linked(r, s) \/ s \in fresh'[r] \/ s \in unnoticed'[r] \/ s \in cat'[r].nodes
      BY <1>00, <2>1, <3>1, Zenon
    <3> QED BY <2>1, <3>1, <3>2, WindowGrows, Zenon
  <2> QED BY <2>1, <2>2, <2>3, Zenon
<1>6. CASE Disconnected(p, q)
  <2>1. /\ links' = links \ {{p, q}}
        /\ UNCHANGED <<cat, phase, fresh, seeking, dialed, rooms, unnoticed>>
    BY <1>6, Zenon DEF Disconnected, catVars
  <2>2. Linked(r, s)' => Linked(r, s)
    BY <2>1, Zenon DEF Linked
  <2> QED BY <2>1, <2>2, WindowGrows, Zenon
<1> QED BY <1>1, <1>2, <1>3, <1>4, <1>5, <1>6, Zenon

\* A process starts with no link, no room and nothing to seek.
LEMMA RestartWindow ==
  ASSUME CatInv, Window, NEW p \in Provider, Restart(p)
  PROVE  Window'
<1>0. /\ cat \in [Provider -> CatalogType]
      /\ fresh \in [Provider -> SUBSET Provider] /\ seeking \in [Provider -> SUBSET Provider]
      /\ dialed \in [Provider -> SUBSET Provider] /\ rooms \in [Provider -> SUBSET Provider]
      /\ unnoticed \in [Provider -> SUBSET Provider] /\ phase \in [Provider -> {"listening", "up"}]
  BY Zenon DEF CatInv, LinkType, LocalType, Catalogs
<1>1. /\ links' = {l \in links : p \notin l}
      /\ \E boot : cat' = [cat EXCEPT ![p] = boot]
      /\ phase' = [phase EXCEPT ![p] = "listening"] /\ fresh' = [fresh EXCEPT ![p] = {}]
      /\ seeking' = [seeking EXCEPT ![p] = {}] /\ dialed' = [dialed EXCEPT ![p] = {}]
      /\ rooms' = [rooms EXCEPT ![p] = {}] /\ unnoticed' = [unnoticed EXCEPT ![p] = {}]
  BY Zenon DEF Restart
<1> SUFFICES ASSUME NEW r \in Provider, NEW s \in Provider
             PROVE  WindowAt(r, s)'
  BY Zenon DEF Window
<1>2. Linked(r, s)' => Linked(r, s) /\ r # p
  BY <1>1, Zenon DEF Linked
<1>3. CASE r = p
  <2>1. s \notin dialed'[r] /\ s \notin rooms'[r]
    BY <1>0, <1>1, <1>3, Zenon
  <2> QED BY <1>2, <1>3, <2>1, Zenon DEF WindowAt
<1>4. CASE r # p
  <2>1. /\ cat'[r] = cat[r] /\ phase'[r] = phase[r] /\ fresh'[r] = fresh[r]
        /\ seeking'[r] = seeking[r] /\ dialed'[r] = dialed[r]
        /\ rooms'[r] = rooms[r] /\ unnoticed'[r] = unnoticed[r]
    BY <1>0, <1>1, <1>4, Zenon
  <2> QED BY <1>2, <2>1, WindowGrows, Zenon
<1> QED BY <1>3, <1>4, Zenon

\* InitInfoNetwork starts to seek when no room is joined yet.
LEMMA InitInfoNetworkWindow ==
  ASSUME CatInv, Window, NEW p \in Provider, InitInfoNetwork(p)
  PROVE  Window'
<1>0. /\ phase \in [Provider -> {"listening", "up"}] /\ seeking \in [Provider -> SUBSET Provider]
  BY Zenon DEF CatInv, LinkType, LocalType
<1>1. /\ phase[p] = "listening" /\ phase' = [phase EXCEPT ![p] = "up"]
      /\ \E new : seeking' = [seeking EXCEPT ![p] = new]
      /\ UNCHANGED <<cat, links, fresh, dialed, rooms, unnoticed>>
  BY Zenon DEF InitInfoNetwork
<1> SUFFICES ASSUME NEW r \in Provider, NEW s \in Provider
             PROVE  WindowAt(r, s)'
  BY Zenon DEF Window
<1>2. WindowAt(r, s) /\ (Linked(r, s)' <=> Linked(r, s))
  BY <1>1, Zenon DEF Window, Linked
<1>3. CASE r = p
  <2>1. s \notin rooms[r]
    BY <1>1, <1>2, <1>3 DEF WindowAt
  <2> QED BY <1>1, <1>2, <2>1, ZenonT(30) DEF WindowAt
<1>4. CASE r # p
  <2>1. phase'[r] = phase[r] /\ seeking'[r] = seeking[r]
    BY <1>0, <1>1, <1>4, Zenon
  <2> QED BY <1>1, <1>2, <2>1, Zenon DEF WindowAt
<1> QED BY <1>3, <1>4, Zenon

\* Every step keeps to the windows.
LEMMA NextWindow == CatInv /\ Window /\ [Next]_vars => Window'
<1> SUFFICES ASSUME CatInv, Window, [Next]_vars PROVE Window'
  OBVIOUS
<1>1. ASSUME NEW p \in Provider, LocalStep(p)
      PROVE  Window'
  <2>1. CASE \/ \E f \in Function, n \in 1 .. MaxCount : AddFunc(p, f, n)
             \/ \E f \in Function, n \in Count : UpdateFunc(p, f, n)
             \/ \E f \in Function : DeleteFunction(p, f)
             \/ ListenUpdateInfo(p)
    <3>1. \A r \in Provider : cat[r].nodes \subseteq cat'[r].nodes
      BY <2>1, LocalChanges, ChangesViews, Zenon
    <3>2. UNCHANGED <<phase, links, fresh, seeking, dialed, rooms, unnoticed>>
      BY <2>1, Zenon DEF AddFunc, UpdateFunc, DeleteFunction, ListenUpdateInfo, linkVars
    <3> QED BY <3>1, <3>2, WindowKept, Zenon
  <2>2. CASE publishLoop(p)
    <3>1. UNCHANGED <<cat, phase, links, fresh, seeking, dialed, rooms, unnoticed>>
      BY <2>2, Zenon DEF publishLoop, linkVars
    <3> QED BY <3>1, WindowKept, Zenon
  <2> QED BY <1>1, <2>1, <2>2, InitInfoNetworkWindow, RestartWindow, Zenon DEF LocalStep
<1>2. ASSUME NEW pq \in Pair, PeerStep(pq[1], pq[2])
      PROVE  Window'
  <2>1. PICK p \in Provider, q \in Provider : p = pq[1] /\ q = pq[2] /\ p # q
    BY DEF Pair
  <2>2. PeerStep(p, q)
    BY <1>2, <2>1, Zenon
  <2>3. CASE subscribeLoop(p, q) \/ streamAvailableFunctions(p, q)
    <3>1. \A r \in Provider : cat[r].nodes \subseteq cat'[r].nodes
      BY <2>1, <2>3, MessageChanges, ChangesViews, Zenon
    <3>2. UNCHANGED <<phase, links, fresh, seeking, dialed, rooms, unnoticed>>
      BY <2>3, Zenon DEF subscribeLoop, streamAvailableFunctions, linkVars
    <3> QED BY <3>1, <3>2, WindowKept, Zenon
  <2>4. CASE LoseMessage(p, q)
    <3>1. UNCHANGED <<cat, phase, links, fresh, seeking, dialed, rooms, unnoticed>>
      BY <2>4, Zenon DEF LoseMessage, catVars, linkVars
    <3> QED BY <3>1, WindowKept, Zenon
  <2>5. CASE Restart(p)
    BY <2>5, RestartWindow, Zenon
  <2>6. CASE \/ Connect(p, q) \/ ConnectFails(p, q) \/ subscribeInfoRoom(p, q)
             \/ Connected(p, q) \/ NewStream(p, q) \/ Disconnected(p, q)
    BY <2>1, <2>6, DiscoveryWindow, Zenon
  <2> QED BY <2>2, <2>3, <2>4, <2>5, <2>6, Zenon
          DEF PeerStep, NewStreamFails, subscribeLoopCrash, streamBreaks
<1>3. CASE UNCHANGED vars
  <2>1. UNCHANGED <<cat, phase, links, fresh, seeking, dialed, rooms, unnoticed>>
    BY <1>3, Zenon DEF vars, catVars, linkVars
  <2> QED BY <2>1, WindowKept, Zenon
<1> QED BY <1>1, <1>2, <1>3, Zenon DEF Next

\* subscribeLoop finds no NodeCatalog entry (info_room.go:126) only in the two
\* windows CrashWindow names, whatever the number of providers, the links that
\* break and the processes that end.
THEOREM CrashesOnlyInWindow == Spec => []CrashWindow
<1>1. Init => Window
  <2> SUFFICES ASSUME Init, NEW p \in Provider, NEW q \in Provider
               PROVE  WindowAt(p, q)
    BY Zenon DEF Window
  <2>1. q \notin rooms[p] /\ q \notin dialed[p] /\ ~Linked(p, q)
    BY Zenon DEF Init, Linked
  <2> QED BY <2>1, Zenon DEF WindowAt
<1> QED BY <1>1, InitCat, NextCat, NextWindow, WindowIsProperty, PTL DEF Spec

---------------------------------------------------------------------------
(* Views that agree with the provider they are of *)

(***************************************************************************)
(* What Convergence needs of a view p has of q: while messages of q are on *)
(* their way and the latest publication was not lost, the last of them     *)
(* says what q is; and a view taken from a room is of a peer with an entry,*)
(* so that no Connected callback clears it.                                *)
(***************************************************************************)
Covered(p, q) == q \in covers[p] /\ blocked[q] = 0 /\ ~unsent[q]

LastOf(s) == s[Len(s)]

SettledAt(p, q) ==
  /\ source[p][q] = "room" => q \in cat[p].nodes
  /\ Covered(p, q) =>
       /\ gossip[q][p] = <<>> /\ source[p][q] = "room" => View(p, q) = View(q, q)
       /\ gossip[q][p] # <<>> => LastOf(gossip[q][p]) = View(q, q)

Settled == \A p, q \in Provider : p # q => SettledAt(p, q)

\* Taking a message out of a queue leaves the last one, unless it was that one.
LEMMA DropKeepsLast ==
  ASSUME NEW S, NEW s \in Seq(S), NEW i \in 1 .. Len(s)
  PROVE  /\ Len(s) = 1 => Drop(s, i) = <<>>
         /\ i # Len(s) => Drop(s, i) # <<>> /\ LastOf(Drop(s, i)) = LastOf(s)
<1>1. PICK n \in Nat : n = Len(s)
  BY LenProperties
<1>2. \A j \in 1 .. n : s[j] \in S
  BY <1>1, ElementOfSeq
<1>3. PICK u \in Seq(S) : u = SubSeq(s, 1, i - 1) /\ Len(u) = i - 1
  <2>1. 1 \in Int /\ i - 1 \in Int /\ \A j \in 1 .. i - 1 : s[j] \in S
    BY <1>1, <1>2
  <2>2. SubSeq(s, 1, i - 1) \in Seq(S) /\ Len(SubSeq(s, 1, i - 1)) = IF 1 <= i - 1 THEN i - 1 - 1 + 1 ELSE 0
    BY <2>1, SubSeqProperties
  <2>3. Len(SubSeq(s, 1, i - 1)) = i - 1
    BY <1>1, <2>2
  <2> QED BY <2>2, <2>3, Zenon
<1>4. PICK v \in Seq(S) : /\ v = SubSeq(s, i + 1, n) /\ Len(v) = n - i
                          /\ \A j \in 1 .. n - i : v[j] = s[i + j]
  <2>1. i + 1 \in Int /\ n \in Int /\ \A j \in i + 1 .. n : s[j] \in S
    BY <1>1, <1>2
  <2>2. /\ SubSeq(s, i + 1, n) \in Seq(S)
        /\ Len(SubSeq(s, i + 1, n)) = IF i + 1 <= n THEN n - (i + 1) + 1 ELSE 0
        /\ \A j \in 1 .. n - (i + 1) + 1 : SubSeq(s, i + 1, n)[j] = s[i + 1 + j - 1]
    BY <2>1, SubSeqProperties
  <2>3. Len(SubSeq(s, i + 1, n)) = n - i
    BY <1>1, <2>2
  <2>4. \A j \in 1 .. n - i : SubSeq(s, i + 1, n)[j] = s[i + j]
    BY <1>1, <2>2
  <2> QED BY <2>2, <2>3, <2>4, Zenon
<1>5. PICK d \in Seq(S) : d = u \o v /\ Len(d) = n - 1
                          /\ \A j \in 1 .. n - 1 : d[j] = IF j <= i - 1 THEN u[j] ELSE v[j - (i - 1)]
  <2>1. PICK d \in Seq(S) : /\ d = u \o v /\ Len(d) = Len(u) + Len(v)
                            /\ \A j \in 1 .. Len(u) + Len(v) :
                                 d[j] = IF j <= Len(u) THEN u[j] ELSE v[j - Len(u)]
    <3>1. /\ u \o v \in Seq(S) /\ Len(u \o v) = Len(u) + Len(v)
          /\ \A j \in 1 .. Len(u) + Len(v) :
               (u \o v)[j] = IF j <= Len(u) THEN u[j] ELSE v[j - Len(u)]
      BY ConcatProperties
    <3> QED BY <3>1, Zenon
  <2>2. Len(u) = i - 1 /\ Len(u) + Len(v) = n - 1
    <3>1. i \in Int
      OBVIOUS
    <3>2. (i - 1) + (n - i) = n - 1
      BY ONLY <1>1, <3>1
    <3> QED BY <1>3, <1>4, <3>2, Zenon
  <2> QED BY <2>1, <2>2, Zenon
<1>6. Drop(s, i) = d
  BY <1>1, <1>3, <1>4, <1>5 DEF Drop
<1>7. n = 1 => d = <<>>
  BY <1>5, EmptySeq
<1>8. ASSUME i # n
      PROVE  d # <<>> /\ d[n - 1] = s[n]
  <2>1. n - 1 \in 1 .. n - 1 /\ ~(n - 1 <= i - 1) /\ n - i \in 1 .. n - i
    BY <1>1, <1>8
  <2>2. d[n - 1] = v[(n - 1) - (i - 1)]
    BY <1>5, <2>1, Zenon
  <2>5. (n - 1) - (i - 1) = n - i
    BY <1>1
  <2>3. v[n - i] = s[n]
    BY <1>1, <1>4, <2>1
  <2>4. Len(d) # 0
    BY <1>1, <1>5, <1>8
  <2> QED BY <2>2, <2>3, <2>4, <2>5, EmptySeq, Zenon
<1> QED BY <1>1, <1>5, <1>6, <1>7, <1>8, Zenon DEF LastOf

\* A step that does not concern the view p has of q.
LEMMA SettledKept ==
  ASSUME Settled, NEW p \in Provider, NEW q \in Provider, p # q,
         source'[p][q] = source[p][q], gossip'[q][p] = gossip[q][p],
         cat[p].nodes \subseteq cat'[p].nodes,
         Covered(p, q)' => Covered(p, q), View(q, q)' = View(q, q),
         source[p][q] = "room" => View(p, q)' = View(p, q)
  PROVE  SettledAt(p, q)'
<1>1. SettledAt(p, q)
  BY Zenon DEF Settled
<1> QED BY <1>1, Zenon DEF SettledAt

\* A step that leaves the catalogs and the waiting changes alone.
LEMMA SettledQuiet ==
  ASSUME Settled, UNCHANGED <<cat, blocked, unsent, gossip, source, covers>>
  PROVE  Settled'
<1>1. ASSUME NEW p \in Provider, NEW q \in Provider, p # q
      PROVE  SettledAt(p, q)'
  BY <1>1, SettledKept, Zenon DEF Covered, View
<1> QED BY <1>1, Zenon DEF Settled

\* A change of the local cluster waits to be published, or is marked unsent.
LEMMA LocalSettled ==
  ASSUME CatInv, Settled, NEW a \in Provider,
         \/ \E f \in Function, n \in 1 .. MaxCount : AddFunc(a, f, n)
         \/ \E f \in Function, n \in Count : UpdateFunc(a, f, n)
         \/ \E f \in Function : DeleteFunction(a, f)
         \/ ListenUpdateInfo(a)
  PROVE  Settled'
<1>1. UNCHANGED <<gossip, source, covers>>
  BY Zenon DEF AddFunc, UpdateFunc, DeleteFunction, ListenUpdateInfo, wireVars
<1>2. CASE UNCHANGED <<cat, blocked, unsent>>
  BY <1>1, <1>2, SettledQuiet, Zenon
<1>3. CASE publishInfo(a)
  <2>1. Changes(a, a)
    BY LocalChanges, Zenon
  <2>2. \A r \in Provider : r # a => blocked'[r] = blocked[r] /\ unsent'[r] = unsent[r]
    BY <1>3 DEF publishInfo, CatInv, LocalType
  <2>3. blocked'[a] # 0 \/ unsent'[a] = TRUE
    BY <1>3 DEF publishInfo, CatInv, LocalType
  <2>4. ASSUME NEW p \in Provider, NEW q \in Provider, p # q
        PROVE  SettledAt(p, q)'
    <3>0. \A r \in Provider : q # a => View(r, q)' = View(r, q)
      BY SMT, <2>1, ChangesViews
    <3>1. cat[p].nodes \subseteq cat'[p].nodes
      BY <2>1, ChangesViews, Zenon
    <3>2. CASE q = a
      <4>1. ~Covered(p, q)'
        BY <2>3, <3>2, Zenon DEF Covered
      <4>2. SettledAt(p, q)
        BY <2>4, Zenon DEF Settled
      <4> QED BY <1>1, <3>1, <4>1, <4>2, Zenon DEF SettledAt
    <3>3. CASE q # a
      <4>1. View(q, q)' = View(q, q) /\ View(p, q)' = View(p, q)
        BY Zenon, <3>3, <3>0
      <4>2. Covered(p, q)' => Covered(p, q)
        BY <1>1, <2>2, <3>3, Zenon DEF Covered
      <4> QED BY <1>1, <2>4, <3>1, <4>1, <4>2, SettledKept, Zenon
    <3> QED BY <3>2, <3>3, Zenon
  <2> QED BY <2>4, Zenon DEF Settled
<1> QED BY <1>2, <1>3, LocalChanges, Zenon

\* A process that ends is covered by nobody and covers nobody; its views are
\* from no room.
LEMMA RestartSettled ==
  ASSUME CatInv, Settled, NEW a \in Provider, Restart(a)
  PROVE  Settled'
<1>1. /\ \A r \in Provider : r # a => /\ cat'[r] = cat[r] /\ source'[r] = source[r]
                                      /\ blocked'[r] = blocked[r] /\ unsent'[r] = unsent[r]
      /\ \A r \in Provider : source'[a][r] = "none"
  BY DEF Restart, CatInv, Catalogs, LocalType, WireType
<1>2. covers' = [r \in Provider |-> IF r = a THEN {} ELSE covers[r] \ {a}]
  BY Zenon DEF Restart
<1>3. \A r, s \in Provider : s # a => gossip'[r][s] = gossip[r][s]
  BY DEF Restart, CatInv, WireType
<1>4. ASSUME NEW p \in Provider, NEW q \in Provider, p # q
      PROVE  SettledAt(p, q)'
  <2>1. CASE p = a
    <3>1. source'[p][q] # "room"
      BY <1>1, <2>1
    <3>2. ~Covered(p, q)'
      BY <1>2, <2>1, Zenon DEF Covered
    <3> QED BY <3>1, <3>2, Zenon DEF SettledAt
  <2>2. CASE q = a
    <3>1. ~Covered(p, q)'
      BY <1>2, <1>4, <2>2, Zenon DEF Covered
    <3>2. SettledAt(p, q) /\ cat'[p] = cat[p] /\ source'[p] = source[p]
      BY <1>1, <1>4, <2>2, Zenon DEF Settled
    <3> QED BY <3>1, <3>2, Zenon DEF SettledAt
  <2>3. CASE p # a /\ q # a
    <3>1. Covered(p, q)' => Covered(p, q)
      BY <1>1, <1>2, <2>3, Zenon DEF Covered
    <3>2. View(q, q)' = View(q, q) /\ View(p, q)' = View(p, q)
      BY <1>1, <2>3, Zenon DEF View
    <3>3. /\ cat[p].nodes \subseteq cat'[p].nodes /\ source'[p][q] = source[p][q]
          /\ gossip'[q][p] = gossip[q][p]
      BY <1>1, <1>3, <2>3, Zenon
    <3> QED BY <1>4, <3>1, <3>2, <3>3, SettledKept, Zenon
  <2> QED BY <2>1, <2>2, <2>3, Zenon
<1> QED BY <1>4, Zenon DEF Settled

\* A publication is the last message of everyone it is sent to, and covers
\* nobody else; one that fails leaves the change unsent.
LEMMA PublishLoopSettled ==
  ASSUME CatInv, Settled, NEW a \in Provider, publishLoop(a)
  PROVE  Settled'
<1>1. UNCHANGED <<cat, source>>
  BY Zenon DEF publishLoop
<1>2. \A r \in Provider : r # a => blocked'[r] = blocked[r]
  BY DEF publishLoop, CatInv, LocalType
<1>3. CASE unsent' = [unsent EXCEPT ![a] = TRUE] /\ UNCHANGED <<gossip, covers>>
  <2>1. unsent'[a] /\ \A r \in Provider : r # a => unsent'[r] = unsent[r]
    BY <1>3 DEF CatInv, LocalType
  <2>2. ASSUME NEW p \in Provider, NEW q \in Provider, p # q
        PROVE  SettledAt(p, q)'
    <3>1. Covered(p, q)' => Covered(p, q)
      BY <1>2, <1>3, <2>1, ZenonT(30) DEF Covered
    <3> QED BY <1>1, <1>3, <2>2, <3>1, SettledKept, Zenon DEF View
  <2> QED BY <2>2, Zenon DEF Settled
<1>4. CASE /\ gossip' = [gossip EXCEPT ![a] = [q \in Provider |->
                IF q \in Receivers(a)
                THEN Append(gossip[a][q], packNodeInfoMsg(cat[a], a))
                ELSE gossip[a][q]]]
           /\ covers' = [q \in Provider |->
                IF q \in Receivers(a) THEN covers[q] \cup {a} ELSE covers[q] \ {a}]
           /\ unsent' = [unsent EXCEPT ![a] = FALSE]
  <2>1. \A r \in Provider : r # a => unsent'[r] = unsent[r]
    BY <1>4 DEF CatInv, LocalType
  <2>2. \A r, s \in Provider : r # a => gossip'[r][s] = gossip[r][s]
    BY <1>4 DEF CatInv, WireType
  <2>3. \A s \in Receivers(a) : gossip'[a][s] = Append(gossip[a][s], View(a, a))
    <3>1. gossip \in [Provider -> [Provider -> Seq(NodeInfoMsg)]]
      BY Zenon DEF CatInv, WireType
    <3>2. gossip'[a] = [q \in Provider |->
                IF q \in Receivers(a)
                THEN Append(gossip[a][q], packNodeInfoMsg(cat[a], a))
                ELSE gossip[a][q]]
      BY <1>4, <3>1, Zenon
    <3> QED BY <3>2, Zenon DEF Receivers, View
  <2>4. ASSUME NEW p \in Provider, NEW q \in Provider, p # q
        PROVE  SettledAt(p, q)'
    <3>1. CASE q # a
      <4>1. Covered(p, q)' => Covered(p, q)
        BY <1>2, <1>4, <2>1, <3>1, Zenon DEF Covered
      <4> QED BY <1>1, <2>2, <2>4, <3>1, <4>1, SettledKept, Zenon DEF View
    <3>2. CASE q = a /\ p \notin Receivers(a)
      <4>1. ~Covered(p, q)'
        BY <1>4, <3>2, Zenon DEF Covered
      <4>2. SettledAt(p, q)
        BY <2>4, Zenon DEF Settled
      <4> QED BY <1>1, <4>1, <4>2, Zenon DEF SettledAt
    <3>3. CASE q = a /\ p \in Receivers(a)
      <4>1. PICK s \in Seq(NodeInfoMsg) : s = gossip[a][p]
        BY DEF CatInv, WireType
      <4>2. PICK m \in NodeInfoMsg : m = View(a, a)
        BY CatFacts, Zenon DEF View
      <4>3. Append(s, m) # <<>> /\ LastOf(Append(s, m)) = m
        BY AppendProperties DEF LastOf
      <4>4. gossip'[q][p] # <<>> /\ LastOf(gossip'[q][p]) = View(q, q)'
        BY <1>1, <2>3, <3>3, <4>1, <4>2, <4>3, Zenon DEF View
      <4>5. SettledAt(p, q)
        BY <2>4, Zenon DEF Settled
      <4> QED BY <1>1, <4>4, <4>5, Zenon DEF SettledAt
    <3> QED BY <3>1, <3>2, <3>3, Zenon
  <2> QED BY <2>4, Zenon DEF Settled
<1> QED BY <1>3, <1>4, Zenon DEF publishLoop

\* The callback of a link makes an entry for a peer that has none, and of such
\* a peer no view was taken from a room.
LEMMA ConnectedSettled ==
  ASSUME CatInv, Settled, NEW a \in Provider, NEW b \in Provider, a # b, Connected(a, b)
  PROVE  Settled'
<1>1. UNCHANGED <<blocked, unsent, gossip, source, covers>>
  BY Zenon DEF Connected, wireVars
<1>2. Changes(a, b)
  BY MessageChanges, Zenon
<1>5. /\ \A p, q \in Provider : p # a => View(p, q)' = View(p, q)
      /\ \A p, q \in Provider : q # b => View(p, q)' = View(p, q)
  BY <1>2, ChangesViews, Zenon
<1>3. b \in cat[a].nodes => cat' = cat
  <2>1. cat' = [cat EXCEPT ![a] = NewNodeCatalogEntry(cat[a], b)]
    BY Zenon DEF Connected
  <2>2. b \in cat[a].nodes => NewNodeCatalogEntry(cat[a], b) = cat[a]
    BY Zenon DEF NewNodeCatalogEntry
  <2>3. cat \in [Provider -> CatalogType]
    BY Zenon DEF CatInv, Catalogs
  <2> QED BY ONLY <2>1, <2>2, <2>3
<1>4. ASSUME NEW p \in Provider, NEW q \in Provider, p # q
      PROVE  SettledAt(p, q)'
  <2>1. cat[p].nodes \subseteq cat'[p].nodes
    BY <1>2, ChangesViews, Zenon
  <2>2. View(q, q)' = View(q, q)
    <3>1. q # a \/ q # b
      BY Zenon
    <3> QED BY <1>5, <3>1, Zenon
  <2>3. source[p][q] = "room" => View(p, q)' = View(p, q)
    <3>1. CASE p # a
      BY <1>5, <3>1, Zenon
    <3>2. CASE q # b
      BY <1>5, <3>2, Zenon
    <3>3. CASE p = a /\ q = b
      <4>1. source[p][q] = "room" => q \in cat[p].nodes
        BY <1>4, Zenon DEF Settled, SettledAt
      <4> QED BY <1>3, <3>3, <4>1, Zenon DEF View
    <3> QED BY <3>1, <3>2, <3>3, Zenon
  <2>4. Covered(p, q)' => Covered(p, q)
    BY <1>1, Zenon DEF Covered
  <2> QED BY <1>1, <1>4, <2>1, <2>2, <2>3, <2>4, SettledKept, Zenon
<1> QED BY <1>4, Zenon DEF Settled

\* A broken link loses the messages of a peer and its cover together.
LEMMA DisconnectedSettled ==
  ASSUME Settled, NEW a \in Provider, NEW b \in Provider, Disconnected(a, b)
  PROVE  Settled'
<1>1. UNCHANGED <<cat, blocked, unsent, source>>
  BY Zenon DEF Disconnected, catVars
<1>2. PICK lost :
        /\ gossip' = [r \in Provider |-> [s \in Provider |->
                       IF <<r, s>> \in lost THEN <<>> ELSE gossip[r][s]]]
        /\ covers' = [s \in Provider |-> {r \in covers[s] : <<r, s>> \notin lost}]
  BY Zenon DEF Disconnected
<1>3. ASSUME NEW p \in Provider, NEW q \in Provider, p # q
      PROVE  SettledAt(p, q)'
  <2>1. CASE <<q, p>> \in lost
    <3>1. ~Covered(p, q)'
      BY <1>2, <2>1, Zenon DEF Covered
    <3>2. SettledAt(p, q)
      BY <1>3, Zenon DEF Settled
    <3> QED BY <1>1, <3>1, <3>2, Zenon DEF SettledAt
  <2>2. CASE <<q, p>> \notin lost
    <3>1. gossip'[q][p] = gossip[q][p]
      BY <1>2, <2>2, Zenon
    <3>2. Covered(p, q)' => Covered(p, q)
      BY <1>1, <1>2, Zenon DEF Covered
    <3> QED BY <1>1, <1>3, <3>1, <3>2, SettledKept, Zenon DEF View
  <2> QED BY <2>1, <2>2, Zenon
<1> QED BY <1>3, Zenon DEF Settled

\* What is on its way from b to a is s after the step.
QueueBecomes(a, b, s) == gossip' = [gossip EXCEPT ![b][a] = s]

\* No other queue changes.
LEMMA OtherQueues ==
  ASSUME CatInv, NEW a \in Provider, NEW b \in Provider, NEW s, QueueBecomes(a, b, s)
  PROVE  /\ gossip'[b][a] = s
         /\ \A p, q \in Provider : p # a => gossip'[q][p] = gossip[q][p]
         /\ \A p, q \in Provider : q # b => gossip'[q][p] = gossip[q][p]
<1>1. gossip \in [Provider -> [Provider -> Seq(NodeInfoMsg)]]
  BY Zenon DEF CatInv, WireType
<1>2. gossip' = [gossip EXCEPT ![b] = [gossip[b] EXCEPT ![a] = s]]
  BY Zenon DEF QueueBecomes
<1>3. gossip'[b] = [gossip[b] EXCEPT ![a] = s] /\ \A q \in Provider : q # b => gossip'[q] = gossip[q]
  BY <1>1, <1>2, Zenon
<1>4. gossip[b] \in [Provider -> Seq(NodeInfoMsg)]
  BY <1>1, Zenon
<1>5. gossip'[b][a] = s /\ \A p \in Provider : p # a => gossip'[b][p] = gossip[b][p]
  BY <1>3, <1>4, Zenon
<1> QED BY <1>3, <1>5, Zenon

\* A lost message is not the last one, or the receiver is covered no more.
LEMMA LoseMessageSettled ==
  ASSUME CatInv, Settled, NEW a \in Provider, NEW b \in Provider, LoseMessage(a, b)
  PROVE  Settled'
<1>1. UNCHANGED <<cat, blocked, unsent, source>>
  BY Zenon DEF LoseMessage, catVars
<1>2. PICK s \in Seq(NodeInfoMsg) : s = gossip[b][a]
  BY DEF CatInv, WireType
<1>3. PICK i \in 1 .. Len(s) :
        /\ gossip' = [gossip EXCEPT ![b][a] = Drop(s, i)]
        /\ covers' = [covers EXCEPT ![a] = IF i = Len(s) THEN @ \ {b} ELSE @]
  BY <1>2, Zenon DEF LoseMessage
<1>4. covers \in [Provider -> SUBSET Provider]
  BY Zenon DEF CatInv, WireType
<1>5. covers'[a] = IF i = Len(s) THEN covers[a] \ {b} ELSE covers[a]
  BY <1>3, <1>4, Zenon
<1>6. \A p \in Provider : covers'[p] \subseteq covers[p]
  <2>1. \A p \in Provider : p # a => covers'[p] = covers[p]
    BY <1>3, <1>4, Zenon
  <2> QED BY <1>5, <2>1, Zenon
<1>8. /\ gossip'[b][a] = Drop(s, i)
      /\ \A p, q \in Provider : p # a => gossip'[q][p] = gossip[q][p]
      /\ \A p, q \in Provider : q # b => gossip'[q][p] = gossip[q][p]
  <2>1. PICK d : d = Drop(s, i)
    BY Zenon
  <2>2. QueueBecomes(a, b, d)
    BY <1>3, <2>1, Zenon DEF QueueBecomes
  <2> QED BY <2>1, <2>2, OtherQueues, Zenon
<1>7. ASSUME NEW p \in Provider, NEW q \in Provider, p # q
      PROVE  SettledAt(p, q)'
  <2>1. Covered(p, q)' => Covered(p, q)
    BY <1>1, <1>6, Zenon DEF Covered
  <2>2. CASE p # a \/ q # b
    <3>1. gossip'[q][p] = gossip[q][p]
      BY <1>8, <2>2, Zenon
    <3> QED BY <1>1, <1>7, <2>1, <3>1, SettledKept, Zenon DEF View
  <2>4. CASE p = a /\ q = b
    <3>1. SettledAt(p, q)
      BY <1>7, Zenon DEF Settled
    <3>2. gossip'[q][p] = Drop(s, i)
      BY <1>8, <2>4, Zenon
    <3>3. CASE i = Len(s)
      <4>1. ~Covered(p, q)'
        BY <1>5, <2>4, <3>3, Zenon DEF Covered
      <4> QED BY <1>1, <3>1, <4>1, Zenon DEF SettledAt
    <3>4. CASE i # Len(s)
      <4>1. Drop(s, i) # <<>> /\ LastOf(Drop(s, i)) = LastOf(s)
        BY <3>4, DropKeepsLast, Zenon
      <4>2. s # <<>>
        BY <1>3, EmptySeq
      <4>3. Covered(p, q) => LastOf(s) = View(q, q)
        BY <1>2, <2>4, <3>1, <4>2, Zenon DEF SettledAt
      <4> QED BY <1>1, <2>1, <3>1, <3>2, <4>1, <4>3, Zenon DEF SettledAt, View
    <3> QED BY <3>3, <3>4, Zenon
  <2> QED BY <2>2, <2>4, Zenon
<1> QED BY <1>7, Zenon DEF Settled

\* Of a room that keeps the order, the receiver takes the oldest message: the
\* last one is still to come, or it is the one that was taken.
LEMMA SubscribeLoopSettled ==
  ASSUME CatInv, Settled, Ordered,
         NEW a \in Provider, NEW b \in Provider, a # b, subscribeLoop(a, b)
  PROVE  Settled'
<1>1. UNCHANGED <<blocked, unsent, covers>> /\ b \in cat[a].nodes
  BY Zenon DEF subscribeLoop
<1>2. PICK s \in Seq(NodeInfoMsg) : s = gossip[b][a]
  BY DEF CatInv, WireType
<1>3. 1 \in 1 .. Len(s) /\ /\ gossip' = [gossip EXCEPT ![b][a] = Drop(s, 1)]
                           /\ cat' = [cat EXCEPT ![a] = unpackNodeInfoMsg(cat[a], s[1], b)]
  <2>1. PICK i \in Deliverable(b, a) :
          /\ gossip' = [gossip EXCEPT ![b][a] = Drop(s, i)]
          /\ cat' = [cat EXCEPT ![a] = unpackNodeInfoMsg(cat[a], s[i], b)]
    BY <1>2, Zenon DEF subscribeLoop
  <2>2. i = 1 /\ 1 \in 1 .. Len(s)
    BY <1>2, <2>1, Zenon DEF Deliverable
  <2> QED BY <2>1, <2>2, Zenon
<1>4. /\ gossip'[b][a] = Drop(s, 1)
      /\ \A p, q \in Provider : p # a => gossip'[q][p] = gossip[q][p]
      /\ \A p, q \in Provider : q # b => gossip'[q][p] = gossip[q][p]
  <2>1. PICK d : d = Drop(s, 1)
    BY Zenon
  <2>2. QueueBecomes(a, b, d)
    BY <1>3, <2>1, Zenon DEF QueueBecomes
  <2> QED BY <2>1, <2>2, OtherQueues, Zenon
<1>5. /\ \A p \in Provider : cat[p].nodes \subseteq cat'[p].nodes
      /\ \A p, q \in Provider : p # a => View(p, q)' = View(p, q)
      /\ \A p, q \in Provider : q # b => View(p, q)' = View(p, q)
  BY MessageChanges, ChangesViews, Zenon
<1>6. View(a, b)' = s[1]
  <2>1. PICK m \in NodeInfoMsg : m = s[1]
    BY <1>3, ElementOfSeq, Zenon
  <2>2. PICK c \in CatalogType : c = cat[a]
    BY CatFacts, Zenon
  <2>3. PICK d : d = unpackNodeInfoMsg(c, m, b)
    BY Zenon
  <2>4. packNodeInfoMsg(d, b) = m
    BY <2>3, UnpackedEntry, Zenon
  <2>5. cat'[a] = d
    BY <1>3, <2>1, <2>2, <2>3, ZenonT(30) DEF CatInv, Catalogs
  <2> QED BY <2>1, <2>4, <2>5, Zenon DEF View
<1>7. \A p, q \in Provider : (p # a => source'[p][q] = source[p][q])
                             /\ (q # b => source'[p][q] = source[p][q])
  BY DEF subscribeLoop, CatInv, WireType
<1>8. ASSUME NEW p \in Provider, NEW q \in Provider, p # q
      PROVE  SettledAt(p, q)'
  <2>1. Covered(p, q)' => Covered(p, q)
    BY <1>1, Zenon DEF Covered
  <2>2. View(q, q)' = View(q, q)
    <3>1. q # a \/ q # b
      BY Zenon
    <3> QED BY <1>5, <3>1, Zenon
  <2>3. cat[p].nodes \subseteq cat'[p].nodes
    BY <1>5, Zenon
  <2>4. CASE p # a \/ q # b
    <3>1. gossip'[q][p] = gossip[q][p]
      BY <1>4, <2>4, Zenon
    <3>2. View(p, q)' = View(p, q)
      BY <1>5, <2>4, Zenon
    <3>3. source'[p][q] = source[p][q]
      BY <1>7, <2>4, Zenon
    <3> QED BY <1>8, <2>1, <2>2, <2>3, <3>1, <3>2, <3>3, SettledKept, Zenon
  <2>5. CASE p = a /\ q = b
    <3>1. Covered(p, q) => LastOf(s) = View(q, q)
      <4>1. s # <<>>
        BY <1>3, EmptySeq
      <4> QED BY <1>2, <1>8, <2>5, <4>1, Zenon DEF Settled, SettledAt
    <3>2. q \in cat'[p].nodes
      BY <1>1, <2>3, <2>5, Zenon
    <3>3. CASE Len(s) = 1
      <4>1. gossip'[q][p] = <<>>
        BY <1>3, <1>4, <2>5, <3>3, DropKeepsLast, Zenon
      <4>2. LastOf(s) = View(p, q)'
        BY <1>6, <2>5, <3>3, Zenon DEF LastOf
      <4> QED BY <2>1, <2>2, <3>1, <3>2, <4>1, <4>2, Zenon DEF SettledAt
    <3>4. CASE Len(s) # 1
      <4>1. gossip'[q][p] # <<>> /\ LastOf(gossip'[q][p]) = LastOf(s)
        <5>1. 1 # Len(s)
          BY <3>4, Zenon
        <5>2. Drop(s, 1) # <<>> /\ LastOf(Drop(s, 1)) = LastOf(s)
          BY <1>3, <5>1, DropKeepsLast, Zenon
        <5> QED BY <1>4, <2>5, <5>2, Zenon
      <4> QED BY <2>1, <2>2, <3>1, <3>2, <4>1, Zenon DEF SettledAt
    <3> QED BY <3>3, <3>4, Zenon
  <2> QED BY <2>4, <2>5, Zenon
<1> QED BY <1>8, Zenon DEF Settled

\* What comes over a stream is not from a room.
LEMMA StreamSettled ==
  ASSUME CatInv, Settled, NEW a \in Provider, NEW b \in Provider, a # b,
         streamAvailableFunctions(a, b)
  PROVE  Settled'
<1>1. UNCHANGED <<blocked, unsent, covers, gossip>>
  BY Zenon DEF streamAvailableFunctions
<1>2. /\ \A p \in Provider : cat[p].nodes \subseteq cat'[p].nodes
      /\ \A p, q \in Provider : p # a => View(p, q)' = View(p, q)
      /\ \A p, q \in Provider : q # b => View(p, q)' = View(p, q)
  BY MessageChanges, ChangesViews, Zenon
<1>3. /\ source'[a][b] = "stream"
      /\ \A p, q \in Provider : (p # a => source'[p][q] = source[p][q])
                                /\ (q # b => source'[p][q] = source[p][q])
  BY Zenon DEF streamAvailableFunctions, CatInv, WireType
<1>4. ASSUME NEW p \in Provider, NEW q \in Provider, p # q
      PROVE  SettledAt(p, q)'
  <2>1. Covered(p, q)' => Covered(p, q)
    BY <1>1, Zenon DEF Covered
  <2>2. View(q, q)' = View(q, q)
    <3>1. q # a \/ q # b
      BY Zenon
    <3> QED BY <1>2, <3>1, Zenon
  <2>3. cat[p].nodes \subseteq cat'[p].nodes
    BY <1>2, Zenon
  <2>4. CASE p # a \/ q # b
    <3>1. View(p, q)' = View(p, q) /\ source'[p][q] = source[p][q]
      BY <1>2, <1>3, <2>4, Zenon
    <3> QED BY <1>1, <1>4, <2>1, <2>2, <2>3, <3>1, SettledKept, Zenon
  <2>5. CASE p = a /\ q = b
    <3>1. source'[p][q] # "room"
      BY <1>3, <2>5
    <3>2. SettledAt(p, q)
      BY <1>4, Zenon DEF Settled
    <3> QED BY <1>1, <2>1, <2>2, <3>1, <3>2, ZenonT(30) DEF SettledAt
  <2> QED BY <2>4, <2>5, Zenon
<1> QED BY <1>4, Zenon DEF Settled

\* Every step keeps the views settled, in rooms that keep the order.
LEMMA NextSettled == Ordered /\ CatInv /\ Settled /\ [Next]_vars => Settled'
<1> SUFFICES ASSUME Ordered, CatInv, Settled, [Next]_vars PROVE Settled'
  OBVIOUS
<1>1. ASSUME NEW p \in Provider, LocalStep(p)
      PROVE  Settled'
  <2>1. CASE \/ \E f \in Function, n \in 1 .. MaxCount : AddFunc(p, f, n)
             \/ \E f \in Function, n \in Count : UpdateFunc(p, f, n)
             \/ \E f \in Function : DeleteFunction(p, f)
             \/ ListenUpdateInfo(p)
    BY <2>1, LocalSettled, Zenon
  <2>2. CASE InitInfoNetwork(p)
    BY <2>2, SettledQuiet, Zenon DEF InitInfoNetwork, wireVars
  <2> QED BY <1>1, <2>1, <2>2, PublishLoopSettled, RestartSettled, Zenon DEF LocalStep
<1>2. ASSUME NEW pq \in Pair, PeerStep(pq[1], pq[2])
      PROVE  Settled'
  <2>1. PICK p \in Provider, q \in Provider : p = pq[1] /\ q = pq[2] /\ p # q
    BY DEF Pair
  <2>2. PeerStep(p, q)
    BY <1>2, <2>1, Zenon
  <2>3. CASE \/ Connect(p, q) \/ ConnectFails(p, q) \/ subscribeInfoRoom(p, q)
             \/ NewStream(p, q)
    <3>1. UNCHANGED <<cat, blocked, unsent, gossip, source, covers>>
      BY <2>3, Zenon DEF Connect, ConnectFails, subscribeInfoRoom, NewStream, catVars, wireVars
    <3> QED BY <3>1, SettledQuiet, Zenon
  <2>4. CASE Restart(p)
    BY <2>4, RestartSettled, Zenon
  <2>5. CASE Connected(p, q) \/ Disconnected(p, q) \/ LoseMessage(p, q)
    BY <2>1, <2>5, ConnectedSettled, DisconnectedSettled, LoseMessageSettled, Zenon
  <2>6. CASE subscribeLoop(p, q) \/ streamAvailableFunctions(p, q)
    BY <2>1, <2>6, SubscribeLoopSettled, StreamSettled, Zenon
  <2> QED BY <2>2, <2>3, <2>4, <2>5, <2>6, Zenon
          DEF PeerStep, NewStreamFails, subscribeLoopCrash, streamBreaks
<1>3. CASE UNCHANGED vars
  <2>1. UNCHANGED <<cat, blocked, unsent, gossip, source, covers>>
    BY <1>3, Zenon DEF vars, catVars, wireVars
  <2> QED BY <2>1, SettledQuiet, Zenon
<1> QED BY <1>1, <1>2, <1>3, Zenon DEF Next

\* With rooms that keep the order (info_room.go:79, subscribeLoop), a provider
\* sees a peer exactly as the peer is once its latest publication has arrived,
\* for any number of providers, messages on their way, losses, broken links and
\* restarts.
THEOREM ViewsConverge == Ordered => (Spec => []Convergence)
<1> SUFFICES ASSUME Ordered
             PROVE  Spec => []Convergence
  BY SMTT(30), Zenon
<1>1. Init => Settled
  <2> SUFFICES ASSUME Init, NEW p \in Provider, NEW q \in Provider
               PROVE  SettledAt(p, q)
    BY Zenon DEF Settled
  <2>1. source[p][q] = "none" /\ covers[p] = {}
    BY Zenon DEF Init
  <2> QED BY <2>1 DEF SettledAt, Covered
<1>2. CatInv /\ Settled /\ [Next]_vars => Settled'
  BY NextSettled
<1>3. Settled => Convergence
  <2> SUFFICES ASSUME Settled, NEW pq \in Pair,
                      pq[2] \in covers[pq[1]] /\ gossip[pq[2]][pq[1]] = <<>>,
                      source[pq[1]][pq[2]] = "room" /\ blocked[pq[2]] = 0 /\ ~unsent[pq[2]]
               PROVE  View(pq[1], pq[2]) = Info(pq[2])
    BY Zenon DEF Convergence
  <2>1. PICK p \in Provider, q \in Provider : p = pq[1] /\ q = pq[2] /\ p # q
    BY DEF Pair
  <2>2. View(p, q) = View(q, q)
    BY <2>1, Zenon DEF Settled, SettledAt, Covered
  <2> QED BY <2>1, <2>2, Zenon DEF View, Info
<1> QED BY <1>1, <1>2, <1>3, InitCat, NextCat, PTL DEF Spec
=============================================================================
