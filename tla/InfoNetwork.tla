---------------------------- MODULE InfoNetwork ----------------------------
(***************************************************************************)
(* The info network: providers that keep a Catalog each, find each other,  *)
(* tell a new peer what they run over a stream, and publish every change   *)
(* to the pubsub room that bears their own name (pkg/catalog/p2p.go,       *)
(* discovery.go, info_room.go, informers.go; main.go).                     *)
(*                                                                         *)
(* A step is a whole handler, callback or loop iteration.  What happens    *)
(* when two of them overlap inside one process is the subject of           *)
(* CatalogThreads.  libp2p and gossipsub are external: links come and go,  *)
(* a room delivers to the subscribers linked to its owner.                 *)
(***************************************************************************)
EXTENDS Catalog, Sequences

CONSTANTS
  Boots,        \* the Deployments a provider may find in its cluster at start
  MaxRetries,   \* maxRetriesConnection
  Ordered,      \* TRUE: a room delivers in the order of publication
  MaxQueue,     \* bound on the undelivered messages of one receiver
  MaxChanges,   \* bound on the changes of the local clusters
  MaxLosses,    \* bound on the publications and deliveries that fail
  MaxRestarts,  \* bound on the processes that end and are started again
  MaxCuts       \* bound on the links that break by themselves

\* The replicas that are available and the ones the Deployment asks for.
BootType ==
  [listed : [Function -> Count \cup {Absent}], asked : [Function -> Count]]

ASSUME NetworkAssumption ==
  /\ Boots \subseteq BootType
  /\ MaxRetries \in Nat \ {0} /\ MaxQueue \in Nat \ {0}
  /\ Ordered \in BOOLEAN
  /\ MaxChanges \in Nat /\ MaxLosses \in Nat /\ MaxRestarts \in Nat /\ MaxCuts \in Nat

VARIABLES
  cat,      \* the catalog of every provider
  phase,    \* "listening" until InitInfoNetwork has set infoChan, then "up"
  stuck,    \* the informer's listener hangs in publishInfo on a nil channel
  blocked,  \* goroutines waiting in publishInfo for publishLoop
  links,    \* the libp2p connections
  fresh,    \* peers whose Connected callback has not run yet
  hello,    \* peers the goroutine of Connected still has to write to
  seeking,  \* peers HandlePeerFound is working on
  dialed,   \* those whose Connect established the link itself
  tries,    \* failed attempts of HandlePeerFound
  rooms,    \* the rooms subscribed to
  gossip,   \* gossip[q][p]: messages of q's room on their way to p
  streams   \* streams[q][p]: initial messages of q on their way to p

VARIABLES   \* history, read by the properties only
  unsent,   \* a change that nobody published and nobody waits to publish
  covers,   \* covers[p]: the peers whose latest publication was sent to p
            \* and was not lost
  source,   \* source[p][q]: what p's view of q was last taken from
  unnoticed,\* links accepted before the Connected callback was registered
  used      \* how much of the bounds above is used up

catVars == <<cat, phase, stuck, blocked, unsent>>
linkVars == <<links, fresh, hello, seeking, dialed, tries, rooms, unnoticed>>
wireVars == <<gossip, streams, covers, source>>
vars == <<catVars, linkVars, wireVars, used>>

Bound == {"changes", "losses", "restarts", "cuts"}

Pair == {pq \in Provider \X Provider : pq[1] # pq[2]}

Linked(p, q) == {p, q} \in links

Within(bound, limit) ==
  /\ used[bound] < limit
  /\ used' = [used EXCEPT ![bound] = @ + 1]

Drop(seq, i) == SubSeq(seq, 1, i - 1) \o SubSeq(seq, i + 1, Len(seq))

---------------------------------------------------------------------------
(* Changes of the local cluster, each followed by publishInfo *)

\* infoChan <- info: the sender waits for publishLoop, or for ever when the
\* channel is still nil.
publishInfo(p) ==
  IF phase[p] = "up"
  THEN blocked' = [blocked EXCEPT ![p] = @ + 1] /\ UNCHANGED unsent
  ELSE unsent' = [unsent EXCEPT ![p] = TRUE] /\ UNCHANGED blocked

\* AddFunc: the deployment became ready.
AddFunc(p, f, n) ==
  /\ Within("changes", MaxChanges)
  /\ cat' = [cat EXCEPT ![p] = AddAvailableFunctions(@, p, f, n)]
  /\ publishInfo(p)
  /\ UNCHANGED <<phase, stuck, linkVars, wireVars>>

\* UpdateFunc: runs on the informer's listener itself, and only looks at
\* functions the provider has replicas of.
UpdateFunc(p, f, n) ==
  /\ Within("changes", MaxChanges)
  /\ ~stuck[p]
  /\ cat[p].available[p][f] > 0
  /\ n # cat[p].available[p][f]
  /\ cat' = [cat EXCEPT ![p] = UpdateAvailableFunctions(@, p, f, n)]
  /\ publishInfo(p)
  /\ stuck' = [stuck EXCEPT ![p] = phase[p] # "up"]
  /\ UNCHANGED <<phase, linkVars, wireVars>>

\* DELETE /system/functions: served once the provider is up.  A function that
\* is not in FunctionCatalog makes the handler panic before it publishes.
DeleteFunction(p, f) ==
  /\ Within("changes", MaxChanges)
  /\ phase[p] = "up"
  /\ IF cat[p].functionCatalog[f] = Absent
     THEN /\ cat' = [cat EXCEPT ![p] = deleteAvailableFunctions(@, p, f)]
          /\ UNCHANGED <<blocked, unsent>>
     ELSE /\ cat' = [cat EXCEPT ![p] = DeleteAvailableFunctions(@, p, f)]
          /\ publishInfo(p)
  /\ UNCHANGED <<phase, stuck, linkVars, wireVars>>

\* ListenUpdateInfo, when updatePressure finds the other side of a threshold.
ListenUpdateInfo(p) ==
  /\ Within("changes", MaxChanges)
  /\ phase[p] = "up"
  /\ cat' = [cat EXCEPT ![p].overload[p] = ~ @]
  /\ publishInfo(p)
  /\ UNCHANGED <<phase, stuck, linkVars, wireVars>>

---------------------------------------------------------------------------
(* The end of a process and the start of the next one *)

\* runController up to InitInfoNetwork: the host listens, the stream handler
\* is set, nothing is connected.
Restart(p) ==
  /\ Within("restarts", MaxRestarts)
  /\ \E boot \in Boots :
       cat' = [cat EXCEPT ![p] = initSelfCatagory(p, boot.listed, boot.asked)]
  /\ phase' = [phase EXCEPT ![p] = "listening"]
  /\ stuck' = [stuck EXCEPT ![p] = FALSE]
  /\ blocked' = [blocked EXCEPT ![p] = 0]
  /\ unsent' = [unsent EXCEPT ![p] = FALSE]
  /\ links' = {l \in links : p \notin l}
  /\ fresh' = [fresh EXCEPT ![p] = {}]
  /\ hello' = [hello EXCEPT ![p] = {}]
  /\ seeking' = [seeking EXCEPT ![p] = {}]
  /\ dialed' = [dialed EXCEPT ![p] = {}]
  /\ tries' = [tries EXCEPT ![p] = [q \in Provider |-> 0]]
  /\ rooms' = [rooms EXCEPT ![p] = {}]
  /\ unnoticed' = [unnoticed EXCEPT ![p] = {}]
  /\ gossip' = [q \in Provider |-> [gossip[q] EXCEPT ![p] = <<>>]]
  /\ streams' = [q \in Provider |-> [streams[q] EXCEPT ![p] = <<>>]]
  /\ covers' = [q \in Provider |-> IF q = p THEN {} ELSE covers[q] \ {p}]
  /\ source' = [source EXCEPT ![p] = [q \in Provider |-> "none"]]

\* setupDiscovery and the rest of InitInfoNetwork: peers that are in the
\* catalog already are not sought, and so their rooms are never joined.
InitInfoNetwork(p) ==
  /\ phase[p] = "listening"
  /\ phase' = [phase EXCEPT ![p] = "up"]
  /\ seeking' = [seeking EXCEPT ![p] = Provider \ cat[p].nodes]
  /\ UNCHANGED <<cat, stuck, blocked, unsent, links, fresh, hello, dialed,
                 tries, rooms, unnoticed, wireVars, used>>

---------------------------------------------------------------------------
(* Discovery: links, Connected, HandlePeerFound *)

\* Only a process that has registered its faasNotifiee hears of the link.
LinkUp(p, q) ==
  /\ links' = links \cup {{p, q}}
  /\ fresh' = [r \in Provider |->
                 fresh[r] \cup {s \in {p, q} \ {r} :
                                  r \in {p, q} /\ phase[r] = "up"}]
  /\ unnoticed' = [r \in Provider |->
                 unnoticed[r] \cup {s \in {p, q} \ {r} :
                                  r \in {p, q} /\ phase[r] # "up"}]

\* HandlePeerFound: Connect opens a link.
Connect(p, q) ==
  /\ q \in seeking[p] \ dialed[p]
  /\ ~Linked(p, q)
  /\ LinkUp(p, q)
  /\ dialed' = [dialed EXCEPT ![p] = @ \cup {q}]
  /\ UNCHANGED <<catVars, hello, seeking, tries, rooms, wireVars, used>>

\* Mutant: one attempt too many.
ConnectFailsLate(p, q) ==
  /\ q \in seeking[p] \ dialed[p]
  /\ ~Linked(p, q)
  /\ tries' = [tries EXCEPT ![p][q] = @ + 1]
  /\ seeking' = [seeking EXCEPT ![p] =
                   IF tries'[p][q] > MaxRetries THEN @ \ {q} ELSE @]
  /\ UNCHANGED <<catVars, links, fresh, hello, dialed, rooms, unnoticed,
                 wireVars, used>>

\* HandlePeerFound: Connect fails; the loop gives up after the last attempt.
ConnectFails(p, q) ==
  /\ q \in seeking[p] \ dialed[p]
  /\ ~Linked(p, q)
  /\ tries' = [tries EXCEPT ![p][q] = @ + 1]
  /\ seeking' = [seeking EXCEPT ![p] =
                   IF tries'[p][q] = MaxRetries THEN @ \ {q} ELSE @]
  /\ UNCHANGED <<catVars, links, fresh, hello, dialed, rooms, unnoticed,
                 wireVars, used>>

\* Mutant: the room is joined while the callback of the link still runs.
subscribeInfoRoomEarly(p, q) ==
  /\ q \in seeking[p]
  /\ Linked(p, q)
  /\ rooms' = [rooms EXCEPT ![p] = @ \cup {q}]
  /\ seeking' = [seeking EXCEPT ![p] = @ \ {q}]
  /\ UNCHANGED <<catVars, links, fresh, hello, dialed, tries, unnoticed,
                 wireVars, used>>

hasSubscribed(p, q) == q \in rooms[p]

\* HandlePeerFound: Connect returned nil, after the callbacks of the link it
\* opened or at once when a link was there; the room is joined, if it was not,
\* and HandlePeerFound returns.
subscribeInfoRoom(p, q) ==
  /\ q \in seeking[p]
  /\ IF q \in dialed[p] THEN q \notin fresh[p] ELSE Linked(p, q)
  /\ rooms' = IF hasSubscribed(p, q) THEN rooms ELSE [rooms EXCEPT ![p] = @ \cup {q}]
  /\ seeking' = [seeking EXCEPT ![p] = @ \ {q}]
  /\ UNCHANGED <<catVars, links, fresh, hello, dialed, tries, unnoticed,
                 wireVars, used>>

\* Connected: the entry of the peer, and a goroutine that will write to it.
Connected(p, q) ==
  /\ q \in fresh[p]
  /\ cat' = [cat EXCEPT ![p] = NewNodeCatalogEntry(@, q)]
  /\ fresh' = [fresh EXCEPT ![p] = @ \ {q}]
  /\ hello' = [hello EXCEPT ![p] = @ \cup {q}]
  /\ UNCHANGED <<phase, stuck, blocked, unsent, links, seeking, dialed, tries,
                 rooms, unnoticed, wireVars, used>>

\* The goroutine of Connected: NewStream opens the link again if it is gone.
NewStream(p, q) ==
  /\ q \in hello[p]
  /\ Len(streams[p][q]) < MaxQueue
  /\ IF Linked(p, q) THEN UNCHANGED <<links, fresh, unnoticed>> ELSE LinkUp(p, q)
  /\ streams' = [streams EXCEPT ![p][q] = Append(@, packNodeInfoMsg(cat[p], p))]
  /\ hello' = [hello EXCEPT ![p] = @ \ {q}]
  /\ UNCHANGED <<catVars, seeking, dialed, tries, rooms, gossip, covers,
                 source, used>>

\* log.Fatalf in that goroutine: a peer that cannot be reached any more, or
\* that has no stream handler yet, takes this provider down.
NewStreamFails(p, q) ==
  /\ q \in hello[p]
  /\ Restart(p)

\* The wire loses what it carries, or everything had arrived already.
Disconnected(p, q) ==
  /\ Within("cuts", MaxCuts)
  /\ Linked(p, q)
  /\ links' = links \ {{p, q}}
  /\ \E lost \in SUBSET {<<p, q>>, <<q, p>>} :
       /\ gossip' = [r \in Provider |-> [s \in Provider |->
                       IF <<r, s>> \in lost THEN <<>> ELSE gossip[r][s]]]
       /\ covers' = [s \in Provider |->
                       {r \in covers[s] : <<r, s>> \notin lost}]
  /\ UNCHANGED <<catVars, fresh, hello, seeking, dialed, tries, rooms,
                 unnoticed, streams, source>>

---------------------------------------------------------------------------
(* Messages *)

\* The subscribers of p's room that pubsub can reach.
Receivers(p) == {q \in Provider \ {p} : p \in rooms[q] /\ Linked(p, q)}

\* publishLoop: takes one sender and packs the catalog as it is now.
publishLoop(p) ==
  /\ blocked[p] > 0
  /\ blocked' = [blocked EXCEPT ![p] = @ - 1]
  /\ \/ /\ \A q \in Receivers(p) : Len(gossip[p][q]) < MaxQueue
        /\ gossip' = [gossip EXCEPT ![p] = [q \in Provider |->
             IF q \in Receivers(p)
             THEN Append(gossip[p][q], packNodeInfoMsg(cat[p], p))
             ELSE gossip[p][q]]]
        /\ covers' = [q \in Provider |->
             IF q \in Receivers(p) THEN covers[q] \cup {p} ELSE covers[q] \ {p}]
        /\ unsent' = [unsent EXCEPT ![p] = FALSE]
        /\ UNCHANGED used
     \/ /\ Within("losses", MaxLosses)
        /\ unsent' = [unsent EXCEPT ![p] = TRUE]
        /\ UNCHANGED <<gossip, covers>>
  /\ UNCHANGED <<cat, phase, stuck, linkVars, streams, source>>

Deliverable(q, p) ==
  IF Ordered THEN {i \in 1 .. Len(gossip[q][p]) : i = 1}
             ELSE 1 .. Len(gossip[q][p])

\* subscribeLoop: p applies a message of q's room.
subscribeLoop(p, q) ==
  /\ q \in cat[p].nodes
  /\ \E i \in Deliverable(q, p) :
       /\ cat' = [cat EXCEPT ![p] = unpackNodeInfoMsg(@, gossip[q][p][i], q)]
       /\ gossip' = [gossip EXCEPT ![q][p] = Drop(@, i)]
  /\ source' = [source EXCEPT ![p][q] = "room"]
  /\ UNCHANGED <<phase, stuck, blocked, unsent, linkVars, streams, covers,
                 used>>

\* A message for a peer without a NodeCatalog entry: nil dereference.
subscribeLoopCrash(p, q) ==
  /\ q \notin cat[p].nodes
  /\ gossip[q][p] # <<>>
  /\ Restart(p)

\* pubsub drops a message.
LoseMessage(p, q) ==
  /\ Within("losses", MaxLosses)
  /\ \E i \in 1 .. Len(gossip[q][p]) :
       /\ gossip' = [gossip EXCEPT ![q][p] = Drop(@, i)]
       /\ covers' = [covers EXCEPT ![p] = IF i = Len(gossip[q][p]) THEN @ \ {q} ELSE @]
  /\ UNCHANGED <<catVars, linkVars, streams, source>>

\* The handler of the initial message of q.
streamAvailableFunctions(p, q) ==
  /\ \E i \in 1 .. Len(streams[q][p]) :
       /\ cat' = [cat EXCEPT ![p] =
            unpackNodeInfoMsg(NewNodeCatalogEntry(@, q), streams[q][p][i], q)]
       /\ streams' = [streams EXCEPT ![q][p] = Drop(@, i)]
  /\ source' = [source EXCEPT ![p][q] = "stream"]
  /\ UNCHANGED <<phase, stuck, blocked, unsent, linkVars, gossip, covers, used>>

\* A stream that breaks while it is read ends the receiver (log.Fatalf).
streamBreaks(p, q) ==
  /\ streams[q][p] # <<>>
  /\ ~Linked(p, q)
  /\ Restart(p)

---------------------------------------------------------------------------
Init ==
  /\ \E boot \in [Provider -> Boots] :
       cat = [p \in Provider |-> initSelfCatagory(p, boot[p].listed, boot[p].asked)]
  /\ phase = [p \in Provider |-> "listening"]
  /\ stuck = [p \in Provider |-> FALSE]
  /\ blocked = [p \in Provider |-> 0]
  /\ links = {}
  /\ fresh = [p \in Provider |-> {}]
  /\ hello = [p \in Provider |-> {}]
  /\ seeking = [p \in Provider |-> {}]
  /\ dialed = [p \in Provider |-> {}]
  /\ tries = [p \in Provider |-> [q \in Provider |-> 0]]
  /\ rooms = [p \in Provider |-> {}]
  /\ gossip = [p \in Provider |-> [q \in Provider |-> <<>>]]
  /\ streams = [p \in Provider |-> [q \in Provider |-> <<>>]]
  /\ unsent = [p \in Provider |-> FALSE]
  /\ covers = [p \in Provider |-> {}]
  /\ source = [p \in Provider |-> [q \in Provider |-> "none"]]
  /\ unnoticed = [p \in Provider |-> {}]
  /\ used = [b \in Bound |-> 0]

LocalStep(p) ==
  \/ \E f \in Function, n \in 1 .. MaxCount : AddFunc(p, f, n)
  \/ \E f \in Function, n \in Count : UpdateFunc(p, f, n)
  \/ \E f \in Function : DeleteFunction(p, f)
  \/ ListenUpdateInfo(p)
  \/ InitInfoNetwork(p)
  \/ publishLoop(p)
  \/ Restart(p)

PeerStep(p, q) ==
  \/ Connect(p, q) \/ ConnectFails(p, q) \/ subscribeInfoRoom(p, q)
  \/ Connected(p, q) \/ NewStream(p, q) \/ NewStreamFails(p, q)
  \/ Disconnected(p, q)
  \/ subscribeLoop(p, q) \/ subscribeLoopCrash(p, q) \/ LoseMessage(p, q)
  \/ streamAvailableFunctions(p, q) \/ streamBreaks(p, q)

Next ==
  \/ \E p \in Provider : LocalStep(p)
  \/ \E pq \in Pair : PeerStep(pq[1], pq[2])

Spec == Init /\ [][Next]_vars

\* Goroutines and callbacks that can run do run; clusters, crashes and broken
\* links are free not to happen.
Fairness ==
  /\ \A p \in Provider : WF_vars(InitInfoNetwork(p)) /\ WF_vars(publishLoop(p))
  /\ \A pq \in Pair :
       /\ WF_vars(Connect(pq[1], pq[2]) \/ ConnectFails(pq[1], pq[2]))
       /\ WF_vars(subscribeInfoRoom(pq[1], pq[2]))
       /\ WF_vars(Connected(pq[1], pq[2]))
       /\ WF_vars(NewStream(pq[1], pq[2]))
       /\ WF_vars(subscribeLoop(pq[1], pq[2]))
       /\ WF_vars(streamAvailableFunctions(pq[1], pq[2]))

FairSpec == Spec /\ Fairness
---------------------------------------------------------------------------
(* Properties *)

Info(q) == packNodeInfoMsg(cat[q], q)
View(p, q) == packNodeInfoMsg(cat[p], q)

\* Every variable has its type, and a provider is always in its own catalog.
TypeOK ==
  /\ cat \in [Provider -> CatalogType]
  /\ \A p \in Provider : p \in cat[p].nodes
  /\ phase \in [Provider -> {"listening", "up"}]
  /\ stuck \in [Provider -> BOOLEAN] /\ unsent \in [Provider -> BOOLEAN]
  /\ blocked \in [Provider -> Nat]
  /\ links \in SUBSET SUBSET Provider
  /\ fresh \in [Provider -> SUBSET Provider]
  /\ hello \in [Provider -> SUBSET Provider]
  /\ seeking \in [Provider -> SUBSET Provider]
  /\ dialed \in [Provider -> SUBSET Provider]
  /\ rooms \in [Provider -> SUBSET Provider]
  /\ unnoticed \in [Provider -> SUBSET Provider]
  /\ tries \in [Provider -> [Provider -> 0 .. MaxRetries]]
  /\ gossip \in [Provider -> [Provider -> Seq(NodeInfoMsg)]]
  /\ streams \in [Provider -> [Provider -> Seq(NodeInfoMsg)]]
  /\ covers \in [Provider -> SUBSET Provider]
  /\ source \in [Provider -> [Provider -> {"none", "stream", "room"}]]
  /\ used \in [Bound -> Nat]

\* What the operations on a catalog promise, at every provider and through
\* every interleaving of local changes, messages, restarts and lost links: the
\* scheduler and packNodeInfoMsg find the entries they dereference
\* (trigger.go:121, info_room.go:115), and no function that runs somewhere is
\* answered "not found".
CatalogsSound ==
  \A p \in Provider :
    /\ ExecutionTimeKnown(cat[p])
    /\ OwnFunctionsCatalogued(cat[p], p)
    /\ RunningIsCatalogued(cat[p])

\* FunctionCatalog[f].Replicas is the number of replicas over all the nodes
\* the provider knows, as soon as updatetReplicas has run for f.
ReplicasAreCounted == \A p \in Provider : ReplicasCounted(cat[p])

\* Full-state messages: once q's latest publication has reached p and the last
\* thing p applied came from q's room, p sees q exactly as q is, whatever was
\* lost before.  Rooms that keep the order are assumed.
Convergence ==
  \A pq \in Pair :
    LET p == pq[1]
        q == pq[2]
    IN  /\ q \in covers[p] /\ gossip[q][p] = <<>> /\ source[p][q] = "room"
        /\ blocked[q] = 0 /\ ~unsent[q]
        => View(p, q) = Info(q)

\* subscribeLoop dereferences NodeCatalog[q] (info_room.go:126).  A room is
\* joined before the entry exists only while the link's Connected callback is
\* still running, or when the link was accepted before the callback was
\* registered; a Connect that opened the link itself never causes it.
CrashWindow ==
  \A p \in Provider : \A q \in rooms[p] \ cat[p].nodes :
    q \in (fresh[p] \ dialed[p]) \cup unnoticed[p]

\* Publications and deliveries drain: from some time on, a view that was last
\* taken from a room that covers it agrees with the provider it is of.
EventualAgreement ==
  \A pq \in Pair :
    <>[](pq[2] \in covers[pq[1]] /\ source[pq[1]][pq[2]] = "room" /\ ~unsent[pq[2]]
         => View(pq[1], pq[2]) = Info(pq[2]))

\* main.go:191, "when there is the change it publish to p2p network": a change
\* nobody waits to publish is published in the end.
ChangesArePublished == \A p \in Provider : unsent[p] ~> ~unsent[p]

\* p2p.go:40, "discovery the other host and join their room": a provider joins
\* the room of every peer it stays linked to, unless HandlePeerFound has run
\* out of attempts.
JoinsRooms ==
  \A pq \in Pair :
    LET p == pq[1]
        q == pq[2]
    IN  <>[](phase[p] = "up" /\ Linked(p, q) /\ tries[p][q] < MaxRetries)
          => <>(q \in rooms[p])
=============================================================================
