-------------------------------- MODULE Peers --------------------------------
(***************************************************************************)
(* How a provider starts and gets to know its peers: the kubeconfigs, the  *)
(* clients and informers of every node (kube_client.go), the public keys   *)
(* and their addresses (discovery.go), NodeCatalog and SortedP2PID         *)
(* (catalog.go), and the signals that stop it (main.go, signals).          *)
(*                                                                         *)
(* InfoNetwork has what the peers say to each other and CatalogThreads the *)
(* maps they say it about; here an entry of NodeCatalog is the address and *)
(* the cluster its client talks to.  Unsynchronised maps are taken to work *)
(* (a range yields what is there, and any of what is added meanwhile).     *)
(***************************************************************************)
EXTENDS Integers, Sequences, SequencesExt

CONSTANTS
  Self, Peer,     \* the key of the own entry, and the p2p IDs of the others
  LocalCluster,
  Kubeconfigs,    \* the files in kubeconfigpath: a sequence of [ip, cluster]; the
                  \* ip is "" if the URL of the server has no port
  PubKeys,        \* the files in pubKeyPeerPath: a sequence of [ip, id]
  Others,         \* how many links and directories may be there too, or Nil: the
                  \* directory cannot be read
  Seen,           \* Seen[q]: the addresses the connections of q show
  IP4,            \* the IPv4 addresses
  RTT,            \* what a dial may take; 0 is the own
  MaxLinks,       \* bound on the callbacks and stream handlers
  Nil

Blank == ""
SelfIp == "0.0.0.0"

ASSUME PeersAssumption ==
  /\ Self \notin Peer \cup {Blank} /\ Blank \notin Peer
  /\ Others \subseteq Nat \cup {Nil}
  /\ MaxLinks \in Nat
  /\ RTT \subseteq Nat \ {0}

VARIABLES
  main,       \* where the main goroutine is
  walked,     \* files of pubKeyPeerPath it has looked at
  candidate,  \* candidate[q]: the address of q, or Blank
  node,       \* node[q]: the address it was entered with and its client, or Nil
  array,      \* the array of SortedP2PID
  length,     \* the length of the slice
  thread,     \* program counters and local variables
  signals,    \* signals received: the first closes stopCh
  exited      \* "no", "failed" to start, "exit", "fatal" (log.Fatalf) or "panic"

VARIABLES     \* history
  links,      \* threads begun
  overlapped, \* two rankings have run at the same time
  tied        \* two nodes had the same RTT

ranking == <<array, length>>
startup == <<main, walked, candidate>>
vars == <<startup, node, ranking, thread, signals, exited, links, overlapped, tied>>

Nodes == {q \in Peer \cup {Self} : node[q] # Nil}
SortedP2PID == SubSeq(array, 1, length)
Thread == 0 .. MaxLinks   \* 0 is the main goroutine
Ranks(t) == thread[t].pc \in {"measure", "resize", "copy"}

---------------------------------------------------------------------------
(* Kubeconfigs *)

\* The UID of the namespace openfaas.
getClusterIdentifier(config) == config.cluster

\* The local configuration first; a cluster counts once.
NewKubeConfig ==
  FoldLeft(LAMBDA configs, file :
             IF \E i \in DOMAIN configs :
                  getClusterIdentifier(configs[i]) = getClusterIdentifier(file)
             THEN configs ELSE Append(configs, file),
           <<[ip |-> SelfIp, cluster |-> LocalCluster]>>, Kubeconfigs)

\* The clusters by address; the last of an address counts.
clientCmdConfigMap ==
  FoldLeft(LAMBDA m, config : config.ip :> config.cluster @@ m, Nil :> Nil, NewKubeConfig)

\* Mutant: without a configuration, the local one.
ClientOrLocal(ip) ==
  IF ip \in DOMAIN clientCmdConfigMap THEN clientCmdConfigMap[ip] ELSE LocalCluster

\* NewKubeClientWithIpGenerator: without a configuration only a URL.
ClientWithIp(ip) == IF ip \in DOMAIN clientCmdConfigMap THEN clientCmdConfigMap[ip] ELSE Nil

\* The InvokeResolver of a node: another node's gateway is at its address.
Resolve(q) == IF node[q].ip = SelfIp THEN Nil ELSE node[q].ip

---------------------------------------------------------------------------
(* NewNodeCatalogEntry, for a peer that is not in NodeCatalog *)

Idle == [pc |-> "idle"]

NewNodeWithIp(id, ip) ==
  [pc |-> IF ClientWithIp(ip) = Nil THEN "enter" ELSE "deployments",
   id |-> id, ip |-> ip, before |-> {}, list |-> <<>>, i |-> 1]

Become(t, s) == thread' = [thread EXCEPT ![t] = s]
Goto(t, pc) == thread' = [thread EXCEPT ![t].pc = pc]

\* A configuration that a clientset cannot be made of.
newKubeClientsetFails(t) ==
  /\ thread[t].pc = "deployments"
  /\ exited' = "fatal"
  /\ UNCHANGED <<startup, node, ranking, thread, signals, links, overlapped, tied>>

\* startInformers (operator is false) waits for the two caches, or until
\* stopCh is closed.
startInformers(t) ==
  /\ thread[t].pc \in {"deployments", "endpoints"}
  /\ \/ /\ signals = 0
        /\ Goto(t, IF thread[t].pc = "deployments" THEN "endpoints" ELSE "enter")
        /\ UNCHANGED exited
     \/ signals > 0 /\ exited' = "fatal" /\ UNCHANGED thread
  /\ UNCHANGED <<startup, node, ranking, signals, links, overlapped, tied>>

\* Mutant: a new node is not ranked.
EnterUnranked(t) ==
  /\ thread[t].pc = "enter"
  /\ node' = [node EXCEPT ![thread[t].id] =
                [ip |-> thread[t].ip, client |-> ClientWithIp(thread[t].ip)]]
  /\ Become(t, IF thread[t].id = Self
               THEN [thread[t] EXCEPT !.pc = "measure", !.before = Nodes'] ELSE Idle)
  /\ overlapped' = (overlapped \/ \E s \in Thread \ {t} : Ranks(s))
  /\ UNCHANGED <<startup, ranking, signals, exited, links, tied>>

Enter(t) ==
  /\ thread[t].pc = "enter"
  /\ node' = [node EXCEPT ![thread[t].id] =
                [ip |-> thread[t].ip, client |-> ClientWithIp(thread[t].ip)]]
  /\ Become(t, [thread[t] EXCEPT !.pc = "measure", !.before = Nodes'])
  /\ overlapped' = (overlapped \/ \E s \in Thread \ {t} : Ranks(s))
  /\ UNCHANGED <<startup, ranking, signals, exited, links, tied>>

\* Mutant: a dial has no timeout, and a node without a client never answers.
MeasureForever(t) ==
  /\ thread[t].pc = "measure"
  /\ \A q \in thread[t].before : node[q].client # Nil
  /\ \E list \in SetToSeqs(thread[t].before) :
       /\ list[1] = Self
       /\ Become(t, [thread[t] EXCEPT !.pc = "resize", !.before = {}, !.list = list])
  /\ UNCHANGED <<startup, node, ranking, signals, exited, links, overlapped, tied>>

\* RankNodeByRTT: a dial to the gateway of a node takes its time, whether it
\* succeeds or not.  RTTtoP2PID keeps one node for every RTT.
Measure(t) ==
  /\ thread[t].pc = "measure"
  /\ \E new \in SUBSET (Nodes \ thread[t].before) :
       LET all == thread[t].before \cup new
       IN  \E rtt \in [all -> RTT \cup {0}] :
             /\ \A q \in all : rtt[q] = 0 <=> q = Self
             /\ \E RTTtoP2PID \in [Range(rtt) -> all] :
                  /\ \A v \in Range(rtt) : rtt[RTTtoP2PID[v]] = v
                  /\ LET RTTs == SetToSortSeq(all, LAMBDA q, r : rtt[q] < rtt[r])
                     IN  Become(t, [thread[t] EXCEPT !.pc = "resize", !.before = {},
                           !.list = [i \in DOMAIN RTTs |-> RTTtoP2PID[rtt[RTTs[i]]]]])
             /\ tied' = (tied \/ ~IsInjective(rtt))
  /\ UNCHANGED <<startup, node, ranking, signals, exited, links, overlapped>>

\* Mutant: the capacity is not looked at.
ResizeBeyond(t) ==
  /\ thread[t].pc = "resize"
  /\ length' = Len(thread[t].list) /\ Goto(t, "copy")
  /\ UNCHANGED <<startup, node, array, signals, exited, links, overlapped, tied>>

\* Mutant: a longer list does not make the slice longer.
ResizeDownOnly(t) ==
  /\ thread[t].pc = "resize"
  /\ IF Len(thread[t].list) > Len(array)
     THEN exited' = "panic" /\ UNCHANGED <<length, thread>>
     ELSE /\ length' = IF length = 0 \/ Len(thread[t].list) < length
                       THEN Len(thread[t].list) ELSE length
          /\ Goto(t, "copy") /\ UNCHANGED exited
  /\ UNCHANGED <<startup, node, array, signals, links, overlapped, tied>>

\* The slice can be as long as its capacity.
Resize(t) ==
  /\ thread[t].pc = "resize"
  /\ IF Len(thread[t].list) > Len(array)
     THEN exited' = "panic" /\ UNCHANGED <<length, thread>>
     ELSE length' = Len(thread[t].list) /\ Goto(t, "copy") /\ UNCHANGED exited
  /\ UNCHANGED <<startup, node, array, signals, links, overlapped, tied>>

\* One element after the other, in the slice as it is then.
Copy(t) ==
  LET i == thread[t].i
  IN  /\ thread[t].pc = "copy"
      /\ IF i > length
         THEN exited' = "panic" /\ UNCHANGED <<array, thread>>
         ELSE /\ array' = [array EXCEPT ![i] = thread[t].list[i]]
              /\ Become(t, IF i = Len(thread[t].list) THEN Idle
                           ELSE [thread[t] EXCEPT !.i = i + 1])
              /\ UNCHANGED exited
      /\ UNCHANGED <<startup, node, length, signals, links, overlapped, tied>>

---------------------------------------------------------------------------
(* The main goroutine *)

\* What cannot be read, reached or listened on ends the provider.
Fails ==
  /\ exited' = "failed"
  /\ UNCHANGED <<startup, node, ranking, thread, signals, links, overlapped, tied>>

ConnectivityCheckFails == main = "boot" /\ Fails

\* The environment has a value that cannot be parsed, or an empty namespace.
ReadFails == main = "boot" /\ Fails

\* main, with a configuration and a namespace, up to SetupSignalHandler; then
\* initSelfCatagory begins with the own entry.
Boot ==
  /\ main = "boot" /\ signals = 0
  /\ main' = "self"
  /\ Become(0, NewNodeWithIp(Self, SelfIp))
  /\ UNCHANGED <<walked, candidate, node, ranking, signals, exited, links, overlapped, tied>>

\* ListFunctionStatus and RegisterEventHandlers are done (see Catalog).
newLibp2pHost ==
  /\ main = "self" /\ thread[0] = Idle
  /\ \/ Fails
     \/ /\ main' = "host"
        /\ UNCHANGED <<walked, candidate, node, ranking, thread, signals, exited, links,
                       overlapped, tied>>

\* The provider is notified of connections before it knows its candidates.
setupDiscovery ==
  /\ main = "host"
  /\ main' = "walk"
  /\ UNCHANGED <<walked, candidate, node, ranking, thread, signals, exited, links, overlapped, tied>>

readIDFromPubKeyFails == main = "walk" /\ walked < Len(PubKeys) /\ Fails

\* One file: the own key is skipped; HandlePeerFound is InfoNetwork's.
staticDiscovery ==
  /\ main = "walk" /\ walked < Len(PubKeys)
  /\ walked' = walked + 1
  /\ LET file == PubKeys[walked']
     IN  candidate' = IF file.id = Self THEN candidate
                      ELSE [candidate EXCEPT ![file.id] = file.ip]
  /\ UNCHANGED <<main, node, ranking, thread, signals, exited, links, overlapped, tied>>

\* infoChan is set, the handlers are made and the server runs.
Serve ==
  /\ main = "walk" /\ walked = Len(PubKeys)
  /\ main' = "serve"
  /\ UNCHANGED <<walked, candidate, node, ranking, thread, signals, exited, links, overlapped, tied>>

---------------------------------------------------------------------------
(* Peers and signals *)

Begin(q, ip) ==
  /\ links < MaxLinks /\ links' = links + 1
  /\ node[q] = Nil
  /\ Become(links', NewNodeWithIp(q, ip))
  /\ UNCHANGED <<startup, node, ranking, signals, exited, overlapped, tied>>

\* Connected takes the address from the candidates.
Connected(q) == main \in {"walk", "serve"} /\ Begin(q, candidate[q])

extractIP4fromMultiaddr(address) == IF address \in IP4 THEN address ELSE Blank

\* streamAvailableFunctions takes the address of the connection.
streamAvailableFunctions(q) ==
  /\ main \in {"host", "walk", "serve"}
  /\ \E address \in Seen[q] : Begin(q, extractIP4fromMultiaddr(address))

\* The second signal ends the process, any signal does before SetupSignalHandler.
Signal ==
  /\ signals < 2 /\ signals' = signals + 1
  /\ exited' = IF signals = 1 \/ main = "boot" THEN "exit" ELSE exited
  /\ UNCHANGED <<startup, node, ranking, thread, links, overlapped, tied>>

---------------------------------------------------------------------------
\* The room NewCatalog makes for the ranking; an error counts as no entries.
totalAmountP2PPeer(others) == IF others = Nil THEN 0 ELSE Len(PubKeys) + others

Init ==
  /\ main = "boot" /\ walked = 0 /\ candidate = [q \in Peer |-> Blank]
  /\ node = [q \in Peer \cup {Self} |-> Nil]
  /\ \E n \in Others : array = [i \in 1 .. totalAmountP2PPeer(n) |-> Blank]
  /\ length = 0
  /\ thread = [t \in Thread |-> Idle]
  /\ signals = 0 /\ exited = "no"
  /\ links = 0 /\ overlapped = FALSE /\ tied = FALSE

Work(t) == startInformers(t) \/ Enter(t) \/ Measure(t) \/ Resize(t) \/ Copy(t)
Main == Boot \/ newLibp2pHost \/ setupDiscovery \/ staticDiscovery \/ Serve

Next ==
  /\ exited = "no"
  /\ \/ Main \/ ConnectivityCheckFails \/ ReadFails \/ readIDFromPubKeyFails \/ Signal
     \/ \E t \in Thread : Work(t) \/ newKubeClientsetFails(t)
     \/ \E q \in Peer : Connected(q) \/ streamAvailableFunctions(q)

\* Goroutines run, caches sync and dials return, within 5 s.
Fairness ==
  /\ WF_vars(exited = "no" /\ Main)
  /\ \A t \in Thread : WF_vars(exited = "no" /\ Work(t))

Spec == Init /\ [][Next]_vars /\ Fairness

---------------------------------------------------------------------------
(* Properties *)

\* The types of the variables.
TypeOK ==
  /\ main \in {"boot", "self", "host", "walk", "serve"} /\ walked \in 0 .. Len(PubKeys)
  /\ length \in 0 .. Len(array) /\ Range(array) \subseteq Peer \cup {Self, Blank}
  /\ signals \in 0 .. 2 /\ exited \in {"no", "failed", "exit", "fatal", "panic"}
  /\ \A q \in Nodes : node[q].client \in Range(clientCmdConfigMap)

\* RankNodeByRTT is not locked.  As long as no two of them overlap, the list
\* has every node once, itself first, whenever no ranking is under way; but of
\* two nodes with one RTT only one is there, twice.  The slice grows before it is
\* filled: its readers (scaleUp, explorePotentialNode, findSuitableNode) can find a
\* blank key, for which there is no node, but only while a ranking copies.
RankingIsCurrent ==
  exited = "no" =>
    /\ Blank \in Range(SortedP2PID) => \E t \in Thread : thread[t].pc = "copy"
    /\ ~overlapped /\ (\A t \in Thread : ~Ranks(t)) =>
         /\ length = Cardinality(Nodes)
         /\ length > 0 => array[1] = Self
         /\ ~tied => Range(SortedP2PID) = Nodes

\* The ranking panics in two ways only: one ranking makes the slice shorter
\* while another copies, or there are more nodes than NewCatalog made room for.
PanicNeedsOverlap ==
  exited = "panic" => overlapped \/ Cardinality(Nodes) > Len(array)

\* The client of a node talks to the node's own cluster: the names of the key
\* files, the servers in the kubeconfigs and the entry go together, however
\* the callback, the stream and the walk over the files interleave.  A callback
\* before the walk has met the peer's key enters a blank address, and that finds
\* a kubeconfig whose server has no port.  Calls that are offloaded go to an
\* address that is the peer's by its key or its connection, or nowhere.
ClientIsOfNode ==
  \A q \in Nodes \cap Peer :
    LET keys == {PubKeys[i].ip : i \in {j \in DOMAIN PubKeys : PubKeys[j].id = q}}
    IN  /\ node[q].client # Nil /\ node[q].ip # Blank => node[q].ip \in keys
        /\ Resolve(q) \in keys \cup Seen[q] \cup {Blank}

\* A node that is entered is ranked in the end, and can be chosen, unless
\* rankings overlap or RTTs are equal.
RankedInTheEnd ==
  \A q \in Peer :
    node[q] # Nil ~> (q \in Range(SortedP2PID) \/ overlapped \/ tied \/ exited # "no")
==============================================================================
