--------------------------- MODULE CatalogThreads ---------------------------
(***************************************************************************)
(* The catalog of one provider as its goroutines really share it: plain Go *)
(* maps and pointers without a lock.  A step is one access to the shared   *)
(* maps, or a look-up and the insertion of the missing key that follows    *)
(* it; the steps of the goroutines interleave.                             *)
(*                                                                         *)
(* A range over a map yields the keys it had at the start, minus the ones  *)
(* removed, plus any of the ones added meanwhile.                          *)
(***************************************************************************)
EXTENDS Catalog

CONSTANTS
  Self,      \* the provider whose catalog it is
  Boots,     \* the Deployments it may find at start, as in InfoNetwork
  Messages,  \* what the peers may say
  Thread,    \* its goroutines
  Kinds,     \* the operations they may run
  MaxOps     \* bound on the operations of one behaviour

ASSUME ThreadsAssumption ==
  /\ Self \in Provider /\ MaxOps \in Nat /\ Messages \subseteq NodeInfoMsg
  /\ \A boot \in Boots :
       boot.listed \in [Function -> Count \cup {Absent}] /\ boot.asked \in [Function -> Count]
  /\ Kinds \subseteq {"add", "update", "delete", "connected", "stream", "room", "pack",
                  "status", "list"}

\* The Node structs: the one of Self, and one for every NewNodeWithIp.
nil == 0
Object == 1 .. MaxOps + 1

NewNode == [available |-> NoEntries, execTime |-> {}, overload |-> FALSE]

VARIABLES
  nodeCatalog,      \* the Node of every provider, or nil
  heap,             \* the Node structs
  functionCatalog,  \* FunctionCatalog[f].Replicas
  thread,           \* every goroutine's program counter and local variables
  crashed           \* the function whose missing entry ended the process

VARIABLES           \* history
  ops,      \* operations begun
  counted,  \* functions whose Replicas was computed
  contested,\* functions whose delete overlapped another operation
  overlapped,\* two operations have run at the same time
  settled,  \* the catalog when all goroutines were last idle
  steady    \* functions that ran here ever since a reader began

maps == <<nodeCatalog, heap, functionCatalog, counted>>
vars == <<maps, thread, crashed, ops, contested, overlapped, settled, steady>>

Idle == [pc |-> "idle"]

\* The operation a goroutine is in.
Running(t) == IF thread[t].pc = "sum" THEN thread[t].caller ELSE thread[t]

Quiescent == \A t \in Thread : thread[t] = Idle

Nodes == {q \in Provider : nodeCatalog[q] # nil}

\* The own Node, which is never replaced.
self == heap[nodeCatalog[Self]]

\* The catalog as Catalog describes it.
Current ==
  LET node(q) == IF q \in Nodes THEN heap[nodeCatalog[q]] ELSE NewNode
  IN  [nodes |-> Nodes,
       available |-> [q \in Provider |-> node(q).available],
       execTime |-> [q \in Provider |-> node(q).execTime],
       overload |-> [q \in Provider |-> node(q).overload],
       functionCatalog |-> functionCatalog,
       counted |-> counted]

\* What a range may yield: the keys there are and any that will be added.
Yields(keys, all) == {ks \in SUBSET all : keys \subseteq ks}

Goto(t, pc) == thread' = [thread EXCEPT ![t].pc = pc]
Become(t, locals) == thread' = [thread EXCEPT ![t] = locals]

\* A nil dereference at FunctionCatalog[f].  The server recovers from it in
\* the handler of a delete; every other goroutine ends the process.
Panic(t, kind, f) ==
  /\ Become(t, Idle)
  /\ crashed' = IF kind = "delete" THEN crashed ELSE crashed \cup {f}
  /\ UNCHANGED maps

\* The two handlers that read: one function by its name, where another
\* namespace is refused at once, or all of FunctionCatalog.
MakeReplicaReader ==
  [kind : {"status"}, pc : {"find"}, f : Function, shown : {{}}]

MakeFunctionReader ==
  [kind : {"list"}, pc : {"range"}, fs : Yields(Present(functionCatalog), Function),
   shown : {{}}]

---------------------------------------------------------------------------
(* Operations begin.  A room is joined after Connected (see CrashWindow in  *)
(* InfoNetwork for the exception).                                          *)

Operations(kind) ==
  LET peers == Provider \ {Self}
  IN  CASE kind = "add" ->
             [kind : {kind}, pc : {"write"}, f : Function, n : 1 .. MaxCount]
        [] kind = "update" ->
             {op \in [kind : {kind}, pc : {"write"}, f : Function, n : Count] :
                self.available[op.f] > 0 /\ op.n # self.available[op.f]}
        [] kind = "delete" ->
             [kind : {kind}, pc : {"write"}, f : Function, n : {Absent}]
        [] kind = "connected" ->
             [kind : {kind}, pc : {"exist"}, q : peers]
        [] kind = "stream" ->
             [kind : {kind}, pc : {"exist"}, q : peers, m : Messages,
              node : {nil}, fs : {{}}]
        [] kind = "room" ->
             [kind : {kind}, pc : {"node"}, q : peers \cap Nodes, m : Messages,
              node : {nil}, fs : {{}}]
        [] kind = "pack" ->
             [kind : {kind}, pc : {"pack"},
              fs : Yields(Present(self.available), Function)]
        [] kind = "status" -> MakeReplicaReader
        [] kind = "list" -> MakeFunctionReader

\* The informer's listener and the loop of a room are one goroutine each.
Sequential(op, other) ==
  other.kind = op.kind =>
    op.kind # "update" /\ (op.kind = "room" => other.q # op.q)

Begin(t) ==
  /\ thread[t] = Idle
  /\ ops < MaxOps
  /\ ops' = ops + 1
  /\ \E kind \in Kinds : \E op \in Operations(kind) :
       /\ \A s \in Thread : thread[s] # Idle => Sequential(op, Running(s))
       /\ Become(t, op)
  /\ UNCHANGED <<maps, crashed>>

---------------------------------------------------------------------------
(* AddAvailableFunctions, UpdateAvailableFunctions, DeleteAvailableFunctions *)

\* Mutant: the replicas without an execution time.
WriteNodeUntimed(t, op) ==
  /\ op.pc = "write"
  /\ heap' = [heap EXCEPT ![nodeCatalog[Self]].available[op.f] = op.n]
  /\ Goto(t, IF op.kind = "add" THEN "insert" ELSE "replicas")
  /\ UNCHANGED <<nodeCatalog, functionCatalog, counted, crashed>>

\* The first statement of each writes to the own Node.
WriteNode(t, op) ==
  /\ op.pc = "write"
  /\ heap' = [heap EXCEPT ![nodeCatalog[Self]].available[op.f] = op.n,
                          ![nodeCatalog[Self]].execTime =
                            IF op.kind = "add" THEN @ \cup {op.f} ELSE @]
  /\ Goto(t, IF op.kind = "add" THEN "insert" ELSE "replicas")
  /\ UNCHANGED <<nodeCatalog, functionCatalog, counted, crashed>>

\* Mutant: the function is not added.
InsertFunctionSkipped(t, op) ==
  /\ op.pc = "insert"
  /\ Goto(t, "replicas")
  /\ UNCHANGED <<maps, crashed>>

\* "add to FunctionCatalog if not exist"
InsertFunction(t, op) ==
  /\ op.pc = "insert"
  /\ functionCatalog' = [functionCatalog EXCEPT ![op.f] = IF @ = Absent THEN op.n ELSE @]
  /\ Goto(t, "replicas")
  /\ UNCHANGED <<nodeCatalog, heap, counted, crashed>>

\* The loop over NodeCatalog that both updatetReplicas share starts ...
Sum(t, function, op) ==
  \E qs \in Yields(Nodes, Provider) :
    Become(t, [pc |-> "sum", f |-> function, qs |-> qs, replicas |-> 0, caller |-> op])

StartSum(t, op) ==
  /\ op.pc = "replicas"
  /\ Sum(t, op.f, op)
  /\ UNCHANGED <<maps, crashed>>

\* ... reads one node after the other ...
AddToSum(t, op) ==
  /\ op.pc = "sum"
  /\ \E q \in op.qs :
       LET cnt == IF q \in Nodes THEN heap[nodeCatalog[q]].available[op.f]
                                 ELSE Absent
       IN  Become(t, [op EXCEPT !.qs = @ \ {q},
                                !.replicas = IF cnt = Absent THEN @ ELSE @ + cnt])
  /\ UNCHANGED <<maps, crashed>>

\* ... and stores the sum.
StoreSum(t, op) ==
  /\ op.pc = "sum" /\ op.qs = {}
  /\ LET f == op.f
         kind == op.caller.kind
     IN  IF functionCatalog[f] = Absent
         THEN Panic(t, kind, f)
         ELSE /\ functionCatalog' = [functionCatalog EXCEPT ![f] = op.replicas]
              /\ counted' = counted \cup {f}
              /\ Become(t, CASE kind = "delete" -> [op.caller EXCEPT !.pc = "zero"]
                             [] kind \in {"stream", "room"} -> [op.caller EXCEPT !.pc = "all"]
                             [] OTHER -> Idle)
              /\ UNCHANGED <<nodeCatalog, heap, crashed>>

\* Mutant: the last replica elsewhere is overlooked.
CheckZeroOffByOne(t, op) ==
  /\ op.pc = "zero"
  /\ IF functionCatalog[op.f] = Absent
     THEN Panic(t, op.kind, op.f)
     ELSE /\ IF functionCatalog[op.f] <= 1 THEN Goto(t, "remove") ELSE Become(t, Idle)
          /\ UNCHANGED <<maps, crashed>>

\* DeleteAvailableFunctions: is the function gone everywhere?
CheckZero(t, op) ==
  /\ op.pc = "zero"
  /\ IF functionCatalog[op.f] = Absent
     THEN Panic(t, op.kind, op.f)
     ELSE /\ IF functionCatalog[op.f] = 0 THEN Goto(t, "remove") ELSE Become(t, Idle)
          /\ UNCHANGED <<maps, crashed>>

\* Mutant: a function nobody runs stays in FunctionCatalog.
RemoveFunctionForgotten(t, op) ==
  /\ op.pc = "remove"
  /\ Become(t, Idle)
  /\ UNCHANGED <<maps, crashed>>

RemoveFunction(t, op) ==
  /\ op.pc = "remove"
  /\ functionCatalog' = [functionCatalog EXCEPT ![op.f] = Absent]
  /\ Become(t, Idle)
  /\ UNCHANGED <<nodeCatalog, heap, counted, crashed>>

---------------------------------------------------------------------------
(* NewNodeCatalogEntry, unpackNodeInfoMsg, packNodeInfoMsg *)

\* Both the callback of a link and the handler of a stream come here.
CheckExist(t, op) ==
  /\ op.pc = "exist"
  /\ IF op.q \notin Nodes
     THEN Goto(t, "enter")
     ELSE IF op.kind = "stream" THEN Goto(t, "node") ELSE Become(t, Idle)
  /\ UNCHANGED <<maps, crashed>>

\* The next struct that was never used: there is one for every operation.
Unused(o) ==
  /\ \A q \in Provider : o > nodeCatalog[q]
  /\ \E q \in Provider : o = nodeCatalog[q] + 1

\* NewNodeWithIp has built the node; it may have taken long.
EnterNode(t, op) ==
  /\ op.pc = "enter"
  /\ \E o \in Object :
       /\ Unused(o)
       /\ nodeCatalog' = [nodeCatalog EXCEPT ![op.q] = o]
       /\ heap' = [heap EXCEPT ![o] = NewNode]
  /\ IF op.kind = "stream" THEN Goto(t, "node") ELSE Become(t, Idle)
  /\ UNCHANGED <<functionCatalog, counted, crashed>>

\* unpackNodeInfoMsg keeps the pointer it gets here.
GetNode(t, op) ==
  /\ op.pc = "node"
  /\ heap' = [heap EXCEPT ![nodeCatalog[op.q]].overload = op.m.overload]
  /\ Become(t, [op EXCEPT !.pc = "merge", !.node = nodeCatalog[op.q],
                          !.fs = Present(op.m.available)])
  /\ UNCHANGED <<nodeCatalog, functionCatalog, counted, crashed>>

\* One function of the message.
MergeFunction(t, op) ==
  /\ op.pc = "merge"
  /\ \E f \in op.fs :
       /\ heap' = [heap EXCEPT ![op.node].execTime =
                     IF op.m.available[f] > 0 THEN @ \cup {f} ELSE @]
       /\ functionCatalog' = [functionCatalog EXCEPT ![f] =
                     IF @ = Absent THEN op.m.available[f] ELSE @]
       /\ Become(t, [op EXCEPT !.fs = @ \ {f}])
  /\ UNCHANGED <<nodeCatalog, counted, crashed>>

\* The new map of replicas, then updatetReplicas.
ReplaceReplicas(t, op) ==
  /\ op.pc = "merge" /\ op.fs = {}
  /\ heap' = [heap EXCEPT ![op.node].available = op.m.available]
  /\ \E fs \in Yields(Present(functionCatalog), Function) :
       Become(t, [op EXCEPT !.pc = "all", !.fs = fs])
  /\ UNCHANGED <<nodeCatalog, functionCatalog, counted, crashed>>

\* updatetReplicas: the next function, unless it was removed meanwhile.
NextFunction(t, op) ==
  /\ op.pc = "all"
  /\ \E f \in op.fs :
       IF functionCatalog[f] = Absent
       THEN Become(t, [op EXCEPT !.fs = @ \ {f}])
       ELSE Sum(t, f, [op EXCEPT !.fs = @ \ {f}])
  /\ UNCHANGED <<maps, crashed>>

\* packNodeInfoMsg: the range yields a function ...
PackFunction(t, op) ==
  /\ op.pc = "pack"
  /\ \E f \in op.fs :
       Become(t, IF self.available[f] = Absent
                 THEN [op EXCEPT !.fs = @ \ {f}]
                 ELSE [kind |-> op.kind, pc |-> "status", fs |-> op.fs \ {f}, f |-> f])
  /\ UNCHANGED <<maps, crashed>>

\* ... and its FunctionCatalog entry is copied.
CopyStatus(t, op) ==
  /\ op.pc = "status"
  /\ IF functionCatalog[op.f] = Absent
     THEN Panic(t, op.kind, op.f)
     ELSE /\ Become(t, [kind |-> op.kind, pc |-> "pack", fs |-> op.fs])
          /\ UNCHANGED <<maps, crashed>>

\* The loops of updatetReplicas and packNodeInfoMsg end.
Finish(t, op) ==
  /\ op.pc \in {"all", "pack"} /\ op.fs = {}
  /\ Become(t, Idle)
  /\ UNCHANGED <<maps, crashed>>

---------------------------------------------------------------------------
(* GetAvailableFunction, ListAvailableFunctions(ClusterLevel).  Both copy the *)
(* entry of FunctionCatalog and then look twice at the own node.              *)

Fetch(op, f) == [kind |-> op.kind, pc |-> "own", f |-> f, replicas |-> functionCatalog[f],
                 fs |-> IF op.kind = "list" THEN op.fs \ {f} ELSE {}, shown |-> op.shown]

Answer(op) == [op EXCEPT !.pc = "answer"]

GetAvailableFunction(t, op) ==
  /\ op.pc = "find"
  /\ Become(t, IF functionCatalog[op.f] = Absent THEN Answer(op) ELSE Fetch(op, op.f))
  /\ UNCHANGED <<maps, crashed>>

\* The range goes on, past a function that was removed meanwhile.
ListAvailableFunctions(t, op) ==
  /\ op.pc = "range"
  /\ \/ op.fs = {} /\ Become(t, Answer(op))
     \/ \E f \in op.fs :
          Become(t, IF functionCatalog[f] = Absent
                    THEN [op EXCEPT !.fs = @ \ {f}]
                    ELSE Fetch(op, f))
  /\ UNCHANGED <<maps, crashed>>

\* The handler of one function shows the larger of the two numbers, the list
\* the replicas of the own node.
Show(op, n) ==
  LET shows == IF op.kind = "status" THEN op.replicas > 0 \/ n > 0 ELSE n > 0
  IN  [kind |-> op.kind, pc |-> IF op.kind = "status" THEN "answer" ELSE "range",
       f |-> op.f, fs |-> op.fs, shown |-> IF shows THEN op.shown \cup {op.f} ELSE op.shown]

\* Mutant: the test is the wrong way round.
OwnMissing(t, op) ==
  /\ op.pc = "own"
  /\ Become(t, IF self.available[op.f] # Absent THEN Show(op, 0) ELSE [op EXCEPT !.pc = "amount"])
  /\ UNCHANGED <<maps, crashed>>

OwnExists(t, op) ==
  /\ op.pc = "own"
  /\ Become(t, IF self.available[op.f] = Absent THEN Show(op, 0) ELSE [op EXCEPT !.pc = "amount"])
  /\ UNCHANGED <<maps, crashed>>

\* A missing key reads as 0.
OwnReplicas(t, op) ==
  /\ op.pc = "amount"
  /\ Become(t, Show(op, IF self.available[op.f] = Absent THEN 0 ELSE self.available[op.f]))
  /\ UNCHANGED <<maps, crashed>>

Reply(t, op) ==
  /\ op.pc = "answer"
  /\ Become(t, Idle)
  /\ UNCHANGED <<maps, crashed>>

---------------------------------------------------------------------------
Init ==
  /\ \E boot \in Boots :
       LET c == initSelfCatagory(Self, boot.listed, boot.asked)
       IN  /\ heap = [o \in Object |->
                        IF o = 1 THEN [available |-> c.available[Self],
                                       execTime |-> c.execTime[Self],
                                       overload |-> FALSE]
                        ELSE NewNode]
           /\ functionCatalog = c.functionCatalog
  /\ nodeCatalog = [q \in Provider |-> IF q = Self THEN 1 ELSE nil]
  /\ thread = [t \in Thread |-> Idle]
  /\ crashed = {} /\ ops = 0 /\ counted = {} /\ contested = {} /\ overlapped = FALSE
  /\ settled = Current
  /\ steady = [t \in Thread |-> {}]

Access(t, op) ==
  \/ WriteNode(t, op) \/ InsertFunction(t, op)
  \/ StartSum(t, op) \/ AddToSum(t, op) \/ StoreSum(t, op)
  \/ CheckZero(t, op) \/ RemoveFunction(t, op)
  \/ CheckExist(t, op) \/ EnterNode(t, op)
  \/ GetNode(t, op) \/ MergeFunction(t, op) \/ ReplaceReplicas(t, op)
  \/ NextFunction(t, op)
  \/ PackFunction(t, op) \/ CopyStatus(t, op) \/ Finish(t, op)
  \/ GetAvailableFunction(t, op) \/ ListAvailableFunctions(t, op)
  \/ OwnExists(t, op) \/ OwnReplicas(t, op) \/ Reply(t, op)

Reading(t) == Running(t).kind \in {"status", "list"}

\* The functions that run here and are known to.
RunsHere == {f \in Function : self.available[f] > 0 /\ functionCatalog[f] # Absent}

\* What the properties remember of a step.
Record ==
  /\ settled' = IF Quiescent' THEN Current' ELSE settled
  /\ contested' = contested \cup
       {f \in Function : \E t, s \in Thread :
          /\ t # s /\ thread'[t] # Idle /\ thread'[s] # Idle
          /\ Running(t)'.kind = "delete" /\ Running(t)'.f = f}
  /\ overlapped' = (overlapped \/ \E t, s \in Thread : t # s /\ thread'[t] # Idle /\ thread'[s] # Idle)
  /\ steady' = [t \in Thread |->
       IF thread'[t] = Idle \/ ~Reading(t)' THEN {}
       ELSE IF thread[t] = Idle THEN RunsHere' ELSE steady[t] \cap RunsHere']

Next ==
  /\ crashed = {}
  /\ \E t \in Thread : Begin(t) \/ (Access(t, thread[t]) /\ UNCHANGED ops)
  /\ Record

Spec == Init /\ [][Next]_vars

---------------------------------------------------------------------------
(* Properties *)

\* The scheduler reads the replicas of a node and then, through the same
\* pointer, its execution time (trigger.go:120-121), between any two accesses
\* of the other goroutines: the time is there.
TimedAtEveryStep ==
  \A q \in Nodes, f \in Function :
    heap[nodeCatalog[q]].available[f] > 0 => f \in heap[nodeCatalog[q]].execTime

\* A nil dereference of FunctionCatalog ends the process only while the
\* function is being added, or after a delete of it overlapped another
\* operation.
CrashNeedsRace ==
  \A f \in crashed :
    \/ f \in contested
    \/ \E t \in Thread : thread[t].pc = "insert" /\ thread[t].f = f

\* Interleaving alone does no lasting harm to what the handlers rely on: when
\* the goroutines are done and no delete overlapped them, every function that
\* runs is catalogued.
SoundWhenQuiescent ==
  Quiescent /\ contested = {} /\ crashed = {} =>
    /\ OwnFunctionsCatalogued(Current, Self)
    /\ RunningIsCatalogued(Current)

\* The readers copy FunctionCatalog and the own node in several accesses.  A
\* function that runs here all the while the request is served is reported with
\* replicas, whatever is added, merged, recounted or removed between them: an
\* autoscaler or gateway that asks is never told that it has to start again
\* what is there.
RunningIsReported ==
  \A t \in Thread : thread[t].pc = "answer" =>
    \A f \in steady[t] : (thread[t].kind = "list" \/ f = thread[t].f) => f \in thread[t].shown
=============================================================================
