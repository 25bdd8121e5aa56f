------------------------ MODULE CatalogThreadsProofs ------------------------
(***************************************************************************)
(* The catalog that goroutines share without a lock, for any number of     *)
(* goroutines, operations, providers, functions and messages.              *)
(***************************************************************************)
EXTENDS CatalogThreads, TLAPS

(***************************************************************************)
(* The local variables of a goroutine, operation by operation.             *)
(***************************************************************************)
Struct == Object \cup {nil}
Peer == Provider \ {Self}

Adding == [kind : {"add"}, pc : {"write", "insert", "replicas"}, f : Function, n : 1 .. MaxCount]
Updating == [kind : {"update"}, pc : {"write", "replicas"}, f : Function, n : Count]
Deleting == [kind : {"delete"}, pc : {"write", "replicas", "zero", "remove"}, f : Function, n : {Absent}]
Linking == [kind : {"connected"}, pc : {"exist", "enter"}, q : Peer]
Merging == [kind : {"stream", "room"}, pc : {"exist", "enter", "node", "merge", "all"}, q : Peer,
            m : NodeInfoMsg, node : Struct, fs : SUBSET Function]
Packing == [kind : {"pack"}, pc : {"pack"}, fs : SUBSET Function]
Copying == [kind : {"pack"}, pc : {"status"}, fs : SUBSET Function, f : Function]
Finding == [kind : {"status"}, pc : {"find", "answer"}, f : Function, shown : {{}}]
Ranging == [kind : {"list"}, pc : {"range", "answer"}, fs : SUBSET Function, shown : SUBSET Function]
Looking == [kind : {"status", "list"}, pc : {"own", "amount"}, f : Function, replicas : Nat,
            fs : SUBSET Function, shown : SUBSET Function]
Showing == [kind : {"status"}, pc : {"answer"}, f : Function, fs : SUBSET Function, shown : SUBSET Function]
           \cup [kind : {"list"}, pc : {"range", "answer"}, f : Function, fs : SUBSET Function,
                 shown : SUBSET Function]

Caller == Adding \cup Updating \cup Deleting \cup Merging
Summing == [pc : {"sum"}, f : Function, qs : SUBSET Provider, replicas : Nat, caller : Caller]

Operation ==
  Adding \cup Updating \cup Deleting \cup Linking \cup Merging \cup Packing \cup Copying
  \cup Finding \cup Ranging \cup Looking \cup Showing \cup Summing \cup {Idle}

NodeType == [available : [Function -> Count \cup {Absent}], execTime : SUBSET Function, overload : BOOLEAN]

\* The own Node is never replaced, and one of the entries is the newest.
MapsType ==
  /\ nodeCatalog \in [Provider -> Struct] /\ nodeCatalog[Self] = 1
  /\ \E q \in Provider : \A r \in Provider : nodeCatalog[r] <= nodeCatalog[q]
  /\ heap \in [Object -> NodeType]
  /\ functionCatalog \in [Function -> Nat \cup {Absent}]

\* Where a sum came from, and that the pointers of unpackNodeInfoMsg lead to a
\* Node that was in the catalog once, for functions of the message.
PointedIn(catalog, op) ==
  /\ op.pc = "sum" =>
       /\ op.caller.kind \in {"add", "update", "delete"} => op.caller.f = op.f /\ op.caller.pc = "replicas"
       /\ op.caller.kind \in {"stream", "room"} => op.caller.pc = "all"
  /\ op.pc = "node" => catalog[op.q] # nil
  /\ op.pc = "merge" =>
       op.fs \subseteq Present(op.m.available) /\ op.node # nil /\ \E q \in Provider : op.node <= catalog[q]

Pointed(op) == PointedIn(nodeCatalog, op)

ThreadType ==
  /\ thread \in [Thread -> Operation]
  /\ \A t \in Thread : Pointed(thread[t])

TypeInv == MapsType /\ ThreadType

---------------------------------------------------------------------------
(* The execution times *)

\* An update finds the time that was there when it began; a message has its
\* times in the Node before its replicas.
InTime(op) ==
  /\ op.pc = "write" /\ op.kind = "update" => op.f \in self.execTime
  /\ op.pc = "merge" =>
       \A f \in Function : op.m.available[f] > 0 => f \in op.fs \cup heap[op.node].execTime

TimedInv ==
  /\ \A o \in Object, f \in Function : heap[o].available[f] > 0 => f \in heap[o].execTime
  /\ \A t \in Thread : InTime(thread[t])

---------------------------------------------------------------------------
(* The races about FunctionCatalog *)

\* The function is there, or will be, or a delete has overlapped.
Known(f) ==
  \/ functionCatalog[f] # Absent \/ f \in contested
  \/ \E s \in Thread : thread[s].pc = "insert" /\ thread[s].f = f

Runs(q, f) == heap[nodeCatalog[q]].available[f] > 0

\* What an operation has seen of FunctionCatalog or of the own Node is still
\* so, and a delete that nothing overlaps counts right.
Informed(op) ==
  /\ op.pc = "write" /\ op.kind = "update" => Known(op.f)
  /\ op.pc \in {"replicas", "status"} /\ op.kind # "delete" => Known(op.f)
  /\ op.pc = "sum" /\ op.caller.kind # "delete" => Known(op.f)
  /\ op.pc = "merge" => \A f \in Present(op.m.available) : f \in op.fs \/ Known(f)

Alone(op) ==
  /\ op.pc \in {"replicas", "zero", "remove"} /\ op.kind = "delete" /\ op.f \notin contested =>
       self.available[op.f] = Absent
  /\ op.pc = "sum" /\ op.caller.kind = "delete" /\ op.f \notin contested =>
       /\ self.available[op.f] = Absent
       /\ \A q \in Nodes \ op.qs : Runs(q, op.f) => op.replicas > 0
  /\ op.pc = "zero" /\ op.f \notin contested =>
       \A q \in Nodes : Runs(q, op.f) => functionCatalog[op.f] > 0
  /\ op.pc = "remove" /\ op.f \notin contested => \A q \in Nodes : ~Runs(q, op.f)

Overlaps ==
  \A t, s \in Thread :
    t # s /\ thread[t] # Idle /\ thread[s] # Idle /\ Running(t).kind = "delete" => Running(t).f \in contested

RaceInv ==
  /\ \A t \in Thread : Informed(thread[t]) /\ Alone(thread[t])
  /\ Overlaps
  /\ \A f \in Function : self.available[f] # Absent => Known(f)
  /\ \A q \in Nodes, f \in Function : Runs(q, f) => Known(f)
  /\ CrashNeedsRace

---------------------------------------------------------------------------
(* The readers *)

\* What ran here all the while is shown, or still to come.
Reports(op, fs) ==
  /\ op.kind = "list" /\ op.pc = "range" => fs \subseteq op.fs \cup op.shown
  /\ op.kind = "list" /\ op.pc \in {"own", "amount"} => fs \subseteq op.fs \cup op.shown \cup {op.f}
  /\ op.kind = "list" /\ op.pc = "answer" => fs \subseteq op.shown
  /\ op.kind = "status" /\ op.pc = "answer" /\ op.f \in fs => op.f \in op.shown

ReportInv ==
  \A t \in Thread : steady[t] \subseteq RunsHere /\ (thread[t] # Idle /\ Reading(t) => Reports(thread[t], steady[t]))

---------------------------------------------------------------------------
(* Types *)

\* The program counter tells the operation.
LEMMA PcTells ==
  ASSUME NEW op \in Operation
  PROVE  /\ op = Idle <=> op.pc = "idle"
         /\ op.pc \in {"write", "replicas"} => op \in Adding \cup Updating \cup Deleting
         /\ op.pc = "insert" => op \in Adding
         /\ op.pc \in {"zero", "remove"} => op \in Deleting
         /\ op.pc \in {"exist", "enter"} => op \in Linking \cup Merging
         /\ op.pc \in {"node", "merge", "all"} => op \in Merging
         /\ op.pc = "sum" => op \in Summing
         /\ op.pc = "pack" => op \in Packing
         /\ op.pc = "status" => op \in Copying
         /\ op.pc = "find" => op \in Finding
         /\ op.pc \in {"own", "amount"} => op \in Looking
         /\ op.pc = "range" => op \in Ranging \cup Showing /\ op.kind = "list"
         /\ op.pc = "answer" => op \in Finding \cup Ranging \cup Showing
<1>1. CASE op \in Adding \cup Updating \cup Deleting \cup Linking \cup Merging
  BY <1>1 DEF Adding, Updating, Deleting, Linking, Merging, Idle
<1>2. CASE op \in Packing \cup Copying \cup Summing \cup {Idle}
  BY <1>2 DEF Packing, Copying, Summing, Idle
<1>3. CASE op \in Finding \cup Ranging \cup Looking \cup Showing
  BY <1>3 DEF Finding, Ranging, Looking, Showing, Idle
<1> QED BY <1>1, <1>2, <1>3 DEF Operation

\* NodeCatalog never loses a node, and a node that is replaced gets a newer
\* struct.
Grows ==
  /\ nodeCatalog' \in [Provider -> Struct]
  /\ \A q \in Provider : nodeCatalog[q] <= nodeCatalog'[q]

LEMMA StructType == Struct \subseteq Nat /\ Object \subseteq Struct /\ nil \notin Object /\ 1 \in Object
BY ThreadsAssumption DEF Struct, Object, nil

LEMMA NodesKept ==
  ASSUME MapsType, UNCHANGED nodeCatalog, heap' \in [Object -> NodeType],
         functionCatalog' \in [Function -> Nat \cup {Absent}]
  PROVE  MapsType' /\ Grows
<1>1. \A q \in Provider : nodeCatalog[q] \in Nat
  BY Zenon, StructType DEF MapsType
<1>2. Grows
  BY <1>1 DEF MapsType, Grows
<1> QED BY <1>2 DEF MapsType

\* Going on at another point is becoming the operation there.
LEMMA GotoBecomes ==
  ASSUME ThreadType, NEW t \in Thread, NEW pc, Goto(t, pc)
  PROVE  Become(t, [thread[t] EXCEPT !.pc = pc])
BY DEF ThreadType, Goto, Become

LEMMA IdleOperation == Idle \in Operation /\ Idle.pc = "idle"
BY DEF Idle, Operation

\* One goroutine moves on.
LEMMA ThreadMoves ==
  ASSUME MapsType, ThreadType, MapsType', Grows, NEW t \in Thread,
         NEW new \in Operation, Become(t, new), PointedIn(nodeCatalog', new)
  PROVE  /\ TypeInv' /\ thread'[t] = new
         /\ \A s \in Thread \ {t} : thread'[s] = thread[s]
<1>1. /\ thread' \in [Thread -> Operation] /\ thread'[t] = new
      /\ \A s \in Thread \ {t} : thread'[s] = thread[s]
  BY DEF ThreadType, Become
<1>2. ASSUME NEW s \in Thread \ {t} PROVE Pointed(thread[s])'
  <2> DEFINE op == thread[s]
  <2>1. thread'[s] = op /\ op \in Operation /\ Pointed(op)
    BY <1>1 DEF ThreadType
  <2>2. op.pc = "node" => op.q \in Provider
    BY <2>1, PcTells DEF Merging, Peer
  <2>3. op.pc = "merge" => op.node \in Struct
    BY <2>1, PcTells DEF Merging
  <2> HIDE DEF op
  <2>0. \A q \in Provider : nodeCatalog[q] \in Nat /\ nodeCatalog'[q] \in Nat /\ nodeCatalog[q] <= nodeCatalog'[q]
    BY Zenon, StructType DEF MapsType, Grows
  <2>4. op.pc = "node" => nodeCatalog'[op.q] # nil
    BY <2>0, <2>1, <2>2 DEF Pointed, PointedIn, nil
  <2>5. op.pc = "merge" => op.node # nil /\ \E q \in Provider : op.node <= nodeCatalog'[q]
    <3>1. ASSUME op.pc = "merge" PROVE \E q \in Provider : op.node <= nodeCatalog'[q]
      <4>1. op.node \in Nat
        BY Zenon, <2>3, <3>1, StructType
      <4>2. PICK q \in Provider : op.node <= nodeCatalog[q]
        BY <2>1, <3>1 DEF Pointed, PointedIn
      <4> QED BY <2>0, <4>1, <4>2
    <3> QED BY <2>1, <3>1 DEF Pointed, PointedIn
  <2> QED BY <2>1, <2>4, <2>5 DEF Pointed, PointedIn
<1> QED BY <1>1, <1>2 DEF TypeInv, ThreadType, Pointed

LEMMA PlainMoves ==
  ASSUME MapsType, ThreadType, MapsType', Grows, NEW t \in Thread,
         NEW new \in Operation, Become(t, new), new.pc \notin {"sum", "node", "merge"}
  PROVE  /\ TypeInv' /\ thread'[t] = new
         /\ \A s \in Thread \ {t} : thread'[s] = thread[s]
<1>1. PointedIn(nodeCatalog', new)
  BY DEF PointedIn
<1> QED BY <1>1, ThreadMoves

\* The maps stay as they are.
LEMMA MapsKept ==
  ASSUME MapsType, UNCHANGED maps
  PROVE  /\ MapsType' /\ Grows /\ UNCHANGED <<nodeCatalog, heap, functionCatalog, counted>>
         /\ self' = self /\ Nodes' = Nodes
<1>1. UNCHANGED <<nodeCatalog, heap, functionCatalog, counted>>
  BY DEF maps
<1> QED BY <1>1, NodesKept DEF MapsType, self, Nodes

---------------------------------------------------------------------------
(* What each access does to the goroutine that makes it and to the maps *)

\* The other goroutines stay where they are.
Others(t) == \A s \in Thread \ {t} : thread'[s] = thread[s]

LEMMA SelfStruct ==
  ASSUME MapsType
  PROVE  /\ nodeCatalog[Self] = 1 /\ self = heap[1] /\ self \in NodeType
         /\ \A q \in Nodes : q \in Provider /\ nodeCatalog[q] \in Object /\ heap[nodeCatalog[q]] \in NodeType
         /\ Self \in Nodes
<1>1. 1 \in Object /\ Self \in Provider
  BY StructType, ThreadsAssumption
<1> QED BY <1>1 DEF MapsType, self, Nodes, Struct, nil

LEMMA WriteNodeDoes ==
  ASSUME TypeInv, NEW t \in Thread, WriteNode(t, thread[t])
  PROVE  LET op == thread[t]
             new == thread'[t]
         IN  /\ TypeInv' /\ Others(t) /\ op \in Adding \cup Updating \cup Deleting /\ op.pc = "write"
             /\ new.kind = op.kind /\ new.f = op.f /\ new.n = op.n
             /\ new.pc = IF op.kind = "add" THEN "insert" ELSE "replicas"
             /\ UNCHANGED <<nodeCatalog, functionCatalog, counted, crashed>>
             /\ self' \in NodeType /\ self'.available = [self.available EXCEPT ![op.f] = op.n]
             /\ self'.execTime = IF op.kind = "add" THEN self.execTime \cup {op.f} ELSE self.execTime
             /\ \A o \in Object \ {1} : heap'[o] = heap[o]
<1> USE DEF TypeInv
<1> DEFINE op == thread[t]
           pc == IF op.kind = "add" THEN "insert" ELSE "replicas"
           new == [op EXCEPT !.pc = pc]
<1>1. op \in Adding \cup Updating \cup Deleting /\ op.pc = "write"
  BY PcTells DEF ThreadType, WriteNode
<1>2. UNCHANGED <<nodeCatalog, functionCatalog, counted, crashed>> /\ Goto(t, pc)
  BY Zenon DEF WriteNode
<1>3. heap' = [heap EXCEPT ![1].available[op.f] = op.n,
                           ![1].execTime = IF op.kind = "add" THEN @ \cup {op.f} ELSE @]
  BY Zenon, SelfStruct DEF WriteNode
<1>4. op.f \in Function /\ op.n \in Count \cup {Absent}
  BY <1>1 DEF Adding, Updating, Deleting, Count
<1>5. /\ MapsType' /\ Grows
      /\ self' \in NodeType /\ self'.available = [self.available EXCEPT ![op.f] = op.n]
      /\ self'.execTime = IF op.kind = "add" THEN self.execTime \cup {op.f} ELSE self.execTime
      /\ \A o \in Object \ {1} : heap'[o] = heap[o]
  <2> DEFINE x == [heap[1] EXCEPT !.available = [@ EXCEPT ![op.f] = op.n],
                                   !.execTime = IF op.kind = "add" THEN @ \cup {op.f} ELSE @]
  <2>2. heap[1] \in NodeType
    BY StructType DEF MapsType
  <2>3. x \in NodeType
    BY Zenon, <1>4, <2>2 DEF NodeType
  <2>4. heap' = [heap EXCEPT ![1] = x]
    BY Zenon, <1>3, StructType DEF MapsType, NodeType
  <2>5. heap' \in [Object -> NodeType]
    BY Zenon, <2>3, <2>4 DEF MapsType
  <2>6. x.available = [heap[1].available EXCEPT ![op.f] = op.n]
        /\ x.execTime = IF op.kind = "add" THEN heap[1].execTime \cup {op.f} ELSE heap[1].execTime
    BY <2>2 DEF NodeType
  <2>7. self = heap[1] /\ self' = heap'[1]
    BY <1>2, SelfStruct DEF self
  <2> HIDE DEF x
  <2>8. heap'[1] = x /\ \A o \in Object \ {1} : heap'[o] = heap[o]
    BY <2>4, StructType DEF MapsType
  <2>9. MapsType' /\ Grows
    BY <1>2, <2>5, NodesKept DEF MapsType
  <2> QED BY <2>3, <2>6, <2>7, <2>8, <2>9
<1>6. new \in Operation /\ new.kind = op.kind /\ new.f = op.f /\ new.n = op.n /\ new.pc = pc
  BY <1>1 DEF Operation, Adding, Updating, Deleting
<1>7. Become(t, new)
  BY <1>2, GotoBecomes
<1> HIDE DEF new
<1>9. TypeInv' /\ thread'[t] = new /\ Others(t)
  BY <1>5, <1>6, <1>7, PlainMoves DEF Others
<1> QED BY <1>1, <1>2, <1>5, <1>6, <1>9

LEMMA InsertFunctionDoes ==
  ASSUME TypeInv, NEW t \in Thread, InsertFunction(t, thread[t])
  PROVE  LET op == thread[t]
             new == thread'[t]
         IN  /\ TypeInv' /\ Others(t) /\ op \in Adding /\ op.pc = "insert"
             /\ new.kind = "add" /\ new.pc = "replicas" /\ new.f = op.f
             /\ UNCHANGED <<nodeCatalog, heap, counted, crashed>>
             /\ functionCatalog'[op.f] # Absent
             /\ \A f \in Function : functionCatalog[f] # Absent => functionCatalog'[f] # Absent
<1> USE DEF TypeInv
<1> DEFINE op == thread[t]
           new == [op EXCEPT !.pc = "replicas"]
<1>1. op \in Adding /\ op.pc = "insert"
  BY PcTells DEF ThreadType, InsertFunction
<1>2. /\ UNCHANGED <<nodeCatalog, heap, counted, crashed>> /\ Goto(t, "replicas")
      /\ functionCatalog' = [functionCatalog EXCEPT ![op.f] = IF @ = Absent THEN op.n ELSE @]
  BY Zenon DEF InsertFunction
<1>3. op.f \in Function /\ op.n \in Nat /\ op.n # Absent
  BY <1>1, CatalogAssumption DEF Adding, Absent
<1>4. /\ functionCatalog' \in [Function -> Nat \cup {Absent}] /\ functionCatalog'[op.f] # Absent
      /\ \A f \in Function : functionCatalog[f] # Absent => functionCatalog'[f] # Absent
  BY <1>2, <1>3 DEF MapsType
<1>5. MapsType' /\ Grows
  BY <1>2, <1>4, NodesKept DEF MapsType
<1>6. new \in Operation /\ new.kind = "add" /\ new.f = op.f /\ new.pc = "replicas"
  BY <1>1 DEF Operation, Adding
<1>7. Become(t, new)
  BY <1>2, GotoBecomes
<1> HIDE DEF new
<1>9. TypeInv' /\ thread'[t] = new /\ Others(t)
  BY <1>5, <1>6, <1>7, PlainMoves DEF Others
<1> QED BY <1>1, <1>2, <1>4, <1>6, <1>9

\* A range over NodeCatalog begins.
LEMMA SumDoes ==
  ASSUME TypeInv, NEW t \in Thread, NEW g \in Function, NEW caller \in Caller,
         caller.kind \in {"add", "update", "delete"} => caller.f = g /\ caller.pc = "replicas",
         caller.kind \in {"stream", "room"} => caller.pc = "all",
         Sum(t, g, caller), UNCHANGED maps
  PROVE  LET new == thread'[t]
         IN  /\ TypeInv' /\ Others(t) /\ new \in Summing /\ new.pc = "sum" /\ new.f = g
             /\ new.caller = caller /\ Nodes \subseteq new.qs
<1> USE DEF TypeInv
<1>1. PICK qs \in Yields(Nodes, Provider) :
        Become(t, [pc |-> "sum", f |-> g, qs |-> qs, replicas |-> 0, caller |-> caller])
  BY DEF Sum
<1>2. qs \in SUBSET Provider /\ Nodes \subseteq qs
  BY DEF Yields
<1> DEFINE new == [pc |-> "sum", f |-> g, qs |-> qs, replicas |-> 0, caller |-> caller]
<1>3. new \in Summing /\ new.pc = "sum" /\ new.f = g /\ new.qs = qs /\ new.caller = caller
  BY <1>2 DEF Summing
<1>4. Become(t, new)
  BY <1>1
<1> HIDE DEF new
<1>5. new \in Operation /\ PointedIn(nodeCatalog', new)
  BY <1>3 DEF Operation, PointedIn
<1>6. TypeInv' /\ thread'[t] = new /\ Others(t)
  BY <1>4, <1>5, MapsKept, ThreadMoves DEF Others
<1> QED BY <1>2, <1>3, <1>6

LEMMA StartSumDoes ==
  ASSUME TypeInv, NEW t \in Thread, StartSum(t, thread[t])
  PROVE  LET op == thread[t]
             new == thread'[t]
         IN  /\ TypeInv' /\ Others(t) /\ op \in Adding \cup Updating \cup Deleting /\ op.pc = "replicas"
             /\ new \in Summing /\ new.pc = "sum" /\ new.f = op.f /\ new.caller = op /\ Nodes \subseteq new.qs
             /\ UNCHANGED <<maps, crashed>>
<1> USE DEF TypeInv
<1> DEFINE op == thread[t]
<1>1. op \in Adding \cup Updating \cup Deleting /\ op.pc = "replicas"
  BY PcTells DEF ThreadType, StartSum
<1>2. UNCHANGED <<maps, crashed>> /\ Sum(t, op.f, op)
  BY Zenon DEF StartSum
<1>3. op \in Caller /\ op.f \in Function /\ op.kind \in {"add", "update", "delete"}
  BY <1>1 DEF Caller, Adding, Updating, Deleting
<1> HIDE DEF op
<1>4. LET new == thread'[t]
      IN  /\ TypeInv' /\ Others(t) /\ new \in Summing /\ new.pc = "sum" /\ new.f = op.f
          /\ new.caller = op /\ Nodes \subseteq new.qs
  BY <1>1, <1>2, <1>3, SumDoes
<1> QED BY <1>1, <1>2, <1>4 DEF op

LEMMA AddToSumDoes ==
  ASSUME TypeInv, NEW t \in Thread, AddToSum(t, thread[t])
  PROVE  LET op == thread[t]
             new == thread'[t]
         IN  /\ TypeInv' /\ Others(t) /\ op \in Summing /\ op.pc = "sum" /\ new \in Summing
             /\ new.pc = "sum" /\ new.f = op.f /\ new.caller = op.caller
             /\ UNCHANGED <<maps, crashed>>
             /\ \E q \in op.qs :
                  /\ new.qs = op.qs \ {q}
                  /\ new.replicas = IF q \in Nodes /\ heap[nodeCatalog[q]].available[op.f] # Absent
                                    THEN op.replicas + heap[nodeCatalog[q]].available[op.f] ELSE op.replicas
<1> USE DEF TypeInv
<1> DEFINE op == thread[t]
<1>1. op \in Summing /\ op.pc = "sum" /\ PointedIn(nodeCatalog, op)
  BY PcTells DEF ThreadType, AddToSum, Pointed
<1>2. UNCHANGED <<maps, crashed>>
  BY Zenon DEF AddToSum
<1>3. PICK q \in op.qs :
        LET cnt == IF q \in Nodes THEN heap[nodeCatalog[q]].available[op.f] ELSE Absent
        IN  Become(t, [op EXCEPT !.qs = @ \ {q}, !.replicas = IF cnt = Absent THEN @ ELSE @ + cnt])
  BY Zenon DEF AddToSum
<1> DEFINE n == IF q \in Nodes /\ heap[nodeCatalog[q]].available[op.f] # Absent
                THEN op.replicas + heap[nodeCatalog[q]].available[op.f] ELSE op.replicas
           new == [op EXCEPT !.qs = @ \ {q}, !.replicas = n]
<1>4. Become(t, new)
  BY Zenon, <1>1, <1>3 DEF Summing
<1>5. n \in Nat
  <2>1. q \in Nodes => heap[nodeCatalog[q]].available[op.f] \in Count \cup {Absent}
    BY <1>1, SelfStruct DEF NodeType, Summing
  <2>2. op.replicas \in Nat
    BY <1>1 DEF Summing
  <2> QED BY <2>1, <2>2, CatalogAssumption DEF Count
<1> HIDE DEF n
<1>6. /\ new \in Summing /\ new.pc = "sum" /\ new.f = op.f /\ new.caller = op.caller
      /\ new.qs = op.qs \ {q} /\ new.replicas = n
  BY Zenon, <1>1, <1>5 DEF Summing
<1> HIDE DEF new
<1>7. new \in Operation /\ PointedIn(nodeCatalog', new)
  BY <1>1, <1>6 DEF Operation, PointedIn
<1>8. TypeInv' /\ thread'[t] = new /\ Others(t)
  BY <1>2, <1>4, <1>7, MapsKept, ThreadMoves DEF Others
<1> QED BY Zenon, <1>1, <1>2, <1>6, <1>8 DEF n

\* A nil dereference, recovered or not.
LEMMA PanicDoes ==
  ASSUME TypeInv, NEW t \in Thread, NEW kind, NEW f \in Function, Panic(t, kind, f)
  PROVE  /\ TypeInv' /\ Others(t) /\ thread'[t] = Idle /\ UNCHANGED maps
         /\ crashed' = IF kind = "delete" THEN crashed ELSE crashed \cup {f}
<1>1. Become(t, Idle) /\ UNCHANGED maps
  BY DEF Panic
<1> QED BY <1>1, MapsKept, PlainMoves, IdleOperation DEF TypeInv, Others, Panic

LEMMA StoreSumDoes ==
  ASSUME TypeInv, NEW t \in Thread, StoreSum(t, thread[t])
  PROVE  LET op == thread[t]
             new == thread'[t]
         IN  /\ TypeInv' /\ Others(t) /\ op \in Summing /\ op.pc = "sum" /\ op.qs = {}
             /\ UNCHANGED <<nodeCatalog, heap>>
             /\ functionCatalog[op.f] = Absent =>
                  /\ new = Idle /\ UNCHANGED maps
                  /\ crashed' = IF op.caller.kind = "delete" THEN crashed ELSE crashed \cup {op.f}
             /\ functionCatalog[op.f] # Absent =>
                  /\ functionCatalog' = [functionCatalog EXCEPT ![op.f] = op.replicas]
                  /\ counted' = counted \cup {op.f} /\ UNCHANGED crashed
                  /\ IF op.caller.kind = "delete"
                     THEN new \in Deleting /\ new.pc = "zero" /\ new.f = op.f
                     ELSE new = Idle \/ (new \in Merging /\ new.pc = "all")
<1> USE DEF TypeInv
<1> DEFINE op == thread[t]
<1>1. op \in Summing /\ op.pc = "sum" /\ op.qs = {} /\ PointedIn(nodeCatalog, op)
  BY PcTells, Zenon DEF ThreadType, StoreSum, Pointed
<1>2. /\ op.f \in Function /\ op.replicas \in Nat /\ op.caller \in Caller
      /\ op.caller.kind \in {"add", "update", "delete"} => op.caller.f = op.f
  BY SMTT(30), Zenon, <1>1 DEF Summing, PointedIn
<1>3. CASE functionCatalog[op.f] = Absent
  <2>1. Panic(t, op.caller.kind, op.f)
    BY <1>3, ZenonT(30) DEF StoreSum
  <2> QED BY <1>1, <1>2, <1>3, <2>1, PanicDoes, MapsKept
<1>4. CASE functionCatalog[op.f] # Absent
  <2> DEFINE kind == op.caller.kind
             new == CASE kind = "delete" -> [op.caller EXCEPT !.pc = "zero"]
                      [] kind \in {"stream", "room"} -> [op.caller EXCEPT !.pc = "all"]
                      [] OTHER -> Idle
  <2>1. /\ functionCatalog' = [functionCatalog EXCEPT ![op.f] = op.replicas]
        /\ counted' = counted \cup {op.f} /\ Become(t, new)
        /\ UNCHANGED <<nodeCatalog, heap, crashed>>
    BY <1>4, Zenon DEF StoreSum
  <2>2. MapsType' /\ Grows
    BY <1>2, <2>1, NodesKept DEF MapsType
  <2>3. /\ kind = "delete" => op.caller \in Deleting
        /\ kind \in {"stream", "room"} => op.caller \in Merging
        /\ kind \in {"add", "update", "delete", "stream", "room"}
    BY <1>2 DEF Caller, Adding, Updating, Deleting, Merging
  <2>4. kind = "delete" => new \in Deleting /\ new.pc = "zero" /\ new.f = op.f
    BY <1>2, <2>3 DEF Deleting
  <2>5. kind \in {"stream", "room"} => new \in Merging /\ new.pc = "all"
    BY <2>3 DEF Merging
  <2>6. kind \in {"add", "update"} => new = Idle
    OBVIOUS
  <2> HIDE DEF new
  <2>7. new \in Operation /\ new.pc \notin {"sum", "node", "merge"}
    BY <2>3, <2>4, <2>5, <2>6, IdleOperation DEF Operation
  <2>8. TypeInv' /\ thread'[t] = new /\ Others(t)
    BY <2>1, <2>2, <2>7, PlainMoves DEF Others
  <2> QED BY <1>1, <1>4, <2>1, <2>3, <2>4, <2>5, <2>6, <2>8
<1> QED BY <1>3, <1>4

LEMMA CheckZeroDoes ==
  ASSUME TypeInv, NEW t \in Thread, CheckZero(t, thread[t])
  PROVE  LET op == thread[t]
             new == thread'[t]
         IN  /\ TypeInv' /\ Others(t) /\ op \in Deleting /\ op.pc = "zero"
             /\ UNCHANGED <<maps, crashed>>
             /\ \/ new = Idle
                \/ /\ new \in Deleting /\ new.pc = "remove" /\ new.f = op.f
                   /\ functionCatalog[op.f] = 0
<1> USE DEF TypeInv
<1> DEFINE op == thread[t]
<1>1. op \in Deleting /\ op.pc = "zero"
  BY PcTells, Zenon DEF ThreadType, CheckZero
<1>2. op.f \in Function /\ op.kind = "delete"
  BY <1>1 DEF Deleting
<1>3. CASE functionCatalog[op.f] = Absent
  <2>1. Panic(t, op.kind, op.f)
    BY <1>3, Zenon DEF CheckZero
  <2> QED BY <1>1, <1>2, <2>1, PanicDoes
<1>4. CASE functionCatalog[op.f] # Absent
  <2>1. /\ UNCHANGED <<maps, crashed>>
        /\ IF functionCatalog[op.f] = 0 THEN Goto(t, "remove") ELSE Become(t, Idle)
    BY <1>4, Zenon DEF CheckZero
  <2>2. MapsType' /\ Grows
    BY <2>1, MapsKept
  <2>3. CASE functionCatalog[op.f] = 0
    <3> DEFINE new == [op EXCEPT !.pc = "remove"]
    <3>1. Become(t, new)
      BY <2>1, <2>3, GotoBecomes
    <3>2. new \in Deleting /\ new.pc = "remove" /\ new.f = op.f
      BY <1>1 DEF Deleting
    <3> HIDE DEF new
    <3>3. TypeInv' /\ thread'[t] = new /\ Others(t)
      BY <2>2, <3>1, <3>2, PlainMoves DEF Others, Operation
    <3> QED BY <1>1, <2>1, <2>3, <3>2, <3>3
  <2>4. CASE functionCatalog[op.f] # 0
    <3>1. TypeInv' /\ thread'[t] = Idle /\ Others(t)
      BY <2>1, <2>2, <2>4, IdleOperation, PlainMoves DEF Others
    <3> QED BY <1>1, <2>1, <3>1
  <2> QED BY <2>3, <2>4
<1> QED BY <1>3, <1>4

LEMMA RemoveFunctionDoes ==
  ASSUME TypeInv, NEW t \in Thread, RemoveFunction(t, thread[t])
  PROVE  LET op == thread[t]
         IN  /\ TypeInv' /\ Others(t) /\ op \in Deleting /\ op.pc = "remove" /\ thread'[t] = Idle
             /\ UNCHANGED <<nodeCatalog, heap, counted, crashed>>
             /\ functionCatalog' = [functionCatalog EXCEPT ![op.f] = Absent]
<1> USE DEF TypeInv
<1>1. thread[t] \in Deleting /\ thread[t].pc = "remove"
  BY PcTells, Zenon DEF ThreadType, RemoveFunction
<1>2. MapsType' /\ Grows
  BY Zenon, NodesKept DEF RemoveFunction, MapsType
<1>3. TypeInv' /\ thread'[t] = Idle /\ Others(t)
  BY <1>2, IdleOperation, PlainMoves DEF Others, RemoveFunction
<1> QED BY <1>1, <1>3 DEF RemoveFunction

\* NewNodeCatalogEntry goes on to unpackNodeInfoMsg, or is all there is to do.
LEMMA NodeEntered ==
  ASSUME TypeInv, MapsType', Grows, NEW t \in Thread, thread[t] \in Linking \cup Merging,
         thread[t].q \in Nodes',
         IF thread[t].kind = "stream" THEN Goto(t, "node") ELSE Become(t, Idle)
  PROVE  LET op == thread[t]
             new == thread'[t]
         IN  /\ TypeInv' /\ Others(t)
             /\ new = Idle \/ (new \in Merging /\ new.pc = "node")
<1> USE DEF TypeInv
<1> DEFINE op == thread[t]
           new == [op EXCEPT !.pc = "node"]
<1>1. CASE op.kind = "stream"
  <2>1. Become(t, new)
    BY <1>1, GotoBecomes
  <2>2. op \in Merging
    BY <1>1 DEF Linking
  <2>3. new \in Merging /\ new.pc = "node" /\ new.q = op.q
    BY <2>2 DEF Merging
  <2> HIDE DEF new
  <2>4. PointedIn(nodeCatalog', new) /\ new \in Operation
    BY <2>3 DEF PointedIn, Nodes, Operation
  <2> QED BY <2>1, <2>3, <2>4, ThreadMoves DEF Others
<1>2. CASE op.kind # "stream"
  BY <1>2, IdleOperation, PlainMoves DEF Others
<1> QED BY <1>1, <1>2

LEMMA CheckExistDoes ==
  ASSUME TypeInv, NEW t \in Thread, CheckExist(t, thread[t])
  PROVE  LET op == thread[t]
             new == thread'[t]
         IN  /\ TypeInv' /\ Others(t) /\ op \in Linking \cup Merging /\ op.pc = "exist"
             /\ UNCHANGED <<maps, crashed>>
             /\ new = Idle \/ (new \in Linking \cup Merging /\ new.pc = "enter")
                           \/ (new \in Merging /\ new.pc = "node")
<1> USE DEF TypeInv
<1> DEFINE op == thread[t]
<1>1. op \in Linking \cup Merging /\ op.pc = "exist"
  BY PcTells, Zenon DEF ThreadType, CheckExist
<1>2. UNCHANGED <<maps, crashed>> /\ MapsType' /\ Grows /\ Nodes' = Nodes
  BY MapsKept, Zenon DEF CheckExist
<1>3. CASE op.q \notin Nodes
  <2> DEFINE new == [op EXCEPT !.pc = "enter"]
  <2>1. Goto(t, "enter")
    BY <1>3, Zenon DEF CheckExist
  <2>2. Become(t, new)
    BY <2>1, GotoBecomes
  <2>3. new \in Linking \cup Merging /\ new.pc = "enter"
    BY <1>1 DEF Linking, Merging
  <2> HIDE DEF new
  <2>4. TypeInv' /\ thread'[t] = new /\ Others(t)
    BY <1>2, <2>2, <2>3, PlainMoves DEF Others, Operation
  <2> QED BY <1>1, <1>2, <2>3, <2>4
<1>4. CASE op.q \in Nodes
  <2>1. IF op.kind = "stream" THEN Goto(t, "node") ELSE Become(t, Idle)
    BY <1>4, Zenon DEF CheckExist
  <2> QED BY <1>1, <1>2, <1>4, <2>1, NodeEntered
<1> QED BY <1>3, <1>4

LEMMA EnterNodeDoes ==
  ASSUME TypeInv, NEW t \in Thread, EnterNode(t, thread[t])
  PROVE  LET op == thread[t]
             new == thread'[t]
         IN  /\ TypeInv' /\ Grows /\ Others(t) /\ op \in Linking \cup Merging /\ op.pc = "enter"
             /\ UNCHANGED <<functionCatalog, counted, crashed, self>>
             /\ new = Idle \/ (new \in Merging /\ new.pc = "node")
             /\ \E o \in Object :
                  /\ \A q \in Provider : o > nodeCatalog[q]
                  /\ nodeCatalog' = [nodeCatalog EXCEPT ![op.q] = o] /\ op.q \in Peer
                  /\ heap'[o] = NewNode /\ \A x \in Object \ {o} : heap'[x] = heap[x]
<1> USE DEF TypeInv
<1> DEFINE op == thread[t]
<1>1. op \in Linking \cup Merging /\ op.pc = "enter"
  BY PcTells, Zenon DEF ThreadType, EnterNode
<1>2. op.q \in Peer /\ op.q \in Provider /\ op.q # Self
  BY <1>1 DEF Linking, Merging, Peer
<1>3. /\ UNCHANGED <<functionCatalog, counted, crashed>>
      /\ IF op.kind = "stream" THEN Goto(t, "node") ELSE Become(t, Idle)
  BY Zenon DEF EnterNode
<1>4. PICK o \in Object : /\ Unused(o) /\ nodeCatalog' = [nodeCatalog EXCEPT ![op.q] = o]
                          /\ heap' = [heap EXCEPT ![o] = NewNode]
  BY Zenon DEF EnterNode
<1>5. \A q \in Provider : o > nodeCatalog[q]
  BY <1>4 DEF Unused
<1> HIDE DEF op
<1>6. o \in Nat /\ \A q \in Provider : nodeCatalog[q] \in Nat
  BY Zenon, StructType DEF MapsType
<1>7. \A q \in Provider : nodeCatalog'[q] = IF q = op.q THEN o ELSE nodeCatalog[q]
  BY <1>2, <1>4 DEF MapsType
<1>8. nodeCatalog' \in [Provider -> Struct]
  BY <1>2, <1>4, StructType DEF MapsType
<1>9. Grows
  <2>1. \A q \in Provider : nodeCatalog[q] <= nodeCatalog'[q]
    BY <1>5, <1>6, <1>7
  <2> QED BY <1>8, <2>1 DEF Grows
<1>10. \E q \in Provider : \A r \in Provider : nodeCatalog'[r] <= nodeCatalog'[q]
  <2>1. \A r \in Provider : nodeCatalog'[r] <= nodeCatalog'[op.q]
    BY <1>2, <1>5, <1>6, <1>7
  <2> QED BY <1>2, <2>1
<1>11. NewNode \in NodeType
  BY DEF NewNode, NodeType, NoEntries
<1>12. heap' \in [Object -> NodeType] /\ heap'[o] = NewNode /\ \A x \in Object \ {o} : heap'[x] = heap[x]
  BY <1>4, <1>11 DEF MapsType
<1>13. nodeCatalog'[Self] = 1 /\ self' = self
  <2>1. nodeCatalog'[Self] = 1 /\ nodeCatalog[Self] = 1 /\ o # 1
    BY <1>2, <1>5, <1>7, ThreadsAssumption DEF MapsType
  <2> QED BY <1>12, <2>1, StructType DEF self
<1>14. MapsType'
  BY <1>3, <1>8, <1>10, <1>12, <1>13 DEF MapsType
<1>15. op.q \in Nodes'
  BY <1>2, <1>7, StructType DEF Nodes
<1>16. LET new == thread'[t] IN TypeInv' /\ Others(t) /\ (new = Idle \/ (new \in Merging /\ new.pc = "node"))
  BY <1>1, <1>3, <1>9, <1>14, <1>15, NodeEntered DEF op
<1> QED BY Zenon, <1>1, <1>2, <1>3, <1>4, <1>5, <1>9, <1>12, <1>13, <1>16 DEF op

LEMMA GetNodeDoes ==
  ASSUME TypeInv, NEW t \in Thread, GetNode(t, thread[t])
  PROVE  LET op == thread[t]
             new == thread'[t]
         IN  /\ TypeInv' /\ Others(t) /\ op \in Merging /\ op.pc = "node"
             /\ new \in Merging /\ new.pc = "merge" /\ new.m = op.m /\ new.fs = Present(op.m.available)
             /\ UNCHANGED <<nodeCatalog, functionCatalog, counted, crashed>>
             /\ \A o \in Object : heap'[o].available = heap[o].available /\ heap'[o].execTime = heap[o].execTime
<1> USE DEF TypeInv
<1> DEFINE op == thread[t]
           o == nodeCatalog[op.q]
           new == [op EXCEPT !.pc = "merge", !.node = o, !.fs = Present(op.m.available)]
           x == [heap[o] EXCEPT !.overload = op.m.overload]
<1>1. op \in Merging /\ op.pc = "node" /\ PointedIn(nodeCatalog, op)
  BY PcTells, Zenon DEF ThreadType, GetNode, Pointed
<1>2. /\ heap' = [heap EXCEPT ![o].overload = op.m.overload] /\ Become(t, new)
      /\ UNCHANGED <<nodeCatalog, functionCatalog, counted, crashed>>
  BY Zenon DEF GetNode
<1>3. op.q \in Provider /\ op.m \in NodeInfoMsg
  BY <1>1 DEF Merging, Peer
<1>4. o \in Object /\ o # nil
  BY <1>1, <1>3, StructType DEF PointedIn, MapsType, Struct
<1>5. op.m.overload \in BOOLEAN /\ Present(op.m.available) \in SUBSET Function
  BY <1>3 DEF NodeInfoMsg, Present
<1>6. /\ new \in Merging /\ new.pc = "merge" /\ new.m = op.m /\ new.fs = Present(op.m.available)
      /\ new.node = o
  BY Zenon, <1>1, <1>4, <1>5 DEF Merging, Struct
<1>7. \E q \in Provider : o <= nodeCatalog[q]
  <2>1. o \in Nat
    BY Zenon, <1>4, StructType
  <2> QED BY <1>3, <2>1
<1> HIDE DEF o, op, new
<1>8. heap[o] \in NodeType /\ heap' = [heap EXCEPT ![o] = x]
  BY <1>2, <1>4 DEF MapsType
<1>9. x \in NodeType /\ x.available = heap[o].available /\ x.execTime = heap[o].execTime
  BY <1>5, <1>8 DEF NodeType
<1> HIDE DEF x
<1>10. heap' \in [Object -> NodeType] /\ \A y \in Object : heap'[y] = IF y = o THEN x ELSE heap[y]
  BY <1>4, <1>8, <1>9 DEF MapsType
<1>11. \A y \in Object : heap'[y].available = heap[y].available /\ heap'[y].execTime = heap[y].execTime
  BY <1>9, <1>10
<1>12. MapsType' /\ Grows
  BY <1>2, <1>10, NodesKept DEF MapsType
<1>13. new \in Operation /\ PointedIn(nodeCatalog', new)
  BY <1>2, <1>4, <1>6, <1>7 DEF Operation, PointedIn
<1>14. TypeInv' /\ thread'[t] = new /\ Others(t)
  BY <1>2, <1>12, <1>13, ThreadMoves DEF Others
<1> QED BY <1>1, <1>2, <1>6, <1>11, <1>14 DEF op

LEMMA MergeFunctionDoes ==
  ASSUME TypeInv, NEW t \in Thread, MergeFunction(t, thread[t])
  PROVE  LET op == thread[t]
             new == thread'[t]
         IN  /\ TypeInv' /\ Others(t) /\ op \in Merging /\ op.pc = "merge" /\ op.node \in Object
             /\ new \in Merging /\ new.pc = "merge" /\ new.m = op.m /\ new.node = op.node
             /\ UNCHANGED <<nodeCatalog, counted, crashed>>
             /\ \A o \in Object :
                  heap'[o].available = heap[o].available /\ heap[o].execTime \subseteq heap'[o].execTime
             /\ \E f \in op.fs :
                  /\ new.fs = op.fs \ {f} /\ functionCatalog'[f] # Absent
                  /\ op.m.available[f] > 0 => f \in heap'[op.node].execTime
             /\ \A f \in Function : functionCatalog[f] # Absent => functionCatalog'[f] # Absent
<1> USE DEF TypeInv
<1> DEFINE op == thread[t]
           o == op.node
<1>1. op \in Merging /\ op.pc = "merge" /\ PointedIn(nodeCatalog, op)
  BY PcTells, Zenon DEF ThreadType, MergeFunction, Pointed
<1>2. UNCHANGED <<nodeCatalog, counted, crashed>>
  BY Zenon DEF MergeFunction
<1>3. PICK f \in op.fs :
        /\ heap' = [heap EXCEPT ![o].execTime = IF op.m.available[f] > 0 THEN @ \cup {f} ELSE @]
        /\ functionCatalog' = [functionCatalog EXCEPT ![f] = IF @ = Absent THEN op.m.available[f] ELSE @]
        /\ Become(t, [op EXCEPT !.fs = @ \ {f}])
  BY Zenon DEF MergeFunction
<1>4. o \in Object /\ f \in Function /\ op.m.available[f] \in Count \cup {Absent}
  BY <1>1, StructType DEF PointedIn, Merging, Struct, NodeInfoMsg
<1>5. op.m.available[f] # Absent
  BY <1>1 DEF PointedIn, Present
<1> DEFINE g == IF op.m.available[f] > 0 THEN {f} ELSE {}
           x == [heap[o] EXCEPT !.execTime = @ \cup g]
           new == [op EXCEPT !.fs = @ \ {f}]
<1>6. /\ new \in Merging /\ new.pc = "merge" /\ new.m = op.m /\ new.node = o /\ new.fs = op.fs \ {f}
      /\ Become(t, new)
  BY <1>1, <1>3 DEF Merging
<1>7. heap[o] \in NodeType /\ heap' = [heap EXCEPT ![o] = x]
  BY Zenon, <1>3, <1>4 DEF MapsType, NodeType
<1>8. g \subseteq Function /\ (op.m.available[f] > 0 => f \in g)
  BY <1>4
<1> HIDE DEF g
<1>9. x \in NodeType /\ x.available = heap[o].available /\ x.execTime = heap[o].execTime \cup g
  BY <1>7, <1>8 DEF NodeType
<1> HIDE DEF x, new
<1>10. heap' \in [Object -> NodeType] /\ \A y \in Object : heap'[y] = IF y = o THEN x ELSE heap[y]
  BY <1>4, <1>7, <1>9 DEF MapsType
<1>11. /\ \A y \in Object : heap'[y].available = heap[y].available /\ heap[y].execTime \subseteq heap'[y].execTime
       /\ op.m.available[f] > 0 => f \in heap'[o].execTime
  BY <1>4, <1>8, <1>9, <1>10
<1>12. /\ functionCatalog' \in [Function -> Nat \cup {Absent}] /\ functionCatalog'[f] # Absent
       /\ \A y \in Function : functionCatalog[y] # Absent => functionCatalog'[y] # Absent
  BY <1>3, <1>4, <1>5, CatalogAssumption DEF MapsType, Count
<1>13. MapsType' /\ Grows
  BY <1>2, <1>10, <1>12, NodesKept
<1>14. new \in Operation /\ PointedIn(nodeCatalog', new)
  <2>1. new.fs \subseteq Present(new.m.available) /\ new.node # nil
    BY SMTT(30), Zenon, <1>1, <1>6 DEF PointedIn
  <2>2. \E q \in Provider : new.node <= nodeCatalog'[q]
    BY <1>1, <1>2, <1>6 DEF PointedIn
  <2> QED BY <1>6, <2>1, <2>2 DEF Operation, PointedIn
<1>15. TypeInv' /\ thread'[t] = new /\ Others(t)
  BY <1>6, <1>13, <1>14, ThreadMoves DEF Others
<1> QED BY <1>1, <1>2, <1>4, <1>6, <1>11, <1>12, <1>15

LEMMA ReplaceReplicasDoes ==
  ASSUME TypeInv, NEW t \in Thread, ReplaceReplicas(t, thread[t])
  PROVE  LET op == thread[t]
             new == thread'[t]
         IN  /\ TypeInv' /\ Others(t) /\ op \in Merging /\ op.pc = "merge" /\ op.fs = {} /\ op.node \in Object
             /\ new \in Merging /\ new.pc = "all"
             /\ UNCHANGED <<nodeCatalog, functionCatalog, counted, crashed>>
             /\ heap'[op.node].available = op.m.available /\ heap'[op.node].execTime = heap[op.node].execTime
             /\ \A o \in Object \ {op.node} : heap'[o] = heap[o]
<1> USE DEF TypeInv
<1> DEFINE op == thread[t]
           o == op.node
           x == [heap[o] EXCEPT !.available = op.m.available]
<1>1. op \in Merging /\ op.pc = "merge" /\ op.fs = {} /\ PointedIn(nodeCatalog, op)
  BY PcTells, Zenon DEF ThreadType, ReplaceReplicas, Pointed
<1>2. /\ UNCHANGED <<nodeCatalog, functionCatalog, counted, crashed>>
      /\ heap' = [heap EXCEPT ![o].available = op.m.available]
  BY Zenon DEF ReplaceReplicas
<1>3. PICK fs \in Yields(Present(functionCatalog), Function) : Become(t, [op EXCEPT !.pc = "all", !.fs = fs])
  BY Zenon DEF ReplaceReplicas
<1> DEFINE new == [op EXCEPT !.pc = "all", !.fs = fs]
<1>4. o \in Object /\ op.m.available \in [Function -> Count \cup {Absent}] /\ fs \in SUBSET Function
  BY <1>1, StructType DEF PointedIn, Merging, Struct, NodeInfoMsg, Yields
<1>5. new \in Merging /\ new.pc = "all" /\ Become(t, new)
  BY Zenon, <1>1, <1>3, <1>4 DEF Merging
<1>6. heap[o] \in NodeType /\ heap' = [heap EXCEPT ![o] = x]
  BY <1>2, <1>4 DEF MapsType, NodeType
<1>7. x \in NodeType /\ x.available = op.m.available /\ x.execTime = heap[o].execTime
  BY <1>4, <1>6 DEF NodeType
<1> HIDE DEF x, new
<1>8. heap' \in [Object -> NodeType] /\ \A y \in Object : heap'[y] = IF y = o THEN x ELSE heap[y]
  BY <1>4, <1>6, <1>7 DEF MapsType
<1>9. MapsType' /\ Grows
  BY SMTT(30), Zenon, <1>2, <1>8, NodesKept DEF MapsType
<1>10. TypeInv' /\ thread'[t] = new /\ Others(t)
  BY <1>5, <1>9, PlainMoves DEF Others, Operation
<1> QED BY <1>1, <1>2, <1>4, <1>5, <1>7, <1>8, <1>10

LEMMA NextFunctionDoes ==
  ASSUME TypeInv, NEW t \in Thread, NextFunction(t, thread[t])
  PROVE  LET op == thread[t]
             new == thread'[t]
         IN  /\ TypeInv' /\ Others(t) /\ op \in Merging /\ op.pc = "all" /\ UNCHANGED <<maps, crashed>>
             /\ \/ new \in Merging /\ new.pc = "all"
                \/ /\ new \in Summing /\ new.pc = "sum" /\ new.caller \in Merging
                   /\ functionCatalog[new.f] # Absent
<1> USE DEF TypeInv
<1> DEFINE op == thread[t]
<1>1. op \in Merging /\ op.pc = "all"
  BY PcTells, Zenon DEF ThreadType, NextFunction
<1>2. UNCHANGED <<maps, crashed>>
  BY Zenon DEF NextFunction
<1>3. PICK f \in op.fs :
        IF functionCatalog[f] = Absent
        THEN Become(t, [op EXCEPT !.fs = @ \ {f}]) ELSE Sum(t, f, [op EXCEPT !.fs = @ \ {f}])
  BY Zenon DEF NextFunction
<1> DEFINE new == [op EXCEPT !.fs = @ \ {f}]
<1>4. new \in Merging /\ new.pc = "all" /\ f \in Function
  BY <1>1 DEF Merging
<1>5. new.kind \in {"stream", "room"} /\ new \in Caller /\ new \in Operation
  BY <1>4 DEF Merging, Caller, Operation
<1>6. IF functionCatalog[f] = Absent THEN Become(t, new) ELSE Sum(t, f, new)
  BY <1>3
<1> HIDE DEF new
<1>7. CASE functionCatalog[f] = Absent
  <2>1. TypeInv' /\ thread'[t] = new /\ Others(t)
    BY <1>2, <1>4, <1>5, <1>6, <1>7, MapsKept, PlainMoves DEF Others
  <2> QED BY <1>1, <1>2, <1>4, <2>1
<1>8. CASE functionCatalog[f] # Absent
  <2>1. LET z == thread'[t]
        IN  TypeInv' /\ Others(t) /\ z \in Summing /\ z.pc = "sum" /\ z.f = f /\ z.caller = new
    BY <1>2, <1>4, <1>5, <1>6, <1>8, SumDoes
  <2> QED BY <1>1, <1>2, <1>4, <1>8, <2>1
<1> QED BY <1>7, <1>8

LEMMA PackFunctionDoes ==
  ASSUME TypeInv, NEW t \in Thread, PackFunction(t, thread[t])
  PROVE  LET op == thread[t]
             new == thread'[t]
         IN  /\ TypeInv' /\ Others(t) /\ op \in Packing /\ op.pc = "pack" /\ UNCHANGED <<maps, crashed>>
             /\ \/ new \in Packing /\ new.pc = "pack"
                \/ new \in Copying /\ new.pc = "status" /\ self.available[new.f] # Absent
<1> USE DEF TypeInv
<1> DEFINE op == thread[t]
<1>1. op \in Packing /\ op.pc = "pack"
  BY PcTells, Zenon DEF ThreadType, PackFunction
<1>2. UNCHANGED <<maps, crashed>>
  BY Zenon DEF PackFunction
<1>3. PICK f \in op.fs :
        Become(t, IF self.available[f] = Absent
                  THEN [op EXCEPT !.fs = @ \ {f}]
                  ELSE [kind |-> op.kind, pc |-> "status", fs |-> op.fs \ {f}, f |-> f])
  BY Zenon DEF PackFunction
<1> DEFINE new == IF self.available[f] = Absent
                  THEN [op EXCEPT !.fs = @ \ {f}]
                  ELSE [kind |-> op.kind, pc |-> "status", fs |-> op.fs \ {f}, f |-> f]
<1>4. \/ new \in Packing /\ new.pc = "pack"
      \/ new \in Copying /\ new.pc = "status" /\ new.f = f /\ self.available[f] # Absent
  BY <1>1 DEF Packing, Copying
<1>5. Become(t, new)
  BY <1>3
<1> HIDE DEF new
<1>6. TypeInv' /\ thread'[t] = new /\ Others(t)
  BY SMTT(30), Zenon, <1>2, <1>4, <1>5, MapsKept, PlainMoves DEF Others, Operation
<1> QED BY <1>1, <1>2, <1>4, <1>6

LEMMA CopyStatusDoes ==
  ASSUME TypeInv, NEW t \in Thread, CopyStatus(t, thread[t])
  PROVE  LET op == thread[t]
             new == thread'[t]
         IN  /\ TypeInv' /\ Others(t) /\ op \in Copying /\ op.pc = "status" /\ UNCHANGED maps
             /\ \/ new \in Packing /\ new.pc = "pack" /\ UNCHANGED crashed
                \/ new = Idle /\ functionCatalog[op.f] = Absent /\ crashed' = crashed \cup {op.f}
<1> USE DEF TypeInv
<1> DEFINE op == thread[t]
<1>1. op \in Copying /\ op.pc = "status"
  BY PcTells, Zenon DEF ThreadType, CopyStatus
<1>2. op.f \in Function /\ op.kind = "pack"
  BY SMTT(30), Zenon, <1>1 DEF Copying
<1>3. CASE functionCatalog[op.f] = Absent
  <2>1. Panic(t, op.kind, op.f)
    BY <1>3, Zenon DEF CopyStatus
  <2> QED BY <1>1, <1>2, <1>3, <2>1, PanicDoes
<1>4. CASE functionCatalog[op.f] # Absent
  <2> DEFINE new == [kind |-> op.kind, pc |-> "pack", fs |-> op.fs]
  <2>1. Become(t, new) /\ UNCHANGED <<maps, crashed>>
    BY <1>4, Zenon DEF CopyStatus
  <2>2. new \in Packing /\ new.pc = "pack"
    BY <1>1 DEF Copying, Packing
  <2> HIDE DEF new
  <2>3. TypeInv' /\ thread'[t] = new /\ Others(t)
    BY SMTT(30), Zenon, <2>1, <2>2, MapsKept, PlainMoves DEF Others, Operation
  <2> QED BY <1>1, <2>1, <2>2, <2>3
<1> QED BY <1>3, <1>4

\* An operation ends that leaves nothing half done.
LEMMA FinishDoes ==
  ASSUME TypeInv, NEW t \in Thread, Finish(t, thread[t]) \/ Reply(t, thread[t])
  PROVE  /\ TypeInv' /\ Others(t) /\ thread[t] # Idle /\ thread'[t] = Idle /\ UNCHANGED <<maps, crashed>>
         /\ thread[t].pc \in {"all", "pack", "answer"}
<1> USE DEF TypeInv
<1>1. UNCHANGED <<maps, crashed>> /\ Become(t, Idle) /\ thread[t].pc \in {"all", "pack", "answer"}
  BY DEF Finish, Reply
<1>2. thread[t] # Idle
  BY <1>1, IdleOperation
<1> QED BY <1>1, <1>2, MapsKept, IdleOperation, PlainMoves DEF Others

LEMMA GetAvailableFunctionDoes ==
  ASSUME TypeInv, NEW t \in Thread, GetAvailableFunction(t, thread[t])
  PROVE  LET op == thread[t]
             new == thread'[t]
         IN  /\ TypeInv' /\ Others(t) /\ op \in Finding /\ op.pc = "find" /\ UNCHANGED <<maps, crashed>>
             /\ new.kind = "status" /\ new.f = op.f
             /\ IF functionCatalog[op.f] = Absent
                THEN new \in Finding /\ new.pc = "answer" ELSE new \in Looking /\ new.pc = "own"
<1> USE DEF TypeInv
<1> DEFINE op == thread[t]
           new == IF functionCatalog[op.f] = Absent THEN Answer(op) ELSE Fetch(op, op.f)
<1>1. op \in Finding /\ op.pc = "find"
  BY PcTells, Zenon DEF ThreadType, GetAvailableFunction
<1>2. UNCHANGED <<maps, crashed>> /\ Become(t, new)
  BY Zenon DEF GetAvailableFunction
<1>3. /\ new.kind = "status" /\ new.f = op.f
      /\ IF functionCatalog[op.f] = Absent
         THEN new \in Finding /\ new.pc = "answer" ELSE new \in Looking /\ new.pc = "own"
  <2>1. CASE functionCatalog[op.f] = Absent
    BY SMTT(30), Zenon, <1>1, <2>1 DEF Finding, Answer
  <2>2. CASE functionCatalog[op.f] # Absent
    <3>1. op.f \in Function /\ op.kind = "status" /\ op.shown = {}
      BY SMTT(30), Zenon, <1>1 DEF Finding
    <3>2. functionCatalog[op.f] \in Nat
      BY <2>2, <3>1 DEF MapsType
    <3> QED BY <2>2, <3>1, <3>2 DEF Looking, Fetch
  <2> QED BY Zenon, <2>1, <2>2
<1> HIDE DEF new
<1>4. TypeInv' /\ thread'[t] = new /\ Others(t)
  BY <1>2, <1>3, MapsKept, PlainMoves DEF Others, Operation
<1> QED BY <1>1, <1>2, <1>3, <1>4

LEMMA ListAvailableFunctionsDoes ==
  ASSUME TypeInv, NEW t \in Thread, ListAvailableFunctions(t, thread[t])
  PROVE  LET op == thread[t]
             new == thread'[t]
         IN  /\ TypeInv' /\ Others(t) /\ op \in Ranging \cup Showing /\ op.pc = "range" /\ op.kind = "list"
             /\ UNCHANGED <<maps, crashed>> /\ new.kind = "list" /\ new.shown = op.shown
             /\ \/ new.pc = "answer" /\ op.fs = {}
                \/ \E f \in op.fs :
                     /\ new.fs = op.fs \ {f}
                     /\ IF functionCatalog[f] = Absent THEN new.pc = "range" ELSE new.pc = "own" /\ new.f = f
<1> USE DEF TypeInv
<1> DEFINE op == thread[t]
<1>1. op \in Ranging \cup Showing /\ op.pc = "range" /\ op.kind = "list"
  BY PcTells, Zenon DEF ThreadType, ListAvailableFunctions
<1>2. UNCHANGED <<maps, crashed>>
  BY ZenonT(30) DEF ListAvailableFunctions
<1>3. CASE op.fs = {} /\ Become(t, Answer(op))
  <2> DEFINE new == Answer(op)
  <2>1. new \in Operation /\ new.pc = "answer" /\ new.kind = "list" /\ new.shown = op.shown
    BY <1>1 DEF Answer, Ranging, Showing, Operation
  <2> HIDE DEF new
  <2>2. TypeInv' /\ thread'[t] = new /\ Others(t)
    BY SMTT(30), Zenon, <1>2, <1>3, <2>1, MapsKept, PlainMoves DEF Others, new
  <2> QED BY <1>1, <1>2, <1>3, <2>1, <2>2
<1>4. ASSUME NEW f \in op.fs,
             Become(t, IF functionCatalog[f] = Absent THEN [op EXCEPT !.fs = @ \ {f}] ELSE Fetch(op, f))
      PROVE  LET new == thread'[t]
             IN  /\ TypeInv' /\ Others(t) /\ new.kind = "list" /\ new.shown = op.shown /\ new.fs = op.fs \ {f}
                 /\ IF functionCatalog[f] = Absent THEN new.pc = "range" ELSE new.pc = "own" /\ new.f = f
  <2> DEFINE new == IF functionCatalog[f] = Absent THEN [op EXCEPT !.fs = @ \ {f}] ELSE Fetch(op, f)
  <2>1. /\ new \in Operation /\ new.kind = "list" /\ new.shown = op.shown /\ new.fs = op.fs \ {f}
        /\ IF functionCatalog[f] = Absent THEN new.pc = "range" ELSE new.pc = "own" /\ new.f = f
    <3>1. CASE functionCatalog[f] = Absent
      BY <1>1, <3>1 DEF Ranging, Showing, Operation
    <3>2. CASE functionCatalog[f] # Absent
      <4>1. f \in Function /\ op.fs \in SUBSET Function /\ op.shown \in SUBSET Function
        BY <1>1 DEF Ranging, Showing
      <4>2. functionCatalog[f] \in Nat
        BY <3>2, <4>1 DEF MapsType
      <4> QED BY <1>1, <3>2, <4>1, <4>2 DEF Looking, Fetch, Operation
    <3> QED BY <3>1, <3>2
  <2>2. Become(t, new)
    BY <1>4
  <2> HIDE DEF new
  <2>3. TypeInv' /\ thread'[t] = new /\ Others(t)
    BY <1>2, <2>1, <2>2, MapsKept, PlainMoves DEF Others
  <2> QED BY <2>1, <2>3
<1> QED BY <1>1, <1>2, <1>3, <1>4, Zenon DEF ListAvailableFunctions

\* The answer about one function.
LEMMA ShowDoes ==
  ASSUME NEW op \in Looking, NEW n \in Nat
  PROVE  LET z == Show(op, n)
         IN  /\ z \in Showing /\ z.kind = op.kind /\ z.f = op.f /\ z.fs = op.fs
             /\ z.pc = IF op.kind = "status" THEN "answer" ELSE "range"
             /\ op.shown \subseteq z.shown /\ (n > 0 => op.f \in z.shown)
<1> DEFINE shows == IF op.kind = "status" THEN op.replicas > 0 \/ n > 0 ELSE n > 0
           shown == IF shows THEN op.shown \cup {op.f} ELSE op.shown
           pc == IF op.kind = "status" THEN "answer" ELSE "range"
           z == [kind |-> op.kind, pc |-> pc, f |-> op.f, fs |-> op.fs, shown |-> shown]
<1>1. Show(op, n) = z
  BY DEF Show
<1>2. op.shown \in SUBSET Function /\ op.f \in Function /\ op.fs \in SUBSET Function /\ op.kind \in {"status", "list"}
  BY DEF Looking
<1>3. shown \in SUBSET Function /\ op.shown \subseteq shown /\ (n > 0 => op.f \in shown)
  BY <1>2
<1> HIDE DEF shown
<1>4. /\ z \in Showing /\ z.kind = op.kind /\ z.f = op.f /\ z.fs = op.fs /\ z.pc = pc /\ z.shown = shown
  BY SMTT(30), Zenon, <1>2, <1>3 DEF Showing
<1> HIDE DEF z
<1> QED BY <1>1, <1>3, <1>4

LEMMA OwnDoes ==
  ASSUME TypeInv, NEW t \in Thread, OwnExists(t, thread[t]) \/ OwnReplicas(t, thread[t])
  PROVE  LET op == thread[t]
             new == thread'[t]
         IN  /\ TypeInv' /\ Others(t) /\ op \in Looking /\ op.pc \in {"own", "amount"}
             /\ UNCHANGED <<maps, crashed>>
             /\ new.kind = op.kind /\ new.f = op.f /\ new.fs = op.fs /\ op.shown \subseteq new.shown
             /\ \/ new.pc = "amount"
                \/ /\ new.pc = IF op.kind = "status" THEN "answer" ELSE "range"
                   /\ self.available[op.f] > 0 => op.f \in new.shown
<1> USE DEF TypeInv
<1> DEFINE op == thread[t]
<1>1. op \in Looking /\ op.pc \in {"own", "amount"}
  BY PcTells, Zenon DEF ThreadType, OwnExists, OwnReplicas
<1>2. UNCHANGED <<maps, crashed>>
  BY ZenonT(30) DEF OwnExists, OwnReplicas
<1>3. op.f \in Function /\ self.available[op.f] \in Count \cup {Absent}
  BY SMTT(30), Zenon, <1>1, SelfStruct DEF Looking, NodeType
<1>4. ASSUME NEW n \in Nat, self.available[op.f] > 0 => n > 0, Become(t, Show(op, n))
      PROVE  LET new == thread'[t]
             IN  /\ TypeInv' /\ Others(t)
                 /\ new.kind = op.kind /\ new.f = op.f /\ new.fs = op.fs /\ op.shown \subseteq new.shown
                 /\ new.pc = IF op.kind = "status" THEN "answer" ELSE "range"
                 /\ self.available[op.f] > 0 => op.f \in new.shown
  <2> DEFINE new == Show(op, n)
  <2>1. /\ new \in Showing /\ new.kind = op.kind /\ new.f = op.f /\ new.fs = op.fs /\ op.shown \subseteq new.shown
        /\ new.pc = IF op.kind = "status" THEN "answer" ELSE "range"
        /\ n > 0 => op.f \in new.shown
    BY <1>1, ShowDoes
  <2>2. Become(t, new)
    BY SMTT(30), Zenon, <1>4
  <2> HIDE DEF new
  <2>3. TypeInv' /\ thread'[t] = new /\ Others(t)
    BY <1>2, <2>1, <2>2, MapsKept, PlainMoves DEF Others, Operation
  <2> QED BY <1>4, <2>1, <2>3
<1>5. CASE OwnExists(t, op)
  <2>1. CASE self.available[op.f] = Absent
    <3>1. Become(t, Show(op, 0))
      BY <1>5, <2>1, Zenon DEF OwnExists
    <3>2. 0 \in Nat /\ ~(self.available[op.f] > 0)
      BY <2>1 DEF Absent
    <3> QED BY Zenon, <1>1, <1>2, <1>4, <3>1, <3>2
  <2>2. CASE self.available[op.f] # Absent
    <3> DEFINE new == [op EXCEPT !.pc = "amount"]
    <3>1. Become(t, new)
      BY <1>5, <2>2, Zenon DEF OwnExists
    <3>2. /\ new \in Looking /\ new.pc = "amount" /\ new.kind = op.kind /\ new.f = op.f /\ new.fs = op.fs
          /\ new.shown = op.shown
      BY <1>1 DEF Looking
    <3> HIDE DEF new
    <3>3. TypeInv' /\ thread'[t] = new /\ Others(t)
      BY ZenonT(30), <1>2, <3>1, <3>2, MapsKept, PlainMoves DEF Others, Operation
    <3> QED BY Zenon, <1>1, <1>2, <3>2, <3>3
  <2> QED BY Zenon, <2>1, <2>2
<1>6. CASE OwnReplicas(t, op)
  <2> DEFINE n == IF self.available[op.f] = Absent THEN 0 ELSE self.available[op.f]
  <2>1. Become(t, Show(op, n))
    BY <1>6, Zenon DEF OwnReplicas
  <2>2. n \in Nat /\ (self.available[op.f] > 0 => n > 0)
    BY <1>3 DEF Count, Absent
  <2> HIDE DEF n
  <2> QED BY <1>1, <1>2, <1>4, <2>1, <2>2
<1> QED BY <1>5, <1>6

\* An operation begins.
LEMMA BeginDoes ==
  ASSUME TypeInv, NEW t \in Thread, Begin(t)
  PROVE  LET new == thread'[t]
         IN  /\ TypeInv' /\ Others(t) /\ thread[t] = Idle /\ new # Idle /\ UNCHANGED <<maps, crashed>>
             /\ new.pc \in {"write", "exist", "node", "pack", "find", "range"}
             /\ new.pc = "write" /\ new.kind = "update" => self.available[new.f] > 0
             /\ new.pc = "range" => Present(functionCatalog) \subseteq new.fs
<1> USE DEF TypeInv
<1>1. thread[t] = Idle /\ UNCHANGED <<maps, crashed>>
  BY Zenon DEF Begin
<1>2. PICK kind \in Kinds : \E op \in Operations(kind) : Become(t, op)
  BY Zenon DEF Begin
<1>3. PICK new \in Operations(kind) : Become(t, new)
  BY SMTT(30), Zenon, <1>2
<1>4. kind \in {"add", "update", "delete", "connected", "stream", "room", "pack", "status", "list"}
  BY SMTT(30), Zenon, ThreadsAssumption
<1>5. /\ new \in Operation /\ PointedIn(nodeCatalog', new)
      /\ new.pc \in {"write", "exist", "node", "pack", "find", "range"}
      /\ new.pc = "write" /\ new.kind = "update" => self.available[new.f] > 0
      /\ new.pc = "range" => Present(functionCatalog) \subseteq new.fs
  <2>1. CASE kind = "add"
    <3>1. new \in Adding /\ new.pc = "write" /\ new.kind = "add"
      BY <2>1 DEF Operations, Adding
    <3> QED BY <3>1 DEF Operation, PointedIn
  <2>2. CASE kind = "update"
    <3>1. new \in Updating /\ new.pc = "write" /\ self.available[new.f] > 0
      BY <2>2 DEF Operations, Updating
    <3> QED BY <3>1 DEF Operation, PointedIn
  <2>3. CASE kind = "delete"
    <3>1. new \in Deleting /\ new.pc = "write" /\ new.kind = "delete"
      BY <2>3 DEF Operations, Deleting
    <3> QED BY <3>1 DEF Operation, PointedIn
  <2>4. CASE kind = "connected"
    <3>1. new \in Linking /\ new.pc = "exist"
      BY <2>4 DEF Operations, Linking, Peer
    <3> QED BY <3>1 DEF Operation, PointedIn
  <2>5. CASE kind = "stream"
    <3>1. new \in Merging /\ new.pc = "exist"
      BY <2>5, ThreadsAssumption DEF Operations, Merging, Peer, Struct
    <3> QED BY <3>1 DEF Operation, PointedIn
  <2>6. CASE kind = "room"
    <3>1. new \in Merging /\ new.pc = "node" /\ new.q \in Nodes
      BY <2>6, ThreadsAssumption DEF Operations, Merging, Peer, Struct
    <3>2. nodeCatalog'[new.q] # nil
      BY <1>1, <3>1 DEF Nodes, maps
    <3> QED BY <3>1, <3>2 DEF Operation, PointedIn
  <2>7. CASE kind = "pack"
    <3>1. new \in Packing /\ new.pc = "pack"
      BY <2>7 DEF Operations, Packing, Yields
    <3> QED BY <3>1 DEF Operation, PointedIn
  <2>8. CASE kind = "status"
    <3>1. new \in Finding /\ new.pc = "find"
      BY <2>8 DEF Operations, MakeReplicaReader, Finding
    <3> QED BY <3>1 DEF Operation, PointedIn
  <2>9. CASE kind = "list"
    <3>1. new \in Ranging /\ new.pc = "range" /\ Present(functionCatalog) \subseteq new.fs
      BY SMTT(30), Zenon, <2>9 DEF Operations, MakeFunctionReader, Ranging, Yields
    <3> QED BY <3>1 DEF Operation, PointedIn
  <2> QED BY SMTT(30), Zenon, <1>4, <2>1, <2>2, <2>3, <2>4, <2>5, <2>6, <2>7, <2>8, <2>9
<1>6. TypeInv' /\ thread'[t] = new /\ Others(t)
  BY <1>1, <1>3, <1>5, MapsKept, ThreadMoves DEF Others
<1>7. new # Idle
  BY <1>5, IdleOperation
<1> QED BY Zenon, <1>1, <1>5, <1>6, <1>7

LEMMA InitType == Init => TypeInv
<1> SUFFICES ASSUME Init PROVE TypeInv
  OBVIOUS
<1>1. PICK boot \in Boots :
        LET c == initSelfCatagory(Self, boot.listed, boot.asked)
        IN  /\ heap = [o \in Object |-> IF o = 1 THEN [available |-> c.available[Self],
                                                       execTime |-> c.execTime[Self], overload |-> FALSE]
                                        ELSE NewNode]
            /\ functionCatalog = c.functionCatalog
  BY Zenon DEF Init
<1> DEFINE c == initSelfCatagory(Self, boot.listed, boot.asked)
           first == [available |-> c.available[Self], execTime |-> c.execTime[Self], overload |-> FALSE]
<1>2. boot.listed \in [Function -> Count \cup {Absent}] /\ boot.asked \in [Function -> Count] /\ Self \in Provider
  BY SMTT(30), Zenon, ThreadsAssumption
<1>3. c.available[Self] = boot.listed /\ c.execTime[Self] = Present(boot.listed)
  BY SMTT(30), Zenon, <1>2 DEF initSelfCatagory
<1>4. c.functionCatalog = [f \in Function |-> IF boot.listed[f] = Absent THEN Absent ELSE boot.asked[f]]
  BY DEF initSelfCatagory
<1>5. first \in NodeType
  BY <1>2, <1>3 DEF NodeType, Present
<1>6. NewNode \in NodeType
  BY DEF NewNode, NodeType, NoEntries
<1>7. heap = [o \in Object |-> IF o = 1 THEN first ELSE NewNode] /\ functionCatalog = c.functionCatalog
  BY <1>1, Zenon
<1> HIDE DEF first, c
<1>8. heap \in [Object -> NodeType] /\ functionCatalog \in [Function -> Nat \cup {Absent}]
  BY <1>2, <1>4, <1>5, <1>6, <1>7, CatalogAssumption DEF Count
<1>9. /\ nodeCatalog \in [Provider -> Struct] /\ nodeCatalog[Self] = 1
      /\ \A r \in Provider : nodeCatalog[r] <= nodeCatalog[Self]
  BY <1>2, StructType DEF Init, Struct, nil
<1>10. MapsType
  BY SMTT(30), Zenon, <1>2, <1>8, <1>9 DEF MapsType
<1>11. ThreadType
  BY IdleOperation DEF Init, ThreadType, Pointed, PointedIn
<1> QED BY <1>10, <1>11 DEF TypeInv

\* The accesses that leave NodeCatalog and the Nodes alone.
Quiet(t, op) ==
  \/ InsertFunction(t, op) \/ StartSum(t, op) \/ AddToSum(t, op) \/ StoreSum(t, op)
  \/ CheckZero(t, op) \/ RemoveFunction(t, op) \/ CheckExist(t, op) \/ NextFunction(t, op)
  \/ PackFunction(t, op) \/ CopyStatus(t, op) \/ Finish(t, op) \/ Reply(t, op)
  \/ GetAvailableFunction(t, op) \/ ListAvailableFunctions(t, op) \/ OwnExists(t, op) \/ OwnReplicas(t, op)

LEMMA QuietDoes ==
  ASSUME TypeInv, NEW t \in Thread, Quiet(t, thread[t])
  PROVE  /\ TypeInv' /\ Others(t) /\ UNCHANGED <<nodeCatalog, heap>> /\ self' = self /\ Nodes' = Nodes
         /\ thread[t].pc # "write" /\ thread'[t].pc \notin {"write", "insert", "merge"}
<1>1. UNCHANGED maps => UNCHANGED <<nodeCatalog, heap>>
  BY DEF maps
<1>2. CASE InsertFunction(t, thread[t]) \/ StartSum(t, thread[t]) \/ AddToSum(t, thread[t])
  <2>1. CASE InsertFunction(t, thread[t])
    BY Zenon, <2>1, InsertFunctionDoes DEF self, Nodes
  <2>2. CASE StartSum(t, thread[t])
    BY Zenon, <1>1, <2>2, StartSumDoes DEF self, Nodes
  <2>3. CASE AddToSum(t, thread[t])
    BY Zenon, <1>1, <2>3, AddToSumDoes DEF self, Nodes
  <2> QED BY Zenon, <1>2, <2>1, <2>2, <2>3
<1>3. CASE StoreSum(t, thread[t]) \/ CheckZero(t, thread[t]) \/ RemoveFunction(t, thread[t])
  BY Zenon, <1>1, <1>3, StoreSumDoes, CheckZeroDoes, RemoveFunctionDoes, IdleOperation DEF self, Nodes
<1>4. CASE CheckExist(t, thread[t]) \/ NextFunction(t, thread[t]) \/ PackFunction(t, thread[t])
  BY Zenon, <1>1, <1>4, CheckExistDoes, NextFunctionDoes, PackFunctionDoes, IdleOperation DEF self, Nodes
<1>5. CASE CopyStatus(t, thread[t]) \/ Finish(t, thread[t]) \/ Reply(t, thread[t])
  BY Zenon, <1>1, <1>5, CopyStatusDoes, FinishDoes, IdleOperation DEF self, Nodes
<1>6. CASE GetAvailableFunction(t, thread[t]) \/ ListAvailableFunctions(t, thread[t])
  BY Zenon, <1>1, <1>6, GetAvailableFunctionDoes, ListAvailableFunctionsDoes DEF self, Nodes
<1>7. CASE OwnExists(t, thread[t]) \/ OwnReplicas(t, thread[t])
  BY Zenon, <1>1, <1>7, OwnDoes DEF self, Nodes
<1> QED BY <1>2, <1>3, <1>4, <1>5, <1>6, <1>7, Zenon DEF Quiet

\* Every step is the beginning of an operation or one access.
LEMMA NextCases ==
  ASSUME Next
  PROVE  /\ Record /\ crashed = {}
         /\ \E t \in Thread :
              \/ Begin(t) \/ Quiet(t, thread[t]) \/ WriteNode(t, thread[t]) \/ EnterNode(t, thread[t])
              \/ GetNode(t, thread[t]) \/ MergeFunction(t, thread[t]) \/ ReplaceReplicas(t, thread[t])
BY Zenon DEF Next, Access, Quiet

LEMMA SameState ==
  ASSUME UNCHANGED vars
  PROVE  UNCHANGED <<nodeCatalog, heap, functionCatalog, counted, thread, crashed, contested, steady>>
BY DEF vars, maps

LEMMA NextType == TypeInv /\ [Next]_vars => TypeInv'
<1>1. ASSUME TypeInv, Next PROVE TypeInv'
  BY <1>1, NextCases, BeginDoes, QuietDoes, WriteNodeDoes, EnterNodeDoes, GetNodeDoes, MergeFunctionDoes,
     ReplaceReplicasDoes, Zenon
<1>2. ASSUME TypeInv, UNCHANGED vars PROVE TypeInv'
  BY <1>2, SameState DEF TypeInv, MapsType, ThreadType, Pointed
<1> QED BY <1>1, <1>2

---------------------------------------------------------------------------
(* The execution times are there *)

TimedHeap == \A o \in Object, f \in Function : heap[o].available[f] > 0 => f \in heap[o].execTime

\* A Node that was ever in the catalog loses no execution time.
TimesGrow ==
  /\ self.execTime \subseteq self'.execTime
  /\ \A o \in Object : (\E q \in Provider : o <= nodeCatalog[q]) => heap[o].execTime \subseteq heap'[o].execTime

LEMMA TimedStep ==
  ASSUME TypeInv, TimedInv, NEW t \in Thread, Others(t), TimesGrow, TimedHeap', InTime(thread[t])'
  PROVE  TimedInv'
<1>1. ASSUME NEW s \in Thread \ {t} PROVE InTime(thread[s])'
  <2> DEFINE op == thread[s]
  <2>1. op \in Operation /\ PointedIn(nodeCatalog, op) /\ InTime(op) /\ thread'[s] = op
    BY SMTT(30), Zenon DEF TypeInv, ThreadType, TimedInv, Others, Pointed
  <2>2. op.pc = "merge" => op.node \in Object /\ \E q \in Provider : op.node <= nodeCatalog[q]
    BY <2>1, PcTells DEF PointedIn, Merging, Struct
  <2> HIDE DEF op
  <2>3. op.pc = "write" /\ op.kind = "update" => op.f \in self'.execTime
    BY Zenon, <2>1 DEF InTime, TimesGrow
  <2>4. op.pc = "merge" => heap[op.node].execTime \subseteq heap'[op.node].execTime
    BY <2>2 DEF TimesGrow
  <2> QED BY SMTT(30), Zenon, <2>1, <2>3, <2>4 DEF InTime
<1> QED BY ZenonT(30), <1>1 DEF TimedInv, TimedHeap

LEMMA QuietTimed ==
  ASSUME TypeInv, TimedInv, NEW t \in Thread,
         Quiet(t, thread[t])
  PROVE  TimedInv'
<1>1. Others(t) /\ UNCHANGED <<heap, self>> /\ thread'[t].pc \notin {"write", "merge"}
  BY SMTT(30), Zenon, QuietDoes
<1>2. TimesGrow /\ TimedHeap'
  BY <1>1 DEF TimesGrow, TimedInv, TimedHeap
<1>3. InTime(thread[t])'
  BY <1>1 DEF InTime
<1> QED BY <1>1, <1>2, <1>3, TimedStep

LEMMA BeginTimed ==
  ASSUME TypeInv, TimedInv, NEW t \in Thread, Begin(t)
  PROVE  TimedInv'
<1>1. LET new == thread'[t]
      IN  /\ TypeInv' /\ Others(t) /\ UNCHANGED <<heap, self>> /\ new.pc # "merge"
          /\ new.pc = "write" /\ new.kind = "update" => self.available[new.f] > 0
  BY BeginDoes, MapsKept DEF TypeInv
<1>2. TimesGrow /\ TimedHeap'
  BY <1>1 DEF TimesGrow, TimedInv, TimedHeap
<1>3. InTime(thread[t])'
  <2> DEFINE new == thread'[t]
  <2>1. new.pc = "write" /\ new.kind = "update" => new.f \in Function
    BY <1>1, PcTells DEF TypeInv, ThreadType, Updating, Adding, Deleting
  <2>2. new.pc = "write" /\ new.kind = "update" => new.f \in self.execTime
    BY <1>1, <2>1, SelfStruct, StructType DEF TimedInv, TypeInv
  <2> QED BY <1>1, <2>2 DEF InTime
<1> QED BY <1>1, <1>2, <1>3, TimedStep

LEMMA WriteNodeTimed ==
  ASSUME TypeInv, TimedInv, NEW t \in Thread, WriteNode(t, thread[t])
  PROVE  TimedInv'
<1> DEFINE op == thread[t]
<1>1. /\ TypeInv' /\ Others(t) /\ op \in Adding \cup Updating \cup Deleting /\ op.pc = "write"
      /\ thread'[t].pc \in {"insert", "replicas"}
      /\ self'.available = [self.available EXCEPT ![op.f] = op.n]
      /\ self'.execTime = IF op.kind = "add" THEN self.execTime \cup {op.f} ELSE self.execTime
      /\ \A o \in Object \ {1} : heap'[o] = heap[o]
  BY ZenonT(30), WriteNodeDoes
<1>2. self = heap[1] /\ self' = heap'[1] /\ self \in NodeType
  BY SMTT(30), Zenon, <1>1, SelfStruct DEF TypeInv, MapsType, self
<1>3. op.f \in Function /\ op.n \in Count \cup {Absent} /\ (op.kind \notin {"add", "update"} => op.n = Absent)
  BY <1>1 DEF Adding, Updating, Deleting, Count
<1>4. TimesGrow
  BY <1>1, <1>2 DEF TimesGrow
<1>5. op.n > 0 => op.f \in self'.execTime
  <2>1. op.kind = "update" => op.f \in self.execTime
    BY <1>1 DEF TimedInv, InTime
  <2>2. op.n > 0 => op.kind \in {"add", "update"}
    BY <1>3 DEF Absent
  <2> QED BY <1>1, <2>1, <2>2
<1>6. TimedHeap'
  <2>1. ASSUME NEW f \in Function, self'.available[f] > 0 PROVE f \in self'.execTime
    <3>1. CASE f = op.f
      BY <1>1, <1>2, <1>3, <1>5, <2>1, <3>1 DEF NodeType
    <3>2. CASE f # op.f
      <4>1. self.available[f] > 0
        BY <1>1, <1>2, <1>3, <2>1, <3>2 DEF NodeType
      <4> QED BY ZenonT(30), <1>1, <1>2, <4>1, StructType DEF TimedInv
    <3> QED BY SMTT(30), Zenon, <3>1, <3>2
  <2> QED BY Zenon, <1>1, <1>2, <2>1 DEF TimedHeap, TimedInv
<1>7. InTime(thread[t])'
  BY Zenon, <1>1 DEF InTime
<1> QED BY <1>1, <1>4, <1>6, <1>7, TimedStep

LEMMA EnterNodeTimed ==
  ASSUME TypeInv, TimedInv, NEW t \in Thread, EnterNode(t, thread[t])
  PROVE  TimedInv'
<1>1. Others(t) /\ self' = self /\ thread'[t].pc \in {"idle", "node"}
  BY EnterNodeDoes, IdleOperation
<1>2. PICK o \in Object : /\ \A q \in Provider : o > nodeCatalog[q]
                          /\ heap'[o] = NewNode /\ \A x \in Object \ {o} : heap'[x] = heap[x]
  BY EnterNodeDoes
<1>3. ASSUME NEW q \in Provider, NEW x \in Object, x <= nodeCatalog[q] PROVE x # o
  <2>1. o \in Nat /\ nodeCatalog[q] \in Nat /\ o > nodeCatalog[q]
    BY Zenon, <1>2, StructType DEF TypeInv, MapsType
  <2> QED BY <1>3, <2>1
<1>4. TimesGrow
  BY <1>1, <1>2, <1>3 DEF TimesGrow
<1>5. TimedHeap'
  <2>1. \A f \in Function : ~(NewNode.available[f] > 0)
    BY DEF NewNode, NoEntries, Absent
  <2> QED BY <1>2, <2>1 DEF TimedHeap, TimedInv
<1>6. InTime(thread[t])'
  BY <1>1 DEF InTime
<1> QED BY <1>1, <1>4, <1>5, <1>6, TimedStep

LEMMA MergeTimed ==
  ASSUME TypeInv, TimedInv, NEW t \in Thread,
         GetNode(t, thread[t]) \/ MergeFunction(t, thread[t]) \/ ReplaceReplicas(t, thread[t])
  PROVE  TimedInv'
<1> DEFINE op == thread[t]
           new == thread'[t]
<1>1. CASE GetNode(t, op)
  <2>1. /\ Others(t) /\ new \in Merging /\ new.pc = "merge" /\ new.m = op.m /\ new.fs = Present(op.m.available)
        /\ UNCHANGED nodeCatalog /\ op \in Merging
        /\ \A o \in Object : heap'[o].available = heap[o].available /\ heap'[o].execTime = heap[o].execTime
    BY <1>1, GetNodeDoes
  <2>2. self = heap[1] /\ self' = heap'[1]
    BY Zenon, <2>1, SelfStruct DEF TypeInv, MapsType, self
  <2>3. TimesGrow /\ TimedHeap'
    BY Zenon, <2>1, <2>2, StructType DEF TimesGrow, TimedHeap, TimedInv
  <2>4. \A f \in Function : op.m.available[f] > 0 => f \in Present(op.m.available)
    BY SMTT(30), Zenon DEF Present, Absent
  <2>5. InTime(thread[t])'
    BY <2>1, <2>4 DEF InTime
  <2> QED BY SMTT(30), Zenon, <2>1, <2>3, <2>5, TimedStep
<1>2. CASE MergeFunction(t, op)
  <2>1. /\ Others(t) /\ op.pc = "merge" /\ op.node \in Object /\ new \in Merging /\ new.pc = "merge"
        /\ new.m = op.m /\ new.node = op.node /\ UNCHANGED nodeCatalog
        /\ \A o \in Object :
             heap'[o].available = heap[o].available /\ heap[o].execTime \subseteq heap'[o].execTime
        /\ \E f \in op.fs : new.fs = op.fs \ {f} /\ (op.m.available[f] > 0 => f \in heap'[op.node].execTime)
    BY Zenon, <1>2, MergeFunctionDoes
  <2>2. self = heap[1] /\ self' = heap'[1]
    BY Zenon, <2>1, SelfStruct DEF TypeInv, MapsType, self
  <2>3. TimesGrow /\ TimedHeap'
    BY Zenon, <2>1, <2>2, StructType DEF TimesGrow, TimedHeap, TimedInv
  <2>4. \A f \in Function : op.m.available[f] > 0 => f \in op.fs \cup heap[op.node].execTime
    BY Zenon, <2>1 DEF TimedInv, InTime
  <2>5. \A f \in Function : op.m.available[f] > 0 => f \in new.fs \cup heap'[op.node].execTime
    BY Zenon, <2>1, <2>4
  <2>6. InTime(thread[t])'
    BY Zenon, <2>1, <2>5 DEF InTime
  <2> QED BY Zenon, <2>1, <2>3, <2>6, TimedStep
<1>3. CASE ReplaceReplicas(t, op)
  <2>1. /\ Others(t) /\ op.pc = "merge" /\ op.fs = {} /\ op.node \in Object /\ new.pc = "all" /\ UNCHANGED nodeCatalog
        /\ heap'[op.node].available = op.m.available /\ heap'[op.node].execTime = heap[op.node].execTime
        /\ \A o \in Object \ {op.node} : heap'[o] = heap[o]
    BY <1>3, ReplaceReplicasDoes, Zenon
  <2>2. self = heap[1] /\ self' = heap'[1]
    BY Zenon, <2>1, SelfStruct DEF TypeInv, MapsType, self
  <2>3. \A f \in Function : op.m.available[f] > 0 => f \in heap[op.node].execTime
    BY Zenon, <2>1 DEF TimedInv, InTime
  <2>4. TimesGrow
    BY Zenon, <2>1, <2>2, StructType DEF TimesGrow
  <2>5. TimedHeap'
    BY ZenonT(30), <2>1, <2>3 DEF TimedHeap, TimedInv
  <2>6. InTime(thread[t])'
    BY <2>1 DEF InTime
  <2> QED BY Zenon, <2>1, <2>4, <2>5, <2>6, TimedStep
<1> QED BY SMTT(30), Zenon, <1>1, <1>2, <1>3

LEMMA InitTimed == Init /\ TypeInv => TimedInv
<1> SUFFICES ASSUME Init, TypeInv PROVE TimedInv
  OBVIOUS
<1>1. PICK boot \in Boots :
        LET c == initSelfCatagory(Self, boot.listed, boot.asked)
        IN  heap = [o \in Object |-> IF o = 1 THEN [available |-> c.available[Self],
                                                    execTime |-> c.execTime[Self], overload |-> FALSE]
                                     ELSE NewNode]
  BY ZenonT(30) DEF Init
<1> DEFINE c == initSelfCatagory(Self, boot.listed, boot.asked)
<1>2. c.available[Self] = boot.listed /\ c.execTime[Self] = Present(boot.listed)
  BY SMTT(30), Zenon, ThreadsAssumption DEF initSelfCatagory
<1>3. heap[1].available = boot.listed /\ heap[1].execTime = Present(boot.listed)
      /\ \A o \in Object \ {1} : heap[o] = NewNode
  BY <1>1, <1>2, StructType
<1>4. \A f \in Function : boot.listed[f] > 0 => f \in Present(boot.listed)
  BY DEF Present, Absent
<1>5. \A f \in Function : ~(NewNode.available[f] > 0)
  BY DEF NewNode, NoEntries, Absent
<1>6. \A t \in Thread : thread[t].pc = "idle"
  BY IdleOperation DEF Init
<1> QED BY <1>3, <1>4, <1>5, <1>6 DEF TimedInv, InTime

LEMMA NextTimed == TypeInv /\ TimedInv /\ [Next]_vars => TimedInv'
<1>1. ASSUME TypeInv, TimedInv, Next PROVE TimedInv'
  BY <1>1, NextCases, BeginTimed, QuietTimed, WriteNodeTimed, EnterNodeTimed, MergeTimed, ZenonT(30)
<1>2. ASSUME TimedInv, UNCHANGED vars PROVE TimedInv'
  BY <1>2, SameState DEF TimedInv, InTime, self
<1> QED BY <1>1, <1>2

LEMMA TypesStay == Spec => []TypeInv
BY InitType, NextType, PTL DEF Spec

\* Between any two accesses of any goroutines to the catalog, a node with
\* replicas of a function has an execution time for it (trigger.go:120-121).
THEOREM ScheduledNodesAreTimed == Spec => []TimedAtEveryStep
<1>1. TypeInv /\ TimedInv => TimedAtEveryStep
  BY SelfStruct DEF TypeInv, TimedInv, TimedAtEveryStep
<1>2. Spec => []TimedInv
  BY InitType, InitTimed, NextTimed, TypesStay, PTL DEF Spec
<1> QED BY <1>1, <1>2, TypesStay, PTL

---------------------------------------------------------------------------
(* Races about FunctionCatalog *)

\* A delete that nothing has overlapped is about to remove the function.
Forgets(t, f) == thread[t].pc = "remove" /\ thread[t].f = f /\ f \notin contested

KnownStays(t) == \A f \in Function : Known(f) => Known(f)' \/ Forgets(t, f)

LEMMA RunningType ==
  ASSUME ThreadType, NEW t \in Thread, thread[t] # Idle, Running(t).kind = "delete"
  PROVE  Running(t).f \in Function /\ Running(t).f = thread[t].f
<1> DEFINE op == thread[t]
<1>1. op \in Operation /\ PointedIn(nodeCatalog, op)
  BY SMTT(30), Zenon DEF ThreadType, Pointed
<1>2. CASE op.pc = "sum"
  <2>1. Running(t) = op.caller
    BY <1>2 DEF Running
  <2>2. op \in Summing
    BY <1>1, <1>2, PcTells
  <2> QED BY <1>1, <1>2, <2>1, <2>2 DEF Summing, PointedIn
<1>3. CASE op.pc # "sum"
  <2>1. Running(t) = op
    BY <1>3 DEF Running
  <2>2. op \in Deleting
    BY Zenon, <1>1, <1>3, <2>1 DEF Operation, Adding, Updating, Deleting, Linking, Merging, Packing, Copying,
      Finding, Ranging, Looking, Showing, Summing
  <2> QED BY <2>1, <2>2 DEF Deleting
<1> QED BY <1>2, <1>3

\* What overlaps a delete is remembered.
LEMMA ContestedGrows ==
  ASSUME ThreadType', Record
  PROVE  contested \subseteq contested' /\ Overlaps'
<1> DEFINE New == {f \in Function : \E t, s \in Thread :
                     /\ t # s /\ thread'[t] # Idle /\ thread'[s] # Idle
                     /\ Running(t)'.kind = "delete" /\ Running(t)'.f = f}
<1>1. contested' = contested \cup New
  BY Zenon DEF Record
<1>2. ASSUME NEW t \in Thread, NEW s \in Thread, t # s, thread'[t] # Idle, thread'[s] # Idle,
             Running(t)'.kind = "delete"
      PROVE  Running(t)'.f \in New
  <2>1. Running(t)'.f \in Function
    <3> DEFINE op == thread'[t]
    <3>1. op \in Operation /\ PointedIn(nodeCatalog', op)
      BY SMTT(30), Zenon DEF ThreadType, Pointed
    <3>2. CASE op.pc = "sum"
      <4>1. Running(t)' = op.caller
        BY <3>2 DEF Running
      <4>2. op \in Summing
        BY <3>1, <3>2, PcTells
      <4> QED BY <1>2, <3>1, <3>2, <4>1, <4>2 DEF Summing, PointedIn
    <3>3. CASE op.pc # "sum"
      <4>1. Running(t)' = op
        BY <3>3 DEF Running
      <4>2. op \in Deleting
        BY Zenon, <1>2, <3>1, <3>3, <4>1 DEF Operation, Adding, Updating, Deleting, Linking, Merging, Packing,
          Copying, Finding, Ranging, Looking, Showing, Summing
      <4> QED BY <4>1, <4>2 DEF Deleting
    <3> QED BY <3>2, <3>3
  <2> QED BY <1>2, <2>1
<1> HIDE DEF New
<1> QED BY <1>1, <1>2 DEF Overlaps

\* A goroutine that runs while another one takes a step keeps what it knows.
LEMMA OtherKnows ==
  ASSUME TypeInv, RaceInv, NEW t \in Thread, NEW s \in Thread \ {t}, thread[s] # Idle,
         KnownStays(t), NEW f \in Function, Known(f)
  PROVE  Known(f)'
<1>1. ~Forgets(t, f)
  <2> SUFFICES ASSUME thread[t].pc = "remove", thread[t].f = f PROVE f \in contested
    BY DEF Forgets
  <2>1. thread[t] \in Deleting /\ thread[t] # Idle
    BY PcTells, IdleOperation DEF TypeInv, ThreadType
  <2>2. Running(t) = thread[t] /\ thread[t].kind = "delete"
    BY <2>1 DEF Running, Deleting
  <2> QED BY <2>1, <2>2 DEF RaceInv, Overlaps
<1> QED BY SMTT(30), Zenon, <1>1 DEF KnownStays

\* A delete that runs while another goroutine takes a step is contested.
LEMMA OtherContested ==
  ASSUME TypeInv, TypeInv', RaceInv, Record, NEW t \in Thread, NEW s \in Thread \ {t}, Others(t),
         thread[t] # Idle \/ thread'[t] # Idle, thread[s] # Idle, Running(s).kind = "delete"
  PROVE  thread[s].f \in contested'
<1>1. thread'[s] = thread[s] /\ Running(s)' = Running(s)
  BY DEF Others, Running
<1>2. Running(s).f = thread[s].f
  BY RunningType DEF TypeInv
<1>3. contested \subseteq contested' /\ Overlaps'
  BY SMTT(30), Zenon, ContestedGrows DEF TypeInv
<1>4. CASE thread[t] # Idle
  BY <1>2, <1>3, <1>4 DEF RaceInv, Overlaps
<1>5. CASE thread'[t] # Idle
  BY <1>1, <1>2, <1>3, <1>5 DEF Overlaps
<1> QED BY <1>4, <1>5

LEMMA RaceStep ==
  ASSUME TypeInv, TypeInv', RaceInv, Record, NEW t \in Thread, Others(t),
         thread[t] # Idle \/ thread'[t] # Idle, KnownStays(t),
         Informed(thread[t])', Alone(thread[t])',
         \A f \in Function : self'.available[f] # Absent => Known(f)',
         \A q \in Nodes', f \in Function : Runs(q, f)' => Known(f)',
         CrashNeedsRace'
  PROVE  RaceInv'
<1>1. ASSUME NEW s \in Thread \ {t} PROVE Informed(thread[s])' /\ Alone(thread[s])'
  <2> DEFINE op == thread[s]
  <2>1. op \in Operation /\ PointedIn(nodeCatalog, op) /\ thread'[s] = op /\ Informed(op)
    BY Zenon DEF TypeInv, ThreadType, Pointed, Others, RaceInv
  <2>2. CASE op = Idle
    BY Zenon, <2>1, <2>2, IdleOperation DEF Informed, Alone
  <2>3. CASE op # Idle
    <3>1. \A f \in Function : Known(f) => Known(f)'
      BY Zenon, <2>3, OtherKnows
    <3>2. Running(s).kind = "delete" => op.f \in contested'
      BY <2>3, OtherContested
    <3>3. /\ op.pc \in {"write", "replicas", "status", "sum"} => op.f \in Function
          /\ op.pc = "merge" => Present(op.m.available) \subseteq Function
      BY Zenon, <2>1, PcTells DEF Adding, Updating, Deleting, Copying, Summing, Present
    <3>4. /\ op.pc \in {"zero", "remove"} => op.kind = "delete"
          /\ op.pc = "sum" => Running(s) = op.caller
          /\ op.pc # "sum" => Running(s) = op
      BY Zenon, <2>1, PcTells DEF Running, Deleting
    <3> HIDE DEF op
    <3>5. Informed(thread[s])'
      BY <2>1, <3>1, <3>3, ZenonT(30) DEF Informed
    <3>6. Alone(thread[s])'
      <4>1. op.pc \in {"replicas", "zero", "remove"} /\ op.kind = "delete" => op.f \in contested'
        BY <3>2, <3>4
      <4>2. op.pc = "sum" /\ op.caller.kind = "delete" => op.f \in contested'
        BY SMTT(30), Zenon, <3>2, <3>4
      <4> QED BY <2>1, <3>4, <4>1, <4>2 DEF Alone
    <3> QED BY Zenon, <3>5, <3>6
  <2> QED BY <2>2, <2>3
<1>2. Overlaps'
  BY SMTT(30), Zenon, ContestedGrows DEF TypeInv
<1> QED BY Zenon, <1>1, <1>2 DEF RaceInv

\* A step that removes nothing from FunctionCatalog.
LEMMA KnownKept ==
  ASSUME TypeInv', NEW t \in Thread, Others(t), Record,
         \A f \in Function : functionCatalog[f] # Absent => functionCatalog'[f] # Absent,
         thread[t].pc = "insert" => functionCatalog'[thread[t].f] # Absent
  PROVE  KnownStays(t) /\ \A f \in Function : Known(f) => Known(f)'
<1>1. contested \subseteq contested'
  BY ContestedGrows DEF TypeInv
<1>2. ASSUME NEW f \in Function, Known(f) PROVE Known(f)'
  <2>1. CASE functionCatalog[f] # Absent \/ f \in contested
    BY <1>1, <2>1 DEF Known
  <2>2. ASSUME NEW s \in Thread, thread[s].pc = "insert", thread[s].f = f
        PROVE  Known(f)'
    BY <2>2 DEF Known, Others
  <2> QED BY ZenonT(30), <1>2, <2>1, <2>2 DEF Known
<1> QED BY SMTT(30), Zenon, <1>2 DEF KnownStays

\* The nodes stay as they are.
LEMMA QuietStep ==
  ASSUME TypeInv, TypeInv', RaceInv, Record, NEW t \in Thread, Others(t), UNCHANGED <<nodeCatalog, heap>>,
         thread[t] # Idle \/ thread'[t] # Idle, KnownStays(t),
         \A f \in Function : Known(f) => Known(f)',
         Informed(thread[t])', Alone(thread[t])', CrashNeedsRace'
  PROVE  RaceInv'
<1>1. self' = self /\ Nodes' = Nodes /\ \A q, f : Runs(q, f)' = Runs(q, f)
  BY DEF self, Nodes, Runs
<1>2. \A f \in Function : self'.available[f] # Absent => Known(f)'
  BY Zenon, <1>1 DEF RaceInv
<1>3. \A q \in Nodes', f \in Function : Runs(q, f)' => Known(f)'
  BY ZenonT(30), <1>1 DEF RaceInv
<1> QED BY SMTT(30), Zenon, <1>2, <1>3, RaceStep

\* Where an operation relies on nothing it has seen.
LEMMA CarefreeOperation ==
  ASSUME NEW t \in Thread,
         thread'[t].pc \notin {"write", "replicas", "status", "sum", "merge", "zero", "remove"}
  PROVE  Informed(thread[t])' /\ Alone(thread[t])'
BY DEF Informed, Alone

\* An access that only reads.
LEMMA ReadStep ==
  ASSUME TypeInv, TypeInv', RaceInv, Record, NEW t \in Thread, Others(t), UNCHANGED maps,
         thread[t] # Idle \/ thread'[t] # Idle, thread[t].pc # "insert",
         (\A f \in Function : Known(f) => Known(f)') =>
            Informed(thread[t])' /\ Alone(thread[t])' /\ CrashNeedsRace'
  PROVE  RaceInv'
<1>1. UNCHANGED <<nodeCatalog, heap, functionCatalog, counted>>
  BY DEF maps
<1>2. KnownStays(t) /\ \A f \in Function : Known(f) => Known(f)'
  BY Zenon, <1>1, KnownKept
<1> QED BY ZenonT(30), <1>1, <1>2, QuietStep

LEMMA NoCrash == ASSUME crashed' = {} PROVE CrashNeedsRace'
BY DEF CrashNeedsRace

\* A nil dereference of a function that is known: it is being added by another
\* goroutine, or its delete was overlapped.
LEMMA CrashExplained ==
  ASSUME TypeInv', Record, NEW t \in Thread, Others(t), thread[t].pc # "insert", crashed = {},
         NEW f \in Function, Known(f), functionCatalog[f] = Absent, crashed' \subseteq crashed \cup {f}
  PROVE  CrashNeedsRace'
<1>1. contested \subseteq contested'
  BY ContestedGrows DEF TypeInv
<1>2. f \in contested' \/ \E s \in Thread : thread'[s].pc = "insert" /\ thread'[s].f = f
  BY <1>1 DEF Known, Others
<1> QED BY SMTT(30), Zenon, <1>2 DEF CrashNeedsRace

LEMMA BeginRace ==
  ASSUME TypeInv, RaceInv, Record, crashed = {}, NEW t \in Thread, Begin(t)
  PROVE  RaceInv'
<1> DEFINE new == thread'[t]
<1>1. /\ TypeInv' /\ Others(t) /\ thread[t] = Idle /\ new # Idle /\ UNCHANGED <<maps, crashed>>
      /\ new.pc \in {"write", "exist", "node", "pack", "find", "range"}
      /\ new.pc = "write" /\ new.kind = "update" => self.available[new.f] > 0
  BY Zenon, BeginDoes
<1>2. thread[t].pc # "insert" /\ CrashNeedsRace'
  BY Zenon, <1>1, IdleOperation, NoCrash
<1>3. ASSUME \A f \in Function : Known(f) => Known(f)'
      PROVE  Informed(thread[t])' /\ Alone(thread[t])'
  <2>1. CASE new.pc = "write" /\ new.kind = "update"
    <3>1. new \in Operation
      BY Zenon, <1>1 DEF TypeInv, ThreadType
    <3>2. new.f \in Function
      BY ZenonT(30), <2>1, <3>1, PcTells DEF Adding, Updating, Deleting
    <3>3. self.available[new.f] # Absent
      BY <1>1, <2>1 DEF Absent
    <3>4. Known(new.f)
      BY <3>2, <3>3 DEF RaceInv
    <3>5. Known(thread[t].f)'
      BY <1>3, <3>2, <3>4
    <3> QED BY Zenon, <2>1, <3>5 DEF Informed, Alone
  <2>2. CASE ~(new.pc = "write" /\ new.kind = "update")
    BY Zenon, <1>1, <2>2 DEF Informed, Alone
  <2> QED BY Zenon, <2>1, <2>2
<1> QED BY Zenon, <1>1, <1>2, <1>3, ReadStep

LEMMA WriteNodeRace ==
  ASSUME TypeInv, RaceInv, Record, crashed = {}, NEW t \in Thread, WriteNode(t, thread[t])
  PROVE  RaceInv'
<1> DEFINE op == thread[t]
           new == thread'[t]
<1>1. /\ TypeInv' /\ Others(t) /\ op \in Adding \cup Updating \cup Deleting /\ op.pc = "write"
      /\ new.kind = op.kind /\ new.f = op.f /\ new.n = op.n
      /\ new.pc = IF op.kind = "add" THEN "insert" ELSE "replicas"
      /\ UNCHANGED <<nodeCatalog, functionCatalog, counted, crashed>>
      /\ self' \in NodeType /\ self'.available = [self.available EXCEPT ![op.f] = op.n]
      /\ \A o \in Object \ {1} : heap'[o] = heap[o]
  BY Zenon, WriteNodeDoes
<1>2. op.f \in Function /\ op # Idle /\ op.pc # "insert" /\ self.available \in [Function -> Count \cup {Absent}]
  BY Zenon, <1>1, IdleOperation, SelfStruct DEF Adding, Updating, Deleting, TypeInv, NodeType
<1>a. PICK g \in Function : g = op.f
  BY <1>2
<1>3. KnownStays(t) /\ \A f \in Function : Known(f) => Known(f)'
  BY Zenon, <1>1, <1>2, KnownKept
<1>4. op.kind \in {"add", "update"} => Known(g)'
  <2>1. op.kind = "add" => Known(g)'
    BY <1>1, <1>a DEF Known
  <2>2. op.kind = "update" => Known(g)
    BY Zenon, <1>1, <1>a DEF RaceInv, Informed
  <2> QED BY ZenonT(30), <1>3, <2>1, <2>2
<1>5. op.kind = "delete" => op.n = Absent
  BY Zenon, <1>1 DEF Adding, Updating, Deleting
<1>6. op.kind \in {"add", "update", "delete"}
  BY Zenon, <1>1 DEF Adding, Updating, Deleting
<1>7. ASSUME NEW f \in Function, self'.available[f] # Absent PROVE Known(f)'
  <2>1. CASE f = g
    BY Zenon, <1>1, <1>a, <1>2, <1>4, <1>5, <1>6, <1>7, <2>1
  <2>2. CASE f # g
    BY Zenon, <1>1, <1>a, <1>2, <1>3, <1>7, <2>2 DEF RaceInv
  <2> QED BY <2>1, <2>2
<1>8. ASSUME NEW q \in Nodes', NEW f \in Function, Runs(q, f)' PROVE Known(f)'
  <2>1. nodeCatalog[q] \in Object /\ q \in Nodes
    BY Zenon, <1>1, SelfStruct DEF TypeInv, Nodes
  <2>2. CASE nodeCatalog[q] = 1
    <3>1. self'.available[f] > 0
      BY Zenon, <1>1, <1>8, <2>2 DEF Runs, TypeInv, MapsType, self
    <3> QED BY <1>7, <3>1 DEF Absent
  <2>3. CASE nodeCatalog[q] # 1
    BY Zenon, <1>1, <1>3, <1>8, <2>1, <2>3 DEF RaceInv, Runs
  <2> QED BY <2>2, <2>3
<1>9. Informed(thread[t])' /\ Alone(thread[t])'
  <2>1. Informed(thread[t])'
    <3>1. new.f = g
      BY ZenonT(30), <1>1, <1>a
    <3>2. op.kind \in {"add", "update"} => Known(thread[t].f)'
      BY <1>4, <3>1 DEF Known
    <3> QED BY Zenon, <1>1, <1>6, <3>2 DEF Informed
  <2>2. op.kind = "delete" => self'.available[op.f] = Absent
    BY Zenon, <1>1, <1>2, <1>5
  <2>3. Alone(thread[t])'
    BY Zenon, <1>1, <2>2 DEF Alone
  <2> QED BY <2>1, <2>3
<1> QED BY Zenon, <1>1, <1>2, <1>3, <1>7, <1>8, <1>9, NoCrash, RaceStep

LEMMA InsertFunctionRace ==
  ASSUME TypeInv, RaceInv, Record, crashed = {}, NEW t \in Thread, InsertFunction(t, thread[t])
  PROVE  RaceInv'
<1> DEFINE op == thread[t]
           new == thread'[t]
<1>1. /\ TypeInv' /\ Others(t) /\ op \in Adding /\ op.pc = "insert"
      /\ new.kind = "add" /\ new.pc = "replicas" /\ new.f = op.f
      /\ UNCHANGED <<nodeCatalog, heap, counted, crashed>>
      /\ functionCatalog'[op.f] # Absent
      /\ \A f \in Function : functionCatalog[f] # Absent => functionCatalog'[f] # Absent
  BY InsertFunctionDoes, Zenon
<1>2. KnownStays(t) /\ \A f \in Function : Known(f) => Known(f)'
  BY Zenon, <1>1, KnownKept
<1>3. Informed(thread[t])' /\ Alone(thread[t])'
  BY Zenon, <1>1 DEF Informed, Alone, Known
<1>4. thread[t] # Idle
  BY Zenon, <1>1, IdleOperation
<1> QED BY Zenon, <1>1, <1>2, <1>3, <1>4, NoCrash, QuietStep

LEMMA StartSumRace ==
  ASSUME TypeInv, RaceInv, Record, crashed = {}, NEW t \in Thread, StartSum(t, thread[t])
  PROVE  RaceInv'
<1> DEFINE op == thread[t]
           new == thread'[t]
<1>1. /\ TypeInv' /\ Others(t) /\ op \in Adding \cup Updating \cup Deleting /\ op.pc = "replicas"
      /\ new \in Summing /\ new.pc = "sum" /\ new.f = op.f /\ new.caller = op /\ Nodes \subseteq new.qs
      /\ UNCHANGED <<maps, crashed>>
  BY StartSumDoes, Zenon
<1>2. PICK g \in Function : g = op.f
  BY Zenon, <1>1 DEF Adding, Updating, Deleting
<1>3. self' = self /\ Nodes' = Nodes /\ contested \subseteq contested'
  BY Zenon, <1>1, MapsKept, ContestedGrows DEF TypeInv
<1>4. ASSUME \A f \in Function : Known(f) => Known(f)'
      PROVE  Informed(thread[t])' /\ Alone(thread[t])'
  <2>1. op.kind # "delete" => Known(g)
    BY Zenon, <1>1, <1>2 DEF RaceInv, Informed
  <2>2. op.kind # "delete" => Known(thread[t].f)'
    <3>1. op.kind # "delete" => Known(g)'
      BY Zenon, <1>4, <2>1
    <3>2. new.f = g
      BY Zenon, <1>1, <1>2
    <3> QED BY Zenon, <3>1, <3>2 DEF Known
  <2>3. op.kind = "delete" /\ g \notin contested => self.available[g] = Absent
    BY Zenon, <1>1, <1>2 DEF RaceInv, Alone
  <2> QED BY Zenon, <1>1, <1>2, <1>3, <2>2, <2>3 DEF Informed, Alone
<1>5. thread[t] # Idle
  BY Zenon, <1>1, IdleOperation
<1> QED BY Zenon, <1>1, <1>4, <1>5, NoCrash, ReadStep

\* A node that runs the function makes the sum positive.
LEMMA AddToSumRace ==
  ASSUME TypeInv, RaceInv, Record, crashed = {}, NEW t \in Thread, AddToSum(t, thread[t])
  PROVE  RaceInv'
<1> DEFINE op == thread[t]
           new == thread'[t]
<1>1. /\ TypeInv' /\ Others(t) /\ op \in Summing /\ op.pc = "sum" /\ new \in Summing
      /\ new.pc = "sum" /\ new.f = op.f /\ new.caller = op.caller
      /\ UNCHANGED <<maps, crashed>>
      /\ \E q \in op.qs :
           /\ new.qs = op.qs \ {q}
           /\ new.replicas = IF q \in Nodes /\ heap[nodeCatalog[q]].available[op.f] # Absent
                             THEN op.replicas + heap[nodeCatalog[q]].available[op.f] ELSE op.replicas
  BY AddToSumDoes, Zenon
<1>2. PICK g \in Function : g = op.f
  BY Zenon, <1>1 DEF Summing
<1>3. self' = self /\ Nodes' = Nodes /\ contested \subseteq contested' /\ \A q, f : Runs(q, f)' = Runs(q, f)
  BY Zenon, <1>1, MapsKept, ContestedGrows DEF TypeInv, Runs
<1>4. ASSUME \A f \in Function : Known(f) => Known(f)'
      PROVE  Informed(thread[t])' /\ Alone(thread[t])'
  <2>1. op.caller.kind # "delete" => Known(g)
    BY Zenon, <1>1, <1>2 DEF RaceInv, Informed
  <2>2. op.caller.kind # "delete" => Known(thread[t].f)'
    <3>1. op.caller.kind # "delete" => Known(g)'
      BY Zenon, <1>4, <2>1
    <3>2. new.f = g
      BY Zenon, <1>1, <1>2
    <3> QED BY Zenon, <3>1, <3>2 DEF Known
  <2>3. Informed(thread[t])'
    BY Zenon, <1>1, <2>2 DEF Informed
  <2>4. ASSUME op.caller.kind = "delete", g \notin contested
        PROVE  self.available[g] = Absent /\ \A q \in Nodes \ new.qs : Runs(q, g) => new.replicas > 0
    <3>1. self.available[g] = Absent /\ \A q \in Nodes \ op.qs : Runs(q, g) => op.replicas > 0
      BY Zenon, <1>1, <1>2, <2>4 DEF RaceInv, Alone
    <3>2. PICK q \in op.qs :
            /\ new.qs = op.qs \ {q}
            /\ new.replicas = IF q \in Nodes /\ heap[nodeCatalog[q]].available[g] # Absent
                              THEN op.replicas + heap[nodeCatalog[q]].available[g] ELSE op.replicas
      BY Zenon, <1>1, <1>2
    <3>3. op.replicas \in Nat
      BY ZenonT(30), <1>1 DEF Summing
    <3>4. q \in Nodes => heap[nodeCatalog[q]].available[g] \in Nat \cup {Absent}
      BY SelfStruct, CatalogAssumption DEF TypeInv, NodeType, Count
    <3>5. op.replicas > 0 => new.replicas > 0
      <4>1. CASE q \in Nodes /\ heap[nodeCatalog[q]].available[g] # Absent
        <5>1. PICK a \in Nat, b \in Nat : a = op.replicas /\ b = heap[nodeCatalog[q]].available[g]
          BY Zenon, <3>3, <3>4, <4>1
        <5>2. new.replicas = a + b
          BY Zenon, <3>2, <4>1, <5>1
        <5>3. a > 0 => a + b > 0
          OBVIOUS
        <5> QED BY Zenon, <5>1, <5>2, <5>3
      <4>2. CASE ~(q \in Nodes /\ heap[nodeCatalog[q]].available[g] # Absent)
        BY Zenon, <3>2, <4>2
      <4> QED BY Zenon, <4>1, <4>2
    <3>6. ASSUME q \in Nodes, Runs(q, g)
          PROVE  new.replicas > 0
      <4>1. PICK b \in Nat \cup {Absent} : b = heap[nodeCatalog[q]].available[g]
        BY Zenon, <3>4, <3>6
      <4>2. b > 0
        BY Zenon, <3>6, <4>1 DEF Runs
      <4>3. b \in Nat /\ b # Absent
        BY <4>2 DEF Absent
      <4>4. PICK a \in Nat : a = op.replicas
        BY Zenon, <3>3
      <4>5. new.replicas = a + b
        BY Zenon, <3>2, <3>6, <4>1, <4>3, <4>4
      <4>6. a + b > 0
        BY <4>2, <4>3
      <4> QED BY Zenon, <4>5, <4>6
    <3> QED BY Zenon, <3>1, <3>2, <3>5, <3>6
  <2>5. Alone(thread[t])'
    BY Zenon, <1>1, <1>2, <1>3, <2>4 DEF Alone
  <2> QED BY <2>3, <2>5
<1>5. thread[t] # Idle
  BY Zenon, <1>1, IdleOperation
<1> QED BY Zenon, <1>1, <1>4, <1>5, NoCrash, ReadStep

\* A sum that nobody disturbs is zero only if nobody runs the function.
LEMMA StoreSumRace ==
  ASSUME TypeInv, RaceInv, Record, crashed = {}, NEW t \in Thread, StoreSum(t, thread[t])
  PROVE  RaceInv'
<1> DEFINE op == thread[t]
           new == thread'[t]
<1>1. /\ TypeInv' /\ Others(t) /\ op \in Summing /\ op.pc = "sum" /\ op.qs = {}
      /\ UNCHANGED <<nodeCatalog, heap>>
      /\ functionCatalog[op.f] = Absent =>
           /\ new = Idle /\ UNCHANGED maps
           /\ crashed' = IF op.caller.kind = "delete" THEN crashed ELSE crashed \cup {op.f}
      /\ functionCatalog[op.f] # Absent =>
           /\ functionCatalog' = [functionCatalog EXCEPT ![op.f] = op.replicas]
           /\ counted' = counted \cup {op.f} /\ UNCHANGED crashed
           /\ IF op.caller.kind = "delete"
              THEN new \in Deleting /\ new.pc = "zero" /\ new.f = op.f
              ELSE new = Idle \/ (new \in Merging /\ new.pc = "all")
  BY StoreSumDoes, Zenon
<1>2. PICK g \in Function : g = op.f
  BY Zenon, <1>1 DEF Summing
<1>3. op # Idle /\ op.pc # "insert" /\ contested \subseteq contested' /\ Idle.pc = "idle"
  BY Zenon, <1>1, IdleOperation, ContestedGrows DEF TypeInv
<1>4. CASE functionCatalog[g] = Absent
  <2>1. new = Idle /\ UNCHANGED maps /\ crashed' = IF op.caller.kind = "delete" THEN crashed ELSE crashed \cup {g}
    BY Zenon, <1>1, <1>2, <1>4
  <2>2. CrashNeedsRace'
    <3>1. CASE op.caller.kind = "delete"
      BY Zenon, <2>1, <3>1, NoCrash
    <3>2. CASE op.caller.kind # "delete"
      <4>1. Known(g)
        BY Zenon, <1>1, <1>2, <3>2 DEF RaceInv, Informed
      <4> QED BY Zenon, <1>1, <1>3, <1>4, <2>1, <3>2, <4>1, CrashExplained
    <3> QED BY <3>1, <3>2
  <2>3. Informed(thread[t])' /\ Alone(thread[t])'
    BY Zenon, <1>3, <2>1, CarefreeOperation
  <2> QED BY Zenon, <1>1, <1>3, <2>1, <2>2, <2>3, ReadStep
<1>5. CASE functionCatalog[g] # Absent
  <2>1. /\ functionCatalog' = [functionCatalog EXCEPT ![g] = op.replicas] /\ UNCHANGED crashed
        /\ functionCatalog \in [Function -> Nat \cup {Absent}] /\ op.replicas \in Nat
    BY Zenon, <1>1, <1>2, <1>5 DEF TypeInv, MapsType, Summing
  <2>2. \A f \in Function : functionCatalog[f] # Absent => functionCatalog'[f] # Absent
    BY SMTT(30), Zenon, <2>1 DEF Absent
  <2>3. KnownStays(t) /\ \A f \in Function : Known(f) => Known(f)'
    BY Zenon, <1>1, <1>3, <2>2, KnownKept
  <2>4. Informed(thread[t])' /\ Alone(thread[t])'
    <3>1. CASE op.caller.kind = "delete"
      <4>1. new \in Deleting /\ new.pc = "zero" /\ new.f = g
        BY Zenon, <1>1, <1>2, <1>5, <3>1
      <4>2. self' = self /\ Nodes' = Nodes /\ \A q, f : Runs(q, f)' = Runs(q, f)
        BY Zenon, <1>1 DEF self, Nodes, Runs
      <4>3. g \notin contested =>
              /\ self.available[g] = Absent
              /\ \A q \in Nodes : Runs(q, g) => op.replicas > 0
        BY Zenon, <1>1, <1>2, <3>1 DEF RaceInv, Alone
      <4>4. functionCatalog'[g] = op.replicas
        BY <2>1
      <4> QED BY Zenon, <1>3, <4>1, <4>2, <4>3, <4>4 DEF Informed, Alone
    <3>2. CASE op.caller.kind # "delete"
      BY ZenonT(30), <1>1, <1>2, <1>3, <1>5, <3>2, CarefreeOperation
    <3> QED BY Zenon, <3>1, <3>2
  <2> QED BY Zenon, <1>1, <1>3, <2>1, <2>3, <2>4, NoCrash, QuietStep
<1> QED BY <1>4, <1>5

LEMMA CheckZeroRace ==
  ASSUME TypeInv, RaceInv, Record, crashed = {}, NEW t \in Thread, CheckZero(t, thread[t])
  PROVE  RaceInv'
<1> DEFINE op == thread[t]
           new == thread'[t]
<1>1. /\ TypeInv' /\ Others(t) /\ op \in Deleting /\ op.pc = "zero"
      /\ UNCHANGED <<maps, crashed>>
      /\ \/ new = Idle
         \/ /\ new \in Deleting /\ new.pc = "remove" /\ new.f = op.f
            /\ functionCatalog[op.f] = 0
  BY CheckZeroDoes, Zenon
<1>2. PICK g \in Function : g = op.f
  BY Zenon, <1>1 DEF Deleting
<1>3. self' = self /\ Nodes' = Nodes /\ contested \subseteq contested' /\ \A q, f : Runs(q, f)' = Runs(q, f)
  BY Zenon, <1>1, MapsKept, ContestedGrows DEF TypeInv, Runs
<1>4. Informed(thread[t])' /\ Alone(thread[t])'
  <2>1. CASE new = Idle
    BY <2>1, IdleOperation, CarefreeOperation
  <2>2. CASE new \in Deleting /\ new.pc = "remove" /\ new.f = g /\ functionCatalog[g] = 0
    <3>1. g \notin contested =>
            self.available[g] = Absent /\ \A q \in Nodes : Runs(q, g) => functionCatalog[g] > 0
      BY Zenon, <1>1, <1>2 DEF RaceInv, Alone, Deleting
    <3>2. g \notin contested => self.available[g] = Absent /\ \A q \in Nodes : ~Runs(q, g)
      BY <2>2, <3>1
    <3>3. g \notin contested' => self'.available[g] = Absent /\ \A q \in Nodes' : ~Runs(q, g)'
      BY Zenon, <1>3, <3>2
    <3> QED BY Zenon, <2>2, <3>3 DEF Informed, Alone
  <2> QED BY ZenonT(30), <1>1, <1>2, <2>1, <2>2
<1>5. thread[t] # Idle
  BY Zenon, <1>1, IdleOperation
<1> QED BY <1>1, <1>4, <1>5, NoCrash, ReadStep

\* What an undisturbed delete removes runs nowhere, and is in no Node that the
\* own one could still name.
LEMMA RemoveFunctionRace ==
  ASSUME TypeInv, RaceInv, Record, crashed = {}, NEW t \in Thread, RemoveFunction(t, thread[t])
  PROVE  RaceInv'
<1> DEFINE op == thread[t]
<1>1. /\ TypeInv' /\ Others(t) /\ op \in Deleting /\ op.pc = "remove" /\ thread'[t] = Idle
      /\ UNCHANGED <<nodeCatalog, heap, counted, crashed>>
      /\ functionCatalog' = [functionCatalog EXCEPT ![op.f] = Absent]
  BY RemoveFunctionDoes, Zenon
<1>2. PICK g \in Function : g = op.f
  BY <1>1 DEF Deleting
<1>3. self' = self /\ Nodes' = Nodes /\ contested \subseteq contested' /\ \A q, f : Runs(q, f)' = Runs(q, f)
  BY Zenon, <1>1, ContestedGrows DEF TypeInv, self, Nodes, Runs
<1>4. g \notin contested => self.available[g] = Absent /\ \A q \in Nodes : ~Runs(q, g)
  BY Zenon, <1>1, <1>2 DEF RaceInv, Alone, Deleting
<1>5. ASSUME NEW f \in Function, Known(f), f # g \/ f \in contested PROVE Known(f)'
  <2>1. f # g => functionCatalog'[f] = functionCatalog[f]
    BY Zenon, <1>1, <1>2 DEF TypeInv, MapsType
  <2> QED BY <1>1, <1>3, <1>5, <2>1 DEF Known, Others
<1>6. KnownStays(t)
  BY Zenon, <1>1, <1>2, <1>5 DEF KnownStays, Forgets
<1>7. \A f \in Function : self'.available[f] # Absent => Known(f)'
  BY <1>3, <1>4, <1>5 DEF RaceInv
<1>8. \A q \in Nodes', f \in Function : Runs(q, f)' => Known(f)'
  BY <1>3, <1>4, <1>5 DEF RaceInv
<1>9. Informed(thread[t])' /\ Alone(thread[t])' /\ thread[t] # Idle
  BY Zenon, <1>1, IdleOperation, CarefreeOperation
<1> QED BY Zenon, <1>1, <1>6, <1>7, <1>8, <1>9, NoCrash, RaceStep

\* A new node runs nothing.
LEMMA EnterNodeRace ==
  ASSUME TypeInv, RaceInv, Record, crashed = {}, NEW t \in Thread, EnterNode(t, thread[t])
  PROVE  RaceInv'
<1> DEFINE op == thread[t]
           new == thread'[t]
<1>1. /\ TypeInv' /\ Others(t) /\ op \in Linking \cup Merging /\ op.pc = "enter"
      /\ UNCHANGED <<functionCatalog, counted, crashed, self>>
      /\ new = Idle \/ (new \in Merging /\ new.pc = "node")
      /\ \E o \in Object :
           /\ \A q \in Provider : o > nodeCatalog[q]
           /\ nodeCatalog' = [nodeCatalog EXCEPT ![op.q] = o] /\ op.q \in Peer
           /\ heap'[o] = NewNode /\ \A x \in Object \ {o} : heap'[x] = heap[x]
  BY EnterNodeDoes, Zenon
<1>2. PICK o \in Object :
           /\ \A q \in Provider : o > nodeCatalog[q]
           /\ nodeCatalog' = [nodeCatalog EXCEPT ![op.q] = o] /\ op.q \in Peer
           /\ heap'[o] = NewNode /\ \A x \in Object \ {o} : heap'[x] = heap[x]
  BY <1>1, Zenon
<1>3. KnownStays(t) /\ \A f \in Function : Known(f) => Known(f)'
  BY Zenon, <1>1, KnownKept
<1>4. \A f \in Function : self'.available[f] # Absent => Known(f)'
  BY Zenon, <1>1, <1>3 DEF RaceInv
<1>5. ASSUME NEW q \in Nodes', NEW f \in Function, Runs(q, f)' PROVE Known(f)'
  <2>1. q \in Provider /\ nodeCatalog \in [Provider -> Struct] /\ o \in Nat
    BY ZenonT(30), <1>1, StructType DEF Nodes, TypeInv, MapsType
  <2>2. CASE q = op.q
    <3>1. heap'[nodeCatalog'[q]] = NewNode
      BY <1>2, <2>1, <2>2
    <3> QED BY SMTT(30), Zenon, <1>5, <3>1 DEF Runs, NewNode, NoEntries, Absent
  <2>3. CASE q # op.q
    <3>1. nodeCatalog'[q] = nodeCatalog[q]
      BY Zenon, <1>2, <2>1, <2>3
    <3>2. q \in Nodes
      BY <2>1, <3>1 DEF Nodes
    <3>3. nodeCatalog[q] \in Object /\ nodeCatalog[q] # o
      BY <1>2, <2>1, <3>2, SelfStruct DEF TypeInv
    <3>4. Runs(q, f)
      BY Zenon, <1>2, <1>5, <3>1, <3>3 DEF Runs
    <3> QED BY <1>3, <3>2, <3>4 DEF RaceInv
  <2> QED BY <2>2, <2>3
<1>6. Informed(thread[t])' /\ Alone(thread[t])' /\ thread[t] # Idle
  BY Zenon, <1>1, IdleOperation, CarefreeOperation
<1> QED BY Zenon, <1>1, <1>3, <1>4, <1>5, <1>6, NoCrash, RaceStep

\* The available functions of every Node stay as they are.
LEMMA SameAvailable ==
  ASSUME TypeInv, TypeInv', UNCHANGED nodeCatalog,
         \A o \in Object : heap'[o].available = heap[o].available
  PROVE  self'.available = self.available /\ Nodes' = Nodes /\ \A q \in Nodes : \A f : Runs(q, f)' = Runs(q, f)
<1>1. Nodes' = Nodes
  BY DEF Nodes
<1>2. self = heap[1] /\ self' = heap'[1] /\ 1 \in Object
  BY StructType DEF TypeInv, MapsType, self
<1> QED BY Zenon, <1>1, <1>2, SelfStruct DEF TypeInv, Runs

LEMMA GetNodeRace ==
  ASSUME TypeInv, RaceInv, Record, crashed = {}, NEW t \in Thread, GetNode(t, thread[t])
  PROVE  RaceInv'
<1> DEFINE op == thread[t]
           new == thread'[t]
<1>1. /\ TypeInv' /\ Others(t) /\ op \in Merging /\ op.pc = "node"
      /\ new \in Merging /\ new.pc = "merge" /\ new.m = op.m /\ new.fs = Present(op.m.available)
      /\ UNCHANGED <<nodeCatalog, functionCatalog, counted, crashed>>
      /\ \A o \in Object : heap'[o].available = heap[o].available
  BY Zenon, GetNodeDoes
<1>2. KnownStays(t) /\ \A f \in Function : Known(f) => Known(f)'
  BY Zenon, <1>1, KnownKept
<1>3. self'.available = self.available /\ Nodes' = Nodes /\ \A q \in Nodes : \A f : Runs(q, f)' = Runs(q, f)
  BY Zenon, <1>1, SameAvailable
<1>4. Informed(thread[t])' /\ Alone(thread[t])' /\ thread[t] # Idle
  BY Zenon, <1>1, IdleOperation DEF Informed, Alone
<1>5. /\ \A f \in Function : self'.available[f] # Absent => Known(f)'
      /\ \A q \in Nodes', f \in Function : Runs(q, f)' => Known(f)'
  BY Zenon, <1>2, <1>3 DEF RaceInv
<1> QED BY Zenon, <1>1, <1>2, <1>4, <1>5, NoCrash, RaceStep

\* A function of the message is in FunctionCatalog before the next one.
LEMMA MergeFunctionRace ==
  ASSUME TypeInv, RaceInv, Record, crashed = {}, NEW t \in Thread, MergeFunction(t, thread[t])
  PROVE  RaceInv'
<1> DEFINE op == thread[t]
           new == thread'[t]
<1>1. /\ TypeInv' /\ Others(t) /\ op \in Merging /\ op.pc = "merge"
      /\ new \in Merging /\ new.pc = "merge" /\ new.m = op.m
      /\ UNCHANGED <<nodeCatalog, counted, crashed>>
      /\ \A o \in Object : heap'[o].available = heap[o].available
      /\ \E f \in op.fs : new.fs = op.fs \ {f} /\ functionCatalog'[f] # Absent
      /\ \A f \in Function : functionCatalog[f] # Absent => functionCatalog'[f] # Absent
  BY Zenon, MergeFunctionDoes
<1>2. KnownStays(t) /\ \A f \in Function : Known(f) => Known(f)'
  BY Zenon, <1>1, KnownKept
<1>3. self'.available = self.available /\ Nodes' = Nodes /\ \A q \in Nodes : \A f : Runs(q, f)' = Runs(q, f)
  BY Zenon, <1>1, SameAvailable
<1>4. ASSUME NEW f \in Present(op.m.available) PROVE f \in new.fs \/ Known(f)'
  <2>1. f \in Function /\ (f \in op.fs \/ Known(f))
    BY Zenon, <1>1 DEF RaceInv, Informed, Present
  <2>2. PICK g \in op.fs : new.fs = op.fs \ {g} /\ functionCatalog'[g] # Absent
    BY Zenon, <1>1
  <2> QED BY Zenon, <1>2, <2>1, <2>2 DEF Known
<1>5. Informed(thread[t])' /\ Alone(thread[t])' /\ thread[t] # Idle
  BY Zenon, <1>1, <1>4, IdleOperation DEF Informed, Alone
<1>6. /\ \A f \in Function : self'.available[f] # Absent => Known(f)'
      /\ \A q \in Nodes', f \in Function : Runs(q, f)' => Known(f)'
  BY Zenon, <1>2, <1>3 DEF RaceInv
<1> QED BY Zenon, <1>1, <1>2, <1>5, <1>6, NoCrash, RaceStep

\* What the message says runs is in FunctionCatalog by now.
LEMMA ReplaceReplicasRace ==
  ASSUME TypeInv, RaceInv, Record, crashed = {}, NEW t \in Thread, ReplaceReplicas(t, thread[t])
  PROVE  RaceInv'
<1> DEFINE op == thread[t]
           new == thread'[t]
<1>1. /\ TypeInv' /\ Others(t) /\ op \in Merging /\ op.pc = "merge" /\ op.fs = {} /\ op.node \in Object
      /\ new \in Merging /\ new.pc = "all"
      /\ UNCHANGED <<nodeCatalog, functionCatalog, counted, crashed>>
      /\ heap'[op.node].available = op.m.available
      /\ \A o \in Object \ {op.node} : heap'[o] = heap[o]
  BY Zenon, ReplaceReplicasDoes
<1>2. KnownStays(t) /\ \A f \in Function : Known(f) => Known(f)'
  BY Zenon, <1>1, KnownKept
<1>3. \A f \in Function : op.m.available[f] # Absent => Known(f)'
  BY Zenon, <1>1, <1>2 DEF RaceInv, Informed, Present
<1>4. ASSUME NEW f \in Function, self'.available[f] # Absent PROVE Known(f)'
  <2>1. self = heap[1] /\ self' = heap'[1] /\ 1 \in Object
    BY Zenon, <1>1, StructType DEF TypeInv, MapsType, self
  <2>2. CASE op.node = 1
    BY Zenon, <1>1, <1>3, <1>4, <2>1, <2>2
  <2>3. CASE op.node # 1
    BY Zenon, <1>1, <1>2, <1>4, <2>1, <2>3 DEF RaceInv
  <2> QED BY <2>2, <2>3
<1>5. ASSUME NEW q \in Nodes', NEW f \in Function, Runs(q, f)' PROVE Known(f)'
  <2>1. q \in Nodes /\ nodeCatalog'[q] = nodeCatalog[q]
    BY Zenon, <1>1 DEF Nodes
  <2>2. nodeCatalog[q] \in Object
    BY Zenon, <2>1, SelfStruct DEF TypeInv
  <2>3. CASE nodeCatalog[q] = op.node
    <3>1. op.m.available[f] > 0
      BY Zenon, <1>1, <1>5, <2>1, <2>3 DEF Runs
    <3> QED BY SMTT(30), Zenon, <1>3, <3>1 DEF Absent
  <2>4. CASE nodeCatalog[q] # op.node
    <3>1. Runs(q, f)
      BY <1>1, <1>5, <2>1, <2>2, <2>4 DEF Runs
    <3> QED BY Zenon, <1>2, <2>1, <3>1 DEF RaceInv
  <2> QED BY <2>3, <2>4
<1>6. Informed(thread[t])' /\ Alone(thread[t])' /\ thread[t] # Idle
  BY Zenon, <1>1, IdleOperation, CarefreeOperation
<1> QED BY Zenon, <1>1, <1>2, <1>4, <1>5, <1>6, NoCrash, RaceStep

LEMMA NextFunctionRace ==
  ASSUME TypeInv, RaceInv, Record, crashed = {}, NEW t \in Thread, NextFunction(t, thread[t])
  PROVE  RaceInv'
<1> DEFINE op == thread[t]
           new == thread'[t]
<1>1. /\ TypeInv' /\ Others(t) /\ op \in Merging /\ op.pc = "all" /\ UNCHANGED <<maps, crashed>>
      /\ \/ new \in Merging /\ new.pc = "all"
         \/ /\ new \in Summing /\ new.pc = "sum" /\ new.caller \in Merging
            /\ functionCatalog[new.f] # Absent
  BY NextFunctionDoes, Zenon
<1>2. Informed(thread[t])' /\ Alone(thread[t])' /\ thread[t] # Idle
  <2>1. CASE new.pc = "all"
    BY <1>1, <2>1, IdleOperation, CarefreeOperation
  <2>2. CASE new \in Summing /\ new.pc = "sum" /\ new.caller \in Merging /\ functionCatalog[new.f] # Absent
    <3>1. functionCatalog' = functionCatalog /\ new.caller.kind # "delete"
      BY Zenon, <1>1, <2>2 DEF maps, Merging
    <3> QED BY Zenon, <1>1, <2>2, <3>1, IdleOperation DEF Informed, Alone, Known
  <2> QED BY ZenonT(30), <1>1, <2>1, <2>2
<1> QED BY Zenon, <1>1, <1>2, NoCrash, ReadStep

LEMMA PackFunctionRace ==
  ASSUME TypeInv, RaceInv, Record, crashed = {}, NEW t \in Thread, PackFunction(t, thread[t])
  PROVE  RaceInv'
<1> DEFINE op == thread[t]
           new == thread'[t]
<1>1. /\ TypeInv' /\ Others(t) /\ op \in Packing /\ op.pc = "pack" /\ UNCHANGED <<maps, crashed>>
      /\ \/ new \in Packing /\ new.pc = "pack"
         \/ new \in Copying /\ new.pc = "status" /\ self.available[new.f] # Absent
  BY PackFunctionDoes, Zenon
<1>2. thread[t] # Idle /\ thread[t].pc # "insert"
  BY <1>1, IdleOperation
<1>3. ASSUME \A f \in Function : Known(f) => Known(f)'
      PROVE  Informed(thread[t])' /\ Alone(thread[t])'
  <2>1. CASE new.pc = "pack"
    BY <2>1, CarefreeOperation
  <2>2. CASE new \in Copying /\ new.pc = "status" /\ self.available[new.f] # Absent
    <3>1. PICK g \in Function : g = new.f
      BY <2>2 DEF Copying
    <3>2. Known(g)'
      BY Zenon, <1>3, <2>2, <3>1 DEF RaceInv
    <3>3. Known(thread[t].f)'
      BY Zenon, <3>1, <3>2 DEF Known
    <3> QED BY Zenon, <2>2, <3>3 DEF Informed, Alone
  <2> QED BY Zenon, <1>1, <2>1, <2>2
<1> QED BY Zenon, <1>1, <1>2, <1>3, NoCrash, ReadStep

LEMMA CopyStatusRace ==
  ASSUME TypeInv, RaceInv, Record, crashed = {}, NEW t \in Thread, CopyStatus(t, thread[t])
  PROVE  RaceInv'
<1> DEFINE op == thread[t]
           new == thread'[t]
<1>1. /\ TypeInv' /\ Others(t) /\ op \in Copying /\ op.pc = "status" /\ UNCHANGED maps
      /\ \/ new \in Packing /\ new.pc = "pack" /\ UNCHANGED crashed
         \/ new = Idle /\ functionCatalog[op.f] = Absent /\ crashed' = crashed \cup {op.f}
  BY CopyStatusDoes, Zenon
<1>2. PICK g \in Function : g = op.f
  BY Zenon, <1>1 DEF Copying
<1>3. thread[t] # Idle /\ thread[t].pc # "insert" /\ op.kind = "pack"
  BY Zenon, <1>1, IdleOperation DEF Copying
<1>4. Known(g)
  BY Zenon, <1>1, <1>2, <1>3 DEF RaceInv, Informed
<1>5. CrashNeedsRace'
  <2>1. CASE UNCHANGED crashed
    BY <2>1, NoCrash
  <2>2. CASE functionCatalog[g] = Absent /\ crashed' = crashed \cup {g}
    BY Zenon, <1>1, <1>3, <1>4, <2>2, CrashExplained
  <2> QED BY Zenon, <1>1, <1>2, <2>1, <2>2
<1>6. Informed(thread[t])' /\ Alone(thread[t])'
  BY Zenon, <1>1, IdleOperation, CarefreeOperation
<1> QED BY Zenon, <1>1, <1>3, <1>5, <1>6, ReadStep

LEMMA CarefreeRace ==
  ASSUME TypeInv, RaceInv, Record, crashed = {}, NEW t \in Thread,
         \/ CheckExist(t, thread[t]) \/ Finish(t, thread[t]) \/ Reply(t, thread[t])
         \/ GetAvailableFunction(t, thread[t]) \/ ListAvailableFunctions(t, thread[t])
         \/ OwnExists(t, thread[t]) \/ OwnReplicas(t, thread[t])
  PROVE  RaceInv'
<1>1. /\ TypeInv' /\ Others(t) /\ UNCHANGED <<maps, crashed>>
      /\ thread[t].pc \notin {"idle", "insert"}
      /\ thread'[t].pc \notin {"write", "replicas", "status", "sum", "merge", "zero", "remove"}
  <2>1. CASE CheckExist(t, thread[t])
    BY Zenon, <2>1, CheckExistDoes, IdleOperation
  <2>2. CASE Finish(t, thread[t]) \/ Reply(t, thread[t])
    BY Zenon, <2>2, FinishDoes, IdleOperation
  <2>3. CASE GetAvailableFunction(t, thread[t])
    BY Zenon, <2>3, GetAvailableFunctionDoes
  <2>4. CASE ListAvailableFunctions(t, thread[t])
    BY Zenon, <2>4, ListAvailableFunctionsDoes
  <2>5. CASE OwnExists(t, thread[t]) \/ OwnReplicas(t, thread[t])
    BY Zenon, <2>5, OwnDoes
  <2> QED BY Zenon, <2>1, <2>2, <2>3, <2>4, <2>5
<1>2. Informed(thread[t])' /\ Alone(thread[t])' /\ thread[t] # Idle
  BY Zenon, <1>1, IdleOperation, CarefreeOperation
<1> QED BY Zenon, <1>1, <1>2, NoCrash, ReadStep

\* initSelfCatagory adds every function of the own Node to FunctionCatalog.
LEMMA InitRace == Init /\ TypeInv => RaceInv
<1> SUFFICES ASSUME Init, TypeInv PROVE RaceInv
  OBVIOUS
<1>1. PICK boot \in Boots :
        LET c == initSelfCatagory(Self, boot.listed, boot.asked)
        IN  /\ heap = [o \in Object |-> IF o = 1 THEN [available |-> c.available[Self],
                                                       execTime |-> c.execTime[Self], overload |-> FALSE]
                                        ELSE NewNode]
            /\ functionCatalog = c.functionCatalog
  BY Zenon DEF Init
<1> DEFINE c == initSelfCatagory(Self, boot.listed, boot.asked)
<1>2. c.available[Self] = boot.listed
  BY Zenon, ThreadsAssumption DEF initSelfCatagory
<1>3. functionCatalog = [f \in Function |-> IF boot.listed[f] = Absent THEN Absent ELSE boot.asked[f]]
  BY Zenon, <1>1 DEF initSelfCatagory
<1>4. heap[1].available = boot.listed
  BY <1>1, <1>2, StructType
<1>5. \A f \in Function : boot.asked[f] # Absent
  BY SMTT(30), Zenon, ThreadsAssumption, CatalogAssumption DEF Count, Absent
<1>6. self = heap[1] /\ Nodes = {Self} /\ nodeCatalog[Self] = 1
  BY SMTT(30), Zenon, ThreadsAssumption DEF Init, self, Nodes, nil
<1>7. \A f \in Function : self.available[f] # Absent => Known(f)
  BY <1>3, <1>4, <1>5, <1>6 DEF Known
<1>8. \A q \in Nodes, f \in Function : Runs(q, f) => Known(f)
  BY <1>6, <1>7 DEF Runs, Absent
<1>9. \A t \in Thread : thread[t] = Idle /\ thread[t].pc = "idle"
  BY Zenon, IdleOperation DEF Init
<1>10. CrashNeedsRace
  BY Zenon DEF Init, CrashNeedsRace
<1> QED BY Zenon, <1>7, <1>8, <1>9, <1>10 DEF RaceInv, Informed, Alone, Overlaps

LEMMA QuietRace ==
  ASSUME TypeInv, RaceInv, Record, crashed = {}, NEW t \in Thread, Quiet(t, thread[t])
  PROVE  RaceInv'
BY InsertFunctionRace, StartSumRace, AddToSumRace, StoreSumRace, CheckZeroRace, RemoveFunctionRace,
   NextFunctionRace, PackFunctionRace, CopyStatusRace, CarefreeRace, Zenon DEF Quiet

LEMMA NextRace == TypeInv /\ RaceInv /\ [Next]_vars => RaceInv'
<1>1. ASSUME TypeInv, RaceInv, Next PROVE RaceInv'
  BY <1>1, NextCases, BeginRace, QuietRace, WriteNodeRace, EnterNodeRace, GetNodeRace, MergeFunctionRace,
     ReplaceReplicasRace, Zenon
<1>2. ASSUME RaceInv, UNCHANGED vars PROVE RaceInv'
  <2>1. /\ self' = self /\ Nodes' = Nodes /\ thread' = thread /\ contested' = contested /\ crashed' = crashed
        /\ nodeCatalog' = nodeCatalog /\ heap' = heap /\ functionCatalog' = functionCatalog
    BY Zenon, <1>2, SameState DEF self, Nodes
  <2>2. (\A f : Known(f)' <=> Known(f)) /\ (\A q, f : Runs(q, f)' <=> Runs(q, f))
    BY <2>1 DEF Known, Runs
  <2>3. (\A k \in Thread : Informed(thread[k]))'
    BY Zenon, <1>2, <2>1, <2>2 DEF RaceInv, Informed
  <2>4. (\A k \in Thread : Alone(thread[k]))'
    BY Zenon, <1>2, <2>1, <2>2 DEF RaceInv, Alone
  <2>5. Overlaps' /\ CrashNeedsRace'
    BY Zenon, <1>2, <2>1 DEF RaceInv, Overlaps, Running, CrashNeedsRace
  <2> QED BY Zenon, <1>2, <2>1, <2>2, <2>3, <2>4, <2>5 DEF RaceInv
<1> QED BY <1>1, <1>2

LEMMA RacesStay == Spec => []RaceInv
BY InitType, InitRace, NextRace, TypesStay, PTL DEF Spec

\* The process ends at a missing entry of FunctionCatalog (catalog_cluster_level.go,
\* info_room.go:115) only if the function is being added at that moment or a
\* delete of it has overlapped another operation.
THEOREM CrashesAreRaces == Spec => []CrashNeedsRace
<1>1. RaceInv => CrashNeedsRace
  BY DEF RaceInv
<1> QED BY <1>1, RacesStay, PTL

\* When all goroutines are done and no delete overlapped them, every function of
\* the own node and every function that runs on a known node is in
\* FunctionCatalog, however the accesses were interleaved.
THEOREM CatalogSettlesSound == Spec => []SoundWhenQuiescent
<1>1. ASSUME TypeInv, RaceInv, Quiescent, contested = {}
      PROVE  OwnFunctionsCatalogued(Current, Self) /\ RunningIsCatalogued(Current)
  <2>1. \A f \in Function : Known(f) => functionCatalog[f] # Absent
    BY <1>1, IdleOperation DEF Known, Quiescent
  <2>2. /\ Current.nodes = Nodes /\ Current.functionCatalog = functionCatalog
        /\ \A q \in Nodes : Current.available[q] = heap[nodeCatalog[q]].available
    BY Zenon DEF Current, Nodes
  <2>3. Self \in Nodes
    BY <1>1, SelfStruct DEF TypeInv
  <2>4. OwnFunctionsCatalogued(Current, Self)
    BY Zenon, <1>1, <2>1, <2>2, <2>3 DEF RaceInv, OwnFunctionsCatalogued, self
  <2>5. RunningIsCatalogued(Current)
    BY <1>1, <2>1, <2>2 DEF RaceInv, RunningIsCatalogued, Runs
  <2> QED BY <2>4, <2>5
<1>2. TypeInv /\ RaceInv => SoundWhenQuiescent
  BY <1>1 DEF SoundWhenQuiescent
<1> QED BY <1>2, RacesStay, TypesStay, PTL

---------------------------------------------------------------------------
(* Readers *)

\* What Record keeps of what has run here.
LEMMA SteadyShrinks ==
  ASSUME Record, NEW t \in Thread
  PROVE  /\ steady'[t] \subseteq RunsHere'
         /\ thread[t] # Idle => steady'[t] \subseteq steady[t]
         /\ thread[t] = Idle /\ thread'[t] = Idle => steady'[t] = {}
<1>1. steady'[t] = IF thread'[t] = Idle \/ ~Reading(t)' THEN {}
                   ELSE IF thread[t] = Idle THEN RunsHere' ELSE steady[t] \cap RunsHere'
  BY Zenon DEF Record
<1> QED BY <1>1

\* A reader that has less to report has reported it.
LEMMA ReportsLess ==
  ASSUME NEW op, NEW fs, NEW gs, Reports(op, fs), gs \subseteq fs
  PROVE  Reports(op, gs)
BY SMTT(30), Zenon DEF Reports

LEMMA ReportStep ==
  ASSUME ReportInv, Record, NEW t \in Thread, Others(t),
         thread'[t] # Idle /\ Reading(t)' => Reports(thread[t], steady[t])'
  PROVE  ReportInv'
<1>1. ASSUME NEW s \in Thread \ {t}, thread'[s] # Idle, Reading(s)' PROVE Reports(thread[s], steady[s])'
  <2>1. thread'[s] = thread[s] /\ thread[s] # Idle /\ Reading(s)
    BY Zenon, <1>1 DEF Others, Reading, Running
  <2>2. steady'[s] \subseteq steady[s] /\ Reports(thread[s], steady[s])
    BY Zenon, <2>1, SteadyShrinks DEF ReportInv
  <2>3. Reports(thread[s], steady'[s])
    BY Zenon, <2>2, ReportsLess
  <2> QED BY Zenon, <2>1, <2>3 DEF Reports
<1> QED BY <1>1, SteadyShrinks DEF ReportInv

\* Where there is nothing to report yet, or no more.
LEMMA SilentStep ==
  ASSUME ReportInv, Record, NEW t \in Thread, Others(t),
         thread'[t].pc \notin {"range", "own", "amount", "answer"}
  PROVE  ReportInv'
<1>1. Reports(thread[t], steady[t])'
  BY DEF Reports
<1> QED BY ZenonT(30), <1>1, ReportStep

\* What FunctionCatalog and the own Node say between two accesses that read.
LEMMA RunsHereKept ==
  ASSUME UNCHANGED maps
  PROVE  /\ RunsHere' = RunsHere /\ RunsHere \subseteq Present(functionCatalog)
         /\ \A f \in RunsHere : self.available[f] > 0 /\ functionCatalog[f] # Absent
<1>1. RunsHere' = RunsHere
  BY DEF maps, RunsHere, self
<1> QED BY <1>1 DEF RunsHere, Present

LEMMA BeginReports ==
  ASSUME TypeInv, ReportInv, Record, NEW t \in Thread, Begin(t)
  PROVE  ReportInv'
<1> DEFINE new == thread'[t]
<1>1. /\ Others(t) /\ new.pc \in {"write", "exist", "node", "pack", "find", "range"}
      /\ UNCHANGED maps
      /\ new.pc = "range" => Present(functionCatalog) \subseteq new.fs
  BY Zenon, BeginDoes
<1>2. new.pc = "range" => steady'[t] \subseteq new.fs
  BY <1>1, SteadyShrinks, RunsHereKept
<1>3. Reports(thread[t], steady[t])'
  BY Zenon, <1>1, <1>2 DEF Reports
<1> QED BY Zenon, <1>1, <1>3, ReportStep

LEMMA GetAvailableFunctionReports ==
  ASSUME TypeInv, ReportInv, Record, NEW t \in Thread, GetAvailableFunction(t, thread[t])
  PROVE  ReportInv'
<1> DEFINE op == thread[t]
           new == thread'[t]
<1>1. /\ Others(t) /\ UNCHANGED maps /\ new.kind = "status" /\ new.f = op.f
      /\ IF functionCatalog[op.f] = Absent THEN new.pc = "answer" ELSE new.pc = "own"
  BY Zenon, GetAvailableFunctionDoes
<1>2. new.pc = "answer" => new.f \notin steady'[t]
  BY Zenon, <1>1, SteadyShrinks, RunsHereKept
<1>3. Reports(thread[t], steady[t])'
  BY ZenonT(30), <1>1, <1>2 DEF Reports
<1> QED BY Zenon, <1>1, <1>3, ReportStep

LEMMA ListAvailableFunctionsReports ==
  ASSUME TypeInv, ReportInv, Record, NEW t \in Thread, ListAvailableFunctions(t, thread[t])
  PROVE  ReportInv'
<1> DEFINE op == thread[t]
           new == thread'[t]
<1>1. /\ Others(t) /\ UNCHANGED maps /\ op.pc = "range" /\ op.kind = "list"
      /\ new.kind = "list" /\ new.shown = op.shown
      /\ \/ new.pc = "answer" /\ op.fs = {}
         \/ \E f \in op.fs :
              /\ new.fs = op.fs \ {f}
              /\ IF functionCatalog[f] = Absent THEN new.pc = "range" ELSE new.pc = "own" /\ new.f = f
  BY ZenonT(30), ListAvailableFunctionsDoes
<1>2. op # Idle /\ Reading(t)
  BY <1>1, IdleOperation DEF Reading, Running
<1>3. steady[t] \subseteq op.fs \cup op.shown
  BY Zenon, <1>1, <1>2 DEF ReportInv, Reports
<1>4. steady'[t] \subseteq steady[t] /\ \A f \in steady'[t] : functionCatalog[f] # Absent
  BY Zenon, <1>1, <1>2, SteadyShrinks, RunsHereKept
<1>5. Reports(thread[t], steady[t])'
  <2>1. CASE new.pc = "answer" /\ op.fs = {}
    BY ZenonT(30), <1>1, <1>3, <1>4, <2>1 DEF Reports
  <2>2. ASSUME NEW f \in op.fs, new.fs = op.fs \ {f},
               IF functionCatalog[f] = Absent THEN new.pc = "range" ELSE new.pc = "own" /\ new.f = f
        PROVE  Reports(thread[t], steady[t])'
    <3>1. CASE functionCatalog[f] = Absent
      BY Zenon, <1>1, <1>3, <1>4, <2>2, <3>1 DEF Reports
    <3>2. CASE functionCatalog[f] # Absent
      BY Zenon, <1>1, <1>3, <1>4, <2>2, <3>2 DEF Reports
    <3> QED BY <3>1, <3>2
  <2> QED BY Zenon, <1>1, <2>1, <2>2
<1> QED BY <1>1, <1>5, ReportStep

LEMMA OwnReports ==
  ASSUME TypeInv, ReportInv, Record, NEW t \in Thread, OwnExists(t, thread[t]) \/ OwnReplicas(t, thread[t])
  PROVE  ReportInv'
<1> DEFINE op == thread[t]
           new == thread'[t]
<1>1. /\ Others(t) /\ op \in Looking /\ op.pc \in {"own", "amount"} /\ UNCHANGED maps
      /\ new.kind = op.kind /\ new.f = op.f /\ new.fs = op.fs /\ op.shown \subseteq new.shown
      /\ \/ new.pc = "amount"
         \/ /\ new.pc = IF op.kind = "status" THEN "answer" ELSE "range"
            /\ self.available[op.f] > 0 => op.f \in new.shown
  BY ZenonT(30), OwnDoes
<1>2. op # Idle /\ Reading(t)
  BY <1>1, IdleOperation DEF Reading, Running, Looking
<1>3. op.kind = "list" => steady[t] \subseteq op.fs \cup op.shown \cup {op.f}
  BY Zenon, <1>1, <1>2 DEF ReportInv, Reports
<1>4. steady'[t] \subseteq steady[t] /\ \A f \in steady'[t] : self.available[f] > 0
  BY Zenon, <1>1, <1>2, SteadyShrinks, RunsHereKept
<1>5. Reports(thread[t], steady[t])'
  BY Zenon, <1>1, <1>3, <1>4 DEF Reports
<1> QED BY Zenon, <1>1, <1>5, ReportStep

LEMMA OtherReports ==
  ASSUME TypeInv, ReportInv, Record, NEW t \in Thread,
         Access(t, thread[t]),
         thread[t].pc \notin {"find", "range", "own", "amount"}
  PROVE  ReportInv'
<1>1. Others(t) /\ thread'[t].pc \notin {"range", "own", "amount", "answer"}
  <2>1. CASE WriteNode(t, thread[t])
    BY Zenon, <2>1, WriteNodeDoes
  <2>2. CASE InsertFunction(t, thread[t]) \/ StartSum(t, thread[t]) \/ AddToSum(t, thread[t])
    BY Zenon, <2>2, InsertFunctionDoes, StartSumDoes, AddToSumDoes
  <2>3. CASE StoreSum(t, thread[t])
    BY Zenon, <2>3, StoreSumDoes, IdleOperation
  <2>4. CASE CheckZero(t, thread[t]) \/ RemoveFunction(t, thread[t])
    BY Zenon, <2>4, CheckZeroDoes, RemoveFunctionDoes, IdleOperation
  <2>5. CASE CheckExist(t, thread[t]) \/ EnterNode(t, thread[t])
    BY Zenon, <2>5, CheckExistDoes, EnterNodeDoes, IdleOperation
  <2>6. CASE GetNode(t, thread[t]) \/ MergeFunction(t, thread[t]) \/ ReplaceReplicas(t, thread[t])
    BY Zenon, <2>6, GetNodeDoes, MergeFunctionDoes, ReplaceReplicasDoes
  <2>7. CASE NextFunction(t, thread[t]) \/ PackFunction(t, thread[t])
    BY Zenon, <2>7, NextFunctionDoes, PackFunctionDoes
  <2>8. CASE CopyStatus(t, thread[t])
    BY Zenon, <2>8, CopyStatusDoes, IdleOperation
  <2>9. CASE Finish(t, thread[t]) \/ Reply(t, thread[t])
    BY Zenon, <2>9, FinishDoes, IdleOperation
  <2>10. CASE GetAvailableFunction(t, thread[t]) \/ ListAvailableFunctions(t, thread[t])
    BY Zenon, <2>10, GetAvailableFunctionDoes, ListAvailableFunctionsDoes
  <2>11. CASE OwnExists(t, thread[t]) \/ OwnReplicas(t, thread[t])
    BY Zenon, <2>11, OwnDoes
  <2> QED BY <2>1, <2>2, <2>3, <2>4, <2>5, <2>6, <2>7, <2>8, <2>9, <2>10, <2>11, Zenon DEF Access
<1> QED BY Zenon, <1>1, SilentStep

LEMMA NextReports == TypeInv /\ ReportInv /\ [Next]_vars => ReportInv'
<1>1. ASSUME TypeInv, ReportInv, Next PROVE ReportInv'
  <2>1. PICK t \in Thread : Begin(t) \/ Access(t, thread[t])
    BY <1>1, Zenon DEF Next
  <2>2. Record
    BY <1>1, Zenon DEF Next
  <2>3. CASE Begin(t)
    BY <1>1, <2>2, <2>3, BeginReports
  <2>4. CASE Access(t, thread[t]) /\ thread[t].pc \notin {"find", "range", "own", "amount"}
    BY <1>1, <2>2, <2>4, OtherReports
  <2>5. CASE Access(t, thread[t]) /\ thread[t].pc \in {"find", "range", "own", "amount"}
    <3>1. \/ GetAvailableFunction(t, thread[t]) \/ ListAvailableFunctions(t, thread[t])
          \/ OwnExists(t, thread[t]) \/ OwnReplicas(t, thread[t])
      <4>1. /\ ~WriteNode(t, thread[t]) /\ ~InsertFunction(t, thread[t]) /\ ~StartSum(t, thread[t])
            /\ ~AddToSum(t, thread[t]) /\ ~StoreSum(t, thread[t]) /\ ~CheckZero(t, thread[t])
        BY Zenon, <1>1, <2>5, WriteNodeDoes, InsertFunctionDoes, StartSumDoes, AddToSumDoes, StoreSumDoes, CheckZeroDoes
      <4>2. /\ ~RemoveFunction(t, thread[t]) /\ ~CheckExist(t, thread[t]) /\ ~EnterNode(t, thread[t])
            /\ ~GetNode(t, thread[t]) /\ ~MergeFunction(t, thread[t]) /\ ~ReplaceReplicas(t, thread[t])
        BY Zenon, <1>1, <2>5, RemoveFunctionDoes, CheckExistDoes, EnterNodeDoes, GetNodeDoes, MergeFunctionDoes,
           ReplaceReplicasDoes
      <4>3. /\ ~NextFunction(t, thread[t]) /\ ~PackFunction(t, thread[t]) /\ ~CopyStatus(t, thread[t])
            /\ ~Finish(t, thread[t]) /\ ~Reply(t, thread[t])
        BY <2>5 DEF NextFunction, PackFunction, CopyStatus, Finish, Reply
      <4> QED BY <2>5, <4>1, <4>2, <4>3, Zenon DEF Access
    <3> QED BY <1>1, <2>2, <3>1, GetAvailableFunctionReports, ListAvailableFunctionsReports, OwnReports
  <2> QED BY <2>1, <2>3, <2>4, <2>5
<1>2. ASSUME ReportInv, UNCHANGED vars PROVE ReportInv'
  BY Zenon, <1>2, SameState DEF ReportInv, Reports, RunsHere, self, Reading, Running
<1> QED BY <1>1, <1>2

LEMMA InitReports == Init => ReportInv
BY Zenon DEF Init, ReportInv

\* A function that runs on the own node and is in FunctionCatalog all the while a
\* replica or function reader serves a request is in its answer, whatever the
\* other goroutines do to the maps between its accesses
\* (catalog_cluster_level.go, GetAvailableFunction, ListAvailableFunctions).
THEOREM RunningFunctionsAreReported == Spec => []RunningIsReported
<1>1. ASSUME TypeInv, ReportInv PROVE RunningIsReported
  <2> SUFFICES ASSUME NEW t \in Thread, thread[t].pc = "answer", NEW f \in steady[t],
                      thread[t].kind = "list" \/ f = thread[t].f
               PROVE  f \in thread[t].shown
    BY Zenon DEF RunningIsReported
  <2>1. thread[t] \in Finding \cup Ranging \cup Showing /\ thread[t] # Idle
    BY ZenonT(30), <1>1, PcTells, IdleOperation DEF TypeInv, ThreadType
  <2>2. Reading(t) /\ thread[t].kind \in {"status", "list"}
    BY SMTT(30), Zenon, <2>1 DEF Reading, Running, Finding, Ranging, Showing
  <2>3. Reports(thread[t], steady[t])
    BY <1>1, <2>1, <2>2 DEF ReportInv
  <2> QED BY Zenon, <2>2, <2>3 DEF Reports
<1>2. Spec => []ReportInv
  BY InitReports, NextReports, TypesStay, PTL DEF Spec
<1> QED BY <1>1, <1>2, TypesStay, PTL
=============================================================================
