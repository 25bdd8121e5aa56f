--------------------------- MODULE TriggerProofs ---------------------------
(***************************************************************************)
(* The safety of invocations, for any number of providers and requests at  *)
(* a time, any ranking of the nodes, credentials and execution times.      *)
(***************************************************************************)
EXTENDS Trigger, WellFoundedInduction, TLAPS

(***************************************************************************)
(* The types.  A handler that runs knows where it is and how its target    *)
(* was found.                                                              *)
(***************************************************************************)
ClusterType ==
  /\ deployed \subseteq Provider /\ ready \subseteq deployed
  /\ overload \subseteq Provider /\ known \subseteq Provider
  /\ spawned \subseteq Provider \X Provider /\ ended \subseteq Provider

TimeType ==
  /\ view \in [Provider -> SUBSET Provider]
  /\ time \in [Provider -> [Provider -> Nat \cup {Absent}]]

UsedType == used \in [requests : 0 .. MaxRequests, changes : 0 .. MaxChanges]

\* Only the first handler of a request may choose another node: the mark that
\* the second one has keeps it at its own node.
Marked(s, d) ==
  s.pc # "idle" =>
    /\ s.at \in Provider /\ s.target \in Provider /\ s.how # "none"
    /\ d > 0 => s.offload
    /\ s.offload => s.target = s.at /\ s.pc \in {"proxy", "load", "store"}
    /\ s.pc = "choose" => s.how = "local"
    /\ s.pc \in {"deploy", "wait"} => s.how = "deploy"

\* What the scheduler has placed finds a time at the provider that placed it,
\* and at its target.
Timed(s) ==
  s.how = "scheduler" => time[s.at][s.target] # Absent /\ time[s.target][s.target] # Absent

HandlerType ==
  /\ handler \in [Request -> [Hop -> State]]
  /\ \A r \in Request, d \in Hop : Marked(handler[r][d], d)

Placed == \A r \in Request, d \in Hop : handler[r][d].pc # "idle" => Timed(handler[r][d])

\* A node in any view has a time there and at itself.
Viewed == \A p, q \in Provider : q \in view[p] => time[p][q] # Absent /\ time[q][q] # Absent

Aborts == aborts \subseteq {"local", "fallback", "deploy"}

TriggerInv ==
  ClusterType /\ TimeType /\ UsedType /\ HandlerType /\ Viewed /\ Placed /\ Aborts /\ OneHop

---------------------------------------------------------------------------
(* Helpers *)

\* Times are never forgotten, so what is timed stays timed.
Remembers ==
  /\ time' \in [Provider -> [Provider -> Nat \cup {Absent}]]
  /\ \A p, q \in Provider : time[p][q] # Absent => time'[p][q] # Absent

\* A handler that has returned.
LEMMA IdleState == Idle \in State /\ Idle.pc = "idle"
BY DEF Idle, State

\* A set of numbers has a least one.
LEMMA MinIsMember ==
  ASSUME NEW S \in SUBSET Nat, S # {}
  PROVE  Min(S) \in S
<1> DEFINE R == OpToRel(<, Nat)
<1>1. \E x \in S : \A y \in S : ~(<<y, x>> \in R)
  <2> HIDE DEF R
  <2>1. IsWellFoundedOn(R, Nat)
    BY NatLessThanWellFounded, Zenon DEF R
  <2> QED BY <2>1, WFMin, Zenon
<1>2. PICK x \in S : \A y \in S : ~(<<y, x>> \in R)
  BY <1>1, Zenon
<1>3. \A y \in S : <<y, x>> \in Nat \X Nat /\ ~(y < x)
  BY <1>2, Zenon DEF OpToRel
<1>4. ASSUME NEW y \in S PROVE x =< y
  <2>1. x \in Nat /\ y \in Nat /\ ~(y < x)
    BY <1>3, Zenon
  <2> QED BY <2>1
<1> QED BY <1>4, Zenon DEF Min

\* The node that is found nearby is one of SortedP2PID.
LEMMA NearIsProvider ==
  ASSUME NEW p \in Provider, NEW is \in SUBSET (DOMAIN Near[p]), is # {}
  PROVE  Near[p][Min(is)] \in Provider
<1>1. Near[p] \in Seq(Provider)
  BY TriggerAssumption
<1>2. is \subseteq Nat
  BY <1>1
<1>3. Min(is) \in DOMAIN Near[p]
  BY <1>2, MinIsMember, Zenon
<1> QED BY <1>1, <1>3

\* A handler begins at a node of its own: the first one, that may choose, and
\* the second one, that has the mark.
LEMMA EntryBegins ==
  ASSUME NEW p \in Provider
  PROVE  LET s == MakeTriggerHandler(p, FALSE, "local")
         IN  s \in State /\ Marked(s, 0) /\ s.how # "scheduler"
<1> DEFINE s == MakeTriggerHandler(p, FALSE, "local")
<1> SUFFICES s \in State /\ Marked(s, 0) /\ s.how # "scheduler"
  BY Zenon
<1>1. CASE p \notin known
  BY <1>1, IdleState DEF MakeTriggerHandler, Marked, Idle
<1>2. CASE p \in known
  <2> DEFINE off == FALSE
             c == IF EnabledOffload THEN "choose" ELSE "proxy"
  <2>1. s =
          [pc |-> c, at |-> p, target |-> p, offload |-> off, how |-> "local", tmpTime |-> 0]
    BY <1>2, Zenon DEF MakeTriggerHandler, Idle
  <2>2. off \in BOOLEAN /\ ~off
    OBVIOUS
  <2> HIDE DEF off, s
  <2> QED BY <2>1, <2>2 DEF Marked, State
<1> QED BY <1>1, <1>2, Zenon

LEMMA MarkedBegins ==
  ASSUME NEW p \in Provider, NEW how \in {"local", "scheduler", "fallback", "deploy"}
  PROVE  LET s == MakeTriggerHandler(p, TRUE, how)
         IN  s \in State /\ Marked(s, 1) /\ (s.pc # "idle" => s.at = p /\ s.target = p /\ s.how = how)
<1> DEFINE s == MakeTriggerHandler(p, TRUE, how)
<1> SUFFICES s \in State /\ Marked(s, 1) /\ (s.pc # "idle" => s.at = p /\ s.target = p /\ s.how = how)
  BY Zenon
<1>1. CASE p \notin known
  BY <1>1, IdleState DEF MakeTriggerHandler, Marked
<1>2. CASE p \in known
  <2> DEFINE off == TRUE
  <2>1. s =
          [pc |-> "proxy", at |-> p, target |-> p, offload |-> off, how |-> how, tmpTime |-> 0]
    BY <1>2, Zenon DEF MakeTriggerHandler, Idle
  <2>2. off \in BOOLEAN /\ off
    OBVIOUS
  <2> HIDE DEF off, s
  <2> QED BY <2>1, <2>2 DEF Marked, State
<1> QED BY <1>1, <1>2, Zenon

\* One handler moves on in a way that fits.
LEMMA HandlerMoves ==
  ASSUME HandlerType, OneHop, NEW r \in Request, NEW d \in Hop, handler[r][d].pc # "idle",
         NEW s \in State, Marked(s, d), Step(r, d, s)
  PROVE  HandlerType' /\ OneHop' /\ handler'[r][d] = s
<1>1. /\ handler' \in [Request -> [Hop -> State]]
      /\ \A x \in Request, y \in Hop :
           handler'[x][y] = IF x = r /\ y = d THEN s ELSE handler[x][y]
  BY DEF HandlerType, Step
<1> QED BY <1>1 DEF HandlerType, OneHop

\* What the scheduler has placed stays timed when one handler moves.
LEMMA PlacedMoves ==
  ASSUME HandlerType, Placed, Remembers, NEW r \in Request, NEW d \in Hop,
         NEW s \in State, s.pc # "idle" => s.at \in Provider /\ s.target \in Provider /\ Timed(s),
         Step(r, d, s)
  PROVE  Placed'
<1>1. \A x \in Request, y \in Hop :
         handler'[x][y] = IF x = r /\ y = d THEN s ELSE handler[x][y]
  BY DEF HandlerType, Step
<1> QED BY <1>1 DEF HandlerType, Placed, Remembers, Timed, Marked

\* Moving on to another point is a step of the handler.
LEMMA GotoSteps ==
  ASSUME HandlerType, NEW r \in Request, NEW d \in Hop, NEW pc, Goto(r, d, pc)
  PROVE  Step(r, d, [handler[r][d] EXCEPT !.pc = pc])
BY DEF HandlerType, Goto, Step

\* A handler that moves and leaves the catalogs alone.
LEMMA OnlyHandler ==
  ASSUME TriggerInv, NEW r \in Request, NEW d \in Hop, handler[r][d].pc # "idle",
         NEW s \in State, Marked(s, d), Step(r, d, s),
         s.pc # "idle" => Timed(s), ClusterType', UsedType', Aborts', UNCHANGED <<view, time>>
  PROVE  TriggerInv'
<1> USE DEF TriggerInv
<1>1. HandlerType' /\ OneHop'
  BY HandlerMoves
<1>2. Remembers
  BY DEF Remembers, TimeType
<1>3. s.pc # "idle" => s.at \in Provider /\ s.target \in Provider
  BY DEF Marked
<1>4. Placed'
  BY <1>2, <1>3, PlacedMoves
<1>5. TimeType' /\ Viewed'
  BY DEF TimeType, Viewed
<1> QED BY <1>1, <1>4, <1>5

\* The end of a handler that chose its target.
LEMMA Leaves ==
  ASSUME NEW d \in Hop, NEW s \in State, s.pc # "idle", Marked(s, d), s.pc \notin {"choose", "deploy", "wait"}
  PROVE  LET z == Leave(s)
         IN  /\ z \in State /\ Marked(z, d)
             /\ z.pc # "idle" => z.at = s.at /\ z.target = s.target /\ z.how = s.how
<1>1. CASE s.offload \/ ~EnabledOffload
  BY <1>1, IdleState DEF Leave, Marked
<1>2. CASE ~(s.offload \/ ~EnabledOffload)
  BY <1>2 DEF Leave, Marked, State
<1> QED BY <1>1, <1>2

---------------------------------------------------------------------------
(* The steps of a handler *)

\* Whatever the scheduler takes is in the view of the provider.
LEMMA ChooseInv ==
  ASSUME TriggerInv, NEW r \in Request, NEW d \in Hop, handler[r][d].pc # "idle",
         findSuitableNode(r, d, handler[r][d])
  PROVE  TriggerInv'
<1> USE DEF TriggerInv
<1> DEFINE s == handler[r][d]
           p == s.at
<1>1. /\ s \in State /\ Marked(s, d) /\ s.pc = "choose" /\ p \in Provider
      /\ ~s.offload /\ ~(d > 0)
  BY Zenon DEF HandlerType, Marked, findSuitableNode
<1>2. ASSUME NEW q \in Provider, NEW how \in {"scheduler", "fallback", "deploy"}
      PROVE  LET z == Chosen(s, q, how)
             IN  /\ z \in State /\ Marked(z, d)
                 /\ z.at = p /\ z.target = q /\ z.how = how
  BY <1>1, Zenon DEF Chosen, State, Marked
<1>3. ClusterType' /\ UsedType' /\ Aborts'
  BY Zenon DEF findSuitableNode, ClusterType, UsedType, Aborts, clusterVars
<1>4. CASE \E q \in view[p] : Step(r, d, Chosen(s, q, "scheduler")) /\ UNCHANGED <<view, time>>
  <2>1. PICK q \in view[p] : Step(r, d, Chosen(s, q, "scheduler")) /\ UNCHANGED <<view, time>>
    BY <1>4
  <2>2. q \in Provider
    BY SMTT(30), Zenon, <1>1 DEF TimeType
  <2>3. Timed(Chosen(s, q, "scheduler"))
    BY <1>1, <1>2, <2>2 DEF Viewed, Timed
  <2> QED BY <1>2, <1>3, <2>1, <2>2, <2>3, OnlyHandler
<1>5. CASE /\ time' = [time EXCEPT ![p] = [q \in Provider |-> IF q \in view[p] THEN Unmeasured ELSE @[q]]]
           /\ Step(r, d, Chosen(s, p, "fallback")) /\ UNCHANGED view
  <2>1. \A x, y \in Provider : time'[x][y] = IF x = p /\ y \in view[p] THEN Unmeasured ELSE time[x][y]
    BY SMTT(30), Zenon, <1>1, <1>5 DEF TimeType
  <2>2. TimeType'
    BY <1>1, <1>5 DEF TimeType, Unmeasured
  <2>3. Remembers
    BY SMTT(30), Zenon, <2>1, <2>2 DEF Remembers, TimeType, Unmeasured, Absent
  <2>4. HandlerType' /\ OneHop'
    BY SMTT(30), Zenon, <1>1, <1>2, <1>5, HandlerMoves
  <2>5. Placed'
    BY <1>1, <1>2, <1>5, <2>3, PlacedMoves DEF Timed
  <2>6. Viewed'
    BY <1>5, <2>3 DEF Remembers, Viewed
  <2> QED BY <1>3, <2>2, <2>4, <2>5, <2>6
<1>6. CASE Return(r, d) /\ UNCHANGED <<view, time>>
  BY <1>3, <1>6, IdleState, OnlyHandler DEF Return, Marked
<1>7. CASE \E q \in Provider : Step(r, d, Chosen(s, q, "deploy")) /\ UNCHANGED <<view, time>>
  <2>1. PICK q \in Provider : Step(r, d, Chosen(s, q, "deploy")) /\ UNCHANGED <<view, time>>
    BY SMTT(30), Zenon, <1>7
  <2>2. Timed(Chosen(s, q, "deploy"))
    BY <1>2 DEF Timed
  <2> QED BY <1>2, <1>3, <2>1, <2>2, OnlyHandler
<1>8. LET q == FirstNear(p, LAMBDA n : n \notin overload) IN q = NoNode \/ q \in Provider
  BY <1>1, NearIsProvider, Zenon DEF FirstNear
<1> QED BY <1>4, <1>5, <1>6, <1>7, <1>8, Zenon DEF findSuitableNode

\* Waiting for what was deployed on demand, and deploying it.
LEMMA DeployInv ==
  ASSUME TriggerInv, NEW r \in Request, NEW d \in Hop, handler[r][d].pc # "idle",
         Deploy(r, d, handler[r][d]) \/ Wait(r, d, handler[r][d])
  PROVE  TriggerInv'
<1> USE DEF TriggerInv
<1> DEFINE s == handler[r][d]
<1>1. s \in State /\ Marked(s, d) /\ s.pc \in {"deploy", "wait"} /\ s.target \in Provider
  BY DEF HandlerType, Marked, Deploy, Wait
<1>2. UNCHANGED <<view, time, overload, known, ready, spawned, ended, aborts, used>>
  BY DEF Deploy, Wait, clusterVars, catalogVars
<1>3. deployed' = deployed \/ deployed' = deployed \cup {s.target}
  BY DEF Deploy, Wait, clusterVars, deployFunctionByP2PID
<1>4. ClusterType' /\ UsedType' /\ Aborts'
  BY SMTT(30), Zenon, <1>1, <1>2, <1>3 DEF ClusterType, UsedType, Aborts
<1>5. CASE Return(r, d)
  BY <1>2, <1>4, <1>5, IdleState, OnlyHandler DEF Return, Marked
<1>6. CASE Goto(r, d, "wait") \/ Goto(r, d, "proxy")
  <2>1. ASSUME NEW pc \in {"wait", "proxy"}, Goto(r, d, pc)
        PROVE  TriggerInv'
    <3> DEFINE z == [s EXCEPT !.pc = pc]
    <3>1. z \in State /\ Marked(z, d) /\ Timed(z)
      BY <1>1 DEF State, Marked, Timed
    <3>2. Step(r, d, z)
      BY <2>1, GotoSteps
    <3> QED BY <1>2, <1>4, <3>1, <3>2, OnlyHandler
  <2> QED BY <1>6, <2>1
<1> QED BY SMTT(30), Zenon, <1>5, <1>6 DEF Deploy, Wait

\* The call of the function at the own node, or its answer.
LEMMA AnsweredInv ==
  ASSUME TriggerInv, NEW r \in Request, NEW d \in Hop, handler[r][d].pc # "idle",
         ProxyLocal(r, d, handler[r][d]) \/ Answered(r, d, handler[r][d])
  PROVE  TriggerInv'
<1> USE DEF TriggerInv
<1> DEFINE s == handler[r][d]
           z == [s EXCEPT !.pc = "load"]
<1>1. s \in State /\ Marked(s, d) /\ Timed(s) /\ s.pc \in {"proxy", "await"}
  BY DEF HandlerType, Placed, ProxyLocal, Answered
<1>2. UNCHANGED <<clusterVars, catalogVars, spawned, ended, aborts, used>> /\ Goto(r, d, "load")
  BY DEF ProxyLocal, Answered
<1>3. ClusterType' /\ UsedType' /\ Aborts' /\ UNCHANGED <<view, time>>
  BY SMTT(30), Zenon, <1>2 DEF ClusterType, UsedType, Aborts, clusterVars, catalogVars
<1>4. z \in State /\ Marked(z, d) /\ Timed(z)
  BY <1>1 DEF State, Marked, Timed
<1>5. Step(r, d, z)
  BY <1>2, GotoSteps
<1> QED BY <1>3, <1>4, <1>5, OnlyHandler

\* A request that is not sent ends the handler.
LEMMA NotSentInv ==
  ASSUME TriggerInv, NEW r \in Request, NEW d \in Hop, handler[r][d].pc # "idle",
         NotSent(r, d, handler[r][d])
  PROVE  TriggerInv'
<1> USE DEF TriggerInv
<1> DEFINE s == handler[r][d]
           z == Leave(s)
<1>1. s \in State /\ Marked(s, d) /\ Timed(s) /\ s.pc = "proxy"
  BY DEF HandlerType, Placed, NotSent
<1>2. UNCHANGED <<clusterVars, catalogVars, spawned, ended, aborts, used>> /\ Step(r, d, z)
  BY DEF NotSent
<1>3. ClusterType' /\ UsedType' /\ Aborts' /\ UNCHANGED <<view, time>>
  BY SMTT(30), Zenon, <1>2 DEF ClusterType, UsedType, Aborts, clusterVars, catalogVars
<1>4. z \in State /\ Marked(z, d) /\ (z.pc # "idle" => Timed(z))
  BY <1>1, Leaves DEF Timed
<1> QED BY <1>2, <1>3, <1>4, OnlyHandler

\* A request that is forwarded: only the handler at the entry does so, and the
\* second one has the mark.  The target's own time is there when it was placed.
LEMMA ProxyRemoteInv ==
  ASSUME TriggerInv, NEW r \in Request, NEW d \in Hop, handler[r][d].pc # "idle",
         ProxyRemote(r, d, handler[r][d])
  PROVE  TriggerInv'
<1> USE DEF TriggerInv
<1> DEFINE s == handler[r][d]
           z == [s EXCEPT !.pc = "await"]
           w == MakeTriggerHandler(s.target, TRUE, s.how)
<1>1. /\ s \in State /\ Marked(s, d) /\ Timed(s) /\ s.pc = "proxy" /\ s.target # s.at /\ d < MaxHops
      /\ UNCHANGED <<clusterVars, catalogVars, spawned, ended, aborts, used>>
      /\ handler' = [handler EXCEPT ![r][d].pc = "await", ![r][d + 1] = w]
  BY DEF HandlerType, Placed, ProxyRemote
<1>2. /\ s.at \in Provider /\ s.target \in Provider /\ ~s.offload
      /\ s.how \in {"local", "scheduler", "fallback", "deploy"}
  BY <1>1 DEF Marked, State
<1>3. d = 0 /\ d + 1 = 1 /\ 1 \in Hop
  BY <1>1, <1>2, TriggerAssumption DEF Marked, Hop
<1>4. z \in State /\ Marked(z, d) /\ Timed(z)
  BY <1>1, <1>2, Zenon DEF State, Marked, Timed
<1>5. w \in State /\ Marked(w, 1) /\ (w.pc # "idle" => w.at = s.target /\ w.target = s.target /\ w.how = s.how)
  BY <1>2, MarkedBegins, Zenon
<1>6. w.pc # "idle" => Timed(w)
  BY <1>1, <1>5, Zenon DEF Timed
<1>7. /\ handler' \in [Request -> [Hop -> State]]
      /\ \A x \in Request, y \in Hop :
           handler'[x][y] = IF x = r /\ y = 1 THEN w ELSE IF x = r /\ y = 0 THEN z ELSE handler[x][y]
  <2> HIDE DEF w
  <2> QED BY <1>1, <1>3, <1>4, <1>5, Zenon DEF HandlerType
<1> HIDE DEF s, z, w
<1>8. HandlerType' /\ OneHop'
  <2>1. ASSUME NEW x \in Request, NEW y \in Hop
        PROVE  Marked(handler'[x][y], y) /\ (y > 1 => handler'[x][y].pc = "idle")
    <3>1. CASE x = r /\ y = 1
      <4>1. ~(y > 1)
        BY ONLY <3>1
      <4> QED BY <1>5, <1>7, <3>1, <4>1, Zenon
    <3>2. CASE x = r /\ y = 0
      <4>1. ~(y > 1) /\ y # 1
        BY ONLY <3>2
      <4> QED BY <1>3, <1>4, <1>7, <3>2, <4>1, Zenon
    <3>3. CASE ~(x = r /\ y = 1) /\ ~(x = r /\ y = 0)
      <4>1. handler'[x][y] = handler[x][y]
        BY <1>7, <3>3, Zenon
      <4> QED BY <4>1, Zenon DEF HandlerType, OneHop
    <3> QED BY <3>1, <3>2, <3>3, Zenon
  <2> QED BY <1>7, <2>1, Zenon DEF HandlerType, OneHop
<1>9. time' = time /\ view' = view
  BY SMTT(30), Zenon, <1>1 DEF catalogVars
<1>10. Placed'
  BY <1>4, <1>6, <1>7, <1>9 DEF Placed, Timed
<1>11. ClusterType' /\ UsedType' /\ Aborts' /\ TimeType' /\ Viewed'
  BY SMTT(30), Zenon, <1>1 DEF ClusterType, UsedType, Aborts, TimeType, Viewed, clusterVars, catalogVars
<1> QED BY <1>8, <1>10, <1>11

\* The end of a call, first half: a time that is missing was not looked up for
\* a request that the scheduler has placed.
LEMMA LoadTimeInv ==
  ASSUME TriggerInv, NEW r \in Request, NEW d \in Hop, handler[r][d].pc # "idle",
         LoadTime(r, d, handler[r][d])
  PROVE  TriggerInv'
<1> USE DEF TriggerInv
<1> DEFINE s == handler[r][d]
           old == time[s.at][s.target]
<1>0. s \in State /\ Marked(s, d) /\ Timed(s) /\ s.pc = "load"
  BY ZenonT(30) DEF HandlerType, Placed, LoadTime
<1>1. s.at \in Provider /\ s.target \in Provider /\ s.how \in {"local", "scheduler", "fallback", "deploy"}
  BY <1>0 DEF Marked, State
<1>2. UNCHANGED <<clusterVars, catalogVars, spawned, ended, used>>
  BY Zenon DEF LoadTime
<1>3. ClusterType' /\ UsedType' /\ UNCHANGED <<view, time>>
  BY <1>2 DEF ClusterType, UsedType, clusterVars, catalogVars
<1>4. CASE old = Absent
  <2>1. Step(r, d, Leave(s)) /\ aborts' = aborts \cup {s.how}
    BY <1>4, Zenon DEF LoadTime
  <2>2. s.how # "scheduler"
    BY <1>0, <1>4, Zenon DEF Timed
  <2>3. Aborts'
    BY <1>1, <2>1, <2>2, Zenon DEF Aborts
  <2>4. LET z == Leave(s) IN z \in State /\ Marked(z, d) /\ (z.pc # "idle" => Timed(z))
    BY <1>0, <1>1, Leaves, Zenon DEF Timed
  <2> QED BY <1>3, <2>1, <2>3, <2>4, OnlyHandler
<1>5. CASE old # Absent
  <2>1. PICK t \in Times : Step(r, d, [s EXCEPT !.pc = "store",
                                 !.tmpTime = IF old = Unmeasured THEN t ELSE (old + t) \div 2])
    BY <1>5, Zenon DEF LoadTime
  <2>2. Aborts'
    BY <1>5, Zenon DEF LoadTime, Aborts
  <2> DEFINE n == IF old = Unmeasured THEN t ELSE (old + t) \div 2
             z == [s EXCEPT !.pc = "store", !.tmpTime = n]
  <2>3. n \in Nat
    <3>1. old \in Nat /\ t \in Nat
      BY <1>1, <1>5, TriggerAssumption DEF TimeType
    <3> HIDE DEF old
    <3> QED BY ONLY SMTT(30), Zenon, <3>1
  <2>4. Step(r, d, z)
    BY <2>1, Zenon
  <2>5. z \in State /\ Marked(z, d) /\ Timed(z)
    <3> HIDE DEF n
    <3> QED BY <1>0, <1>1, <2>3, Zenon DEF State, Marked, Timed
  <2> HIDE DEF z
  <2> QED BY <1>3, <2>2, <2>4, <2>5, OnlyHandler
<1> QED BY <1>4, <1>5

\* Second half: the store adds a time and takes none away.
LEMMA StoreTimeInv ==
  ASSUME TriggerInv, NEW r \in Request, NEW d \in Hop, handler[r][d].pc # "idle",
         StoreTime(r, d, handler[r][d])
  PROVE  TriggerInv'
<1> USE DEF TriggerInv
<1> DEFINE s == handler[r][d]
           z == Leave(s)
<1>1. s \in State /\ Marked(s, d) /\ Timed(s) /\ s.pc = "store"
  BY ZenonT(30) DEF HandlerType, Placed, StoreTime
<1>2. s.at \in Provider /\ s.target \in Provider /\ s.tmpTime \in Nat
  BY <1>1 DEF Marked, State
<1>3. /\ time' = [time EXCEPT ![s.at][s.target] = s.tmpTime] /\ Step(r, d, z)
      /\ UNCHANGED <<clusterVars, view, overload, known, spawned, ended, aborts, used>>
  BY Zenon DEF StoreTime
<1>4. z \in State /\ Marked(z, d) /\ (z.pc # "idle" => z.at \in Provider /\ z.target \in Provider /\ Timed(z))
  BY Zenon, <1>1, <1>2, Leaves DEF Timed
<1>5. TimeType' /\ Remembers
  <2>1. PICK a \in Provider, b \in Provider, n \in Nat : a = s.at /\ b = s.target /\ n = s.tmpTime
    BY <1>2, Zenon
  <2>2. /\ view' = view /\ time' = [time EXCEPT ![a][b] = n]
        /\ time \in [Provider -> [Provider -> Nat \cup {Absent}]]
    BY <1>3, <2>1, Zenon DEF TimeType
  <2>3. n # Absent
    BY ONLY n \in Nat DEF Absent
  <2>4. /\ time' \in [Provider -> [Provider -> Nat \cup {Absent}]]
        /\ \A p, q \in Provider : time[p][q] # Absent => time'[p][q] # Absent
    BY ONLY <2>2, <2>3, a \in Provider, b \in Provider, n \in Nat
  <2> QED BY <2>2, <2>4, Zenon DEF TimeType, Remembers
<1>6. HandlerType' /\ OneHop'
  BY SMTT(30), Zenon, <1>3, <1>4, HandlerMoves
<1>7. Placed'
  BY <1>3, <1>4, <1>5, PlacedMoves
<1>8. ClusterType' /\ UsedType' /\ Aborts' /\ Viewed'
  BY <1>3, <1>5, Zenon DEF ClusterType, UsedType, Aborts, Viewed, Remembers, clusterVars
<1> QED BY <1>5, <1>6, <1>7, <1>8

\* The exploration: the node found is a provider, and a missing time was not
\* looked up for a request that the scheduler has placed.
LEMMA ExploreInv ==
  ASSUME TriggerInv, NEW r \in Request, NEW d \in Hop, handler[r][d].pc # "idle",
         Explore(r, d, handler[r][d])
  PROVE  TriggerInv'
<1> USE DEF TriggerInv
<1> DEFINE s == handler[r][d]
<1>1. s \in State /\ Marked(s, d) /\ Timed(s) /\ s.pc = "explore"
  BY ZenonT(30) DEF HandlerType, Placed, Explore
<1>2. s.at \in Provider /\ s.target \in Provider /\ s.how \in {"local", "scheduler", "fallback", "deploy"}
  BY <1>1 DEF Marked, State
<1>3. Step(r, d, Idle) /\ UNCHANGED <<clusterVars, catalogVars, ended, used>>
  BY Zenon DEF Explore, Return
<1>4. Idle \in State /\ Marked(Idle, d) /\ Idle.pc = "idle"
  BY IdleState DEF Marked
<1>5. explorePotentialNode(s.at, s.target) \in Provider \cup {NoNode}
  BY <1>2, NearIsProvider, ZenonT(30) DEF explorePotentialNode, FirstNear
<1>6. spawned' \subseteq Provider \X Provider /\ Aborts'
  <2>1. CASE time[s.at][s.target] = Absent
    <3>1. s.how # "scheduler"
      BY <1>1, <2>1, Zenon DEF Timed
    <3>2. aborts' = aborts \cup {s.how} /\ spawned' = spawned
      BY <2>1, ZenonT(30) DEF Explore
    <3> QED BY <1>2, <3>1, <3>2, Zenon DEF Aborts, ClusterType
  <2>2. CASE time[s.at][s.target] # Absent
    <3>1. Explored(s.at, s.target) /\ aborts' = aborts
      BY <2>2, Zenon DEF Explore
    <3> QED BY <1>2, <1>5, <3>1 DEF Explored, Aborts, ClusterType
  <2> QED BY <2>1, <2>2
<1>7. ClusterType' /\ UsedType' /\ UNCHANGED <<view, time>>
  BY <1>3, <1>6 DEF ClusterType, UsedType, clusterVars, catalogVars
<1> QED BY <1>3, <1>4, <1>6, <1>7, OnlyHandler

---------------------------------------------------------------------------
(* The other steps *)

\* The counters stay in their bounds.
LEMMA RequestUsed ==
  ASSUME UsedType, used.requests < MaxRequests, used' = [used EXCEPT !.requests = @ + 1]
  PROVE  UsedType'
BY TriggerAssumption DEF UsedType

LEMMA ChangeUsed ==
  ASSUME UsedType, Change
  PROVE  UsedType'
BY TriggerAssumption DEF UsedType, Change

\* A new request: nothing is placed yet.
LEMMA BeginInv ==
  ASSUME TriggerInv, NEW r \in Request, Begin(r)
  PROVE  TriggerInv'
<1> USE DEF TriggerInv
<1>1. PICK p \in Entry \ ended :
        handler' = [handler EXCEPT ![r] = [d \in Hop |->
          IF d = 0 THEN MakeTriggerHandler(p, FALSE, "local") ELSE Idle]]
  BY Zenon DEF Begin
<1> DEFINE s == MakeTriggerHandler(p, FALSE, "local")
<1>2. p \in Provider
  BY TriggerAssumption
<1>3. s \in State /\ Marked(s, 0) /\ s.how # "scheduler"
  BY <1>2, EntryBegins, Zenon
<1>4. handler' = [handler EXCEPT ![r] = [d \in Hop |-> IF d = 0 THEN s ELSE Idle]]
  BY <1>1
<1> HIDE DEF s
<1>5. /\ handler' \in [Request -> [Hop -> State]]
      /\ \A x \in Request, y \in Hop :
           handler'[x][y] = IF x = r THEN IF y = 0 THEN s ELSE Idle ELSE handler[x][y]
  BY SMTT(30), Zenon, <1>3, <1>4, IdleState DEF HandlerType
<1>6. HandlerType'
  BY <1>3, <1>5, IdleState DEF HandlerType, Marked
<1>7. OneHop'
  BY <1>5, IdleState DEF OneHop
<1>8. UNCHANGED <<clusterVars, catalogVars, spawned, ended, aborts>>
  BY SMTT(30), Zenon DEF Begin
<1>9. Placed'
  BY <1>3, <1>5, <1>8, IdleState DEF Placed, Timed, catalogVars
<1>10. UsedType'
  <2>1. used.requests < MaxRequests /\ used' = [used EXCEPT !.requests = @ + 1]
    BY Zenon DEF Begin
  <2> QED BY <2>1, RequestUsed
<1>11. ClusterType' /\ Aborts' /\ TimeType' /\ Viewed'
  BY <1>8 DEF ClusterType, Aborts, TimeType, Viewed, clusterVars, catalogVars
<1> QED BY <1>6, <1>7, <1>9, <1>10, <1>11

\* No handler moves, and no time is forgotten.
LEMMA NoHandler ==
  ASSUME TriggerInv, Remembers, ClusterType', UsedType', TimeType', Viewed', UNCHANGED <<handler, aborts>>
  PROVE  TriggerInv'
<1> USE DEF TriggerInv
<1>1. HandlerType' /\ OneHop' /\ Aborts'
  BY SMTT(30), Zenon DEF HandlerType, OneHop, Aborts
<1>2. Placed'
  BY DEF HandlerType, Placed, Remembers, Timed, Marked
<1> QED BY <1>1, <1>2

\* Steps that leave the views and the times alone.
LEMMA ClusterStepInv ==
  ASSUME TriggerInv,
         \/ \E p, q \in Provider : DeployInBackground(p, q)
         \/ \E q \in Provider : \/ BecomeReady(q) \/ BecomeUnready(q)
                                \/ updatePressure(q) \/ updatePressureFails(q)
  PROVE  TriggerInv'
<1> USE DEF TriggerInv
<1>1. UNCHANGED <<view, time, handler, aborts>>
  BY Zenon DEF DeployInBackground, BecomeReady, BecomeUnready, updatePressure, updatePressureFails,
    catalogVars
<1>2. UsedType'
  <2>1. Change \/ used' = used
    BY Zenon DEF DeployInBackground, BecomeReady, BecomeUnready, updatePressure, updatePressureFails
  <2> QED BY <2>1, ChangeUsed DEF UsedType
<1>3. ClusterType'
  <2>1. ASSUME NEW p \in Provider, NEW q \in Provider, DeployInBackground(p, q)
        PROVE  ClusterType'
    <3>1. /\ deployed' \in {deployed, deployed \cup {q}} /\ ended' \in {ended, ended \cup {p}}
          /\ spawned' \subseteq spawned /\ UNCHANGED <<ready, overload, known>>
      BY <2>1 DEF DeployInBackground, deployFunctionByP2PID, catalogVars
    <3> QED BY <3>1 DEF ClusterType
  <2>2. ASSUME NEW q \in Provider, BecomeReady(q) \/ BecomeUnready(q)
        PROVE  ClusterType'
    BY <2>2 DEF BecomeReady, BecomeUnready, ClusterType, catalogVars
  <2>3. ASSUME NEW q \in Provider, updatePressure(q)
        PROVE  ClusterType'
    <3>1. /\ overload' \in {overload \cup {q}, overload \ {q}}
          /\ UNCHANGED <<clusterVars, known, spawned, ended>>
      BY <2>3, Zenon DEF updatePressure
    <3> QED BY <3>1 DEF ClusterType, clusterVars
  <2>4. ASSUME NEW q \in Provider, updatePressureFails(q)
        PROVE  ClusterType'
    BY <2>4 DEF updatePressureFails, ClusterType, clusterVars, catalogVars
  <2> QED BY <2>1, <2>2, <2>3, <2>4
<1>4. Remembers /\ TimeType' /\ Viewed'
  BY <1>1 DEF Remembers, TimeType, Viewed
<1> QED BY <1>1, <1>2, <1>3, <1>4, NoHandler

\* A node enters a view together with a time; it enters its own view first.
LEMMA ReportInv ==
  ASSUME TriggerInv, NEW p \in Provider, NEW q \in Provider, AddFunc(p) \/ unpackNodeInfoMsg(p, q)
  PROVE  TriggerInv'
<1> USE DEF TriggerInv
<1>1. UNCHANGED <<clusterVars, overload, handler, spawned, ended, aborts>>
  BY Zenon DEF AddFunc, unpackNodeInfoMsg
<1>2. UsedType' /\ known' \subseteq known \cup {p}
  <2>1. (Change \/ used' = used) /\ known' \in {known, known \cup {p}}
    BY Zenon DEF AddFunc, unpackNodeInfoMsg
  <2> QED BY <2>1, ChangeUsed DEF UsedType
<1>3. ClusterType'
  BY <1>1, <1>2 DEF ClusterType, clusterVars
<1>4. TimeType' /\ Remembers
  <2>1. /\ time' = time \/ \E x, y \in Provider : time' = [time EXCEPT ![x][y] = Unmeasured]
        /\ view' = view \/ \E x, y \in Provider : view' \in {[view EXCEPT ![x] = @ \cup {y}],
                                                             [view EXCEPT ![x] = @ \ {y}]}
    BY Zenon DEF AddFunc, unpackNodeInfoMsg
  <2>2. view' \in [Provider -> SUBSET Provider]
    BY <2>1 DEF TimeType
  <2>3. Remembers
    <3>1. CASE time' = time
      BY <3>1 DEF TimeType, Remembers
    <3>2. ASSUME NEW x \in Provider, NEW y \in Provider, time' = [time EXCEPT ![x][y] = Unmeasured]
          PROVE  Remembers
      BY <3>2 DEF TimeType, Remembers, Unmeasured, Absent
    <3> QED BY <2>1, <3>1, <3>2
  <2> QED BY <2>2, <2>3 DEF TimeType, Remembers
<1>5. \A x, y \in Provider : y \in view'[x] =>
        y \in view[x] \/ (time'[x][y] = Unmeasured /\ (x = y \/ y \in view[y]))
  BY SMTT(30), Zenon DEF AddFunc, unpackNodeInfoMsg, TimeType
<1>6. Viewed'
  BY <1>4, <1>5 DEF Viewed, Remembers, Unmeasured, Absent
<1> QED BY <1>1, <1>2, <1>3, <1>4, <1>6, NoHandler

\* A node leaves its own view, and its times stay.
LEMMA DeleteInv ==
  ASSUME TriggerInv, NEW q \in Provider, MakeDeleteHandler(q)
  PROVE  TriggerInv'
<1> USE DEF TriggerInv
<1>1. UNCHANGED <<time, overload, handler, spawned, ended, aborts>> /\ Change
  BY DEF MakeDeleteHandler
<1>2. /\ view' = [view EXCEPT ![q] = @ \ {q}] /\ known' \in {known, known \ {q}}
      /\ deployed' = deployed \ {q} /\ ready' = ready \ {q}
  BY DEF MakeDeleteHandler
<1>3. ClusterType' /\ UsedType'
  BY <1>1, <1>2, ChangeUsed DEF ClusterType
<1>4. TimeType' /\ Remembers
  BY <1>1, <1>2 DEF TimeType, Remembers
<1>5. \A x \in Provider : view'[x] \subseteq view[x]
  BY <1>2 DEF TimeType
<1>6. Viewed'
  BY <1>1, <1>5 DEF Viewed
<1> QED BY <1>1, <1>3, <1>4, <1>6, NoHandler

---------------------------------------------------------------------------
(* The theorems *)

\* The invariant holds at first, and every step keeps it.
LEMMA InitTrigger == Init => TriggerInv
<1> SUFFICES ASSUME Init PROVE TriggerInv
  OBVIOUS
<1>1. PICK x \in Starts : deployed = x.deployed /\ time = x.time
  BY DEF Init
<1>2. /\ deployed \subseteq Provider /\ time \in [Provider -> [Provider -> Nat \cup {Absent}]]
      /\ \A p \in Provider, q \in deployed : time[p][q] # Absent
  BY SMTT(30), Zenon, <1>1, TriggerAssumption
<1>3. ClusterType /\ TimeType /\ Viewed
  BY SMTT(30), Zenon, <1>2, TriggerAssumption DEF Init, ClusterType, TimeType, Viewed
<1>4. UsedType /\ Aborts
  BY TriggerAssumption DEF Init, UsedType, Aborts
<1>5. handler \in [Request -> [Hop -> State]] /\ \A r \in Request, d \in Hop : handler[r][d] = Idle
  BY SMTT(30), Zenon, IdleState DEF Init
<1>6. HandlerType /\ Placed /\ OneHop
  BY <1>5, IdleState DEF HandlerType, Placed, OneHop, Marked
<1> QED BY <1>3, <1>4, <1>6 DEF TriggerInv

LEMMA NextTrigger == TriggerInv /\ [Next]_vars => TriggerInv'
<1> SUFFICES ASSUME TriggerInv, [Next]_vars PROVE TriggerInv'
  OBVIOUS
<1>1. ASSUME NEW r \in Request, Begin(r) PROVE TriggerInv'
  BY <1>1, BeginInv
<1>2. ASSUME NEW r \in Request, NEW d \in Hop, HandlerStep(r, d) PROVE TriggerInv'
  <2>1. handler[r][d].pc # "idle"
    BY <1>2, Zenon DEF HandlerStep, Running
  <2> QED BY Zenon, <1>2, <2>1, ChooseInv, DeployInv, AnsweredInv, NotSentInv, ProxyRemoteInv, LoadTimeInv,
             StoreTimeInv, ExploreInv DEF HandlerStep
<1>3. ASSUME NEW p \in Provider, NEW q \in Provider, DeployInBackground(p, q) PROVE TriggerInv'
  BY <1>3, ClusterStepInv
<1>4. ASSUME NEW p \in Provider, NEW q \in Provider, unpackNodeInfoMsg(p, q) PROVE TriggerInv'
  BY <1>4, ReportInv
<1>5. ASSUME NEW q \in Provider,
             BecomeReady(q) \/ BecomeUnready(q) \/ updatePressure(q) \/ updatePressureFails(q)
      PROVE  TriggerInv'
  BY <1>5, ClusterStepInv
<1>6. ASSUME NEW q \in Provider, AddFunc(q) PROVE TriggerInv'
  BY <1>6, ReportInv
<1>7. ASSUME NEW q \in Provider, MakeDeleteHandler(q) PROVE TriggerInv'
  BY <1>7, DeleteInv
<1>8. CASE UNCHANGED vars
  <2>1. UNCHANGED <<deployed, ready, overload, known, spawned, ended, view, time, used, aborts, handler>>
    BY <1>8, Zenon DEF vars, clusterVars, catalogVars
  <2>2. ClusterType' /\ TimeType' /\ UsedType' /\ Viewed' /\ Aborts'
    BY <2>1, Zenon DEF TriggerInv, ClusterType, TimeType, UsedType, Viewed, Aborts
  <2>3. HandlerType' /\ OneHop'
    BY <2>1, Zenon DEF TriggerInv, HandlerType, OneHop
  <2>4. Placed'
    BY <2>1, Zenon DEF TriggerInv, Placed, Timed
  <2> QED BY <2>2, <2>3, <2>4, Zenon DEF TriggerInv
<1> QED BY <1>1, <1>2, <1>3, <1>4, <1>5, <1>6, <1>7, <1>8, Zenon DEF Next

LEMMA TriggerSafe == Spec => []TriggerInv
BY InitTrigger, NextTrigger, PTL DEF Spec

\* The catalogs, the handlers of trigger.go and their bookkeeping keep their
\* types.
THEOREM TypeCorrect == Spec => []TypeOK
<1>1. TriggerInv => TypeOK
  BY DEF TriggerInv, TypeOK, ClusterType, TimeType, UsedType, HandlerType, Aborts
<1> QED BY <1>1, TriggerSafe, PTL

\* A request is forwarded at most once (markAsOffloadRequest), for every number
\* of providers and whatever they believe of each other.
THEOREM ForwardedOnce == Spec => []OneHop
<1>1. TriggerInv => OneHop
  BY DEF TriggerInv
<1> QED BY <1>1, TriggerSafe, PTL

\* A request that weightExecTimeScheduler has placed finds the execution times
\* that it updates (trigger.go:89, 275), where it was placed and where it runs.
THEOREM PlacedRequestsAreTimed == Spec => []PlacedNeverAborts
<1>1. TriggerInv => PlacedNeverAborts
  BY DEF TriggerInv, Aborts, PlacedNeverAborts
<1> QED BY <1>1, TriggerSafe, PTL

\* Only an exploration without credentials, or Prometheus, ends a provider.
THEOREM OnlyMissingConfigCrashes == Spec => CrashNeedsMissingConfig
<1> DEFINE Crash == \A p \in ended' \ ended :
             updatePressureFails(p) \/ \E q \in Provider \ Kubeconfig[p] : <<p, q>> \in spawned
<1>1. [Next]_vars => [Crash]_vars
  <2> SUFFICES ASSUME Next PROVE Crash \/ UNCHANGED vars
    BY SMTT(30), Zenon
  <2>1. ASSUME NEW p \in Provider, NEW q \in Provider, DeployInBackground(p, q) PROVE Crash
    BY <2>1 DEF DeployInBackground
  <2>2. ASSUME NEW q \in Provider, updatePressureFails(q) PROVE Crash
    <3>1. ended' = ended \cup {q}
      BY <2>2 DEF updatePressureFails
    <3> QED BY <2>2, <3>1, Zenon
  <2>3. ended' = ended => Crash
    OBVIOUS
  <2>4. ASSUME NEW r \in Request, Begin(r) PROVE ended' = ended
    BY <2>4, Zenon DEF Begin
  <2>5. ASSUME NEW r \in Request, NEW d \in Hop, HandlerStep(r, d) PROVE ended' = ended
    BY <2>5, Zenon DEF HandlerStep, findSuitableNode, Deploy, Wait, ProxyLocal, ProxyRemote, NotSent,
      Answered, LoadTime, StoreTime, Explore
  <2>6. ASSUME NEW p \in Provider, NEW q \in Provider,
               \/ unpackNodeInfoMsg(p, q) \/ BecomeReady(q) \/ BecomeUnready(q)
               \/ updatePressure(q) \/ AddFunc(q) \/ MakeDeleteHandler(q)
        PROVE  ended' = ended
    BY <2>6, Zenon DEF unpackNodeInfoMsg, BecomeReady, BecomeUnready, updatePressure, AddFunc,
      MakeDeleteHandler
  <2> QED BY <2>1, <2>2, <2>3, <2>4, <2>5, <2>6, Zenon DEF Next
<1> QED BY <1>1, PTL DEF Spec, CrashNeedsMissingConfig
=============================================================================
