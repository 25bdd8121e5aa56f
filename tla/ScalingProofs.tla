---------------------------- MODULE ScalingProofs ----------------------------
(***************************************************************************)
(* Proofs about Deployments: a scale request that runs alone reaches its   *)
(* target.  DeploymentsTheorems has the facts on sums and the theorems.    *)
(***************************************************************************)
EXTENDS DeploymentsProofs

---------------------------------------------------------------------------
(* A scale request reaches its target *)

\* RankNodeByRTT (kube_client.go:181) keeps one peer for each round trip it
\* measured: a ranking lists no peer twice as long as no two are equal.
RankedOnce ==
  \A p \in Provider : \A i, j \in DOMAIN Near[p] : Near[p][i] = Near[p][j] => i = j

\* A number of the sum counts for what it is (SumOfFunction, SumOfUpdate in DeploymentsTheorems).
SumsMove ==
  /\ \A v \in [Provider -> Nat] : \A t \in Provider : v[t] <= SumFunction(v)
  /\ \A v, w \in [Provider -> Nat] : \A t \in Provider :
       (\A q \in Provider \ {t} : w[q] = v[q]) => SumFunction(w) = SumFunction(v) - v[t] + w[t]

\* scaleUp: the replicas there are and the ones it has yet to place, m in all.
Counted(s, m) ==
  LET total == Total(s.f)
      here == Running(s.target, s.f)
  IN  /\ s.cnt >= 0
      /\ s.pc = "node" =>
           total + s.cnt = m \/ (s.cnt = 0 /\ total \in m .. m + MinReplicas - 1)
      /\ s.pc \in {"count", "create"} => s.cnt > 0 /\ here = 0 /\ total + s.cnt = m
      /\ s.pc = "createService" => s.cnt > 0 /\ here = MinReplicas /\ total - here + s.cnt = m
      /\ s.pc \in {"get", "put"} =>
           total - here + s.n + s.cnt = m /\ (s.cnt = 0 \/ s.n >= Workers[s.target])

\* It leaves a cluster behind when that is overloaded or full, or nothing is
\* left to place.
Behind(s) ==
  \A i \in 1 .. s.i - 1 :
    \/ Near[s.at][i] \in overload \/ s.cnt = 0
    \/ Running(Near[s.at][i], s.f) >= Workers[Near[s.at][i]]

\* The catalogs are right about a cluster.
Right(p, q, f) == view[p][q][f] = Running(q, f) /\ view[q][q][f] = Running(q, f)

\* They are about the clusters it has yet to visit.
Ahead(s) ==
  /\ s.pc # "node" => s.target = Near[s.at][s.i]
  /\ \A i \in s.i .. Len(Near[s.at]) : i > s.i \/ s.pc = "node" => Right(s.at, Near[s.at][i], s.f)

\* scaleDown: m replicas remain, or none at home and m or more elsewhere.
Descends(s, m) ==
  LET total == Total(s.f)
      here == Running(s.at, s.f)
  IN  /\ s.pc = "down" => s.cnt > 0 /\ total - s.cnt = m /\ Right(s.at, s.at, s.f)
      /\ s.pc \in {"get", "put"} => total - here + s.n = m
      /\ s.pc = "deleteDeployment" => total - here >= m
      /\ s.pc = "deleteService" => here = 0 /\ total >= m
      /\ s.pc \in {"down", "get", "put"} => s.f \notin terminating[s.at]

Going(s, m) ==
  /\ s.op = "scaleUp" => Counted(s, m) /\ Behind(s) /\ Ahead(s)
  /\ s.op = "scaleDown" => Descends(s, m)

Reached(p, f, op, m) ==
  \/ Total(f) = m
  \/ op = "scaleUp" /\ Total(f) \in m + 1 .. m + MinReplicas - 1
  \/ /\ op = "scaleUp" /\ Total(f) < m
     /\ \A i \in DOMAIN Near[p] :
          (EnabledOffload \/ i = 1) /\ Near[p][i] \notin overload => Running(Near[p][i], f) >= Workers[Near[p][i]]
  \/ op = "scaleDown" /\ Running(p, f) = 0 /\ Total(f) > m

Promised == goal # NoGoal /\ Fits

TargetInv ==
  Promised =>
    /\ goal.at \in Provider /\ goal.f \in Function /\ goal.op \in {"scaleUp", "scaleDown"} /\ goal.n \in Int
    /\ goal.op = "scaleUp" => goal.n <= MaxInt32
    /\ Alone
    /\ Quiet => Reached(goal.at, goal.f, goal.op, goal.n)
    /\ \A h \in Handler : handler[h] # Idle =>
         /\ handler[h].op = goal.op /\ handler[h].at = goal.at /\ handler[h].f = goal.f
         /\ Going(handler[h], goal.n)

LEMMA TargetInvImpliesTargetReached == TargetInv => TargetReached
<1> SUFFICES ASSUME Quiet, Reached(goal.at, goal.f, goal.op, goal.n)
             PROVE  TargetReached
  BY Zenon DEF TargetInv, Promised, TargetReached
<1> QED BY Zenon DEF Reached, TargetReached

LEMMA TotalIs ==
  ASSUME TypeInv, SumsAreNatural, SumsMove, NEW f \in Function
  PROVE  /\ Total(f) \in Nat
         /\ \A t \in Provider : Running(t, f) \in Replicated /\ Running(t, f) \in Nat /\ Running(t, f) <= Total(f)
<1> DEFINE v == [q \in Provider |-> Running(q, f)]
<1>1. \A t \in Provider : Running(t, f) \in Replicated /\ Running(t, f) \in Nat
  BY RunningIs, ReplicatedIs, Zenon
<1> HIDE DEF Running
<1>2. v \in [Provider -> Nat] /\ \A t \in Provider : v[t] = Running(t, f)
  BY <1>1
<1>3. Total(f) = SumFunction(v)
  BY DEF Total
<1> HIDE DEF v
<1> QED BY <1>1, <1>2, <1>3 DEF SumsAreNatural, SumsMove

LEMMA RunningIsNext ==
  ASSUME TypeInv', NEW q \in Provider, NEW f \in Function
  PROVE  Running(q, f)' \in Replicated /\ Running(q, f)' \in Nat
<1>1. deployment'[q][f] \in Replicated \cup {Absent}
  BY DEF TypeInv, ObjectsType
<1>2. 0 \in Replicated
  BY Int32Assumption DEF Replicated, MaxInt32
<1> QED BY <1>1, <1>2, ReplicatedIs, Zenon DEF Running, Exists

\* The total moves with the replicas of one cluster.
LEMMA TotalMoves ==
  ASSUME TypeInv, TypeInv', SumsAreNatural, SumsMove, NEW f \in Function, NEW t \in Provider,
         \A q \in Provider \ {t} : Running(q, f)' = Running(q, f)
  PROVE  Total(f)' = Total(f) - Running(t, f) + Running(t, f)'
<1> DEFINE v == [q \in Provider |-> Running(q, f)]
           w == [q \in Provider |-> Running(q, f)']
<1>1. \A q \in Provider : Running(q, f) \in Nat /\ Running(q, f)' \in Nat
  BY TotalIs, RunningIsNext
<1>2. v \in [Provider -> Nat] /\ w \in [Provider -> Nat]
  BY <1>1
<1>3. /\ v[t] = Running(t, f) /\ w[t] = Running(t, f)'
      /\ \A q \in Provider \ {t} : w[q] = v[q]
  OBVIOUS
<1>4. Total(f) = SumFunction(v) /\ Total(f)' = SumFunction(w)
  BY Zenon DEF Total
<1> HIDE DEF v, w
<1>5. SumFunction(w) = SumFunction(v) - v[t] + w[t]
  BY <1>2, <1>3 DEF SumsMove
<1> QED BY <1>3, <1>4, <1>5

LEMMA TotalKept ==
  ASSUME NEW f, \A q \in Provider : Running(q, f)' = Running(q, f)
  PROVE  Total(f)' = Total(f)
<1>1. [q \in Provider |-> Running(q, f)'] = [q \in Provider |-> Running(q, f)]
  OBVIOUS
<1> QED BY Zenon, <1>1 DEF Total

LEMMA Frozen ==
  ASSUME UNCHANGED <<deployment, terminating>>
  PROVE  \A f : Total(f)' = Total(f) /\ \A q \in Provider : Running(q, f)' = Running(q, f)
<1>1. \A f : \A q \in Provider : Running(q, f)' = Running(q, f)
  BY DEF Running, Exists
<1> QED BY Zenon, <1>1, TotalKept

\* A Deployment gets n replicas.
LEMMA RunningPut ==
  ASSUME TypeInv, NEW t \in Provider, NEW f \in Function, NEW n \in Replicated, UNCHANGED terminating,
         deployment' = [deployment EXCEPT ![t][f] = n], f \notin terminating[t]
  PROVE  Running(t, f)' = n /\ \A q \in Provider \ {t} : Running(q, f)' = Running(q, f)
<1>1. deployment \in [Provider -> [Function -> Replicated \cup {Absent}]] /\ n # Absent
  BY ReplicatedIs DEF TypeInv, ObjectsType
<1>2. deployment'[t][f] = n /\ \A q \in Provider \ {t} : deployment'[q][f] = deployment[q][f]
  BY <1>1
<1> QED BY <1>1, <1>2 DEF Running, Exists

\* What the clusters and the catalogs say of a request does not depend on the
\* rest of the state.
LEMMA FrozenGoing ==
  ASSUME UNCHANGED <<deployment, terminating, view, overload>>, NEW s, NEW m, NEW p, NEW f, NEW op
  PROVE  (Going(s, m)' <=> Going(s, m)) /\ (Reached(p, f, op, m)' <=> Reached(p, f, op, m))
<1>1. \A q, g : Running(q, g)' = Running(q, g)
  BY DEF Running, Exists
<1>2. \A g : Total(g)' = Total(g)
  BY Zenon, <1>1, TotalKept
<1>3. \A o, q, g : Right(o, q, g)' <=> Right(o, q, g)
  BY Zenon, <1>1 DEF Right
<1>4. Counted(s, m)' <=> Counted(s, m)
  BY <1>1, <1>2 DEF Counted
<1>5. Behind(s)' <=> Behind(s)
  BY <1>1 DEF Behind
<1>6. Ahead(s)' <=> Ahead(s)
  BY <1>3 DEF Ahead
<1>7. Descends(s, m)' <=> Descends(s, m)
  BY <1>1, <1>2, <1>3 DEF Descends
<1>8. Reached(p, f, op, m)' <=> Reached(p, f, op, m)
  BY <1>1, <1>2 DEF Reached
<1> QED BY Zenon, <1>4, <1>5, <1>6, <1>7, <1>8 DEF Going

\* The numbers of a request to scale up.
LEMMA UpNumbers ==
  ASSUME TypeInv, SumsAreNatural, SumsMove, NEW s \in Locals, Placed(s)
  PROVE  /\ s.cnt \in Int32s /\ s.cnt \in Int /\ s.n \in Int /\ s.i \in Nat \ {0} /\ Len(Near[s.at]) \in Nat
         /\ Total(s.f) \in Nat /\ Running(s.target, s.f) \in Nat /\ Running(s.target, s.f) <= Total(s.f)
         /\ Workers[s.target] \in Nat \ {0} /\ MinReplicas \in Nat \ {0}
         /\ s.target \in Provider /\ s.at \in Provider /\ s.f \in Function
         /\ s.i <= Len(Near[s.at]) => Near[s.at][s.i] \in Provider
<1>1. /\ s.target \in Provider /\ s.at \in Provider /\ s.f \in Function /\ s.i \in Nat \ {0}
      /\ s.cnt \in Int32s /\ s.n \in Int32s
  BY DEF Locals
<1>2. s.cnt \in Int /\ s.n \in Int
  BY <1>1, ReplicatedIs, Zenon
<1>3. Near[s.at] \in Seq(Provider) /\ Workers[s.target] \in Nat \ {0} /\ MinReplicas \in Nat \ {0}
  BY <1>1, DeploymentsAssumption
<1>4. Len(Near[s.at]) \in Nat /\ (s.i <= Len(Near[s.at]) => Near[s.at][s.i] \in Provider)
  BY <1>1, <1>3
<1>5. PICK f \in Function, t \in Provider : f = s.f /\ t = s.target
  BY <1>1
<1>6. Total(f) \in Nat /\ Running(t, f) \in Nat /\ Running(t, f) <= Total(f)
  BY TotalIs
<1> QED BY <1>1, <1>2, <1>3, <1>4, <1>5, <1>6

\* The loop of scaleUp.
LEMMA UpNextNode ==
  ASSUME TypeInv, SumsAreNatural, SumsMove, Framed, NEW h \in Handler, NEW s \in Locals, s = handler[h],
         Placed(s), s.op = "scaleUp", NEW m \in Int, m <= MaxInt32, Going(s, m), goal' # NoGoal, NextNode(h, s)
  PROVE  LET new == handler'[h]
         IN  IF new = Idle THEN Reached(s.at, s.f, s.op, m) ELSE Going(new, m)
<1> DEFINE next == handler'[h]
           numNode == IF EnabledOffload THEN Len(Near[s.at]) ELSE 1
<1>1. Counted(s, m) /\ Behind(s) /\ Ahead(s) /\ s.pc = "node"
  BY Zenon DEF Going, NextNode
<1>2. /\ s.cnt \in Int32s /\ s.cnt \in Int /\ s.i \in Nat \ {0} /\ Len(Near[s.at]) \in Nat /\ Total(s.f) \in Nat
      /\ s.at \in Provider /\ s.f \in Function
      /\ s.i <= Len(Near[s.at]) => Near[s.at][s.i] \in Provider
  BY Zenon, UpNumbers
<1>3. MinReplicas \in Nat \ {0}
  BY DeploymentsAssumption
<1>4. s.cnt >= 0 /\ (Total(s.f) + s.cnt = m \/ (s.cnt = 0 /\ Total(s.f) \in m .. m + MinReplicas - 1))
  BY <1>1 DEF Counted
<1>5. \/ next = Idle /\ (s.cnt <= 0 \/ s.i > numNode)
      \/ /\ next \in Locals /\ next.op = s.op /\ next.at = s.at /\ next.f = s.f
         /\ s.cnt > 0 /\ s.i <= Len(Near[s.at])
         /\ \/ next.pc = "node" /\ Near[s.at][s.i] \in overload /\ next.i = s.i + 1 /\ next.cnt = s.cnt
            \/ /\ next.pc = "count" /\ view[s.at][next.target][s.f] = 0
               /\ next.target = Near[s.at][s.i] /\ next.i = s.i /\ next.cnt = s.cnt
            \/ /\ next.pc = "get" /\ next.target = Near[s.at][s.i]
               /\ Places(next, s.i, next.target, view[s.at][next.target][s.f], s.cnt)
  BY Zenon, NextNodeDoes
<1>6. CASE next = Idle
  <2>1. CASE s.cnt <= 0
    BY <1>2, <1>3, <1>4, <1>6, <2>1 DEF Reached
  <2>2. CASE ~(s.cnt <= 0)
    <3>1. Total(s.f) < m
      BY <1>2, <1>4, <2>2
    <3>2. s.i > numNode
      BY <1>5, <1>6, <2>2, IdleOrNot
    <3>3. DOMAIN Near[s.at] = 1 .. Len(Near[s.at])
      BY <1>2, DeploymentsAssumption
    <3>4. ASSUME NEW i \in DOMAIN Near[s.at], EnabledOffload \/ i = 1, Near[s.at][i] \notin overload
          PROVE  Running(Near[s.at][i], s.f) >= Workers[Near[s.at][i]]
      <4>1. i \in 1 .. s.i - 1
        BY <1>2, <3>2, <3>3, <3>4
      <4>2. s.cnt # 0
        BY <2>2
      <4> QED BY <1>1, <3>4, <4>1, <4>2 DEF Behind
    <3> QED BY <1>6, <3>1, <3>4 DEF Reached
  <2> QED BY <2>1, <2>2
<1>7. CASE next # Idle
  <2>1. PICK new \in Locals : new = next
    BY <1>5, <1>7
  <2>2. PICK q \in Provider : q = Near[s.at][s.i]
    BY <1>2, <1>5, <1>7, ZenonT(30)
  <2>3. s.cnt > 0 /\ s.i <= Len(Near[s.at]) /\ new.op = "scaleUp" /\ new.at = s.at /\ new.f = s.f
    BY <1>5, <1>7, <2>1
  <2>4. Total(s.f) + s.cnt = m
    BY <1>2, <1>4, <2>3
  <2>5. Right(s.at, q, s.f) /\ \A i \in s.i + 1 .. Len(Near[s.at]) : Right(s.at, Near[s.at][i], s.f)
    <3>1. s.i \in s.i .. Len(Near[s.at]) /\ \A i \in s.i + 1 .. Len(Near[s.at]) : i \in s.i .. Len(Near[s.at])
      BY <1>2, <2>3
    <3> QED BY <1>1, <2>2, <3>1 DEF Ahead
  <2>6. \A i \in 1 .. s.i - 1 :
          Near[s.at][i] \in overload \/ Running(Near[s.at][i], s.f) >= Workers[Near[s.at][i]]
    BY <1>1, <1>2, <2>3 DEF Behind
  <2>7. CASE new.pc = "node" /\ q \in overload /\ new.i = s.i + 1 /\ new.cnt = s.cnt
    <3>1. Counted(new, m)
      BY <1>2, <2>3, <2>4, <2>7 DEF Counted
    <3>2. Behind(new)
      BY <1>2, <2>2, <2>3, <2>6, <2>7 DEF Behind
    <3>3. Ahead(new)
      BY <2>3, <2>5, <2>7 DEF Ahead
    <3> QED BY <1>7, <2>1, <2>3, <3>1, <3>2, <3>3 DEF Going
  <2>8. ASSUME new.target = q, new.i = s.i, new.pc # "node"
        PROVE  Behind(new) /\ Ahead(new)
    <3>1. Behind(new)
      BY <2>3, <2>6, <2>8 DEF Behind
    <3>2. \A i \in s.i .. Len(Near[s.at]) : i > s.i => i \in s.i + 1 .. Len(Near[s.at])
      BY SMTT(30), Zenon, <1>2
    <3>3. Ahead(new)
      BY <2>2, <2>3, <2>5, <2>8, <3>2 DEF Ahead
    <3> QED BY <3>1, <3>3
  <2>9. CASE new.pc = "count" /\ view[s.at][q][s.f] = 0 /\ new.target = q /\ new.i = s.i /\ new.cnt = s.cnt
    <3>1. Running(q, s.f) = 0
      BY <2>5, <2>9, Zenon DEF Right
    <3>2. Counted(new, m)
      BY SMTT(30), Zenon, <1>2, <2>3, <2>4, <2>9, <3>1 DEF Counted
    <3> QED BY <1>7, <2>1, <2>3, <2>8, <2>9, <3>2 DEF Going
  <2>10. CASE new.pc = "get" /\ new.target = q /\ Places(new, s.i, q, view[s.at][q][s.f], s.cnt)
    <3>1. PICK f \in Function : f = s.f
      BY <1>2
    <3>2. Total(f) \in Nat /\ Running(q, f) \in Nat /\ Running(q, f) <= Total(f)
      BY TotalIs
    <3>3. view[s.at][q][s.f] = Running(q, f)
      BY <2>5, <3>1, Zenon DEF Right
    <3>4. s.cnt + Running(q, f) \in Replicated
      BY <1>2, <2>3, <2>4, <3>1, <3>2, Int32Assumption DEF Replicated, MaxInt32
    <3>5. /\ new.n + new.cnt = s.cnt + Running(q, f) /\ new.cnt >= 0 /\ new.i = s.i
          /\ new.cnt = 0 \/ new.n = Workers[q]
      BY <2>10, <3>3, <3>4 DEF Places
    <3>6. new.n \in Int /\ new.cnt \in Int /\ Workers[q] \in Nat
      BY ReplicatedIs, DeploymentsAssumption, Zenon DEF Locals
    <3>7. Total(f) - Running(q, f) + new.n + new.cnt = m /\ (new.cnt = 0 \/ new.n >= Workers[q])
      <4>1. Total(f) + s.cnt = m
        BY Zenon, <2>4, <3>1
      <4>2. Total(f) - Running(q, f) + new.n + new.cnt = m
        <5>1. Total(f) \in Int /\ Running(q, f) \in Int
          BY <3>2
        <5>2. PICK a \in Int, b \in Int, c \in Int, d \in Int, e \in Int :
                a = Total(f) /\ b = s.cnt /\ c = Running(q, f) /\ d = new.n /\ e = new.cnt
          BY Zenon, <1>2, <3>6, <5>1
        <5>3. a + b = m /\ d + e = b + c
          BY Zenon, <3>5, <4>1, <5>2
        <5>4. a - c + d + e = m
          BY <5>3
        <5> QED BY Zenon, <5>2, <5>4
      <4>3. new.cnt = 0 \/ new.n >= Workers[q]
        BY <3>5, <3>6
      <4> QED BY <4>2, <4>3
    <3>8. Counted(new, m)
      BY <2>3, <2>10, <3>1, <3>5, <3>7 DEF Counted
    <3> QED BY <1>7, <2>1, <2>3, <2>8, <2>10, <3>5, <3>8 DEF Going
  <2> QED BY <1>5, <1>7, <2>1, <2>2, <2>7, <2>9, <2>10, ZenonT(30)
<1> QED BY <1>6, <1>7

\* The steps of scaleUp that leave the clusters alone.
LEMMA UpPlacing ==
  ASSUME TypeInv, SumsAreNatural, SumsMove, Framed, NEW h \in Handler, NEW s \in Locals, s = handler[h],
         Placed(s), s.op = "scaleUp", NEW m \in Int, m <= MaxInt32, Going(s, m), goal' # NoGoal,
         CheckLimit(h, s) \/ CreateService(h, s) \/ GetDeployment(h, s)
  PROVE  handler'[h] # Idle /\ Going(handler'[h], m)
<1>1. Counted(s, m) /\ Behind(s) /\ Ahead(s)
  BY Zenon DEF Going
<1>2. /\ s.cnt \in Int /\ s.n \in Int /\ s.i \in Nat \ {0} /\ Len(Near[s.at]) \in Nat
      /\ Total(s.f) \in Nat /\ Running(s.target, s.f) \in Nat /\ Running(s.target, s.f) <= Total(s.f)
      /\ Workers[s.target] \in Nat \ {0} /\ MinReplicas \in Nat \ {0}
  BY Zenon, UpNumbers
<1>3. ASSUME NEW new \in Locals, new.op = s.op, new.at = s.at, new.f = s.f, new.target = s.target, new.i = s.i,
             s.pc # "node", new.pc # "node", s.cnt # 0 \/ new.cnt = 0
      PROVE  Behind(new) /\ Ahead(new)
  <2>1. Behind(new)
    BY <1>1, <1>3 DEF Behind
  <2>2. Ahead(new)
    BY <1>1, <1>3 DEF Ahead
  <2> QED BY <2>1, <2>2
<1>4. CASE CheckLimit(h, s)
  <2>1. PICK new \in Locals :
          /\ new = handler'[h] /\ new # Idle /\ new.pc = "create" /\ new.op = s.op /\ new.at = s.at /\ new.f = s.f
          /\ new.target = s.target /\ new.i = s.i /\ new.cnt = s.cnt /\ s.pc = "count"
    BY Zenon, <1>4, CheckLimitDoes, IdleOrNot
  <2>2. Counted(new, m)
    BY SMTT(30), Zenon, <1>1, <2>1 DEF Counted
  <2>3. Behind(new) /\ Ahead(new)
    BY <1>3, <2>1
  <2> QED BY Zenon, <2>1, <2>2, <2>3 DEF Going
<1>5. CASE GetDeployment(h, s)
  <2>1. PICK new \in Locals :
          /\ new = handler'[h] /\ new # Idle /\ new.pc = "put" /\ new.op = s.op /\ new.at = s.at /\ new.f = s.f
          /\ new.target = s.target /\ new.i = s.i /\ new.cnt = s.cnt /\ s.pc = "get"
          /\ new.n = IF s.op = "update" THEN deployment[s.target][s.f] ELSE s.n
    BY Zenon, <1>5, GetDeploymentDoes, IdleOrNot
  <2>2. new.n = s.n
    BY SMTT(30), Zenon, <2>1
  <2>3. Counted(new, m)
    BY <1>1, <2>1, <2>2 DEF Counted
  <2>4. Behind(new) /\ Ahead(new)
    BY <1>3, <2>1
  <2> QED BY Zenon, <2>1, <2>3, <2>4 DEF Going
<1>6. CASE CreateService(h, s)
  <2>1. PICK new \in Locals :
          /\ new = handler'[h] /\ new # Idle /\ new.op = s.op /\ new.at = s.at /\ new.f = s.f
          /\ new.target = s.target /\ s.pc = "createService" /\ Places(new, s.i, s.target, 1, s.cnt - 1)
    BY Zenon, <1>6, CreateServiceDoes, IdleOrNot
  <2>2. s.cnt > 0 /\ Running(s.target, s.f) = MinReplicas /\ Total(s.f) - MinReplicas + s.cnt = m
    BY <1>1, <2>1 DEF Counted
  <2>3. CASE new.pc = "node" /\ ~(s.cnt - 1 > 0) /\ new.i = s.i + 1 /\ new.cnt = s.cnt - 1
    <3>1. new.cnt = 0 /\ Total(s.f) \in m .. m + MinReplicas - 1
      BY <1>2, <2>2, <2>3
    <3>2. Counted(new, m)
      <4>1. 0 >= 0
        OBVIOUS
      <4> QED BY Zenon, <2>1, <2>3, <3>1, <4>1 DEF Counted
    <3>3. Behind(new)
      BY ZenonT(30), <3>1 DEF Behind
    <3>4. Ahead(new)
      <4>1. \A i \in new.i .. Len(Near[s.at]) : i \in s.i .. Len(Near[s.at]) /\ i > s.i
        BY <1>2, <2>3
      <4> QED BY <1>1, <2>1, <2>3, <4>1 DEF Ahead
    <3> QED BY Zenon, <2>1, <3>2, <3>3, <3>4 DEF Going
  <2>4. CASE /\ new.pc = "get" /\ new.i = s.i
             /\ s.cnt - 1 + 1 \in Replicated =>
                  new.n + new.cnt = s.cnt - 1 + 1 /\ new.cnt >= 0 /\ (new.cnt = 0 \/ new.n = Workers[s.target])
    <3>1. s.cnt - 1 + 1 = s.cnt /\ s.cnt \in Replicated
      BY <1>2, <2>2, Int32Assumption DEF Replicated, MaxInt32
    <3>2. new.n + new.cnt = s.cnt /\ new.cnt >= 0 /\ (new.cnt = 0 \/ new.n = Workers[s.target])
      BY <2>4, <3>1
    <3>3. new.n \in Int /\ new.cnt \in Int
      BY ReplicatedIs, Zenon DEF Locals
    <3>4. Total(s.f) - Running(s.target, s.f) + new.n + new.cnt = m
      BY SMTT(30), Zenon, <1>2, <2>2, <3>2, <3>3
    <3>5. Counted(new, m)
      BY <1>2, <2>1, <2>4, <3>2, <3>4 DEF Counted
    <3>6. Behind(new) /\ Ahead(new)
      <4>1. s.cnt # 0 /\ s.pc # "node" /\ new.pc # "node"
        BY <1>2, <2>1, <2>2, <2>4
      <4> QED BY Zenon, <1>3, <2>1, <2>4, <4>1
    <3> QED BY Zenon, <2>1, <3>5, <3>6 DEF Going
  <2> QED BY <2>1, <2>3, <2>4 DEF Places
<1> QED BY <1>4, <1>5, <1>6

\* scaleUp sets the replicas of the cluster it is at; no other place in the
\* ranking is that cluster's.
LEMMA UpSets ==
  ASSUME TypeInv, TypeInv', SumsAreNatural, SumsMove, RankedOnce, NEW s \in Locals, Placed(s), s.pc # "node",
         Behind(s), Ahead(s), NEW n \in Replicated, deployment' = [deployment EXCEPT ![s.target][s.f] = n],
         UNCHANGED <<terminating, view, overload>>, s.f \notin terminating[s.target]
  PROVE  /\ Running(s.target, s.f)' = n /\ Total(s.f)' = Total(s.f) - Running(s.target, s.f) + n
         /\ \A i \in 1 .. s.i - 1 :
              \/ Near[s.at][i] \in overload' \/ s.cnt = 0
              \/ Running(Near[s.at][i], s.f)' >= Workers[Near[s.at][i]]
         /\ \A i \in s.i + 1 .. Len(Near[s.at]) : Right(s.at, Near[s.at][i], s.f)'
<1>1. PICK t \in Provider, f \in Function, p \in Provider : t = s.target /\ f = s.f /\ p = s.at
  BY DEF Locals
<1>2. Running(t, f)' = n /\ \A q \in Provider \ {t} : Running(q, f)' = Running(q, f)
  BY Zenon, <1>1, RunningPut
<1>3. Total(f)' = Total(f) - Running(t, f) + Running(t, f)'
  BY Zenon, <1>2, TotalMoves
<1>4. Near[p] \in Seq(Provider) /\ s.i \in Nat \ {0} /\ Len(Near[p]) \in Nat
  BY DeploymentsAssumption DEF Locals
<1>5. s.i \in DOMAIN Near[p] /\ t = Near[p][s.i]
  BY <1>1, <1>4 DEF Placed, Ahead
<1>6. ASSUME NEW i \in DOMAIN Near[p], i # s.i
      PROVE  Near[p][i] \in Provider /\ Running(Near[p][i], f)' = Running(Near[p][i], f)
  <2>1. Near[p][i] # t
    BY Zenon, <1>5, <1>6 DEF RankedOnce
  <2>2. Near[p][i] \in Provider
    BY <1>4
  <2> QED BY Zenon, <1>2, <2>1, <2>2
<1>7. ASSUME NEW i \in 1 .. s.i - 1
      PROVE  \/ Near[p][i] \in overload' \/ s.cnt = 0
             \/ Running(Near[p][i], f)' >= Workers[Near[p][i]]
  <2>1. i \in DOMAIN Near[p] /\ i # s.i
    BY <1>4, <1>5
  <2>2. Running(Near[p][i], f)' = Running(Near[p][i], f)
    BY Zenon, <1>6, <2>1
  <2>3. \/ Near[p][i] \in overload \/ s.cnt = 0
        \/ Running(Near[p][i], f) >= Workers[Near[p][i]]
    BY Zenon, <1>1 DEF Behind
  <2> QED BY Zenon, <2>2, <2>3
<1>8. ASSUME NEW i \in s.i + 1 .. Len(Near[p])
      PROVE  Right(p, Near[p][i], f)'
  <2>1. i \in DOMAIN Near[p] /\ i # s.i /\ i \in s.i .. Len(Near[p]) /\ i > s.i
    BY <1>4, <1>5
  <2>2. Running(Near[p][i], f)' = Running(Near[p][i], f)
    BY Zenon, <1>6, <2>1
  <2>3. Right(p, Near[p][i], f)
    BY Zenon, <1>1, <2>1 DEF Ahead
  <2> QED BY Zenon, <2>2, <2>3 DEF Right
<1> QED BY <1>1, <1>2, <1>3, <1>7, <1>8

LEMMA UpCreates ==
  ASSUME TypeInv, SumsAreNatural, SumsMove, RankedOnce, Framed, NEW h \in Handler, NEW s \in Locals,
         s = handler[h], Placed(s), s.op = "scaleUp", NEW m \in Int, Going(s, m), goal' # NoGoal,
         s.f \notin terminating[s.target], CreateDeployment(h, s)
  PROVE  handler'[h] # Idle /\ Going(handler[h], m)'
<1>1. Counted(s, m) /\ Behind(s) /\ Ahead(s)
  BY Zenon DEF Going
<1>2. /\ s.cnt \in Int /\ s.i \in Nat \ {0} /\ Len(Near[s.at]) \in Nat
      /\ Total(s.f) \in Nat /\ MinReplicas \in Nat \ {0}
  BY Zenon, UpNumbers
<1>3. PICK new \in Locals :
        /\ new = handler'[h] /\ new # Idle /\ new.pc = "createService" /\ new.op = s.op /\ new.at = s.at /\ new.f = s.f
        /\ new.target = s.target /\ new.i = s.i /\ new.cnt = s.cnt /\ s.pc = "create"
  BY Zenon, CreateDeploymentDoes, IdleOrNot
<1>4. /\ TypeInv' /\ UNCHANGED <<terminating, view>>
      /\ deployment' = [deployment EXCEPT ![s.target][s.f] = MinReplicas]
  BY Zenon, <1>3, CreateDeploymentDoes
<1>5. MinReplicas \in Replicated /\ UNCHANGED overload
  BY DeploymentsAssumption, Int32Assumption DEF Replicated, MaxInt32, Framed
<1>6. /\ Running(s.target, s.f)' = MinReplicas /\ Total(s.f)' = Total(s.f) - Running(s.target, s.f) + MinReplicas
      /\ \A i \in 1 .. s.i - 1 :
           \/ Near[s.at][i] \in overload' \/ s.cnt = 0
           \/ Running(Near[s.at][i], s.f)' >= Workers[Near[s.at][i]]
      /\ \A i \in s.i + 1 .. Len(Near[s.at]) : Right(s.at, Near[s.at][i], s.f)'
  BY Zenon, <1>1, <1>3, <1>4, <1>5, UpSets
<1>7. s.cnt > 0 /\ Running(s.target, s.f) = 0 /\ Total(s.f) + s.cnt = m
  BY SMTT(30), Zenon, <1>1, <1>3 DEF Counted
<1>8. Total(s.f)' - Running(s.target, s.f)' + s.cnt = m /\ s.cnt >= 0
  BY SMTT(30), Zenon, <1>2, <1>6, <1>7
<1>9. Counted(new, m)'
  BY <1>3, <1>6, <1>7, <1>8 DEF Counted
<1>10. Behind(new)'
  BY Zenon, <1>3, <1>6 DEF Behind
<1>11. Ahead(new)'
  <2>1. \A i \in s.i .. Len(Near[s.at]) : i > s.i => i \in s.i + 1 .. Len(Near[s.at])
    BY <1>2
  <2>2. s.target = Near[s.at][s.i]
    BY <1>1, <1>3 DEF Ahead
  <2>3. new.pc # "node"
    BY <1>3
  <2> QED BY Zenon, <1>3, <1>6, <2>1, <2>2, <2>3 DEF Ahead
<1>12. Going(new, m)'
  BY <1>3, <1>9, <1>10, <1>11 DEF Going
<1> QED BY Zenon, <1>3, <1>12

LEMMA UpPuts ==
  ASSUME TypeInv, SumsAreNatural, SumsMove, RankedOnce, Framed, NEW h \in Handler, NEW s \in Locals,
         s = handler[h], Placed(s), s.op = "scaleUp", NEW m \in Int, Going(s, m), goal' # NoGoal,
         s.f \notin terminating[s.target], PutDeployment(h, s)
  PROVE  handler'[h] # Idle /\ Going(handler[h], m)'
<1>1. Counted(s, m) /\ Behind(s) /\ Ahead(s)
  BY Zenon DEF Going
<1>2. /\ s.cnt \in Int /\ s.n \in Int /\ s.i \in Nat \ {0} /\ Len(Near[s.at]) \in Nat
      /\ Total(s.f) \in Nat /\ Running(s.target, s.f) \in Nat /\ Workers[s.target] \in Nat \ {0}
  BY Zenon, UpNumbers
<1>3. PICK new \in Locals :
        /\ new = handler'[h] /\ new # Idle /\ new.op = s.op /\ new.at = s.at /\ new.f = s.f
        /\ new.pc = IF s.op = "scaleUp" THEN "node" ELSE "updateService"
        /\ s.op = "scaleUp" => new.i = s.i + 1 /\ new.cnt = s.cnt
        /\ s.pc = "put" /\ s.n \in Replicated
  BY Zenon, PutDeploymentDoes, IdleOrNot
<1>4. /\ TypeInv' /\ UNCHANGED <<terminating, view>>
      /\ deployment' = [deployment EXCEPT ![s.target][s.f] = s.n]
  BY Zenon, <1>3, PutDeploymentDoes
<1>5. UNCHANGED overload /\ new.pc = "node" /\ new.i = s.i + 1 /\ new.cnt = s.cnt /\ s.pc # "node"
  BY <1>3 DEF Framed
<1>6. /\ Running(s.target, s.f)' = s.n /\ Total(s.f)' = Total(s.f) - Running(s.target, s.f) + s.n
      /\ \A i \in 1 .. s.i - 1 :
           \/ Near[s.at][i] \in overload' \/ s.cnt = 0
           \/ Running(Near[s.at][i], s.f)' >= Workers[Near[s.at][i]]
      /\ \A i \in s.i + 1 .. Len(Near[s.at]) : Right(s.at, Near[s.at][i], s.f)'
  BY Zenon, <1>1, <1>3, <1>4, <1>5, UpSets
<1>7. /\ s.cnt >= 0 /\ Total(s.f) - Running(s.target, s.f) + s.n + s.cnt = m
      /\ s.cnt = 0 \/ s.n >= Workers[s.target]
  BY SMTT(30), Zenon, <1>1, <1>3 DEF Counted
<1>8. Total(s.f)' + s.cnt = m
  BY SMTT(30), Zenon, <1>2, <1>6, <1>7
<1>9. Counted(new, m)'
  BY <1>3, <1>5, <1>7, <1>8 DEF Counted
<1>10. Behind(new)'
  <2>1. s.target = Near[s.at][s.i]
    BY SMTT(30), Zenon, <1>1, <1>5 DEF Ahead
  <2>2. \A i \in 1 .. new.i - 1 : i \in 1 .. s.i - 1 \/ i = s.i
    BY <1>2, <1>5
  <2>3. s.cnt = 0 \/ Running(Near[s.at][s.i], s.f)' >= Workers[Near[s.at][s.i]]
    BY Zenon, <1>6, <1>7, <2>1
  <2> QED BY ZenonT(30), <1>3, <1>5, <1>6, <2>2, <2>3 DEF Behind
<1>11. Ahead(new)'
  BY Zenon, <1>3, <1>5, <1>6 DEF Ahead
<1>12. Going(new, m)'
  BY SMTT(30), Zenon, <1>3, <1>9, <1>10, <1>11 DEF Going
<1> QED BY Zenon, <1>3, <1>12

\* The steps of scaleDown that leave the clusters alone.
LEMMA DownLooks ==
  ASSUME TypeInv, SumsAreNatural, SumsMove, Framed, NEW h \in Handler, NEW s \in Locals, s = handler[h],
         Placed(s), s.op = "scaleDown", NEW m \in Int, Going(s, m), goal' # NoGoal,
         ScaleDown(h, s) \/ GetDeployment(h, s) \/ DeleteService(h, s)
  PROVE  LET new == handler'[h]
         IN  IF new = Idle THEN Reached(s.at, s.f, s.op, m) ELSE Going(new, m)
<1>1. Descends(s, m)
  BY Zenon DEF Going
<1>2. PICK f \in Function, p \in Provider : f = s.f /\ p = s.at
  BY DEF Locals
<1>3. s.cnt \in Int /\ s.n \in Int
  BY ReplicatedIs, Zenon DEF Locals
<1>4. /\ Total(f) \in Nat /\ Running(p, f) \in Nat /\ Running(p, f) <= Total(f)
      /\ Total(f) \in Int /\ Running(p, f) \in Int
  BY TotalIs
<1>5. CASE ScaleDown(h, s)
  <2>1. /\ s.pc = "down"
        /\ \/ handler'[h] = Idle /\ (view[p][p][f] = 0 \/ s.cnt <= 0)
           \/ /\ handler'[h] \in Locals /\ handler'[h].op = "scaleDown" /\ handler'[h].at = p /\ handler'[h].f = f
              /\ \/ handler'[h].pc = "get" /\ handler'[h].n = view[p][p][f] - s.cnt
                 \/ handler'[h].pc = "deleteDeployment" /\ ~(view[p][p][f] > s.cnt)
    BY Zenon, <1>2, <1>5, ScaleDownDoes
  <2>2. s.cnt > 0 /\ Total(f) - s.cnt = m /\ view[p][p][f] = Running(p, f) /\ f \notin terminating[p]
    BY Zenon, <1>1, <1>2, <2>1 DEF Descends, Right
  <2>3. CASE handler'[h] = Idle
    <3>1. view[p][p][f] = 0
      BY SMTT(30), Zenon, <1>3, <2>1, <2>2, <2>3, IdleOrNot
    <3>2. Running(p, f) = 0 /\ Total(f) > m
      BY <1>3, <1>4, <2>2, <3>1
    <3> QED BY ZenonT(30), <1>2, <2>3, <3>2 DEF Reached
  <2>4. CASE handler'[h] # Idle
    <3>1. PICK new \in Locals :
            /\ new = handler'[h] /\ new.op = "scaleDown" /\ new.at = p /\ new.f = f
            /\ \/ new.pc = "get" /\ new.n = view[p][p][f] - s.cnt
               \/ new.pc = "deleteDeployment" /\ ~(view[p][p][f] > s.cnt)
      BY Zenon, <2>1, <2>4
    <3>2. CASE new.pc = "get" /\ new.n = view[p][p][f] - s.cnt
      <4>1. Total(f) - Running(p, f) + new.n = m
        <5>1. PICK a \in Int, b \in Int, c \in Int : a = Total(f) /\ b = s.cnt /\ c = Running(p, f)
          BY Zenon, <1>3, <1>4
        <5>2. a - b = m /\ new.n = c - b
          BY Zenon, <2>2, <3>2, <5>1
        <5>3. a - c + (c - b) = m
          BY <5>2
        <5> QED BY Zenon, <5>1, <5>2, <5>3
      <4> QED BY <2>2, <2>4, <3>1, <3>2, <4>1, Zenon DEF Going, Descends
    <3>3. CASE new.pc = "deleteDeployment" /\ ~(view[p][p][f] > s.cnt)
      <4>1. Total(f) - Running(p, f) >= m
        <5>1. PICK a \in Int, b \in Int, c \in Int : a = Total(f) /\ b = s.cnt /\ c = Running(p, f)
          BY Zenon, <1>3, <1>4
        <5>2. a - b = m /\ ~(c > b)
          BY Zenon, <2>2, <3>3, <5>1
        <5>3. a - c >= m
          BY <5>2
        <5> QED BY Zenon, <5>1, <5>3
      <4> QED BY <2>4, <3>1, <3>3, <4>1, Zenon DEF Going, Descends
    <3> QED BY <3>1, <3>2, <3>3
  <2> QED BY <2>3, <2>4
<1>6. CASE GetDeployment(h, s)
  <2>1. PICK new \in Locals :
          /\ new = handler'[h] /\ new # Idle /\ new.pc = "put" /\ new.op = s.op /\ new.at = s.at /\ new.f = s.f
          /\ s.pc = "get" /\ new.n = IF s.op = "update" THEN deployment[s.target][s.f] ELSE s.n
    BY Zenon, <1>6, GetDeploymentDoes, IdleOrNot
  <2>2. new.n = s.n
    BY <2>1
  <2> QED BY Zenon, <1>1, <2>1, <2>2 DEF Going, Descends
<1>7. CASE DeleteService(h, s)
  <2>1. handler'[h] = Idle /\ s.pc = "deleteService"
    BY Zenon, <1>7, DeleteServiceDoes
  <2>2. Running(p, f) = 0 /\ Total(f) >= m
    BY SMTT(30), Zenon, <1>1, <1>2, <2>1 DEF Descends
  <2>3. Total(f) = m \/ Total(f) > m
    BY SMTT(30), Zenon, <1>4, <2>2
  <2> QED BY Zenon, <1>2, <2>1, <2>2, <2>3 DEF Reached
<1> QED BY <1>5, <1>6, <1>7

\* scaleDown changes the replicas of its own cluster.
LEMMA DownSets ==
  ASSUME TypeInv, SumsAreNatural, SumsMove, Framed, NEW h \in Handler, NEW s \in Locals, s = handler[h],
         Placed(s), s.op = "scaleDown", NEW m \in Int, Going(s, m), goal' # NoGoal,
         PutDeployment(h, s) \/ DeleteDeployment(h, s)
  PROVE  IF handler'[h] = Idle THEN Reached(s.at, s.f, s.op, m)' ELSE Going(handler[h], m)'
<1>1. Descends(s, m) /\ s.target = s.at
  BY Zenon DEF Going, Placed
<1>2. PICK f \in Function, p \in Provider : f = s.f /\ p = s.at
  BY DEF Locals
<1>3. s.n \in Int
  BY ReplicatedIs, Zenon DEF Locals
<1>4. Total(f) \in Nat /\ Running(p, f) \in Nat /\ Running(p, f) <= Total(f)
  BY TotalIs
<1>5. CASE PutDeployment(h, s)
  <2>1. /\ TypeInv' /\ UNCHANGED terminating /\ s.pc = "put" /\ s.n \in Replicated
        /\ deployment' = [deployment EXCEPT ![p][f] = s.n]
        /\ handler'[h] = Idle \/ (handler'[h].op = s.op /\ handler'[h].pc = "updateService" /\ handler'[h] # Idle)
    BY Zenon, <1>1, <1>2, <1>5, PutDeploymentDoes, IdleOrNot
  <2>2. handler'[h] = Idle
    <3>1. handler'[h] # Idle => handler'[h].pc \in Steps(handler'[h].op)
      BY Zenon, <2>1 DEF TypeInv, HandlersType, Placed
    <3> QED BY <2>1, <3>1 DEF Steps
  <2>3. f \notin terminating[p] /\ Total(f) - Running(p, f) + s.n = m
    BY <1>1, <1>2, <2>1 DEF Descends
  <2>4. PICK n \in Replicated : n = s.n
    BY <2>1
  <2>5. Running(p, f)' = n /\ \A q \in Provider \ {p} : Running(q, f)' = Running(q, f)
    BY Zenon, <2>1, <2>3, <2>4, RunningPut
  <2>6. Total(f)' = Total(f) - Running(p, f) + Running(p, f)'
    BY ZenonT(30), <2>1, <2>5, TotalMoves
  <2>7. Total(f)' = m
    BY <1>3, <1>4, <2>3, <2>4, <2>5, <2>6
  <2> QED BY Zenon, <1>2, <2>2, <2>7 DEF Reached
<1>6. CASE DeleteDeployment(h, s)
  <2>1. PICK new \in Locals :
          /\ new = handler'[h] /\ new # Idle /\ new.pc = "deleteService" /\ new.op = s.op /\ new.at = p /\ new.f = f
          /\ s.pc = "deleteDeployment" /\ TypeInv' /\ UNCHANGED deployment
          /\ terminating' = [terminating EXCEPT ![p] = @ \cup {f}]
    BY Zenon, <1>1, <1>2, <1>6, DeleteDeploymentDoes, IdleOrNot
  <2>2. Total(f) - Running(p, f) >= m
    BY SMTT(30), Zenon, <1>1, <1>2, <2>1 DEF Descends
  <2>3. terminating \in [Provider -> SUBSET Function]
    BY DEF TypeInv, ObjectsType
  <2>4. Running(p, f)' = 0 /\ \A q \in Provider \ {p} : Running(q, f)' = Running(q, f)
    BY <2>1, <2>3 DEF Running, Exists
  <2>5. Total(f)' = Total(f) - Running(p, f) + Running(p, f)'
    BY Zenon, <2>1, <2>4, TotalMoves
  <2>6. Total(f)' >= m
    BY <1>4, <2>2, <2>4, <2>5
  <2>7. Going(new, m)'
    BY <2>1, <2>4, <2>6, Zenon DEF Going, Descends
  <2> QED BY Zenon, <2>1, <2>7
<1> QED BY <1>5, <1>6

\* What a step of the handler of the request makes of it.
LEMMA StepGoes ==
  ASSUME TypeInv, SumsAreNatural, SumsMove, RankedOnce, Framed, NEW h \in Handler, NEW s \in Locals,
         s = handler[h], Placed(s), s.op \in {"scaleUp", "scaleDown"}, NEW m \in Int, Going(s, m), goal' # NoGoal,
         s.op = "scaleUp" => m <= MaxInt32 /\ s.f \notin terminating[s.target], Step(h, s)
  PROVE  IF handler'[h] = Idle THEN Reached(s.at, s.f, s.op, m)' ELSE Going(handler[h], m)'
<1>1. s.pc \in Steps(s.op) /\ s.pc # "updateService" /\ s.pc # "find"
  BY DEF Placed, Steps
<1>2. \/ CheckLimit(h, s) \/ CreateDeployment(h, s) \/ CreateService(h, s)
      \/ NextNode(h, s) \/ ScaleDown(h, s)
      \/ GetDeployment(h, s) \/ PutDeployment(h, s) \/ DeleteDeployment(h, s) \/ DeleteService(h, s)
  BY Zenon, <1>1 DEF Step, UpdateService, FindDeployment
<1>3. ASSUME UNCHANGED <<deployment, terminating, view>>,
             IF handler'[h] = Idle THEN Reached(s.at, s.f, s.op, m) ELSE Going(handler'[h], m)
      PROVE  IF handler'[h] = Idle THEN Reached(s.at, s.f, s.op, m)' ELSE Going(handler[h], m)'
  <2>1. UNCHANGED <<deployment, terminating, view, overload>>
    BY <1>3 DEF Framed
  <2>2. CASE handler'[h] = Idle
    BY Zenon, <1>3, <2>1, <2>2, FrozenGoing
  <2>3. CASE handler'[h] # Idle
    <3>1. PICK new : new = handler'[h]
      OBVIOUS
    <3>2. Going(new, m)
      BY Zenon, <1>3, <2>3, <3>1
    <3>3. Going(new, m)'
      BY Zenon, <2>1, <3>2, FrozenGoing
    <3> QED BY Zenon, <2>3, <3>1, <3>3
  <2> QED BY ZenonT(30), <2>2, <2>3
<1>4. CASE s.op = "scaleUp"
  <2>1. ~ScaleDown(h, s) /\ ~DeleteDeployment(h, s) /\ ~DeleteService(h, s)
    <3>1. s.pc \notin {"down", "deleteDeployment", "deleteService"}
      BY <1>1, <1>4 DEF Steps
    <3> QED BY Zenon, <3>1 DEF ScaleDown, DeleteDeployment, DeleteService
  <2>2. CASE CheckLimit(h, s) \/ CreateService(h, s) \/ GetDeployment(h, s)
    <3>1. UNCHANGED <<deployment, terminating, view>>
      BY Zenon, <2>2, CheckLimitDoes, CreateServiceDoes, GetDeploymentDoes
    <3>2. handler'[h] # Idle /\ Going(handler'[h], m)
      BY Zenon, <1>4, <2>2, UpPlacing
    <3> QED BY Zenon, <1>3, <3>1, <3>2
  <2>3. CASE NextNode(h, s)
    <3>1. UNCHANGED <<deployment, terminating, view>>
      BY Zenon, <2>3, NextNodeDoes
    <3>2. IF handler'[h] = Idle THEN Reached(s.at, s.f, s.op, m) ELSE Going(handler'[h], m)
      BY Zenon, <1>4, <2>3, UpNextNode
    <3> QED BY Zenon, <1>3, <3>1, <3>2
  <2>4. CASE CreateDeployment(h, s)
    BY Zenon, <1>4, <2>4, UpCreates
  <2>5. CASE PutDeployment(h, s)
    BY Zenon, <1>4, <2>5, UpPuts
  <2> QED BY Zenon, <1>2, <2>1, <2>2, <2>3, <2>4, <2>5
<1>5. CASE s.op = "scaleDown"
  <2>1. ~CheckLimit(h, s) /\ ~CreateDeployment(h, s) /\ ~CreateService(h, s) /\ ~NextNode(h, s)
    <3>1. s.pc \notin {"count", "create", "createService", "node"}
      BY <1>1, <1>5 DEF Steps
    <3> QED BY Zenon, <3>1 DEF CheckLimit, CreateDeployment, CreateService, NextNode
  <2>2. CASE ScaleDown(h, s) \/ GetDeployment(h, s) \/ DeleteService(h, s)
    <3>1. UNCHANGED <<deployment, terminating, view>>
      BY Zenon, <2>2, ScaleDownDoes, GetDeploymentDoes, DeleteServiceDoes
    <3>2. IF handler'[h] = Idle THEN Reached(s.at, s.f, s.op, m) ELSE Going(handler'[h], m)
      BY Zenon, <1>5, <2>2, DownLooks
    <3> QED BY Zenon, <1>3, <3>1, <3>2
  <2>3. CASE PutDeployment(h, s) \/ DeleteDeployment(h, s)
    BY Zenon, <1>5, <2>3, DownSets
  <2> QED BY Zenon, <1>2, <2>1, <2>2, <2>3
<1> QED BY Zenon, <1>4, <1>5

\* A handler has one request.
LEMMA StepSame ==
  ASSUME TypeInv, Framed, NEW h \in Handler, Step(h, handler[h])
  PROVE  LET s == handler[h]
             new == handler'[h]
         IN  new = Idle \/ (new.op = s.op /\ new.at = s.at /\ new.f = s.f)
<1>1. CASE CheckLimit(h, handler[h]) \/ CreateDeployment(h, handler[h]) \/ CreateService(h, handler[h])
  BY Zenon, <1>1, CheckLimitDoes, CreateDeploymentDoes, CreateServiceDoes
<1>2. CASE NextNode(h, handler[h]) \/ ScaleDown(h, handler[h])
  BY Zenon, <1>2, NextNodeDoes, ScaleDownDoes
<1>3. CASE GetDeployment(h, handler[h]) \/ PutDeployment(h, handler[h])
  BY Zenon, <1>3, GetDeploymentDoes, PutDeploymentDoes
<1>4. CASE FindDeployment(h, handler[h]) \/ DeleteDeployment(h, handler[h])
  BY Zenon, <1>4, FindDeploymentDoes, DeleteDeploymentDoes
<1>5. CASE UpdateService(h, handler[h]) \/ DeleteService(h, handler[h])
  BY Zenon, <1>5, UpdateServiceDoes, DeleteServiceDoes
<1> QED BY Zenon, <1>1, <1>2, <1>3, <1>4, <1>5 DEF Step

LEMMA StepTargets ==
  ASSUME TypeInv, GoalInv, TargetInv, SumsAreNatural, SumsMove, RankedOnce, Framed, NEW h \in Handler,
         Step(h, handler[h]), goal' = goal, Promised
  PROVE  TargetInv'
<1>1. PICK s \in Locals : s = handler[h]
  BY StepTypes
<1>2. TypeInv' /\ Others(h) /\ s # Idle /\ Placed(s)
  BY Zenon, <1>1, StepTypes, IdleOrNot DEF TypeInv, HandlersType
<1>3. PICK m \in Int, f \in Function, p \in Provider, op \in {"scaleUp", "scaleDown"} :
        m = goal.n /\ f = goal.f /\ p = goal.at /\ op = goal.op
  BY Zenon DEF TargetInv
<1>4. /\ op = "scaleUp" => m <= MaxInt32
      /\ Alone /\ s.op = op /\ s.at = p /\ s.f = f /\ Going(s, m)
  BY Zenon, <1>1, <1>2, <1>3 DEF TargetInv
<1>5. op = "scaleUp" => s.f \notin terminating[s.target]
  <2>1. s.target \in Provider
    BY DEF Locals
  <2> QED BY Zenon, <1>3, <1>4, <2>1 DEF GoalInv, Promised
<1>6. goal' # NoGoal
  BY Zenon DEF Promised
<1>7. IF handler'[h] = Idle THEN Reached(p, f, op, m)' ELSE Going(handler[h], m)'
  BY Zenon, <1>1, <1>2, <1>4, <1>5, <1>6, StepGoes
<1>8. handler'[h] = Idle \/ (handler'[h].op = op /\ handler'[h].at = p /\ handler'[h].f = f)
  BY Zenon, <1>1, <1>4, StepSame
<1>9. Alone'
  BY Zenon, <1>1, <1>2, <1>4, AloneKept
<1>10. \A g \in Handler : handler'[g] # Idle => g = h
  BY Zenon, <1>1, <1>2, <1>4 DEF Alone, Others
<1>11. Quiet' => Reached(goal.at, goal.f, goal.op, goal.n)'
  BY Zenon, <1>3, <1>7 DEF Quiet
<1>12. ASSUME NEW g \in Handler, handler'[g] # Idle
       PROVE  /\ handler'[g].op = goal'.op /\ handler'[g].at = goal'.at /\ handler'[g].f = goal'.f
              /\ Going(handler[g], goal.n)'
  BY Zenon, <1>3, <1>7, <1>8, <1>10, <1>12
<1> QED BY Zenon, <1>3, <1>4, <1>9, <1>11, <1>12 DEF TargetInv

\* The clusters collect what no one counts, and the catalogs learn what is so.
LEMMA EnvironmentKeeps ==
  ASSUME TypeInv, Environment, Watched, NEW f \in Function
  PROVE  \A q \in Provider :
           /\ Running(q, f)' = Running(q, f) /\ (f \in terminating'[q] => f \in terminating[q])
           /\ \A p \in Provider : Right(p, q, f) => Right(p, q, f)'
<1>1. ASSUME NEW r \in Provider, NEW g \in Function, Collect(r, g), NEW q \in Provider
      PROVE  /\ Running(q, f)' = Running(q, f) /\ (f \in terminating'[q] => f \in terminating[q])
             /\ UNCHANGED view
  <2>1. /\ UNCHANGED view /\ g \in terminating[r]
        /\ terminating' = [terminating EXCEPT ![r] = @ \ {g}]
        /\ deployment' = [deployment EXCEPT ![r][g] = Absent]
    BY Zenon, <1>1, CollectDoes
  <2>2. CASE q = r /\ f = g
    <3>1. deployment'[q][f] = Absent /\ f \in terminating[q] /\ f \notin terminating'[q]
      BY <2>1, <2>2 DEF TypeInv, ObjectsType
    <3> QED BY Zenon, <2>1, <3>1 DEF Running, Exists
  <2>3. CASE ~(q = r /\ f = g)
    <3>1. deployment'[q][f] = deployment[q][f] /\ (f \in terminating'[q] <=> f \in terminating[q])
      BY <2>1, <2>3 DEF TypeInv, ObjectsType
    <3> QED BY Zenon, <2>1, <3>1 DEF Running, Exists
  <2> QED BY Zenon, <2>2, <2>3
<1>2. ASSUME UNCHANGED <<deployment, terminating, services, conflict>>, Learns, NEW q \in Provider
      PROVE  /\ Running(q, f)' = Running(q, f) /\ (f \in terminating'[q] => f \in terminating[q])
             /\ \A p \in Provider : Right(p, q, f) => Right(p, q, f)'
  <2>1. Running(q, f)' = Running(q, f) /\ (f \in terminating'[q] => f \in terminating[q])
    BY Zenon, <1>2 DEF Running, Exists
  <2>2. ASSUME NEW p \in Provider, Right(p, q, f)
        PROVE  Right(p, q, f)'
    <3>1. /\ view'[p][q][f] \in {view[p][q][f], view[q][q][f], Running(q, f)}
          /\ view'[q][q][f] \in {view[q][q][f], Running(q, f)}
      BY Zenon, <1>2 DEF Learns
    <3> QED BY Zenon, <2>1, <2>2, <3>1 DEF Right
  <2> QED BY Zenon, <2>1, <2>2
<1>3. CASE \E r \in Provider, g \in Function : Collect(r, g)
  BY Zenon, <1>1, <1>3 DEF Right
<1> QED BY Zenon, <1>2, <1>3, EnvironmentDoes

LEMMA EnvironmentGoes ==
  ASSUME TypeInv, Environment, Watched, NEW s \in Locals, Placed(s), NEW m, Going(s, m)
  PROVE  Going(s, m)'
<1>1. PICK f \in Function, p \in Provider, t \in Provider : f = s.f /\ p = s.at /\ t = s.target
  BY DEF Locals
<1>2. \A q \in Provider :
        /\ Running(q, f)' = Running(q, f) /\ (f \in terminating'[q] => f \in terminating[q])
        /\ \A r \in Provider : Right(r, q, f) => Right(r, q, f)'
  BY Zenon, EnvironmentKeeps
<1>3. Total(f)' = Total(f)
  BY Zenon, <1>2, TotalKept
<1>4. Running(t, f)' = Running(t, f) /\ Running(p, f)' = Running(p, f) /\ UNCHANGED overload
  BY Zenon, <1>2 DEF Watched
<1>5. Near[p] \in Seq(Provider) /\ s.i \in Nat \ {0} /\ Len(Near[p]) \in Nat /\ s.i <= Len(Near[p]) + 1
  BY <1>1, DeploymentsAssumption DEF Locals, Placed
<1>6. \A i \in 1 .. Len(Near[p]) : Near[p][i] \in Provider
  BY <1>5
<1>7. Counted(s, m) => Counted(s, m)'
  BY Zenon, <1>1, <1>3, <1>4 DEF Counted
<1>8. Behind(s) => Behind(s)'
  <2>1. \A i \in 1 .. s.i - 1 : Near[p][i] \in Provider
    BY <1>5, <1>6
  <2> QED BY Zenon, <1>1, <1>2, <1>4, <2>1 DEF Behind
<1>9. Ahead(s) => Ahead(s)'
  <2>1. \A i \in s.i .. Len(Near[p]) : Near[p][i] \in Provider
    BY <1>5, <1>6
  <2> QED BY Zenon, <1>1, <1>2, <2>1 DEF Ahead
<1>10. Descends(s, m) => Descends(s, m)'
  BY Zenon, <1>1, <1>2, <1>3, <1>4 DEF Descends
<1> QED BY Zenon, <1>7, <1>8, <1>9, <1>10 DEF Going

LEMMA EnvironmentTargets ==
  ASSUME TypeInv, TargetInv, Environment, Watched, Promised
  PROVE  TargetInv'
<1>1. UNCHANGED <<handler, goal, overload>>
  BY Zenon DEF Watched
<1>2. PICK m \in Int, f \in Function, p \in Provider, op \in {"scaleUp", "scaleDown"} :
        m = goal.n /\ f = goal.f /\ p = goal.at /\ op = goal.op
  BY Zenon DEF TargetInv
<1>3. (op = "scaleUp" => m <= MaxInt32) /\ Alone /\ (Quiet => Reached(p, f, op, m))
  BY Zenon, <1>2 DEF TargetInv
<1>4. \A q \in Provider : Running(q, f)' = Running(q, f)
  BY Zenon, EnvironmentKeeps
<1>5. Total(f)' = Total(f)
  BY Zenon, <1>4, TotalKept
<1>6. Near[p] \in Seq(Provider)
  BY DeploymentsAssumption
<1>7. \A i \in DOMAIN Near[p] : Near[p][i] \in Provider
  BY <1>6
<1>8. Reached(p, f, op, m) => Reached(p, f, op, m)'
  BY Zenon, <1>1, <1>4, <1>5, <1>7 DEF Reached
<1>9. Alone' /\ (Quiet' => Reached(goal.at, goal.f, goal.op, goal.n)')
  BY Zenon, <1>1, <1>2, <1>3, <1>8 DEF Alone, Quiet
<1>10. ASSUME NEW h \in Handler, handler'[h] # Idle
       PROVE  /\ handler'[h].op = goal'.op /\ handler'[h].at = goal'.at /\ handler'[h].f = goal'.f
              /\ Going(handler[h], goal.n)'
  <2>1. PICK s \in Locals : s = handler[h] /\ s = handler'[h]
    BY <1>1, <1>10 DEF TypeInv, HandlersType
  <2>2. Placed(s) /\ s.op = op /\ s.at = p /\ s.f = f /\ Going(s, m)
    BY Zenon, <1>2, <1>10, <2>1 DEF TargetInv, TypeInv, HandlersType
  <2>3. Going(s, m)'
    BY Zenon, <2>2, EnvironmentGoes
  <2> QED BY Zenon, <1>1, <1>2, <2>1, <2>2, <2>3
<1> QED BY Zenon, <1>1, <1>2, <1>3, <1>9, <1>10 DEF TargetInv

\* What MakeReplicaUpdater asks for when the replicas fit an int32.
LEMMA UpdaterCounts ==
  ASSUME TypeInv, SumsAreNatural, NEW kind \in Kinds, NEW p \in Provider, NEW f \in Function,
         NEW s \in Operations(kind, p, f), s.op \in {"scaleUp", "scaleDown"}, Replicas(p, f) <= MaxInt32
  PROVE  /\ s.i = 1
         /\ s.op = "scaleUp" => s.cnt > 0 /\ Replicas(p, f) + s.cnt <= MaxInt32
<1> DEFINE first == [Local EXCEPT !.at = p, !.f = f, !.target = p, !.op = kind]
<1>1. kind \in {"deploy", "update", "delete", "scale", "set"}
  BY DeploymentsAssumption
<1>2. kind \in {"scale", "set"}
  <2>1. first.op = kind /\ first \in [op : {kind}, pc : {""}, at : {p}, f : {f}, target : {p}, i : {1}, cnt : {0}, n : {0}]
    BY Zenon DEF Local
  <2> HIDE DEF first
  <2>2. CASE kind = "deploy"
    <3>1. s = [first EXCEPT !.pc = "count"]
      BY <2>2 DEF Operations, MakeDeployHandler, first
    <3> QED BY <2>1, <2>2, <3>1, Zenon
  <2>3. CASE kind = "delete"
    <3>1. s = [first EXCEPT !.pc = "find"]
      BY <2>3 DEF Operations, MakeDeleteHandler, first
    <3> QED BY <2>1, <2>3, <3>1, Zenon
  <2>4. CASE kind = "update"
    <3>1. \/ s = [first EXCEPT !.pc = "get"]
          \/ s = [first EXCEPT !.pc = "get", !.op = "updateMin", !.n = MinReplicas]
      BY <2>4 DEF Operations, updateDeploymentSpec, first
    <3> QED BY <2>1, <2>4, <3>1, Zenon
  <2> QED BY <1>1, <2>2, <2>3, <2>4
<1>3. PICK r \in Requests : s \in MakeReplicaUpdater(kind, p, f, r)
  BY <1>2 DEF Operations
<1> DEFINE replicas == IF Int32(r) >= MaxReplicas THEN MaxReplicas ELSE Int32(r)
           oldReplicas == Int32(Replicas(p, f))
           start == [Local EXCEPT !.at = p, !.f = f, !.target = p]
<1>4. replicas \in Int32s
  <2>1. r \in Int /\ MaxReplicas \in Replicated
    BY DeploymentsAssumption, Int32Assumption DEF Replicated, MaxInt32
  <2>2. Int32(r) \in Int32s
    BY <2>1, Int32Wraps
  <2> QED BY <2>1, <2>2, ReplicatedIs
<1>5. oldReplicas = Replicas(p, f) /\ Replicas(p, f) \in Nat
  <2>1. Replicas(p, f) \in Nat
    BY ReplicasIsNat
  <2>2. Replicas(p, f) \in Replicated
    BY <2>1, Int32Assumption DEF Replicated, MaxInt32
  <2> QED BY <2>1, <2>2, Int32Wraps
<1> HIDE DEF replicas, oldReplicas
<1>6. \/ s = [start EXCEPT !.op = "set", !.pc = "get", !.n = replicas]
      \/ /\ oldReplicas < replicas
         /\ s = [start EXCEPT !.op = "scaleUp", !.pc = "node", !.cnt = Int32(replicas - oldReplicas)]
      \/ s = [start EXCEPT !.op = "scaleDown", !.pc = "down", !.cnt = Int32(oldReplicas - replicas)]
  BY Zenon, <1>3 DEF MakeReplicaUpdater, replicas, oldReplicas
<1>7. start \in [op : {""}, pc : {""}, at : {p}, f : {f}, target : {p}, i : {1}, cnt : {0}, n : {0}]
  BY Zenon DEF Local
<1> HIDE DEF start
<1>8. s.i = 1
  BY <1>6, <1>7, Zenon
<1>9. ASSUME s.op = "scaleUp"
      PROVE  s.cnt > 0 /\ Replicas(p, f) + s.cnt <= MaxInt32
  <2>1. oldReplicas < replicas /\ s.cnt = Int32(replicas - oldReplicas)
    BY <1>6, <1>7, <1>9, Zenon
  <2>2. replicas - oldReplicas \in Replicated /\ replicas \in Int /\ replicas <= MaxInt32 /\ MaxInt32 \in Int
    BY <1>4, <1>5, <2>1, Int32Assumption DEF Replicated, Int32s, MaxInt32
  <2>3. Int32(replicas - oldReplicas) = replicas - oldReplicas
    BY <1>5, <2>2, Int32Wraps
  <2> QED BY <1>5, <2>1, <2>2, <2>3
<1> QED BY <1>8, <1>9

\* A request that runs alone begins with right catalogs and everything to do.
LEMMA BeginTargets ==
  ASSUME TypeInv, SumsAreNatural, SumsMove, NEW h \in Handler, Begin(h)
  PROVE  TargetInv'
<1> SUFFICES ASSUME Promised'
             PROVE  TargetInv'
  BY Zenon DEF TargetInv
<1>1. PICK kind \in Kinds, p \in Provider, f \in Function :
        \E s \in Operations(kind, p, f) : handler'[h] = s /\ goal' = Goal(s) /\ Fresh(s) /\ s.at = p /\ s.f = f
  BY Zenon, BeginDoes
<1>2. PICK s \in Operations(kind, p, f) : handler'[h] = s /\ goal' = Goal(s) /\ Fresh(s) /\ s.at = p /\ s.f = f
  BY Zenon, <1>1
<1>3. Others(h) /\ UNCHANGED <<deployment, terminating, view, overload>>
  BY Zenon, BeginDoes
<1> DEFINE now == [q \in Provider |-> Running(q, s.f)]
           n == Total(s.f) + (IF s.op = "scaleUp" THEN s.cnt ELSE - s.cnt)
           promise == [n |-> n, f |-> s.f, at |-> s.at, op |-> s.op, before |-> now]
<1>4. /\ Quiet /\ goal' = promise /\ s.op \in {"scaleUp", "scaleDown"}
      /\ \A q \in Provider : Right(p, q, f) /\ f \notin terminating[q]
  BY Zenon, <1>2 DEF Goal, Promised, Right
<1>5. SumFunction(now) = Total(f)
  BY Zenon, <1>2 DEF Total
<1> HIDE DEF now
<1>6. n = Total(f) + (IF s.op = "scaleUp" THEN s.cnt ELSE - s.cnt)
  BY Zenon, <1>2
<1> HIDE DEF n
<1>7. promise.n = n /\ promise.f = s.f /\ promise.at = s.at /\ promise.op = s.op /\ promise.before = now
  OBVIOUS
<1> HIDE DEF promise
<1>8. goal'.n = n /\ goal'.f = f /\ goal'.at = p /\ goal'.op = s.op /\ goal'.before = now
  BY Zenon, <1>2, <1>4, <1>7
<1>9. Total(f) <= MaxInt32 /\ (s.op = "scaleDown" => n < Total(f))
  BY Zenon, <1>5, <1>8 DEF Promised, Fits
<1>10. Total(f) \in Nat /\ s.cnt \in Int /\ s \in Locals
  BY <1>2, TotalIs, ReplicatedIs, Zenon DEF Fresh, Locals
<1>11. n \in Int
  BY <1>6, <1>10
<1>12. Replicas(p, f) = Total(f)
  <2>1. [q \in Provider |-> view[p][q][f]] = [q \in Provider |-> Running(q, f)]
    BY Zenon, <1>4 DEF Right
  <2> QED BY Zenon, <2>1 DEF Replicas, Total
<1>13. s.i = 1 /\ (s.op = "scaleUp" => s.cnt > 0 /\ Total(f) + s.cnt <= MaxInt32)
  BY Zenon, <1>4, <1>9, <1>12, UpdaterCounts
<1>14. s.op = "scaleUp" => n <= MaxInt32
  BY <1>6, <1>13
<1> PICK m \in Int : m = n
  BY <1>11
<1>15. Going(s, m)
  <2>1. CASE s.op = "scaleUp"
    <3>1. s.pc = "node" /\ s.cnt > 0 /\ s.cnt >= 0 /\ Total(f) + s.cnt = m
      BY SMTT(30), Zenon, <1>2, <1>6, <1>10, <1>13, <2>1 DEF Fresh
    <3>2. Counted(s, m)
      BY SMTT(30), Zenon, <1>2, <3>1 DEF Counted
    <3>3. Behind(s)
      BY SMTT(30), Zenon, <1>13 DEF Behind
    <3>4. Near[p] \in Seq(Provider)
      BY DeploymentsAssumption
    <3>5. \A i \in s.i .. Len(Near[p]) : Near[p][i] \in Provider
      BY <1>13, <3>4
    <3>6. Ahead(s)
      BY Zenon, <1>2, <1>4, <3>1, <3>5 DEF Ahead
    <3> QED BY SMTT(30), Zenon, <2>1, <3>2, <3>3, <3>6 DEF Going
  <2>2. CASE s.op = "scaleDown"
    <3>1. s.pc = "down"
      BY <1>2, <2>2 DEF Fresh
    <3>2. s.cnt > 0 /\ Total(f) - s.cnt = m
      BY <1>6, <1>9, <1>10, <2>2
    <3> QED BY ZenonT(30), <1>2, <1>4, <2>2, <3>1, <3>2 DEF Going, Descends
  <2> QED BY <1>4, <2>1, <2>2
<1>16. Going(s, m)'
  BY Zenon, <1>3, <1>15, FrozenGoing
<1>17. Alone'
  BY Zenon, <1>3, <1>4, AloneKept
<1>18. handler'[h] # Idle /\ ~Quiet' /\ \A g \in Handler : handler'[g] # Idle => g = h
  BY Zenon, <1>2, <1>3, <1>4, <1>10, IdleOrNot DEF Quiet, Others
<1>19. ASSUME NEW g \in Handler, handler'[g] # Idle
       PROVE  /\ handler'[g].op = goal'.op /\ handler'[g].at = goal'.at /\ handler'[g].f = goal'.f
              /\ Going(handler[g], goal.n)'
  BY Zenon, <1>2, <1>8, <1>16, <1>18, <1>19
<1> QED BY Zenon, <1>4, <1>8, <1>11, <1>14, <1>17, <1>18, <1>19 DEF TargetInv

LEMMA NextTargets ==
  ASSUME TypeInv, SumsAreNatural, SumsMove, RankedOnce, GoalInv, TargetInv, [Next]_vars
  PROVE  TargetInv'
<1>1. goal' = NoGoal => TargetInv'
  BY Zenon DEF TargetInv, Promised
<1>2. goal' = goal /\ ~Promised => TargetInv'
  BY Zenon DEF TargetInv, Promised, Fits
<1>3. ASSUME NEW h \in Handler, Fault(h, handler[h])
      PROVE  TargetInv'
  BY Zenon, <1>1, <1>3, FaultDoes
<1>4. ASSUME NEW h \in Handler, Step(h, handler[h]), Framed
      PROVE  TargetInv'
  <2>1. goal' \in {goal, NoGoal}
    BY Zenon, <1>4 DEF Step, CheckLimit, CreateDeployment, CreateService, NextNode, ScaleDown, GetDeployment,
       PutDeployment, UpdateService, FindDeployment, DeleteDeployment, DeleteService, Return, Fail
  <2> QED BY Zenon, <1>1, <1>2, <1>4, <2>1, StepTargets
<1>5. ASSUME Environment, Watched
      PROVE  TargetInv'
  <2>1. goal' = goal
    BY Zenon, <1>5 DEF Watched
  <2> QED BY Zenon, <1>2, <1>5, <2>1, EnvironmentTargets
<1>6. CASE UNCHANGED vars
  <2>1. UNCHANGED <<deployment, terminating, view, overload>> /\ UNCHANGED <<handler, goal>>
    BY Zenon, <1>6 DEF vars, objects, catalog
  <2>2. \A h \in Handler : Going(handler[h], goal.n)' <=> Going(handler[h], goal.n)
    BY Zenon, <2>1, FrozenGoing
  <2>3. Reached(goal.at, goal.f, goal.op, goal.n)' <=> Reached(goal.at, goal.f, goal.op, goal.n)
    BY Zenon, <2>1, FrozenGoing
  <2> QED BY Zenon, <2>1, <2>2, <2>3 DEF TargetInv, Promised, Fits, Alone, Quiet
<1> QED BY Zenon, <1>3, <1>4, <1>5, <1>6, BeginTargets DEF Next, Framed, Watched
==============================================================================
