------------------------ MODULE DeploymentsTheorems ------------------------
(***************************************************************************)
(* The theorems about Deployments.  What is left to show for them is what  *)
(* the sum of a function over a finite set is (the replicas of a function  *)
(* over the clusters).  The sum of the community modules is a fold in an   *)
(* unspecified order, defined by a recursive function; the lemmas show     *)
(* that the function exists, that the order does not matter, and what a    *)
(* change of one value does to the sum.  Induction is over the finite      *)
(* sets, by a minimal counterexample (WFMin).                              *)
(***************************************************************************)
EXTENDS ScalingProofs, FiniteSetTheorems

\* Every set of subsets of a finite set has a minimal element.
LEMMA MinimalSubset ==
  ASSUME NEW S, IsFiniteSet(S), NEW Bad, Bad \subseteq SUBSET S, Bad # {}
  PROVE  \E T \in Bad : \A U \in SUBSET T : U # T => U \notin Bad
<1>1. Bad \subseteq FiniteSubsetsOf(S)
  BY FS_Subset DEF FiniteSubsetsOf
<1>2. PICK T \in Bad : \A U \in Bad : ~(<<U, T>> \in StrictSubsetOrdering(S))
  BY <1>1, FS_StrictSubsetOrderingWellFounded, WFMin
<1>3. ASSUME NEW U \in SUBSET T, U # T, U \in Bad
      PROVE  FALSE
  <2>1. U \subseteq S /\ T \subseteq S
    BY <1>3
  <2>2. <<U, T>> \in StrictSubsetOrdering(S)
    BY <1>3, <2>1 DEF StrictSubsetOrdering
  <2> QED BY <1>2, <1>3, <2>2
<1> QED BY <1>2, <1>3

---------------------------------------------------------------------------
(* The recursive function of the fold *)

Chosen(s) == CHOOSE x \in s : TRUE

Added(f, g, s) == IF s = {} THEN 0 ELSE f[Chosen(s)] + g[s \ {Chosen(s)}]

\* g is the recursive function for f on the subsets of T.
IsSum(f, g, T) == g = [s \in SUBSET T |-> Added(f, g, s)]

LEMMA ChosenIsMember == \A s : s # {} => Chosen(s) \in s
BY DEF Chosen

LEMMA SumUnfolds ==
  ASSUME NEW f, NEW g, NEW T, IsSum(f, g, T), NEW s \in SUBSET T
  PROVE  g[s] = Added(f, g, s)
<1> DEFINE F == [t \in SUBSET T |-> Added(f, g, t)]
<1>1. g = F
  BY DEF IsSum
<1>2. F[s] = Added(f, g, s)
  OBVIOUS
<1> HIDE DEF F
<1> QED BY <1>1, <1>2

\* Two of them agree where both are defined.
LEMMA SumIsUnique ==
  ASSUME NEW f, NEW g, NEW h, NEW V, NEW W, IsFiniteSet(V),
         IsSum(f, g, V), IsSum(f, h, W), NEW s, s \in SUBSET V, s \in SUBSET W
  PROVE  g[s] = h[s]
<1> DEFINE Bad == {t \in SUBSET V : t \in SUBSET W /\ g[t] # h[t]}
<1>1. SUFFICES ASSUME Bad # {} PROVE FALSE
  OBVIOUS
<1>2. PICK t \in Bad : \A u \in SUBSET t : u # t => u \notin Bad
  <2>1. Bad \subseteq SUBSET V
    OBVIOUS
  <2> HIDE DEF Bad
  <2> QED BY <1>1, <2>1, MinimalSubset
<1>3. t \in SUBSET V /\ t \in SUBSET W /\ g[t] # h[t]
  BY <1>2
<1>4. g[t] = Added(f, g, t) /\ h[t] = Added(f, h, t)
  BY <1>3, SumUnfolds
<1>5. t # {}
  BY <1>3, <1>4 DEF Added
<1> DEFINE less == t \ {Chosen(t)}
<1>6. less \in SUBSET t /\ less # t
  BY <1>5, ChosenIsMember
<1>7. g[less] = h[less]
  <2>1. less \notin Bad
    BY <1>2, <1>6
  <2>2. less \in SUBSET V /\ less \in SUBSET W
    BY <1>3
  <2> QED BY <2>1, <2>2
<1> QED BY <1>3, <1>4, <1>5, <1>7 DEF Added

\* There is one for every finite set.
LEMMA SumExists ==
  ASSUME NEW f, NEW S, IsFiniteSet(S)
  PROVE  \E g : IsSum(f, g, S)
<1> DEFINE Bad == {t \in SUBSET S : ~\E g : IsSum(f, g, t)}
<1>1. SUFFICES ASSUME Bad # {} PROVE FALSE
  BY S \in SUBSET S
<1>2. PICK T \in Bad : \A u \in SUBSET T : u # T => u \notin Bad
  <2>1. Bad \subseteq SUBSET S
    OBVIOUS
  <2> HIDE DEF Bad
  <2> QED BY <1>1, <2>1, MinimalSubset
<1>3. T \in SUBSET S /\ ~\E g : IsSum(f, g, T)
  BY <1>2
<1> DEFINE Of(u) == CHOOSE g : IsSum(f, g, u)
<1>4. ASSUME NEW u \in SUBSET T, u # T PROVE IsSum(f, Of(u), u) /\ IsFiniteSet(u)
  <2>1. \E g : IsSum(f, g, u)
    BY <1>2, <1>3, <1>4
  <2>2. IsFiniteSet(u)
    BY <1>3, <1>4, FS_Subset
  <2> QED BY <2>1, <2>2
<1> HIDE DEF Of
<1> DEFINE val(u) == IF u = {} THEN 0 ELSE f[Chosen(u)] + Of(u \ {Chosen(u)})[u \ {Chosen(u)}]
           g == [u \in SUBSET T |-> val(u)]
<1>5. ASSUME NEW u \in SUBSET T, u # T PROVE Of(u)[u] = val(u)
  <2>1. Of(u)[u] = Added(f, Of(u), u)
    BY <1>4, <1>5, SumUnfolds
  <2>2. CASE u = {}
    BY <2>1, <2>2 DEF Added
  <2>3. CASE u # {}
    <3> DEFINE less == u \ {Chosen(u)}
    <3>1. less \in SUBSET T /\ less # T /\ less \in SUBSET u
      BY <1>5, <2>3, ChosenIsMember
    <3>2. Of(u)[less] = Of(less)[less]
      BY <1>4, <1>5, <3>1, SumIsUnique
    <3> QED BY <2>1, <2>3, <3>2 DEF Added
  <2> QED BY <2>2, <2>3
<1>6. ASSUME NEW u \in SUBSET T PROVE val(u) = Added(f, g, u)
  <2>1. CASE u = {}
    BY <2>1 DEF Added
  <2>2. CASE u # {}
    <3> DEFINE less == u \ {Chosen(u)}
    <3>1. less \in SUBSET T /\ less # T
      BY <1>6, <2>2, ChosenIsMember
    <3>2. g[less] = val(less)
      BY <3>1
    <3>3. Of(less)[less] = val(less)
      BY <1>5, <3>1, Zenon
    <3> HIDE DEF g
    <3> QED BY <2>2, <3>2, <3>3 DEF Added
  <2> QED BY <2>1, <2>2
<1>7. IsSum(f, g, T)
  <2>1. g = [u \in SUBSET T |-> Added(f, g, u)]
    BY <1>6, Zenon
  <2> QED BY <2>1, Zenon DEF IsSum
<1> QED BY <1>3, <1>7

\* The sum of the community modules is the value of that function.
LEMMA SumIs ==
  ASSUME NEW f, NEW S, IsFiniteSet(S)
  PROVE  \E g : IsSum(f, g, S) /\ SumFunctionOnSet(f, S) = g[S]
<1> DEFINE g == CHOOSE g : IsSum(f, g, S)
<1>1. IsSum(f, g, S)
  BY SumExists
<1>2. SumFunctionOnSet(f, S) = g[S]
  BY DEF SumFunctionOnSet, FoldFunctionOnSet, MapThenFoldSet, IsSum, Added, Chosen
<1> QED BY <1>1, <1>2, Zenon

---------------------------------------------------------------------------
(* The sum over a set *)

LEMMA SumRecurs ==
  ASSUME NEW f, NEW S, IsFiniteSet(S)
  PROVE  SumFunctionOnSet(f, S) = IF S = {} THEN 0 ELSE f[Chosen(S)] + SumFunctionOnSet(f, S \ {Chosen(S)})
<1> DEFINE less == S \ {Chosen(S)}
<1>1. PICK g : IsSum(f, g, S) /\ SumFunctionOnSet(f, S) = g[S]
  BY SumIs
<1>2. IsFiniteSet(less)
  BY FS_RemoveElement
<1>3. PICK h : IsSum(f, h, less) /\ SumFunctionOnSet(f, less) = h[less]
  BY <1>2, SumIs
<1>4. g[S] = Added(f, g, S)
  BY <1>1, SumUnfolds
<1>5. g[less] = h[less]
  BY <1>1, <1>3, SumIsUnique
<1> QED BY <1>1, <1>3, <1>4, <1>5 DEF Added

\* The sum of integers is an integer.
LEMMA SumIsInt ==
  ASSUME NEW f, NEW S, IsFiniteSet(S), \A x \in S : f[x] \in Int
  PROVE  SumFunctionOnSet(f, S) \in Int
<1> DEFINE Bad == {t \in SUBSET S : SumFunctionOnSet(f, t) \notin Int}
<1>1. SUFFICES ASSUME Bad # {} PROVE FALSE
  BY S \in SUBSET S
<1>2. PICK T \in Bad : \A u \in SUBSET T : u # T => u \notin Bad
  <2>1. Bad \subseteq SUBSET S
    OBVIOUS
  <2> HIDE DEF Bad
  <2> QED BY <1>1, <2>1, MinimalSubset
<1>3. T \in SUBSET S /\ SumFunctionOnSet(f, T) \notin Int /\ IsFiniteSet(T)
  BY <1>2, FS_Subset
<1>4. SumFunctionOnSet(f, T) = IF T = {} THEN 0 ELSE f[Chosen(T)] + SumFunctionOnSet(f, T \ {Chosen(T)})
  BY <1>3, SumRecurs
<1>5. T # {} /\ Chosen(T) \in T
  BY <1>3, <1>4, ChosenIsMember
<1>6. SumFunctionOnSet(f, T \ {Chosen(T)}) \in Int
  BY <1>2, <1>3, <1>5
<1>7. f[Chosen(T)] \in Int
  BY <1>3, <1>5
<1> QED BY <1>3, <1>4, <1>5, <1>6, <1>7

\* The order does not matter: any element may be taken first.
LEMMA SumTakes ==
  ASSUME NEW f, NEW S, IsFiniteSet(S), \A x \in S : f[x] \in Int, NEW y \in S
  PROVE  SumFunctionOnSet(f, S) = f[y] + SumFunctionOnSet(f, S \ {y})
<1> DEFINE Bad == {t \in SUBSET S : \E x \in t : SumFunctionOnSet(f, t) # f[x] + SumFunctionOnSet(f, t \ {x})}
<1>1. SUFFICES ASSUME Bad # {} PROVE FALSE
  BY S \in SUBSET S, Zenon
<1>2. PICK T \in Bad : \A u \in SUBSET T : u # T => u \notin Bad
  <2>1. Bad \subseteq SUBSET S
    OBVIOUS
  <2> HIDE DEF Bad
  <2> QED BY <1>1, <2>1, MinimalSubset
<1>3. T \in SUBSET S
  BY <1>2
<1>4. PICK x \in T : SumFunctionOnSet(f, T) # f[x] + SumFunctionOnSet(f, T \ {x})
  BY <1>2
<1>5. \A u \in SUBSET T : u # T => \A z \in u : SumFunctionOnSet(f, u) = f[z] + SumFunctionOnSet(f, u \ {z})
  BY <1>2, <1>3, Zenon
<1>6. PICK c \in T : SumFunctionOnSet(f, T) = f[c] + SumFunctionOnSet(f, T \ {c})
  <2>1. IsFiniteSet(T) /\ T # {}
    BY <1>3, <1>4, FS_Subset
  <2> QED BY <2>1, SumRecurs, ChosenIsMember, Zenon
<1>7. c # x
  BY <1>4, <1>6, Zenon
<1> DEFINE both == T \ {x, c}
<1>8. both = (T \ {c}) \ {x} /\ both = (T \ {x}) \ {c}
  OBVIOUS
<1>9. SumFunctionOnSet(f, T \ {c}) = f[x] + SumFunctionOnSet(f, both)
  BY <1>5, <1>7, <1>8
<1>10. SumFunctionOnSet(f, T \ {x}) = f[c] + SumFunctionOnSet(f, both)
  BY <1>5, <1>7, <1>8
<1>11. f[x] \in Int /\ f[c] \in Int /\ SumFunctionOnSet(f, both) \in Int
  <2>1. IsFiniteSet(both) /\ both \subseteq S
    BY <1>3, FS_Subset
  <2> QED BY <1>3, <2>1, SumIsInt
<1> HIDE DEF both
<1> QED BY <1>4, <1>6, <1>9, <1>10, <1>11

\* Functions that agree have the same sum.
LEMMA SumAgrees ==
  ASSUME NEW f, NEW g, NEW S, IsFiniteSet(S), \A x \in S : f[x] = g[x]
  PROVE  SumFunctionOnSet(f, S) = SumFunctionOnSet(g, S)
<1> DEFINE Bad == {t \in SUBSET S : SumFunctionOnSet(f, t) # SumFunctionOnSet(g, t)}
<1>1. SUFFICES ASSUME Bad # {} PROVE FALSE
  BY SMTT(30), Zenon, S \in SUBSET S
<1>2. PICK T \in Bad : \A u \in SUBSET T : u # T => u \notin Bad
  <2>1. Bad \subseteq SUBSET S
    OBVIOUS
  <2> HIDE DEF Bad
  <2> QED BY <1>1, <2>1, MinimalSubset
<1>3. T \in SUBSET S /\ SumFunctionOnSet(f, T) # SumFunctionOnSet(g, T) /\ IsFiniteSet(T)
  BY <1>2, FS_Subset
<1>4. /\ SumFunctionOnSet(f, T) = IF T = {} THEN 0 ELSE f[Chosen(T)] + SumFunctionOnSet(f, T \ {Chosen(T)})
      /\ SumFunctionOnSet(g, T) = IF T = {} THEN 0 ELSE g[Chosen(T)] + SumFunctionOnSet(g, T \ {Chosen(T)})
  BY <1>3, SumRecurs
<1>5. T # {} /\ Chosen(T) \in T
  BY <1>3, <1>4, ChosenIsMember
<1>6. SumFunctionOnSet(f, T \ {Chosen(T)}) = SumFunctionOnSet(g, T \ {Chosen(T)})
  BY <1>2, <1>3, <1>5
<1>7. f[Chosen(T)] = g[Chosen(T)]
  BY <1>3, <1>5
<1> QED BY <1>3, <1>4, <1>5, <1>6, <1>7

\* The sum is never below any of its terms, nor below zero.
LEMMA SumIsNat ==
  ASSUME NEW f, NEW S, IsFiniteSet(S), \A x \in S : f[x] \in Nat
  PROVE  SumFunctionOnSet(f, S) \in Nat /\ \A x \in S : f[x] <= SumFunctionOnSet(f, S)
<1>1. ASSUME NEW U \in SUBSET S PROVE SumFunctionOnSet(f, U) \in Nat
  <2> DEFINE Bad == {t \in SUBSET S : SumFunctionOnSet(f, t) \notin Nat}
  <2>1. SUFFICES ASSUME Bad # {} PROVE FALSE
    BY <1>1
  <2>2. PICK T \in Bad : \A u \in SUBSET T : u # T => u \notin Bad
    <3>1. Bad \subseteq SUBSET S
      OBVIOUS
    <3> HIDE DEF Bad
    <3> QED BY <2>1, <3>1, MinimalSubset
  <2>3. T \in SUBSET S /\ SumFunctionOnSet(f, T) \notin Nat /\ IsFiniteSet(T)
    BY <2>2, FS_Subset
  <2>4. SumFunctionOnSet(f, T) = IF T = {} THEN 0 ELSE f[Chosen(T)] + SumFunctionOnSet(f, T \ {Chosen(T)})
    BY <2>3, SumRecurs
  <2>5. T # {} /\ Chosen(T) \in T
    BY <2>3, <2>4, ChosenIsMember
  <2>6. SumFunctionOnSet(f, T \ {Chosen(T)}) \in Nat
    BY <2>2, <2>3, <2>5
  <2>7. f[Chosen(T)] \in Nat
    BY <2>3, <2>5
  <2> QED BY <2>3, <2>4, <2>5, <2>6, <2>7
<1>2. ASSUME NEW x \in S PROVE f[x] <= SumFunctionOnSet(f, S)
  <2>1. SumFunctionOnSet(f, S) = f[x] + SumFunctionOnSet(f, S \ {x})
    BY <1>2, SumTakes
  <2>2. SumFunctionOnSet(f, S \ {x}) \in Nat /\ f[x] \in Nat
    BY <1>1, <1>2
  <2> QED BY <2>1, <2>2
<1>3. SumFunctionOnSet(f, S) \in Nat
  BY <1>1, S \in SUBSET S
<1> QED BY <1>2, <1>3

\* The sum after one term has changed.
LEMMA SumChanges ==
  ASSUME NEW f, NEW g, NEW S, IsFiniteSet(S), \A x \in S : f[x] \in Int, \A x \in S : g[x] \in Int,
         NEW y \in S, \A x \in S \ {y} : g[x] = f[x]
  PROVE  SumFunctionOnSet(g, S) = SumFunctionOnSet(f, S) - f[y] + g[y]
<1>1. /\ SumFunctionOnSet(f, S) = f[y] + SumFunctionOnSet(f, S \ {y})
      /\ SumFunctionOnSet(g, S) = g[y] + SumFunctionOnSet(g, S \ {y})
  BY SumTakes
<1>2. IsFiniteSet(S \ {y})
  BY FS_RemoveElement
<1>3. SumFunctionOnSet(f, S \ {y}) = SumFunctionOnSet(g, S \ {y})
  BY <1>2, SumAgrees
<1>4. SumFunctionOnSet(f, S \ {y}) \in Int /\ f[y] \in Int /\ g[y] \in Int
  BY <1>2, SumIsInt
<1> QED BY <1>1, <1>3, <1>4

\* The sum of a function to the natural numbers.
LEMMA SumOfFunction ==
  ASSUME NEW S, IsFiniteSet(S), NEW f \in [S -> Nat]
  PROVE  SumFunction(f) \in Nat /\ \A x \in S : f[x] <= SumFunction(f)
BY SumIsNat DEF SumFunction

LEMMA SumOfUpdate ==
  ASSUME NEW S, IsFiniteSet(S), NEW f \in [S -> Nat], NEW g \in [S -> Nat],
         NEW y \in S, \A x \in S \ {y} : g[x] = f[x]
  PROVE  SumFunction(g) = SumFunction(f) - f[y] + g[y]
BY SumChanges DEF SumFunction

LEMMA SumsOfProviders == SumsAreNatural /\ SumsMove
<1>1. IsFiniteSet(Provider)
  BY DeploymentsAssumption
<1>2. SumsAreNatural
  BY Zenon, <1>1, SumOfFunction DEF SumsAreNatural
<1>3. SumsMove
  BY ZenonT(30), <1>1, SumOfFunction, SumOfUpdate DEF SumsMove
<1> QED BY <1>2, <1>3

---------------------------------------------------------------------------
(* The theorems *)

LEMMA AlwaysTyped == Spec => []TypeInv
<1>1. Init => TypeInv
  BY InitTypes
<1>2. TypeInv /\ [Next]_vars => TypeInv'
  BY SumsOfProviders, NextTypes
<1> QED BY <1>1, <1>2, PTL DEF Spec

\* The variables keep their types: whatever the handlers, the informers and the
\* API servers do to each other, a replica count that is stored fits an int32
\* and is not negative, for all the wrapping of scaleUp's and scaleDown's
\* arithmetic, and a handler's place in the ranking stays inside it.
THEOREM TypeCorrect == Spec => []TypeOK
BY AlwaysTyped, TypeInvImpliesTypeOK, PTL

\* updateDeploymentSpec writes back the Deployment it read (update.go:178); one
\* that meanwhile changed is refused, so that an update never undoes what
\* another handler scaled.
THEOREM UpdatesKeepReplicas == Spec => UpdateKeepsReplicas
<1>1. Init => TrueCopies
  BY InitMatches
<1>2. TypeInv /\ TrueCopies /\ [Next]_vars => TrueCopies'
  BY SumsOfProviders, NextCopies
<1>3. TypeInv /\ TrueCopies /\ [Next]_vars =>
        [\A h \in Handler :
           handler[h] # Idle /\ handler'[h] # handler[h] =>
             (handler[h].op = "update" => deployment' = deployment)]_vars
  BY SumsOfProviders, NextCopies
<1> QED BY <1>1, <1>2, <1>3, AlwaysTyped, PTL DEF Spec, UpdateKeepsReplicas

\* scaleDown (replica_updater.go:222) touches no cluster but its own, in every
\* interleaving of the handlers.
THEOREM ScalesDownOwnUnit == Spec => OwnUnit
<1>1. TypeInv /\ [Next]_vars =>
        [\A h \in Handler :
           handler[h] # Idle /\ handler'[h] # handler[h] =>
             (handler[h].op = "scaleDown" =>
                \A q \in Provider \ {handler[h].at} :
                  deployment'[q] = deployment[q] /\ terminating'[q] = terminating[q])]_vars
  BY SumsOfProviders, NextOwnUnit
<1> QED BY <1>1, AlwaysTyped, PTL DEF Spec, OwnUnit

\* Each Deployment has its Service and each Service its Deployment when no
\* handler runs, unless requests overlapped or a call to the API failed.
THEOREM ServicesStayMatched == Spec => []ServicesMatch
<1>1. Init => MatchInv
  BY InitMatches
<1>2. TypeInv /\ MatchInv /\ [Next]_vars => MatchInv'
  BY SumsOfProviders, NextMatches
<1> QED BY <1>1, <1>2, AlwaysTyped, MatchInvImpliesServicesMatch, PTL DEF Spec

LEMMA AlwaysClimbs == Spec => []GoalInv
<1>1. Init => GoalInv
  BY Zenon DEF Init, GoalInv
<1>2. TypeInv /\ GoalInv /\ [Next]_vars => GoalInv'
  BY SumsOfProviders, NextClimbs
<1> QED BY <1>1, <1>2, AlwaysTyped, PTL DEF Spec

\* scaleUp takes replicas away from a cluster only down to one for each of its
\* workers (the capacity below zero, replica_updater.go:185).
THEOREM ScalingUpLowersExcessOnly == Spec => []OnlyExcessIsLowered
BY AlwaysClimbs, GoalInvImpliesOnlyExcessIsLowered, PTL

\* A scale request that runs alone, on catalogs that are up to date and in
\* numbers that fit an int32, leaves the replicas it was asked for, or what
\* scaleUp and scaleDown leave by design: the first MinReplicas of a new
\* Deployment, every cluster full, or none at home.  Two peers with the same measured round trip make RankNodeByRTT list
\* one of them twice; RankedOnce leaves that case out.
THEOREM ScalingReachesTarget == RankedOnce => (Spec => []TargetReached)
<1> SUFFICES ASSUME RankedOnce
             PROVE  Spec => []TargetReached
  OBVIOUS
<1>1. Init => TargetInv
  BY Zenon DEF Init, TargetInv, Promised
<1>2. TypeInv /\ GoalInv /\ TargetInv /\ [Next]_vars => TargetInv'
  BY SumsOfProviders, NextTargets
<1> QED BY <1>1, <1>2, AlwaysTyped, AlwaysClimbs, TargetInvImpliesTargetReached, PTL DEF Spec
=============================================================================
