--------------------------- MODULE ResourceProofs ---------------------------
(***************************************************************************)
(* Proofs about ResourceChaos for any configurations, ceiling and bounds.  *)
(*                                                                         *)
(* activeWG counts exactly the goroutines that are live, so a generation   *)
(* begins with none left of the one before; and between load and swap a    *)
(* leaker carries a value whose sum with its chunk respects the ceiling,   *)
(* so a swap that succeeds respects it too.  The pool is a sum over the    *)
(* leakers, of which each step changes one: what sums do is proved first,  *)
(* by least counterexamples.                                               *)
(***************************************************************************)
EXTENDS ResourceChaos, FiniteSetTheorems, FunctionTheorems, WellFoundedInduction, TLAPS

-----------------------------------------------------------------------------
\* A set of finite sets that is not empty has a member that holds no other.
LEMMA Least ==
    ASSUME NEW S, IsFiniteSet(S), NEW B \in SUBSET (SUBSET S), B # {}
    PROVE  \E T \in B : \A U \in B : U \subseteq T => U = T
<1>1. IsWellFoundedOn(StrictSubsetOrdering(S), FiniteSubsetsOf(S)) /\ B \subseteq FiniteSubsetsOf(S)
  BY FS_StrictSubsetOrderingWellFounded, FS_FiniteSubsetsOfFinite
<1>2. PICK T \in B : \A U \in B : ~(<<U, T>> \in StrictSubsetOrdering(S))
  <2> DEFINE R == StrictSubsetOrdering(S)
             F == FiniteSubsetsOf(S)
  <2>1. IsWellFoundedOn(R, F) /\ B \subseteq F
    BY <1>1
  <2> HIDE DEF R, F
  <2>2. \E T \in B : \A U \in B : ~(<<U, T>> \in R)
    BY <2>1, WFMin
  <2> QED BY <2>2 DEF R
<1> QED
  BY <1>2 DEF StrictSubsetOrdering

\* How SumFunctionOnSet goes through a set.
Pick(s) == CHOOSE x \in s : TRUE
Sums(g, f, S) ==
    /\ g = [s \in SUBSET S |-> g[s]]
    /\ \A s \in SUBSET S : g[s] = IF s = {} THEN 0 ELSE f[Pick(s)] + g[s \ {Pick(s)}]

\* Two functions that sum up f agree where they are both defined.
LEMMA SumsAgree ==
    ASSUME NEW f, NEW S, IsFiniteSet(S), NEW T \in SUBSET S, NEW g, NEW h, Sums(g, f, S), Sums(h, f, T)
    PROVE  \A s \in SUBSET T : g[s] = h[s]
<1> DEFINE B == {s \in SUBSET T : g[s] # h[s]}
<1> SUFFICES ASSUME B # {} PROVE FALSE
  OBVIOUS
<1>1. PICK s \in B : \A u \in B : u \subseteq s => u = s
  <2> IsFiniteSet(T)
    BY FS_Subset
  <2> B \in SUBSET (SUBSET T) OBVIOUS
  <2> HIDE DEF B
  <2> QED BY Least
<1>2. s # {}
  BY DEF Sums
<1>3. Pick(s) \in s
  BY <1>2 DEF Pick
<1>4. g[s \ {Pick(s)}] = h[s \ {Pick(s)}]
  BY <1>1, <1>3
<1> QED
  BY <1>1, <1>2, <1>4 DEF Sums

\* There is such a function for every finite set.
LEMMA SumsExist == ASSUME NEW f, NEW S, IsFiniteSet(S) PROVE \E g : Sums(g, f, S)
<1> DEFINE B == {T \in SUBSET S : ~ \E g : Sums(g, f, T)}
<1> SUFFICES ASSUME B # {} PROVE FALSE
  OBVIOUS
<1>1. PICK T \in B : \A U \in B : U \subseteq T => U = T
  <2> B \in SUBSET (SUBSET S) OBVIOUS
  <2> HIDE DEF B
  <2> QED BY Least
<1> DEFINE h(U) == CHOOSE g : Sums(g, f, U)
           rest(s) == s \ {Pick(s)}
           G == [s \in SUBSET T |-> IF s = {} THEN 0 ELSE f[Pick(s)] + h(rest(s))[rest(s)]]
<1>2. \A U \in SUBSET T : U # T => Sums(h(U), f, U)
  BY <1>1
<1>3. \A s \in SUBSET T : s # {} => Pick(s) \in s
  BY DEF Pick
<1>4. ASSUME NEW s \in SUBSET T, s # {} PROVE G[rest(s)] = h(rest(s))[rest(s)]
  <2> DEFINE r == rest(s)
             q == rest(r)
  <2>1. r \in SUBSET T /\ r # T /\ Sums(h(r), f, r)
    BY <1>2, <1>3, <1>4
  <2>2. CASE r = {}
    <3>1. h(r)[r] = 0
      <4> HIDE DEF h
      <4> QED BY <2>1, <2>2 DEF Sums
    <3>2. G[r] = 0
      BY <2>2
    <3> QED BY <3>1, <3>2
  <2>3. CASE r # {}
    <3>1. q \in SUBSET r /\ q # r /\ q # T /\ Sums(h(q), f, q) /\ IsFiniteSet(r)
      BY <1>2, <1>3, <2>1, <2>3, FS_Subset
    <3> HIDE DEF h
    <3>2. h(r)[q] = h(q)[q]
      BY <2>1, <3>1, SumsAgree
    <3>3. h(r)[r] = f[Pick(r)] + h(r)[q]
      BY <2>1, <2>3 DEF Sums
    <3>4. G[r] = f[Pick(r)] + h(q)[q]
      BY <2>1, <2>3
    <3> QED BY <3>2, <3>3, <3>4
  <2> QED BY <2>2, <2>3
<1>5. Sums(G, f, T)
  <2>1. \A s \in SUBSET T : G[s] = IF s = {} THEN 0 ELSE f[Pick(s)] + G[rest(s)]
    <3>1. \A s \in SUBSET T : G[s] = IF s = {} THEN 0 ELSE f[Pick(s)] + h(rest(s))[rest(s)]
      OBVIOUS
    <3> HIDE DEF G, h, rest
    <3> QED BY <1>4, <3>1
  <2>2. G = [s \in SUBSET T |-> G[s]]
    <3> HIDE DEF h, rest
    <3> QED OBVIOUS
  <2> HIDE DEF G
  <2> QED BY <2>1, <2>2 DEF Sums
<1> QED
  BY <1>1, <1>5

\* What SumFunctionOnSet computes.
LEMMA SumDef ==
    ASSUME NEW f, NEW S, IsFiniteSet(S)
    PROVE  \E g : Sums(g, f, S) /\ SumFunctionOnSet(f, S) = g[S]
<1> DEFINE Body(g) == [s \in SUBSET S |-> IF s = {} THEN 0 ELSE f[Pick(s)] + g[s \ {Pick(s)}]]
           iter == CHOOSE g : g = Body(g)
<1>1. SumFunctionOnSet(f, S) = iter[S]
  BY DEF SumFunctionOnSet, FoldFunctionOnSet, MapThenFoldSet, Pick
<1>2. PICK g : Sums(g, f, S)
  BY SumsExist
<1>3. g = Body(g)
  BY <1>2 DEF Sums
<1>4. iter = Body(iter)
  <2> HIDE DEF Body
  <2> QED BY <1>3
<1>5. Sums(iter, f, S)
  <2> DEFINE i == iter
  <2>1. i = Body(i)
    BY <1>4
  <2> HIDE DEF iter, i
  <2>2. Sums(i, f, S)
    BY <2>1 DEF Sums
  <2> QED BY <2>2 DEF i
<1> QED
  BY <1>1, <1>5

-----------------------------------------------------------------------------
\* A sum is a sum, in whatever order.
LEMMA SumEmpty == \A f : SumFunctionOnSet(f, {}) = 0
<1> TAKE f
<1>1. PICK g : Sums(g, f, {}) /\ SumFunctionOnSet(f, {}) = g[{}]
  BY SumDef, FS_EmptySet
<1> QED
  BY <1>1 DEF Sums

LEMMA SumPicked ==
    ASSUME NEW f, NEW S, IsFiniteSet(S), S # {}
    PROVE  /\ Pick(S) \in S
           /\ SumFunctionOnSet(f, S) = f[Pick(S)] + SumFunctionOnSet(f, S \ {Pick(S)})
<1> DEFINE R == S \ {Pick(S)}
<1>1. Pick(S) \in S
  BY DEF Pick
<1>2. PICK g : Sums(g, f, S) /\ SumFunctionOnSet(f, S) = g[S]
  BY SumDef
<1>3. IsFiniteSet(R)
  BY FS_Subset
<1>4. PICK h : Sums(h, f, R) /\ SumFunctionOnSet(f, R) = h[R]
  BY <1>3, SumDef
<1>5. g[R] = h[R]
  BY <1>2, <1>4, SumsAgree
<1> QED
  BY <1>1, <1>2, <1>4, <1>5 DEF Sums

LEMMA SumType ==
    ASSUME NEW S, IsFiniteSet(S), NEW f \in [S -> Int] PROVE \A T \in SUBSET S : SumFunctionOnSet(f, T) \in Int
<1> DEFINE B == {T \in SUBSET S : SumFunctionOnSet(f, T) \notin Int}
<1> SUFFICES ASSUME B # {} PROVE FALSE
  OBVIOUS
<1>1. PICK T \in B : \A U \in B : U \subseteq T => U = T
  <2> B \in SUBSET (SUBSET S) OBVIOUS
  <2> HIDE DEF B
  <2> QED BY Least
<1>2. IsFiniteSet(T) /\ T # {}
  <2>1. SumFunctionOnSet(f, {}) \in Int
    BY SumEmpty
  <2>2. T # {}
    BY <1>1, <2>1, Zenon
  <2>3. IsFiniteSet(T)
    BY <1>1, FS_Subset
  <2> QED
    BY <2>2, <2>3
<1>3. Pick(T) \in T /\ SumFunctionOnSet(f, T) = f[Pick(T)] + SumFunctionOnSet(f, T \ {Pick(T)})
  BY <1>2, SumPicked
<1>4. SumFunctionOnSet(f, T \ {Pick(T)}) \in Int /\ f[Pick(T)] \in Int
  BY <1>1, <1>3
<1> QED
  BY <1>1, <1>3, <1>4

\* Any element can be taken out.
LEMMA SumRemove ==
    ASSUME NEW S, IsFiniteSet(S), NEW f \in [S -> Int]
    PROVE  \A T \in SUBSET S : \A x \in T :
                SumFunctionOnSet(f, T) = f[x] + SumFunctionOnSet(f, T \ {x})
<1> DEFINE Good(T) == \A x \in T : SumFunctionOnSet(f, T) = f[x] + SumFunctionOnSet(f, T \ {x})
           B == {T \in SUBSET S : ~Good(T)}
<1> SUFFICES ASSUME B # {} PROVE FALSE
  OBVIOUS
<1>1. PICK T \in B : \A U \in B : U \subseteq T => U = T
  <2> B \in SUBSET (SUBSET S) OBVIOUS
  <2> HIDE DEF B
  <2> QED BY Least
<1>2. PICK x \in T : SumFunctionOnSet(f, T) # f[x] + SumFunctionOnSet(f, T \ {x})
  BY <1>1
<1> DEFINE y == Pick(T)
<1>3. y \in T /\ SumFunctionOnSet(f, T) = f[y] + SumFunctionOnSet(f, T \ {y})
  BY <1>2, SumPicked, FS_Subset
<1> HIDE DEF y
<1>4. x # y /\ x \in S /\ y \in S
  BY <1>1, <1>2, <1>3
<1>5. Good(T \ {x}) /\ Good(T \ {y})
  BY <1>1, <1>2, <1>3
<1>6. SumFunctionOnSet(f, T \ {y}) = f[x] + SumFunctionOnSet(f, (T \ {y}) \ {x})
  BY <1>2, <1>4, <1>5
<1>7. SumFunctionOnSet(f, T \ {x}) = f[y] + SumFunctionOnSet(f, (T \ {x}) \ {y})
  BY <1>3, <1>4, <1>5
<1>8. (T \ {x}) \ {y} = (T \ {y}) \ {x}
  OBVIOUS
<1>9. f[x] \in Int /\ f[y] \in Int
  BY <1>4
<1> DEFINE rest == SumFunctionOnSet(f, (T \ {x}) \ {y})
<1>10. rest \in Int
  BY SumType
<1>11. SumFunctionOnSet(f, T) = f[y] + (f[x] + rest)
  BY <1>3, <1>6, <1>8
<1>12. SumFunctionOnSet(f, T \ {x}) = f[y] + rest
  BY <1>7
<1> HIDE DEF rest
<1>13. f[y] + (f[x] + rest) = f[x] + (f[y] + rest)
  BY <1>9, <1>10
<1> QED
  BY <1>2, <1>11, <1>12, <1>13

\* A sum depends on the values in the set.
LEMMA SumSame ==
    ASSUME NEW S, IsFiniteSet(S), NEW f, NEW g, \A x \in S : f[x] = g[x]
    PROVE  SumFunctionOnSet(f, S) = SumFunctionOnSet(g, S)
<1> DEFINE B == {T \in SUBSET S : SumFunctionOnSet(f, T) # SumFunctionOnSet(g, T)}
<1> SUFFICES ASSUME B # {} PROVE FALSE
  OBVIOUS
<1>1. PICK T \in B : \A U \in B : U \subseteq T => U = T
  <2> B \in SUBSET (SUBSET S) OBVIOUS
  <2> HIDE DEF B
  <2> QED BY Least
<1>2. IsFiniteSet(T) /\ T # {}
  BY FS_Subset, SumEmpty
<1>3. /\ Pick(T) \in T
      /\ SumFunctionOnSet(f, T) = f[Pick(T)] + SumFunctionOnSet(f, T \ {Pick(T)})
      /\ SumFunctionOnSet(g, T) = g[Pick(T)] + SumFunctionOnSet(g, T \ {Pick(T)})
  BY <1>2, SumPicked
<1>4. SumFunctionOnSet(f, T \ {Pick(T)}) = SumFunctionOnSet(g, T \ {Pick(T)})
  BY <1>1, <1>3
<1> QED
  BY <1>1, <1>3, <1>4

\* One value changes.
LEMMA SumChange ==
    ASSUME NEW S, IsFiniteSet(S), NEW f \in [S -> Int], NEW g \in [S -> Int], NEW x \in S,
           \A y \in S \ {x} : g[y] = f[y]
    PROVE  SumFunction(g) = SumFunction(f) - f[x] + g[x]
<1>1. SumFunctionOnSet(f, S \ {x}) = SumFunctionOnSet(g, S \ {x})
  BY SumSame, FS_Subset
<1>2. SumFunctionOnSet(f, S \ {x}) \in Int
  BY SumType
<1>3. /\ SumFunctionOnSet(f, S) = f[x] + SumFunctionOnSet(f, S \ {x})
      /\ SumFunctionOnSet(g, S) = g[x] + SumFunctionOnSet(g, S \ {x})
  BY SumRemove
<1> QED
  BY <1>1, <1>2, <1>3 DEF SumFunction

LEMMA SumZero ==
    ASSUME NEW S, IsFiniteSet(S), NEW f \in [S -> Int], \A x \in S : f[x] = 0
    PROVE  SumFunction(f) = 0
<1> DEFINE B == {T \in SUBSET S : SumFunctionOnSet(f, T) # 0}
<1>0. CASE B = {}
  BY <1>0 DEF SumFunction
<1> SUFFICES ASSUME B # {} PROVE FALSE
  BY <1>0
<1>1. PICK T \in B : \A U \in B : U \subseteq T => U = T
  <2> B \in SUBSET (SUBSET S) OBVIOUS
  <2> HIDE DEF B
  <2> QED BY Least
<1>2. IsFiniteSet(T) /\ T # {}
  BY FS_Subset, SumEmpty
<1>3. Pick(T) \in T /\ SumFunctionOnSet(f, T) = f[Pick(T)] + SumFunctionOnSet(f, T \ {Pick(T)})
  BY <1>2, SumPicked
<1>4. SumFunctionOnSet(f, T \ {Pick(T)}) = 0 /\ f[Pick(T)] = 0
  BY <1>1, <1>3
<1> QED
  BY <1>1, <1>3, <1>4

-----------------------------------------------------------------------------
LiveWorkers == {w \in Worker : Live(w)}

\* activeWG counts the goroutines between Add and Done.
Counted == wg = Cardinality(LiveWorkers)

\* A goroutine that is live was started for a policy of the running generation.
LiveIsStarted == \A w \in Worker : Live(w) => w \in Jobs(started, gen)

\* The value a leaker is about to swap in respects the ceiling.
SwapFits == \A w \in Worker : work[w] = "swap" => cur[w] + Want(w) <= Ceiling

\* Memory is held by leakers only, and by none that has not begun or has ended.
Emptied == \A w \in Worker : work[w] \in {"off", "burn", "done"} => held[w] = 0

\* The daemon returns after the last of its goroutines.
ReturnedLast == monitor = "returned" => wg = 0

IInv == TypeOK /\ CeilingHonoured /\ Counted /\ LiveIsStarted /\ SwapFits

Books == Emptied /\ ReturnedLast /\ PoolBalanced

-----------------------------------------------------------------------------
\* There are finitely many workers.
LEMMA WorkerFinite == IsFiniteSet(Worker) /\ IsFiniteSet(LiveWorkers)
<1> DEFINE Pairs == ((1..MaxGen) \X (1..MaxLen)) \X {"cpu", "ram"}
           f == [w \in Worker |-> <<<<w[1], w[2]>>, w[3]>>]
<1>1. IsFiniteSet(1..MaxGen) /\ IsFiniteSet(1..MaxLen)
  BY ResourceAssumption, FS_Interval
<1>2. IsFiniteSet({"cpu", "ram"})
  <2>1. IsFiniteSet({"cpu"}) /\ IsFiniteSet({"ram"})
    BY FS_Singleton
  <2>2. {"cpu", "ram"} = {"cpu"} \cup {"ram"}
    OBVIOUS
  <2> QED
    BY <2>1, <2>2, FS_Union
<1>3. IsFiniteSet((1..MaxGen) \X (1..MaxLen))
  BY <1>1, FS_Product
<1>4. IsFiniteSet(Pairs)
  BY <1>2, <1>3, FS_Product
<1>5. f \in Injection(Worker, Pairs)
  <2>1. f \in [Worker -> Pairs]
    BY DEF Worker
  <2>2. \A v, w \in Worker : f[v] = f[w] => v = w
    BY DEF Worker
  <2> QED
    BY <2>1, <2>2 DEF Injection, IsInjective
<1>6. IsFiniteSet(Worker)
  <2> HIDE DEF f, Pairs
  <2> QED BY <1>4, <1>5, FS_Injection
<1> QED
  BY <1>6, FS_Subset DEF LiveWorkers

\* What runs is a sequence of policies, also when it is empty.
LEMMA ConfigType == Configs \cup {<<>>} \subseteq Seq(Policy)
<1>1. <<>> \in Seq(Policy)
  OBVIOUS
<1> QED
  BY <1>1, ResourceAssumption

\* What a live leaker asks for is a natural number.
LEMMA WantType ==
    ASSUME TypeOK, LiveIsStarted, NEW w \in Worker, Live(w)
    PROVE  w[2] \in DOMAIN started /\ started[w[2]] \in Policy /\ Want(w) \in Nat
<1>1. w[2] \in DOMAIN started
  BY DEF LiveIsStarted, Jobs
<1>2. started \in Seq(Policy)
  BY ConfigType DEF TypeOK
<1>3. started[w[2]] \in Policy
  BY <1>1, <1>2
<1> QED
  BY <1>1, <1>3 DEF Want, Policy

\* When the WaitGroup is at zero, no goroutine is live.
LEMMA NoneLive == ASSUME Counted, wg = 0 PROVE \A w \in Worker : ~Live(w)
<1>1. LiveWorkers = {}
  BY WorkerFinite, FS_EmptySet DEF Counted
<1> QED
  BY <1>1 DEF LiveWorkers

-----------------------------------------------------------------------------
LEMMA InitIInv == Init => IInv
<1> SUFFICES ASSUME Init PROVE IInv OBVIOUS
<1>0. shutdown \in BOOLEAN /\ active \in BOOLEAN
  BY Zenon DEF Init
<1>1. TypeOK
  BY <1>0, ResourceAssumption DEF Init, TypeOK
<1>2. LiveWorkers = {}
  BY DEF Init, LiveWorkers, Live
<1>3. Counted
  BY <1>2, FS_EmptySet DEF Init, Counted
<1> QED
  BY <1>1, <1>2, <1>3, ResourceAssumption
  DEF Init, IInv, CeilingHonoured, LiveIsStarted, SwapFits, LiveWorkers

\* A step that leaves goroutines, pool and generation alone.
LEMMA Untouched ==
    ASSUME IInv, UNCHANGED <<wg, work, leakVars, started, gen>>
    PROVE  CeilingHonoured' /\ Counted' /\ LiveIsStarted' /\ SwapFits'
  BY DEF IInv, CeilingHonoured, Counted, LiveIsStarted, SwapFits, LiveWorkers, Live, Want,
         leakVars

LEMMA EnvironmentStep == ASSUME IInv, Reconfigure \/ Shutdown PROVE IInv'
<1>1. CASE Reconfigure
  <2>1. TypeOK'
    BY <1>1, ResourceAssumption DEF IInv, TypeOK, Reconfigure, daemonVars, leakVars
  <2> QED
    BY <1>1, <2>1, Untouched DEF IInv, Reconfigure, daemonVars
<1>2. CASE Shutdown
  <2>0. shutdown' \in BOOLEAN
    BY <1>2, Zenon DEF Shutdown
  <2>1. TypeOK'
    BY <1>2, <2>0 DEF IInv, TypeOK, Shutdown, daemonVars, leakVars
  <2> QED
    BY <1>2, <2>1, Untouched DEF IInv, Shutdown, daemonVars
<1> QED
  BY <1>1, <1>2

\* The hash of a configuration is a set of its policies.
LEMMA HashType == ASSUME NEW ps \in Configs \cup {<<>>} PROVE CombinedHash(ps) \subseteq Policy
<1>1. ps \in Seq(Policy)
  BY ConfigType
<1> QED
  BY <1>1 DEF CombinedHash

LEMMA MonitorStep == ASSUME IInv, Monitor PROVE IInv'
<1>1. CASE Tick
  <2>1. TypeOK'
    BY <1>1 DEF IInv, TypeOK, Tick, leakVars
  <2> QED
    BY <1>1, <2>1, Untouched DEF IInv, Tick
<1>2. CASE Cleared
  <2>1. TypeOK'
    BY <1>2 DEF IInv, TypeOK, Cleared, leakVars
  <2>2. \A w \in Worker : ~Live(w) /\ ~Live(w)'
    BY <1>2, NoneLive DEF IInv, Cleared, Live
  <2>3. Counted'
    BY <1>2, <2>2 DEF IInv, Counted, LiveWorkers, Cleared
  <2>4. CeilingHonoured' /\ LiveIsStarted' /\ SwapFits'
    BY <1>2, <2>2
    DEF IInv, CeilingHonoured, LiveIsStarted, SwapFits, Cleared, leakVars, Live
  <2> QED
    BY <2>1, <2>3, <2>4 DEF IInv
<1>3. CASE Start
  <2>1. \A w \in Worker : ~Live(w)
    BY <1>3, NoneLive DEF IInv, Start
  <2> DEFINE J == Jobs(todo, gen + 1)
  <2>2. J \subseteq Worker /\ IsFiniteSet(J) /\ Cardinality(J) \in Nat
    BY WorkerFinite, FS_Subset, FS_CardinalityType DEF Jobs
  <2>3. TypeOK'
    <3>1. lastHash' \subseteq Policy
      BY <1>3, HashType DEF Start, IInv, TypeOK
    <3>2. active' \in BOOLEAN /\ shutdown' \in BOOLEAN
      BY <1>3, Zenon DEF Start, IInv, TypeOK
    <3>3. gen' \in 0 .. MaxGen /\ wg' \in Int
      <4> HIDE DEF J
      <4>1. wg' = wg + Cardinality(J) /\ gen' = gen + 1 /\ gen < MaxGen
        BY <1>3 DEF Start, J
      <4> QED
        BY <2>2, <4>1, ResourceAssumption DEF IInv, TypeOK
    <3>4. work' \in [Worker -> {"off", "burn", "reserve", "swap", "page", "wait", "free", "done"}]
      BY <1>3 DEF Start, IInv, TypeOK
    <3> QED
      BY <1>3, <3>1, <3>2, <3>3, <3>4 DEF Start, IInv, TypeOK, leakVars
  <2>4. \A w \in Worker : Live(w)' <=> w \in J
    BY <1>3, <2>1 DEF Start, Live, IInv, TypeOK
  <2>5. Counted'
    <3>1. LiveWorkers' = J
      BY <2>2, <2>4 DEF LiveWorkers
    <3>2. wg' = Cardinality(J)
      <4> HIDE DEF J
      <4>1. wg' = 0 + Cardinality(J)
        BY <1>3 DEF Start, J
      <4> QED BY <2>2, <4>1
    <3> QED
      BY <3>1, <3>2 DEF Counted
  <2>6. LiveIsStarted'
    BY <1>3, <2>4 DEF Start, LiveIsStarted
  <2>7. SwapFits'
    BY <1>3, <2>1 DEF Start, SwapFits, Live, IInv, TypeOK
  <2>8. CeilingHonoured'
    BY <1>3 DEF Start, CeilingHonoured, IInv, leakVars
  <2> QED
    BY <2>3, <2>5, <2>6, <2>7, <2>8 DEF IInv
<1>4. CASE Stop
  <2>1. TypeOK'
    BY <1>4 DEF IInv, TypeOK, Stop, leakVars
  <2> QED
    BY <1>4, <2>1, Untouched DEF IInv, Stop
<1>5. CASE Return
  <2>1. TypeOK'
    BY <1>5 DEF IInv, TypeOK, Return, leakVars
  <2> QED
    BY <1>5, <2>1, Untouched DEF IInv, Return
<1> QED
  BY <1>1, <1>2, <1>3, <1>4, <1>5 DEF Monitor

-----------------------------------------------------------------------------
\* A goroutine that moves on and stays live is still counted, one that ends
\* is counted off; the others are not affected.
LEMMA GotoCounts ==
    ASSUME IInv, NEW w \in Worker, NEW from, NEW to, Goto(w, from, to),
           from \notin {"off", "done"}, UNCHANGED <<started, gen>>,
           \/ to \notin {"off", "done"} /\ UNCHANGED wg
           \/ to = "done" /\ wg' = wg - 1
    PROVE  Counted' /\ LiveIsStarted'
<1>1. Live(w) /\ \A v \in Worker \ {w} : Live(v)' <=> Live(v)
  BY DEF Goto, Live, IInv, TypeOK
<1>2. LiveIsStarted'
  BY <1>1 DEF LiveIsStarted, IInv
<1>3. CASE to \notin {"off", "done"} /\ UNCHANGED wg
  <2>1. Live(w)'
    BY <1>3 DEF Goto, Live, IInv, TypeOK
  <2>2. LiveWorkers' = LiveWorkers
    BY <1>1, <2>1 DEF LiveWorkers
  <2> QED
    BY <1>2, <1>3, <2>2 DEF Counted, IInv
<1>4. CASE to = "done" /\ wg' = wg - 1
  <2>1. ~Live(w)'
    BY <1>4 DEF Goto, Live, IInv, TypeOK
  <2>2. LiveWorkers' = LiveWorkers \ {w} /\ w \in LiveWorkers
    BY <1>1, <2>1 DEF LiveWorkers
  <2>3. Cardinality(LiveWorkers') = Cardinality(LiveWorkers) - 1
    BY <2>2, WorkerFinite, FS_RemoveElement
  <2> QED
    BY <1>2, <1>4, <2>3 DEF Counted, IInv
<1> QED
  BY <1>3, <1>4

\* Types, when one goroutine moves.
LEMMA GotoTypes ==
    ASSUME IInv, NEW w \in Worker, NEW from,
           NEW to \in {"reserve", "swap", "page", "wait", "free", "done"}, Goto(w, from, to),
           UNCHANGED <<config, changes, shutdown, daemonVars>>, wg' \in Int,
           cur' \in [Worker -> Int], held' \in [Worker -> Nat], pool' \in Int
    PROVE  TypeOK'
<1>1. work' \in [Worker -> {"off", "burn", "reserve", "swap", "page", "wait", "free", "done"}]
  BY DEF Goto, IInv, TypeOK
<1> QED
  BY <1>1 DEF IInv, TypeOK, daemonVars

LEMMA RunStep == ASSUME IInv, NEW w \in Worker, Run(w) PROVE IInv'
<1> USE DEF IInv
<1>0. /\ UNCHANGED <<config, changes, shutdown, daemonVars, started, gen>>
      /\ wg \in Int /\ cur \in [Worker -> Int] /\ held \in [Worker -> Nat] /\ pool \in Int
      /\ Ceiling \in Nat
  BY ResourceAssumption DEF Run, daemonVars, TypeOK
<1>1. CASE Burn(w)
  <2>1. Goto(w, "burn", "done") /\ wg' = wg - 1 /\ UNCHANGED leakVars
    BY <1>1 DEF Burn
  <2>2. TypeOK' /\ Counted' /\ LiveIsStarted'
    BY <1>0, <2>1, GotoTypes, GotoCounts DEF leakVars
  <2>3. CeilingHonoured' /\ SwapFits'
    BY <1>0, <2>1 DEF CeilingHonoured, SwapFits, Want, Goto, leakVars, TypeOK
  <2> QED BY <2>2, <2>3
<1>2. CASE LoadPool(w)
  <2>1. CASE Goto(w, "reserve", "wait") /\ UNCHANGED <<wg, leakVars>>
    <3>1. TypeOK' /\ Counted' /\ LiveIsStarted'
      BY <1>0, <2>1, GotoTypes, GotoCounts DEF leakVars
    <3>2. CeilingHonoured' /\ SwapFits'
      BY <1>0, <2>1 DEF CeilingHonoured, SwapFits, Want, Goto, leakVars, TypeOK
    <3> QED BY <3>1, <3>2
  <2>2. CASE /\ Goto(w, "reserve", "swap") /\ pool + Want(w) <= Ceiling
             /\ cur' = [cur EXCEPT ![w] = pool] /\ UNCHANGED <<wg, held, pool>>
    <3>1. cur' \in [Worker -> Int]
      BY <1>0, <2>2
    <3>2. TypeOK' /\ Counted' /\ LiveIsStarted'
      BY <1>0, <2>2, <3>1, GotoTypes, GotoCounts
    <3>3. CeilingHonoured' /\ SwapFits'
      BY <1>0, <2>2 DEF CeilingHonoured, SwapFits, Want, Goto, TypeOK
    <3> QED BY <3>2, <3>3
  <2> QED
    BY <1>2, <2>1, <2>2 DEF LoadPool, leakVars
<1>3. CASE Swap(w)
  <2>1. cur' = [cur EXCEPT ![w] = 0] /\ UNCHANGED <<wg, held>>
    BY <1>3 DEF Swap
  <2>2. cur' \in [Worker -> Int]
    BY <1>0, <2>1
  <2>3. CASE pool = cur[w] /\ Goto(w, "swap", "page") /\ pool' = cur[w] + Want(w)
    <3>1. Live(w)
      BY <2>3 DEF Goto, Live
    <3>2. pool' \in Int /\ pool' <= Ceiling
      BY <1>0, <2>3, <3>1, WantType DEF SwapFits, Goto
    <3>3. TypeOK' /\ Counted' /\ LiveIsStarted'
      BY <1>0, <2>1, <2>2, <2>3, <3>2, GotoTypes, GotoCounts
    <3>4. CeilingHonoured' /\ SwapFits'
      BY <1>0, <2>1, <2>3, <3>2 DEF CeilingHonoured, SwapFits, Want, Goto, TypeOK
    <3> QED BY <3>3, <3>4
  <2>4. CASE Goto(w, "swap", "reserve") /\ UNCHANGED pool
    <3>1. TypeOK' /\ Counted' /\ LiveIsStarted'
      BY <1>0, <2>1, <2>2, <2>4, GotoTypes, GotoCounts
    <3>2. CeilingHonoured' /\ SwapFits'
      BY <1>0, <2>1, <2>4 DEF CeilingHonoured, SwapFits, Want, Goto, TypeOK
    <3> QED BY <3>1, <3>2
  <2> QED
    BY <1>3, <2>3, <2>4 DEF Swap
<1>4. CASE Page(w)
  <2>1. /\ Goto(w, "page", "wait") /\ held' = [held EXCEPT ![w] = @ + Want(w)]
        /\ UNCHANGED <<wg, cur, pool>>
    BY <1>4 DEF Page
  <2>2. Want(w) \in Nat
    BY <2>1, WantType DEF Goto, Live
  <2>3. held' \in [Worker -> Nat]
    BY <1>0, <2>1, <2>2
  <2>4. TypeOK' /\ Counted' /\ LiveIsStarted'
    BY <1>0, <2>1, <2>3, GotoTypes, GotoCounts
  <2>5. CeilingHonoured' /\ SwapFits'
    BY <1>0, <2>1 DEF CeilingHonoured, SwapFits, Want, Goto, TypeOK
  <2> QED BY <2>4, <2>5
<1>5. CASE LeakTick(w)
  <2>1. Goto(w, "wait", "reserve") /\ UNCHANGED <<wg, leakVars>>
    BY <1>5 DEF LeakTick
  <2>2. TypeOK' /\ Counted' /\ LiveIsStarted'
    BY <1>0, <2>1, GotoTypes, GotoCounts DEF leakVars
  <2>3. CeilingHonoured' /\ SwapFits'
    BY <1>0, <2>1 DEF CeilingHonoured, SwapFits, Want, Goto, leakVars, TypeOK
  <2> QED BY <2>2, <2>3
<1>6. CASE Unaccount(w)
  <2>1. Goto(w, "wait", "free") /\ pool' = pool - held[w] /\ UNCHANGED <<wg, cur, held>>
    BY <1>6 DEF Unaccount
  <2>2. pool' \in Int /\ pool' <= Ceiling
    BY <1>0, <2>1 DEF CeilingHonoured
  <2>3. TypeOK' /\ Counted' /\ LiveIsStarted'
    BY <1>0, <2>1, <2>2, GotoTypes, GotoCounts
  <2>4. CeilingHonoured' /\ SwapFits'
    BY <1>0, <2>1, <2>2 DEF CeilingHonoured, SwapFits, Want, Goto, TypeOK
  <2> QED BY <2>3, <2>4
<1>7. CASE Free(w)
  <2>1. /\ Goto(w, "free", "done") /\ held' = [held EXCEPT ![w] = 0] /\ wg' = wg - 1
        /\ UNCHANGED <<cur, pool>>
    BY <1>7 DEF Free
  <2>2. held' \in [Worker -> Nat]
    BY <1>0, <2>1
  <2>3. TypeOK' /\ Counted' /\ LiveIsStarted'
    BY <1>0, <2>1, <2>2, GotoTypes, GotoCounts
  <2>4. CeilingHonoured' /\ SwapFits'
    BY <1>0, <2>1 DEF CeilingHonoured, SwapFits, Want, Goto, TypeOK
  <2> QED BY <2>3, <2>4
<1> QED
  BY <1>1, <1>2, <1>3, <1>4, <1>5, <1>6, <1>7 DEF Run, Allocate, Leave

LEMMA NextIInv == IInv /\ [Next]_vars => IInv'
<1> SUFFICES ASSUME IInv, [Next]_vars PROVE IInv' OBVIOUS
<1>1. CASE Reconfigure \/ Shutdown
  BY <1>1, EnvironmentStep
<1>2. CASE Monitor
  BY <1>2, MonitorStep
<1>3. CASE \E w \in Worker : Run(w)
  BY <1>3, RunStep
<1>4. CASE UNCHANGED vars
  <2>1. TypeOK'
    BY <1>4 DEF IInv, TypeOK, vars, daemonVars, leakVars
  <2> QED
    BY <1>4, <2>1, Untouched DEF IInv, vars, daemonVars
<1> QED
  BY <1>1, <1>2, <1>3, <1>4 DEF Next, Finished

-----------------------------------------------------------------------------
\* The inductive invariant.
THEOREM Invariance == Spec => []IInv
BY InitIInv, NextIInv, PTL DEF Spec

\* Every variable has its type.
THEOREM TypeCorrect == Spec => []TypeOK
<1>1. IInv => TypeOK
  BY DEF IInv
<1> QED
  BY <1>1, Invariance, PTL

\* The pool counter never passes the ceiling, for any number of leakers.
THEOREM CeilingHolds == Spec => []CeilingHonoured
<1>1. IInv => CeilingHonoured
  BY DEF IInv
<1> QED
  BY <1>1, Invariance, PTL

\* Goroutines of two generations are never live at once.
THEOREM GenerationsApart == Spec => []OneGeneration
<1>1. IInv => OneGeneration
  BY DEF IInv, LiveIsStarted, Jobs, OneGeneration
<1> QED
  BY <1>1, Invariance, PTL

-----------------------------------------------------------------------------
\* The books: what every worker has reserved.
Account == [w \in Worker |-> Reserved(w)]
AccountInt == Account \in [Worker -> Int]

LEMMA AccountType == IInv => AccountInt
<1> SUFFICES ASSUME IInv, NEW w \in Worker PROVE Reserved(w) \in Int
  BY DEF Account, AccountInt
<1>1. held[w] \in Int
  BY DEF IInv, TypeOK
<1>2. work[w] = "page" => Want(w) \in Int
  BY WantType DEF IInv, Live
<1> QED
  BY <1>1, <1>2 DEF Reserved

LEMMA AccountTypeNext == IInv' => AccountInt'
BY AccountType, PTL

\* A step that leaves everybody's reservations as they are.
LEMMA SameAccount ==
    ASSUME Books, \A w \in Worker : Reserved(w)' = Reserved(w), UNCHANGED pool
    PROVE  PoolBalanced'
<1>1. Account' = Account
  BY DEF Account
<1> QED
  BY <1>1 DEF Books, PoolBalanced, Account

\* A step that changes one, and the pool by as much.
LEMMA OneAccount ==
    ASSUME IInv, IInv', Books, NEW w \in Worker,
           \A v \in Worker \ {w} : Reserved(v)' = Reserved(v),
           pool' = pool - Reserved(w) + Reserved(w)'
    PROVE  PoolBalanced'
<1> DEFINE f == Account
           g == Account'
<1>1. f \in [Worker -> Int] /\ g \in [Worker -> Int]
  BY AccountType, AccountTypeNext DEF AccountInt
<1>2. f[w] = Reserved(w) /\ g[w] = Reserved(w)' /\ \A v \in Worker \ {w} : g[v] = f[v]
  BY DEF Account
<1>3. SumFunction(g) = SumFunction(f) - f[w] + g[w]
  <2> HIDE DEF f, g
  <2> QED
    BY <1>1, <1>2, WorkerFinite, SumChange
<1>4. pool = SumFunction(f)
  BY DEF Books, PoolBalanced, Account
<1>5. pool' = SumFunction(g)
  BY <1>2, <1>3, <1>4
<1> QED
  BY <1>5 DEF PoolBalanced, Account

LEMMA InitBooks == Init => Books
<1> SUFFICES ASSUME Init PROVE Books
  OBVIOUS
<1>1. \A w \in Worker : Reserved(w) = 0
  BY DEF Init, Reserved
<1>2. Account \in [Worker -> Int] /\ \A w \in Worker : Account[w] = 0
  BY <1>1 DEF Account
<1>3. SumFunction(Account) = 0
  <2> DEFINE f == Account
  <2> HIDE DEF f
  <2> SUFFICES SumFunction(f) = 0
    BY DEF f
  <2>1. f \in [Worker -> Int] /\ \A w \in Worker : f[w] = 0
    BY <1>2 DEF f
  <2> QED
    BY <2>1, WorkerFinite, SumZero
<1> QED
  BY <1>3 DEF Init, Books, Emptied, ReturnedLast, PoolBalanced, Account

\* A goroutine keeps the books, whatever it does.
LEMMA RunBooks == ASSUME IInv, IInv', Books, NEW w \in Worker, Run(w) PROVE Books'
<1>0. /\ DOMAIN work = Worker /\ held \in [Worker -> Nat] /\ pool \in Int
      /\ UNCHANGED <<monitor, started>>
  BY DEF IInv, TypeOK, Run, daemonVars
<1>1. ReturnedLast'
  <2>1. monitor = "returned" => ~Live(w)
    BY NoneLive DEF IInv, Books, ReturnedLast
  <2>2. Live(w)
    BY DEF Run, Allocate, Leave, Burn, LoadPool, Swap, Page, LeakTick, Unaccount, Free, Goto, Live
  <2> QED
    BY <1>0, <2>1, <2>2 DEF ReturnedLast
\* What is left to show of a move.
<1> DEFINE Mine(from, to) == /\ Goto(w, from, to)
                             /\ held' = [held EXCEPT ![w] = held'[w]] /\ held'[w] \in Nat
                             /\ to \in {"burn", "done"} => held'[w] = 0
<1>2. ASSUME NEW from, NEW to, Mine(from, to), to # "off",
             pool' = pool - Reserved(w) + Reserved(w)'
      PROVE  Books'
  <2>1. \A v \in Worker \ {w} : work'[v] = work[v] /\ held'[v] = held[v]
    BY <1>0, <1>2 DEF Goto
  <2>2. work'[w] = to
    BY <1>0, <1>2 DEF Goto
  <2>3. Emptied'
    BY <1>2, <2>1, <2>2 DEF Emptied, Books
  <2>4. \A v \in Worker \ {w} : Reserved(v)' = Reserved(v)
    BY <1>0, <2>1 DEF Reserved, Want
  <2>5. PoolBalanced'
    BY <1>2, <2>4, OneAccount
  <2> QED
    BY <1>1, <2>3, <2>5 DEF Books
<1>3. CASE Burn(w)
  <2>1. Goto(w, "burn", "done") /\ UNCHANGED <<held, pool>> /\ held[w] = 0
    BY <1>3 DEF Burn, leakVars, Books, Emptied, Goto
  <2>2. Reserved(w) = 0 /\ Reserved(w)' = 0
    BY <1>0, <2>1 DEF Reserved, Goto
  <2> QED
    BY <1>0, <1>2, <2>1, <2>2
<1>4. CASE LoadPool(w)
  <2>1. PICK to \in {"wait", "swap"} : Goto(w, "reserve", to) /\ UNCHANGED <<held, pool>>
    BY <1>4 DEF LoadPool
  <2>2. Reserved(w) = held[w] /\ Reserved(w)' = held[w]
    BY <1>0, <2>1 DEF Reserved, Goto
  <2> QED
    BY <1>0, <1>2, <2>1, <2>2
<1>5. CASE Swap(w)
  <2>1. CASE pool = cur[w] /\ Goto(w, "swap", "page") /\ pool' = cur[w] + Want(w) /\ UNCHANGED held
    <3>1. Reserved(w) = held[w] /\ Reserved(w)' = held[w] + Want(w)'
      BY <1>0, <2>1 DEF Reserved, Goto
    <3>2. Want(w)' = Want(w) /\ Want(w) \in Nat
      BY <1>0, <2>1, WantType DEF IInv, Goto, Live, Want
    <3> QED
      BY <1>0, <1>2, <2>1, <3>1, <3>2
  <2>2. CASE Goto(w, "swap", "reserve") /\ UNCHANGED <<held, pool>>
    <3>1. Reserved(w) = held[w] /\ Reserved(w)' = held[w]
      BY <1>0, <2>2 DEF Reserved, Goto
    <3> QED
      BY <1>0, <1>2, <2>2, <3>1
  <2> QED
    BY <1>5, <2>1, <2>2 DEF Swap
<1>6. CASE Page(w)
  <2>1. /\ Goto(w, "page", "wait") /\ held' = [held EXCEPT ![w] = @ + Want(w)] /\ UNCHANGED pool
        /\ Want(w) \in Nat
    BY <1>6, WantType DEF Page, IInv, Goto, Live
  <2>2. Reserved(w) = held[w] + Want(w) /\ Reserved(w)' = held'[w] /\ held'[w] = held[w] + Want(w)
    BY <1>0, <2>1 DEF Reserved, Goto
  <2> QED
    BY <1>0, <1>2, <2>1, <2>2
<1>7. CASE LeakTick(w)
  <2>1. Goto(w, "wait", "reserve") /\ UNCHANGED <<held, pool>>
    BY <1>7 DEF LeakTick, leakVars
  <2>2. Reserved(w) = held[w] /\ Reserved(w)' = held[w]
    BY <1>0, <2>1 DEF Reserved, Goto
  <2> QED
    BY <1>0, <1>2, <2>1, <2>2
<1>8. CASE Unaccount(w)
  <2>1. Goto(w, "wait", "free") /\ pool' = pool - held[w] /\ UNCHANGED held
    BY <1>8 DEF Unaccount
  <2>2. Reserved(w) = held[w] /\ Reserved(w)' = 0
    BY <1>0, <2>1 DEF Reserved, Goto
  <2> QED
    BY <1>0, <1>2, <2>1, <2>2
<1>9. CASE Free(w)
  <2>1. Goto(w, "free", "done") /\ held' = [held EXCEPT ![w] = 0] /\ UNCHANGED pool
    BY <1>9 DEF Free
  <2>2. Reserved(w) = 0 /\ Reserved(w)' = 0 /\ held'[w] = 0
    BY <1>0, <2>1 DEF Reserved, Goto
  <2> QED
    BY <1>0, <1>2, <2>1, <2>2
<1> QED
  BY <1>3, <1>4, <1>5, <1>6, <1>7, <1>8, <1>9 DEF Run, Allocate, Leave

\* The daemon begins and clears when nobody has reserved anything, and returns
\* when nobody is left.
LEMMA MonitorBooks == ASSUME IInv, Books, Monitor PROVE Books'
<1>1. CASE Tick \/ Stop
  <2>1. UNCHANGED <<work, held, started, pool>> /\ monitor' # "returned"
    BY <1>1 DEF Tick, Stop, leakVars
  <2>2. \A w \in Worker : Reserved(w)' = Reserved(w)
    BY <2>1 DEF Reserved, Want
  <2> QED
    BY <2>1, <2>2, SameAccount DEF Books, Emptied, ReturnedLast
<1>2. CASE Return
  <2>1. UNCHANGED <<work, held, started, pool>> /\ wg' = 0
    BY <1>2 DEF Return, leakVars
  <2>2. \A w \in Worker : Reserved(w)' = Reserved(w)
    BY <2>1 DEF Reserved, Want
  <2> QED
    BY <2>1, <2>2, SameAccount DEF Books, Emptied, ReturnedLast
<1>3. CASE Cleared \/ Start
  <2>1. UNCHANGED <<held, pool>> /\ monitor' # "returned"
    BY <1>3 DEF Cleared, Start, leakVars
  <2>2. \A w \in Worker : work[w] \in {"off", "done"} /\ held[w] = 0
    BY <1>3, NoneLive DEF Cleared, Start, IInv, Books, Emptied, Live
  <2>3. \A w \in Worker : work'[w] \in {"off", "done", "reserve", "burn"}
    BY <1>3, <2>2 DEF Cleared, Start
  <2>4. \A w \in Worker : Reserved(w) = 0 /\ Reserved(w)' = 0
    BY <2>1, <2>2, <2>3 DEF Reserved
  <2>5. Emptied'
    BY <2>1, <2>2 DEF Emptied
  <2> QED
    BY <2>1, <2>4, <2>5, SameAccount DEF Books, ReturnedLast
<1> QED
  BY <1>1, <1>2, <1>3 DEF Monitor

LEMMA NextBooks == ASSUME IInv, IInv', Books, [Next]_vars PROVE Books'
<1>1. CASE Reconfigure \/ Shutdown \/ UNCHANGED vars
  <2>1. UNCHANGED <<work, held, started, pool, monitor, wg>>
    BY <1>1 DEF Reconfigure, Shutdown, vars, daemonVars, leakVars
  <2>2. \A w \in Worker : Reserved(w)' = Reserved(w)
    BY <2>1 DEF Reserved, Want
  <2> QED
    BY <2>1, <2>2, SameAccount DEF Books, Emptied, ReturnedLast
<1> QED
  BY <1>1, MonitorBooks, RunBooks DEF Next, Finished

-----------------------------------------------------------------------------
\* The pool counter is what the leakers have reserved, for any number of them.
THEOREM BooksBalance == Spec => []PoolBalanced
<1>1. IInv /\ IInv' /\ Books /\ [Next]_vars => Books'
  BY NextBooks
<1>2. Books => PoolBalanced
  BY DEF Books
<1> QED
  BY Invariance, InitBooks, <1>1, <1>2, PTL DEF Spec

\* When the daemon has returned, no goroutine is left and the pool is empty.
THEOREM QuietInTheEnd == Spec => []QuietAfterReturn
<1>1. IInv /\ Books => QuietAfterReturn
  <2> SUFFICES ASSUME IInv, Books, monitor = "returned"
               PROVE  pool = 0 /\ \A w \in Worker : ~Live(w)
    BY DEF QuietAfterReturn
  <2>1. \A w \in Worker : ~Live(w)
    BY NoneLive DEF IInv, Books, ReturnedLast
  <2>2. \A w \in Worker : Reserved(w) = 0
    BY <2>1 DEF Reserved, Live
  <2> DEFINE f == Account
  <2>3. f \in [Worker -> Int] /\ \A w \in Worker : f[w] = 0
    BY <2>2 DEF Account
  <2>4. pool = SumFunction(f)
    BY DEF Books, PoolBalanced, Account
  <2> HIDE DEF f
  <2>5. SumFunction(f) = 0
    BY <2>3, WorkerFinite, SumZero
  <2> QED
    BY <2>1, <2>4, <2>5
<1>2. IInv /\ IInv' /\ Books /\ [Next]_vars => Books'
  BY NextBooks
<1> QED
  BY Invariance, InitBooks, <1>1, <1>2, PTL DEF Spec
=============================================================================
