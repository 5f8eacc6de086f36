--------------------------- MODULE PastaayctlProofs ---------------------------
(***************************************************************************)
(* What holds of pastaayctl for any files, flags, thresholds and ramps,    *)
(* over a network that loses and delays: how a command ends, what          *)
(* autopilot may claim, and that its guard and the webhook read a          *)
(* configuration alike.                                                    *)
(***************************************************************************)
EXTENDS Pastaayctl, SequenceTheorems, WellFoundedInduction, TLAPS

-----------------------------------------------------------------------------
\* The schema.

LEMMA Keys ==
    /\ \A f \in DOMAIN Camel : f \in Field /\ Camel[f] \notin Field /\ Camel[f] \notin DOMAIN Camel
    /\ \A f, g \in DOMAIN Camel : Camel[f] = Camel[g] => f = g
<1> DEFINE Snakes == {"latency_chance", "latency_duration", "error_chance", "error_code", "error_body",
                      "match_headers", "drop_connection", "stream_roll_mode", "throttle_threshold",
                      "ram_chunk_mb", "ram_interval"}
<1>1. DOMAIN Camel = Snakes
  BY DEF Camel
<1>2. Field = Snakes \cup {"type", "target"}
  BY DEF Field, Kind
<1>3. \A f \in Snakes : Camel[f] \notin Snakes /\ Camel[f] \notin {"type", "target"}
  BY DEF Camel
<1>4. \A f, g \in Snakes : Camel[f] = Camel[g] => f = g
  BY DEF Camel
<1> QED
  BY <1>1, <1>2, <1>3, <1>4

\* What a policy holds under its camelCase keys.
LEMMA CameledHolds ==
    ASSUME NEW node, NEW f \in DOMAIN Camel
    PROVE  /\ f \notin DOMAIN Cameled(node)
           /\ Camel[f] \in DOMAIN Cameled(node) <=> f \in DOMAIN node \/ Camel[f] \in DOMAIN node
           /\ f \in DOMAIN node => Cameled(node)[Camel[f]] = node[f]
           /\ f \notin DOMAIN node /\ Camel[f] \in DOMAIN node => Cameled(node)[Camel[f]] = node[Camel[f]]
<1>1. Respelled(f) = Camel[f] /\ Respelled(Camel[f]) = Camel[f] /\ \A k \in DOMAIN node : Respelled(k) # f
  BY Keys DEF Respelled
<1>2. Snaked(Camel[f], node) = IF f \in DOMAIN node THEN {f} ELSE {}
  BY Keys DEF Snaked
<1>3. \A k \in DOMAIN node : Respelled(k) = Camel[f] => k = f \/ k = Camel[f]
  BY Keys DEF Respelled
<1> QED
  BY <1>1, <1>2, <1>3 DEF Cameled

LEMMA CameledKeeps ==
    ASSUME NEW node, NEW f \in Field \ DOMAIN Camel
    PROVE  /\ f \in DOMAIN Cameled(node) <=> f \in DOMAIN node
           /\ f \in DOMAIN node => Cameled(node)[f] = node[f]
<1>1. Respelled(f) = f /\ Snaked(f, node) = {} /\ \A k \in DOMAIN node : Respelled(k) = f => k = f
  BY Keys DEF Respelled, Snaked
<1> QED
  BY <1>1 DEF Cameled

\* Both spellings of a well-formed policy mean the same.
LEMMA SpellingsAgree ==
    ASSUME NEW node, WellFormed(node)
    PROVE  WellFormed(Cameled(node)) /\ Decode(Cameled(node)) = Decode(node)
<1>1. WellFormed(Cameled(node))
  BY CameledHolds, CameledKeeps DEF WellFormed, Fits
<1>2. ASSUME NEW f \in Field
      PROVE  Decode(Cameled(node))[f] = Decode(node)[f]
  <2>1. CASE f \in DOMAIN Camel /\ f \in DOMAIN node
    <3>1. Fits(f, node[f])
      BY <2>1 DEF WellFormed
    <3> QED
      BY <2>1, <3>1, CameledHolds DEF Decode, ByCamel, Fits
  <2>2. CASE f \in DOMAIN Camel /\ f \notin DOMAIN node
    BY <2>2, CameledHolds DEF Decode, ByCamel, Fits
  <2>3. CASE f \notin DOMAIN Camel
    BY <2>3, CameledKeeps DEF Decode, ByCamel
  <2> QED
    BY <2>1, <2>2, <2>3
<1> QED
  BY <1>1, <1>2 DEF Decode

\* Numbers decode to numbers.
NumberField == {f \in Field : Kind[f] \in {"number", "duration"}}

LEMMA NumbersDecode ==
    ASSUME NEW node \in Nodes, WellFormed(node), NEW f \in NumberField
    PROVE  Decode(node)[f] \in Int
<1>1. CASE f \in DOMAIN node
  BY <1>1, CtlAssumption DEF Decode, WellFormed, Fits, NumberField
<1>2. CASE ByCamel(f, node) /\ f \notin DOMAIN node
  BY <1>2, CtlAssumption DEF Decode, ByCamel, Fits, NumberField
<1>3. CASE ~ByCamel(f, node) /\ f \notin DOMAIN node
  <2>1. ZeroOf["number"] = 0 /\ ZeroOf["duration"] = 0
    BY DEF ZeroOf
  <2> QED
    BY <1>3, <2>1 DEF Decode, NumberField
<1> QED
  BY <1>1, <1>2, <1>3

\* A document is decoded one policy after the other.
LEMMA DecodedPolicies ==
    ASSUME NEW conf, NEW S, conf \in [version : Int, warmup : Int, protected : BOOLEAN, policies : Seq(S)]
    PROVE  /\ DOMAIN Decoded(conf).policies = DOMAIN conf.policies
           /\ Decoded(conf).policies \in Seq({Decode(n) : n \in S})
           /\ Len(Decoded(conf).policies) = Len(conf.policies)
           /\ \A i \in DOMAIN conf.policies : Decoded(conf).policies[i] = Decode(conf.policies[i])
           /\ Decoded(conf).version = conf.version /\ Decoded(conf).warmup = conf.warmup
           /\ Decoded(conf).protected = conf.protected
           /\ Decoded(conf) \in [version : Int, warmup : Int, protected : BOOLEAN,
                                 policies : Seq({Decode(n) : n \in S})]
<1> DEFINE ps == [i \in DOMAIN conf.policies |-> Decode(conf.policies[i])]
           n == Len(conf.policies)
<1>1. conf.policies \in Seq(S) /\ n \in Nat /\ DOMAIN conf.policies = 1 .. n
  BY LenProperties
<1>2. ps \in [1 .. n -> {Decode(x) : x \in S}]
  BY <1>1
<1>3. ps \in Seq({Decode(x) : x \in S}) /\ Len(ps) = n
  <2> HIDE DEF ps, n
  <2>1. ps \in Seq({Decode(x) : x \in S})
    BY <1>1, <1>2
  <2> QED
    BY <1>1, <1>2, <2>1, LenProperties
<1>4. Decoded(conf) = [version |-> conf.version, warmup |-> conf.warmup, protected |-> conf.protected,
                       policies |-> ps]
  BY DEF Decoded
<1>5. Decoded(conf) \in [version : Int, warmup : Int, protected : BOOLEAN, policies : Seq({Decode(x) : x \in S})]
  <2> HIDE DEF ps
  <2> QED BY <1>3, <1>4
<1> QED
  BY <1>1, <1>3, <1>4, <1>5

-----------------------------------------------------------------------------
\* Products.

\* Induction, over a set of numbers.
LEMMA Reaches ==
    ASSUME NEW B \in SUBSET Nat, 0 \in B, \A n \in B : n + 1 \in B
    PROVE  B = Nat
<1> DEFINE T == Nat \ B
<1> SUFFICES ASSUME T # {} PROVE FALSE
  OBVIOUS
<1>1. PICK n \in T : \A m \in T : ~(<<m, n>> \in OpToRel(<, Nat))
  <2>1. T \subseteq Nat
    OBVIOUS
  <2> HIDE DEF T
  <2> QED BY <2>1, NatLessThanWellFounded, WFMin
<1>2. \A m \in T : ~(m < n)
  BY <1>1 DEF OpToRel
<1>3. n \in Nat /\ n # 0 /\ n - 1 \in Nat /\ n - 1 < n
  OBVIOUS
<1>4. n - 1 \in B /\ (n - 1) + 1 = n
  BY <1>2, <1>3
<1> QED
  BY <1>4

\* Every step of a product.
Parts(p, first, fs, N) == p = [n \in 0 .. N |-> IF n = 0 THEN first ELSE p[n - 1] * fs[n]]

LEMMA PartsExist == ASSUME NEW first, NEW fs, NEW N \in Nat PROVE \E p : Parts(p, first, fs, N)
<1> DEFINE B == {n \in Nat : \E p : Parts(p, first, fs, n)}
<1>1. 0 \in B
  <2> DEFINE p == [n \in 0 .. 0 |-> first]
  <2>1. Parts(p, first, fs, 0)
    BY DEF Parts
  <2> QED BY <2>1
<1>2. ASSUME NEW n \in B PROVE n + 1 \in B
  <2>1. PICK p : Parts(p, first, fs, n)
    BY <1>2
  <2> DEFINE q == [m \in 0 .. n + 1 |-> IF m = n + 1 THEN p[n] * fs[n + 1] ELSE p[m]]
  <2>2. \A m \in 0 .. n : p[m] = IF m = 0 THEN first ELSE p[m - 1] * fs[m]
    BY <2>1 DEF Parts
  <2>3. n \in Nat /\ DOMAIN q = 0 .. n + 1
    OBVIOUS
  <2>4. ASSUME NEW m \in 0 .. n + 1 PROVE q[m] = IF m = 0 THEN first ELSE q[m - 1] * fs[m]
    <3>1. CASE m = n + 1
      <4>1. m # 0 /\ m - 1 = n /\ n \in 0 .. n + 1 /\ n # n + 1
        BY <2>3, <3>1
      <4>2. q[m] = p[n] * fs[m] /\ q[m - 1] = p[n]
        BY <3>1, <4>1
      <4> QED BY <4>1, <4>2
    <3>2. CASE m # n + 1
      <4>1. m \in 0 .. n /\ (m # 0 => m - 1 \in 0 .. n + 1 /\ m - 1 # n + 1)
        BY <2>3, <3>2
      <4>2. q[m] = p[m] /\ (m # 0 => q[m - 1] = p[m - 1])
        BY <3>2, <4>1
      <4> HIDE DEF q
      <4> QED BY <2>2, <4>1, <4>2
    <3> QED BY <3>1, <3>2
  <2>5. Parts(q, first, fs, n + 1)
    <3>1. q = [m \in 0 .. n + 1 |-> q[m]]
      OBVIOUS
    <3> HIDE DEF q
    <3> QED BY <2>4, <3>1 DEF Parts
  <2> QED
    BY <2>3, <2>5
<1>3. B = Nat
  <2> B \in SUBSET Nat OBVIOUS
  <2> HIDE DEF B
  <2> QED BY <1>1, <1>2, Reaches
<1> QED
  BY <1>3

\* Numbers of which each is the one before it times a factor.
Chain(p, fs, N) ==
    /\ \A n \in 0 .. N : p[n] \in Nat
    /\ \A n \in 1 .. N : p[n] = p[n - 1] * fs[n]

LEMMA ProductIs ==
    ASSUME NEW first \in Nat, NEW fs, NEW N \in Nat, Len(fs) = N, \A n \in 1 .. N : fs[n] \in Nat
    PROVE  \E p : Chain(p, fs, N) /\ p[0] = first /\ Product(first, fs) = p[N]
<1> DEFINE Body(p) == [n \in 0 .. Len(fs) |-> IF n = 0 THEN first ELSE p[n - 1] * fs[n]]
           part == CHOOSE p : p = Body(p)
<1>1. Product(first, fs) = part[N]
  BY DEF Product
<1>2. part = Body(part)
  <2>1. PICK p : Parts(p, first, fs, N)
    BY PartsExist
  <2>2. p = Body(p)
    BY <2>1 DEF Parts
  <2> HIDE DEF Body
  <2> QED BY <2>2
<1> DEFINE p == part
<1>3. p = Body(p)
  BY <1>2
<1> HIDE DEF part, p
<1>4. p[0] = first /\ \A n \in 1 .. N : p[n] = p[n - 1] * fs[n]
  BY <1>3
<1> DEFINE B == {n \in Nat : n <= N => p[n] \in Nat}
<1>5. B = Nat
  <2>1. 0 \in B
    BY <1>4
  <2>2. ASSUME NEW n \in B PROVE n + 1 \in B
    <3>1. n \in Nat /\ n + 1 \in Nat /\ (n + 1) - 1 = n
      OBVIOUS
    <3>2. n + 1 <= N => n <= N /\ n + 1 \in 1 .. N
      OBVIOUS
    <3>3. n + 1 <= N => p[n + 1] = p[n] * fs[n + 1] /\ p[n] \in Nat /\ fs[n + 1] \in Nat
      BY <1>4, <2>2, <3>1, <3>2
    <3> QED BY <3>1, <3>3
  <2> B \in SUBSET Nat OBVIOUS
  <2> HIDE DEF B
  <2> QED BY <2>1, <2>2, Reaches
<1>6. \A n \in 0 .. N : p[n] \in Nat
  <2> TAKE n \in 0 .. N
  <2>1. n \in B /\ n <= N
    <3> HIDE DEF B
    <3> QED BY <1>5
  <2> QED BY <2>1
<1>7. Chain(p, fs, N)
  BY <1>4, <1>6 DEF Chain
<1> QED
  BY <1>1, <1>4, <1>7 DEF p

LEMMA TimesGrow ==
    ASSUME NEW a \in Nat, NEW b \in Nat, NEW c \in Nat, NEW x \in Nat, NEW y \in Nat, a <= c * b, x <= y
    PROVE  a * x <= c * (b * y)
<1> DEFINE d == c * b
<1>1. d \in Nat /\ a <= d
  OBVIOUS
<1>2. c * (b * y) = d * y
  OBVIOUS
<1>3. a * x <= d * y
  <2> HIDE DEF d
  <2> QED BY <1>1
<1> QED
  BY <1>2, <1>3

\* Where the factors of one are no greater from some place on, neither is what
\* they make of a number that is at most so many times the other.
LEMMA ChainsCompare ==
    ASSUME NEW p, NEW q, NEW fs, NEW gs, NEW n \in Nat, NEW m \in Nat, Chain(p, fs, n), Chain(q, gs, m),
           NEW a \in Nat, NEW b \in Nat, NEW l \in Nat, a + l <= n, b + l <= m,
           NEW c \in Nat, p[a] <= c * q[b],
           \A k \in 1 .. l : fs[a + k] \in Nat /\ gs[b + k] \in Nat /\ fs[a + k] <= gs[b + k]
    PROVE  p[a + l] <= c * q[b + l]
<1> DEFINE B == {k \in Nat : k <= l => p[a + k] <= c * q[b + k]}
<1>1. 0 \in B
  OBVIOUS
<1>2. ASSUME NEW k \in B, k + 1 <= l PROVE p[a + (k + 1)] <= c * q[b + (k + 1)]
  <2> DEFINE i == a + (k + 1)
             j == b + (k + 1)
  <2>1. k \in Nat /\ i \in 1 .. n /\ j \in 1 .. m /\ i - 1 = a + k /\ j - 1 = b + k /\ k + 1 \in 1 .. l
    BY <1>2
  <2>2. p[a + k] \in Nat /\ q[b + k] \in Nat /\ p[i] = p[a + k] * fs[i] /\ q[j] = q[b + k] * gs[j]
    <3>1. a + k \in 0 .. n /\ b + k \in 0 .. m
      BY <2>1
    <3> QED BY <2>1, <3>1 DEF Chain
  <2>3. fs[i] \in Nat /\ gs[j] \in Nat /\ fs[i] <= gs[j] /\ p[a + k] <= c * q[b + k]
    BY <1>2, <2>1
  <2> HIDE DEF i, j
  <2>4. p[i] <= c * q[j]
    BY <2>2, <2>3, TimesGrow
  <2> QED BY <2>4 DEF i, j
<1>3. B = Nat
  <2>1. \A k \in B : k + 1 \in B
    BY <1>2
  <2> B \in SUBSET Nat OBVIOUS
  <2> HIDE DEF B
  <2> QED BY <1>1, <2>1, Reaches
<1>4. l \in B
  <2> HIDE DEF B
  <2> QED BY <1>3
<1> QED
  BY <1>4

LEMMA DivIs ==
    ASSUME NEW x \in Nat, NEW y \in Nat, y >= 1
    PROVE  x \div y \in Nat /\ (x \div y) * y <= x /\ x < ((x \div y) + 1) * y
BY SMT

LEMMA DivReaches ==
    ASSUME NEW x \in Nat, NEW y \in Nat, y >= 1, NEW d \in Nat, d * y <= x
    PROVE  d <= x \div y
<1> DEFINE e == x \div y
<1>1. e \in Nat /\ x < (e + 1) * y
  BY DivIs
<1> HIDE DEF e
<1>2. d * y < (e + 1) * y
  BY <1>1
<1>3. d < e + 1
  <2> SUFFICES ASSUME d >= e + 1 PROVE FALSE
    BY <1>1
  <2>1. d * y >= (e + 1) * y
    BY <1>1
  <2> QED BY <1>2, <2>1, <1>1
<1> QED BY <1>1, <1>3 DEF e

\* Without one of the factors, each at most a thousand, no less than a thousandth
\* is left.
Whole == 1000
Part == 0 .. Whole

LEMMA PartIs == \A x \in Part : x \in Nat /\ x <= Whole
BY DEF Part, Whole

LEMMA LeftWithout ==
    ASSUME NEW p, NEW q, NEW fs, NEW gs, NEW j \in Nat, NEW l \in Nat,
           Chain(p, fs, j + 1 + l), Chain(q, gs, j + l), p[0] = q[0],
           \A k \in 1 .. j + 1 + l : fs[k] \in Part,
           \A k \in 1 .. j + l : gs[k] \in Part,
           \A k \in 1 .. j : fs[k] <= gs[k],
           \A k \in 1 .. l : fs[j + 1 + k] <= gs[j + k]
    PROVE  p[j + 1 + l] <= Whole * q[j + l]
<1> DEFINE n == j + 1 + l
           m == j + l
           i == j + 1
<1>1. n \in Nat /\ m \in Nat /\ i \in Nat /\ i \in 1 .. n /\ j \in 0 .. n /\ j \in 0 .. m /\ i - 1 = j
      /\ i + l = n /\ j + l = m /\ 0 + j = j /\ j <= n /\ j <= m
  OBVIOUS
<1>2. \A k \in 1 .. n : fs[k] \in Nat /\ fs[k] <= Whole
  BY PartIs
<1>3. \A k \in 1 .. m : gs[k] \in Nat
  BY PartIs
<1>4. \A k \in 1 .. j : k \in 1 .. n /\ k \in 1 .. m /\ 0 + k = k
  OBVIOUS
<1>5. \A k \in 1 .. l : i + k \in 1 .. n /\ j + k \in 1 .. m
  OBVIOUS
<1>6. Chain(p, fs, n) /\ Chain(q, gs, m) /\ \A k \in 1 .. l : fs[i + k] <= gs[j + k]
  OBVIOUS
<1> HIDE DEF n, m, i
<1>7. /\ p[0] \in Nat /\ q[0] \in Nat /\ q[j] \in Nat /\ p[j] \in Nat
      /\ p[i] = p[j] * fs[i]
  <2>1. 0 \in 0 .. n /\ 0 \in 0 .. m
    BY <1>1
  <2> QED BY <1>1, <1>6, <2>1 DEF Chain
<1>8. p[j] <= 1 * q[j]
  <2>1. \A k \in 1 .. j : fs[0 + k] \in Nat /\ gs[0 + k] \in Nat /\ fs[0 + k] <= gs[0 + k]
    BY <1>2, <1>3, <1>4
  <2>2. p[0] <= 1 * q[0] /\ 0 + j <= n /\ 0 + j <= m /\ 0 \in Nat /\ 1 \in Nat
    BY <1>1, <1>7
  <2>3. p[0 + j] <= 1 * q[0 + j]
    BY <1>1, <1>6, <2>1, <2>2, ChainsCompare
  <2> QED BY <1>1, <2>3
<1>9. p[i] <= Whole * q[j]
  <2> DEFINE x == p[j]
             y == q[j]
             z == fs[i]
  <2>1. x \in Nat /\ y \in Nat /\ z \in Nat /\ x <= 1 * y /\ z <= Whole /\ Whole \in Nat
    BY <1>1, <1>2, <1>7, <1>8 DEF Whole
  <2> HIDE DEF x, y, z
  <2>2. x * z <= 1 * (y * Whole)
    BY <2>1, TimesGrow
  <2>3. x * z <= Whole * y
    BY <2>1, <2>2
  <2> QED BY <1>7, <2>3 DEF x, y, z
<1>10. \A k \in 1 .. l : fs[i + k] \in Nat /\ gs[j + k] \in Nat /\ fs[i + k] <= gs[j + k]
  BY <1>2, <1>3, <1>5, <1>6
<1>11. p[i + l] <= Whole * q[j + l]
  <2>1. Whole \in Nat /\ i + l <= n /\ j + l <= m
    BY <1>1 DEF Whole
  <2> QED BY <1>1, <1>6, <1>9, <1>10, <2>1, ChainsCompare
<1> QED
  BY <1>1, <1>11 DEF n, m

\* The units of lists of policies.
LEMMA UnitIs ==
    ASSUME NEW ps, NEW n \in Nat, Len(ps) = n, DOMAIN ps = 1 .. n
    PROVE  \E u : Chain(u, [k \in 1 .. n |-> 1000], n) /\ u[0] = 1 /\ Unit(ps) = u[n] /\ u[n] >= 1
<1> DEFINE fs == [k \in 1 .. n |-> 1000]
<1>1. Len(fs) = n /\ \A k \in 1 .. n : fs[k] \in Nat
  <2>1. fs \in Seq({1000})
    OBVIOUS
  <2> QED BY <2>1, LenProperties
<1>2. Unit(ps) = Product(1, fs)
  BY DEF Unit
<1>3. PICK u : Chain(u, fs, n) /\ u[0] = 1 /\ Product(1, fs) = u[n]
  <2> HIDE DEF fs
  <2>1. 1 \in Nat
    OBVIOUS
  <2> QED BY <1>1, <2>1, ProductIs
<1> DEFINE B == {k \in Nat : k <= n => u[k] >= 1}
<1>4. B = Nat
  <2>1. 0 \in B
    BY <1>3
  <2>2. ASSUME NEW k \in B, k + 1 <= n PROVE u[k + 1] >= 1
    <3>1. k \in Nat /\ k <= n /\ k + 1 \in 1 .. n /\ (k + 1) - 1 = k /\ k \in 0 .. n
      BY <2>2
    <3>2. u[k + 1] = u[k] * 1000 /\ u[k] \in Nat /\ u[k] >= 1
      BY <1>3, <2>2, <3>1 DEF Chain
    <3> QED BY <3>2
  <2>3. \A k \in B : k + 1 \in B
    BY <2>2
  <2> B \in SUBSET Nat OBVIOUS
  <2> HIDE DEF B
  <2> QED BY <2>1, <2>3, Reaches
<1>5. u[n] >= 1
  <2>1. n \in B
    <3> HIDE DEF B
    <3> QED BY <1>4
  <2> QED BY <2>1
<1> QED
  BY <1>2, <1>3, <1>5

LEMMA UnitOfOneMore ==
    ASSUME NEW ps, NEW qs, NEW n \in Nat, Len(ps) = n + 1, DOMAIN ps = 1 .. n + 1, Len(qs) = n, DOMAIN qs = 1 .. n
    PROVE  Unit(qs) \in Nat /\ Unit(qs) >= 1 /\ Unit(ps) = Whole * Unit(qs)
<1> DEFINE fs == [k \in 1 .. n + 1 |-> 1000]
           gs == [k \in 1 .. n |-> 1000]
<1>1. PICK u : Chain(u, fs, n + 1) /\ u[0] = 1 /\ Unit(ps) = u[n + 1]
  BY UnitIs
<1>2. PICK v : Chain(v, gs, n) /\ v[0] = 1 /\ Unit(qs) = v[n] /\ v[n] >= 1
  BY UnitIs
<1>3. \A k \in 1 .. n : fs[0 + k] \in Nat /\ gs[0 + k] \in Nat /\ fs[0 + k] = gs[0 + k]
  OBVIOUS
<1>4. fs[n + 1] = Whole /\ Whole \in Nat
  BY DEF Whole
<1> HIDE DEF fs, gs
<1>5. u[0 + n] <= 1 * v[0 + n] /\ v[0 + n] <= 1 * u[0 + n]
  <2>1. 0 + n <= n + 1 /\ 0 + n <= n /\ n + 1 \in Nat /\ 0 \in Nat /\ 1 \in Nat
        /\ u[0] <= 1 * v[0] /\ v[0] <= 1 * u[0]
    BY <1>1, <1>2
  <2>2. \A k \in 1 .. n : fs[0 + k] <= gs[0 + k] /\ gs[0 + k] <= fs[0 + k]
    BY <1>3
  <2> QED
    BY <1>1, <1>2, <1>3, <2>1, <2>2, ChainsCompare
<1>6. u[n] \in Nat /\ v[n] \in Nat /\ u[n + 1] = u[n] * fs[n + 1]
  <2>1. n \in 0 .. n /\ n \in 0 .. n + 1 /\ n + 1 \in 1 .. n + 1 /\ (n + 1) - 1 = n
    OBVIOUS
  <2> QED BY <1>1, <1>2, <2>1 DEF Chain
<1> QED
  BY <1>1, <1>2, <1>4, <1>5, <1>6

\* A policy less leaves no higher score.
LEMMA ScoresCompare ==
    ASSUME NEW u \in Nat, u >= 1, NEW l \in Nat, NEW m \in Nat, l <= 100 * u, m <= Whole * l
    PROVE  (100 * u - l) \div u <= (100 * (Whole * u) - m) \div (Whole * u)
<1>0. Whole \in Nat /\ Whole >= 1
  BY DEF Whole
<1> DEFINE x == 100 * u - l
           y == 100 * (Whole * u) - m
           z == Whole * u
           d == x \div u
<1>1. x \in Nat /\ y \in Nat /\ z \in Nat /\ z >= 1 /\ Whole * x <= y
  BY DEF Whole
<1>2. d \in Nat /\ d * u <= x
  <2> HIDE DEF x
  <2> QED BY <1>1, DivIs
<1>3. d * z <= y
  <2>1. d * z = Whole * (d * u)
    <3> HIDE DEF d
    <3> QED BY <1>0, <1>2
  <2> DEFINE e == d * u
  <2>2. e \in Nat /\ e <= x /\ d * z = Whole * e
    <3>1. e \in Nat
      <4> HIDE DEF d
      <4> QED BY <1>2
    <3> QED BY <1>2, <2>1, <3>1
  <2> HIDE DEF e, d, x, y, z
  <2> QED BY <1>1, <2>2 DEF Whole
<1>4. d <= y \div z
  <2> HIDE DEF d, x, y, z
  <2> QED BY <1>1, <1>2, <1>3, DivReaches
<1> QED
  BY <1>4

-----------------------------------------------------------------------------
\* The guard.

\* The greatest of the numbers of a set, and of two sets.
Top(S, m) == m \in S /\ \A x \in S : x \in Int /\ x <= m

LEMMA TopIsMax == ASSUME NEW S, NEW m, Top(S, m) PROVE Max(S) = m
BY DEF Top, Max

LEMMA TopOfOne == ASSUME NEW x \in Int PROVE Top({x}, x)
BY DEF Top

LEMMA TopOfBoth ==
    ASSUME NEW S, NEW T, NEW m, NEW n, Top(S, m), Top(T, n)
    PROVE  Top(S \cup T, IF m >= n THEN m ELSE n)
BY DEF Top

HasTop(S) == \E m \in Nat : Top(S, m)

LEMMA SomeTop ==
    /\ \A x \in Nat : HasTop({x})
    /\ \A S, T : HasTop(S) /\ HasTop(T) => HasTop(S \cup T)
<1>1. ASSUME NEW x \in Nat PROVE HasTop({x})
  BY TopOfOne DEF HasTop
<1>2. ASSUME NEW S, NEW T, HasTop(S), HasTop(T) PROVE HasTop(S \cup T)
  <2>1. PICK m \in Nat : Top(S, m)
    BY <1>2 DEF HasTop
  <2>2. PICK n \in Nat : Top(T, n)
    BY <1>2 DEF HasTop
  <2>3. Top(S \cup T, IF m >= n THEN m ELSE n)
    BY <2>1, <2>2, TopOfBoth
  <2> QED
    BY <2>3 DEF HasTop
<1> QED
  BY <1>1, <1>2

\* A decoded policy that the guard can weigh.
Numbers(p) ==
    /\ \A f \in {"error_chance", "latency_chance", "latency_duration", "ram_chunk_mb", "throttle_threshold"} :
          p[f] \in Int
    /\ p.error_chance >= 0 /\ p.latency_chance >= 0

LEMMA SeverityIsNat == ASSUME NEW p, Numbers(p) PROVE Severity(p) \in Nat
<1> DEFINE a == IF p.drop_connection THEN 100 ELSE 0
           b == p.error_chance
           c == (p.latency_chance * LatencyWeight(p)) \div 10
           S == {a, b, c}
           d == RAMSeverity(p.ram_chunk_mb)
           e == CPUSeverity(p.throttle_threshold)
           T == IF p.type = "resource" THEN {d, e} ELSE {}
<1>1. a \in Nat /\ b \in Nat
  BY DEF Numbers
<1>2. c \in Nat
  <2>1. LatencyWeight(p) \in {3, 6, 10} /\ p.latency_chance \in Nat
    BY DEF LatencyWeight, Numbers
  <2> QED
    BY <2>1
<1>3. d \in Nat /\ e \in Nat
  BY DEF Numbers, RAMSeverity, CPUSeverity
<1>4. Severity(p) = Max(S \cup T)
  BY DEF Severity
<1>5. HasTop(S \cup T)
  <2> HIDE DEF a, b, c, d, e
  <2>1. HasTop(S)
    <3>1. HasTop({a}) /\ HasTop({b}) /\ HasTop({c})
      BY <1>1, <1>2, SomeTop
    <3>2. HasTop(({a} \cup {b}) \cup {c})
      BY <3>1, SomeTop
    <3>3. S = ({a} \cup {b}) \cup {c}
      OBVIOUS
    <3> QED
      BY <3>2, <3>3
  <2>2. CASE T = {d, e}
    <3>1. HasTop({d}) /\ HasTop({e}) /\ T = {d} \cup {e}
      BY <1>3, <2>2, SomeTop
    <3> HIDE DEF S, T
    <3> QED
      BY <2>1, <3>1, SomeTop
  <2>3. CASE T = {}
    <3>1. S \cup T = S
      BY <2>3
    <3> QED
      BY <2>1, <3>1
  <2> QED
    BY <2>2, <2>3
<1> QED
  <2> HIDE DEF S, T
  <2> QED BY <1>4, <1>5, TopIsMax DEF HasTop

LEMMA MinOfTwo == ASSUME NEW x \in Int, NEW y \in Int PROVE Min({x, y}) = IF x <= y THEN x ELSE y
BY DEF Min

LEMMA Capped == ASSUME NEW x \in Nat PROVE Min({950, x}) = IF 950 <= x THEN 950 ELSE x
BY MinOfTwo

\* The risk of a policy grows with its scope only.
LEMMA ScopeIs ==
    ASSUME NEW ps, NEW i
    PROVE  Scope(ps, i) = IF GlobalTarget(ps[i]) THEN 10 ELSE IF Collides(ps, i) THEN 6 ELSE 4
BY MinOfTwo DEF Scope

Loss == 0 .. 950

LEMMA RiskIs ==
    ASSUME NEW ps, NEW i, Numbers(ps[i])
    PROVE  Risk(ps, i) \in Loss
<1>1. Severity(ps[i]) \in Nat /\ Scope(ps, i) \in {4, 6, 10}
  BY SeverityIsNat, ScopeIs
<1> DEFINE x == Severity(ps[i]) * Scope(ps, i)
<1>2. x \in Nat
  BY <1>1
<1>3. Min({950, x}) \in 0 .. 950
  <2> HIDE DEF x
  <2> QED BY <1>2, Capped
<1> QED
  BY <1>3 DEF Risk, Loss

LEMMA RiskGrowsWithScope ==
    ASSUME NEW ps, NEW qs, NEW i, NEW j, ps[i] = qs[j], Numbers(ps[i]), Collides(ps, i) => Collides(qs, j)
    PROVE  Risk(ps, i) <= Risk(qs, j)
<1> DEFINE s == Severity(ps[i])
           a == Scope(ps, i)
           b == Scope(qs, j)
<1>1. s \in Nat /\ a \in {4, 6, 10} /\ b \in {4, 6, 10} /\ a <= b
  BY SeverityIsNat, ScopeIs
<1>2. Severity(qs[j]) = s
  OBVIOUS
<1>3. s * a \in Nat /\ s * b \in Nat /\ s * a <= s * b
  <2> HIDE DEF s, a, b
  <2> QED BY <1>1
<1>4. Min({950, s * a}) <= Min({950, s * b})
  <2> DEFINE x == s * a
             y == s * b
  <2>1. x \in Nat /\ y \in Nat /\ x <= y
    BY <1>3
  <2> HIDE DEF x, y
  <2>2. Min({950, x}) = IF 950 <= x THEN 950 ELSE x
    BY <2>1, Capped
  <2>3. Min({950, y}) = IF 950 <= y THEN 950 ELSE y
    BY <2>1, Capped
  <2>4. Min({950, x}) <= Min({950, y})
    BY <2>1, <2>2, <2>3
  <2> QED
    BY <2>4 DEF x, y
<1> QED
  BY <1>2, <1>4 DEF Risk

\* What is left of a list without one of its members.
Removed(ps, i) == SubSeq(ps, 1, i - 1) \o SubSeq(ps, i + 1, Len(ps))

LEMMA RemovedIs ==
    ASSUME NEW S, NEW ps \in Seq(S), NEW j \in Nat, NEW l \in Nat, Len(ps) = j + 1 + l
    PROVE  /\ Removed(ps, j + 1) \in Seq(S) /\ Len(Removed(ps, j + 1)) = j + l
           /\ \A k \in 1 .. j : Removed(ps, j + 1)[k] = ps[k]
           /\ \A k \in 1 .. l : Removed(ps, j + 1)[j + k] = ps[j + 1 + k]
<1> DEFINE n == Len(ps)
           s == SubSeq(ps, 1, j)
           t == SubSeq(ps, j + 2, n)
<1>1. n \in Nat /\ \A k \in 1 .. n : ps[k] \in S
  BY ElementOfSeq
<1>2. s \in Seq(S) /\ Len(s) = j /\ \A k \in 1 .. j : s[k] = ps[k]
  <2>1. /\ 1 \in Int /\ j \in Int /\ (IF 1 <= j THEN j - 1 + 1 ELSE 0) = j /\ j - 1 + 1 = j
        /\ \A k \in 1 .. j : ps[k] \in S /\ 1 + k - 1 = k
    BY <1>1
  <2>2. /\ s \in Seq(S) /\ Len(s) = (IF 1 <= j THEN j - 1 + 1 ELSE 0)
        /\ \A k \in 1 .. j - 1 + 1 : s[k] = ps[1 + k - 1]
    BY <2>1, SubSeqProperties
  <2> HIDE DEF s
  <2> QED BY <2>1, <2>2
<1>3. t \in Seq(S) /\ Len(t) = l /\ \A k \in 1 .. l : t[k] = ps[j + 1 + k]
  <2>1. /\ j + 2 \in Int /\ n \in Int /\ (IF j + 2 <= n THEN n - (j + 2) + 1 ELSE 0) = l
        /\ n - (j + 2) + 1 = l
        /\ \A k \in j + 2 .. n : ps[k] \in S
        /\ \A k \in 1 .. l : (j + 2) + k - 1 = j + 1 + k
    BY <1>1
  <2>2. /\ t \in Seq(S) /\ Len(t) = (IF j + 2 <= n THEN n - (j + 2) + 1 ELSE 0)
        /\ \A k \in 1 .. n - (j + 2) + 1 : t[k] = ps[(j + 2) + k - 1]
    <3> HIDE DEF n
    <3> QED BY <2>1, SubSeqProperties
  <2> HIDE DEF t, n
  <2> QED BY <2>1, <2>2
<1>4. Removed(ps, j + 1) = s \o t
  <2>1. (j + 1) - 1 = j /\ (j + 1) + 1 = j + 2
    OBVIOUS
  <2> QED BY <2>1 DEF Removed
<1> DEFINE r == Removed(ps, j + 1)
<1> HIDE DEF s, t, r
<1>5. /\ r \in Seq(S) /\ Len(r) = j + l
      /\ \A k \in 1 .. j + l : r[k] = IF k <= j THEN s[k] ELSE t[k - j]
  <2>1. /\ s \o t \in Seq(S) /\ Len(s \o t) = Len(s) + Len(t)
        /\ \A k \in 1 .. Len(s) + Len(t) : (s \o t)[k] = IF k <= Len(s) THEN s[k] ELSE t[k - Len(s)]
    BY <1>2, <1>3, ConcatProperties
  <2>2. r = s \o t /\ Len(s) = j /\ Len(t) = l
    BY <1>2, <1>3, <1>4 DEF r
  <2> QED BY <2>1, <2>2
<1>6. \A k \in 1 .. j : r[k] = ps[k]
  BY <1>2, <1>5
<1>7. ASSUME NEW k \in 1 .. l PROVE r[j + k] = ps[j + 1 + k]
  <2>1. j + k \in 1 .. j + l /\ ~(j + k <= j) /\ (j + k) - j = k
    OBVIOUS
  <2> QED BY <1>3, <1>5, <2>1
<1> QED
  BY <1>5, <1>6, <1>7 DEF r

\* Those that it collides with, it collided with before.
LEMMA CollidesStill ==
    ASSUME NEW S, NEW ps \in Seq(S), NEW j \in Nat, NEW l \in Nat, Len(ps) = j + 1 + l
    PROVE  /\ \A k \in 1 .. j : Collides(Removed(ps, j + 1), k) => Collides(ps, k)
           /\ \A k \in 1 .. l : Collides(Removed(ps, j + 1), j + k) => Collides(ps, j + 1 + k)
<1> DEFINE r == Removed(ps, j + 1)
<1>1. /\ \A k \in 1 .. j : r[k] = ps[k]
      /\ \A k \in 1 .. l : r[j + k] = ps[j + 1 + k]
  BY RemovedIs
<1> HIDE DEF r
<1>2. ASSUME NEW k \in 1 .. j, Collides(r, k) PROVE Collides(ps, k)
  <2>1. \A h \in 1 .. k - 1 : h \in 1 .. j
    OBVIOUS
  <2> QED BY <1>1, <1>2, <2>1 DEF Collides
<1>3. ASSUME NEW k \in 1 .. l, Collides(r, j + k) PROVE Collides(ps, j + 1 + k)
  <2>1. PICK h \in 1 .. (j + k) - 1 : /\ ~Harmless(r[h]) /\ Lower(r[h].type) = Lower(r[j + k].type)
                                      /\ Lower(r[h].target) = Lower(r[j + k].target)
    BY <1>3 DEF Collides
  <2>2. r[j + k] = ps[j + 1 + k]
    BY <1>1
  <2>3. \E g \in 1 .. (j + 1 + k) - 1 : ps[g] = r[h]
    <3>1. CASE h \in 1 .. j
      <4>1. h \in 1 .. (j + 1 + k) - 1
        OBVIOUS
      <4> QED BY <1>1, <3>1, <4>1
    <3>2. CASE h \notin 1 .. j
      <4>1. h - j \in 1 .. l /\ j + (h - j) = h /\ j + 1 + (h - j) \in 1 .. (j + 1 + k) - 1
        BY <3>2
      <4> QED BY <1>1, <4>1
    <3> QED BY <3>1, <3>2
  <2> QED
    BY <2>1, <2>2, <2>3 DEF Collides
<1> QED
  BY <1>2, <1>3 DEF r

\* What each policy lets survive, and what all of them do.
Factors(ps) == [k \in DOMAIN ps |-> 1000 - Risk(ps, k)]

LEMMA FactorsAreParts ==
    ASSUME NEW ps, \A k \in DOMAIN ps : Numbers(ps[k])
    PROVE  \A k \in DOMAIN ps : Factors(ps)[k] \in Part
<1> TAKE k \in DOMAIN ps
<1> DEFINE x == Risk(ps, k)
<1>1. x \in Loss
  BY RiskIs
<1>2. 1000 - x \in Part
  <2> HIDE DEF x
  <2> QED BY <1>1 DEF Loss, Part, Whole
<1> QED
  BY <1>2 DEF Factors

LEMMA FactorsShrink ==
    ASSUME NEW ps, NEW qs, NEW i \in DOMAIN ps, NEW j \in DOMAIN qs, qs[j] = ps[i], Numbers(ps[i]),
           Collides(qs, j) => Collides(ps, i)
    PROVE  Factors(ps)[i] <= Factors(qs)[j]
<1> DEFINE x == Risk(ps, i)
           y == Risk(qs, j)
<1>1. Numbers(qs[j])
  OBVIOUS
<1>2. x \in Loss /\ y \in Loss
  BY <1>1, RiskIs
<1>3. y <= x
  BY <1>1, RiskGrowsWithScope
<1>4. 1000 - x <= 1000 - y
  <2> HIDE DEF x, y
  <2> QED BY <1>2, <1>3 DEF Loss
<1> QED
  BY <1>4 DEF Factors

Survives(c, p, n) ==
    Chain(p, Factors(c.policies), n) /\ p[0] = (IF c.protected THEN 100 ELSE 85) /\ Survival(c) = p[n]

LEMMA SurvivalIs ==
    ASSUME NEW c, NEW n \in Nat, Len(c.policies) = n, DOMAIN c.policies = 1 .. n,
           \A k \in 1 .. n : Numbers(c.policies[k])
    PROVE  /\ \E p : Survives(c, p, n)
           /\ Survival(c) \in Nat /\ Survival(c) <= 100 * Unit(c.policies)
<1> DEFINE ps == c.policies
           first == IF c.protected THEN 100 ELSE 85
           fs == Factors(ps)
           ones == [k \in 1 .. n |-> 1000]
<1>1. \A k \in 1 .. n : fs[k] \in Nat /\ fs[k] <= 1000
  <2>1. \A k \in 1 .. n : fs[k] \in Part
    BY FactorsAreParts
  <2> HIDE DEF fs
  <2> QED BY <2>1, PartIs DEF Whole
<1>2. first \in Nat /\ first <= 100
  OBVIOUS
<1>3. Len(fs) = n
  <2>1. DOMAIN fs = 1 .. n /\ fs = [k \in 1 .. n |-> fs[k]]
    BY DEF Factors
  <2> HIDE DEF fs
  <2>2. fs \in Seq(Nat)
    BY <1>1, <2>1
  <2> QED BY <2>1, <2>2, LenProperties
<1>4. Survival(c) = Product(first, fs)
  BY DEF Survival, Factors
<1>5. PICK p : Chain(p, fs, n) /\ p[0] = first /\ Product(first, fs) = p[n]
  <2> HIDE DEF first, fs
  <2> QED BY <1>1, <1>2, <1>3, ProductIs
<1>6. PICK u : Chain(u, ones, n) /\ u[0] = 1 /\ Unit(ps) = u[n]
  BY UnitIs
<1>7. \A k \in 1 .. n : ones[0 + k] = 1000 /\ 0 + k = k
  OBVIOUS
<1> HIDE DEF first, fs, ones
<1>8. p[0 + n] <= 100 * u[0 + n]
  <2>1. \A k \in 1 .. n : fs[0 + k] \in Nat /\ ones[0 + k] \in Nat /\ fs[0 + k] <= ones[0 + k]
    BY <1>1, <1>7
  <2> DEFINE t == 100
  <2>2. t \in Nat /\ p[0] <= t * u[0] /\ 0 \in Nat /\ 0 + n <= n
    BY <1>2, <1>5, <1>6
  <2> HIDE DEF t
  <2>3. p[0 + n] <= t * u[0 + n]
    BY <1>5, <1>6, <2>1, <2>2, ChainsCompare
  <2> QED BY <2>3 DEF t
<1>9. p[n] \in Nat /\ 0 + n = n
  BY <1>5 DEF Chain
<1> QED
  BY <1>4, <1>5, <1>6, <1>8, <1>9 DEF first, fs, Survives

LEMMA Remaining ==
    ASSUME NEW c, NEW d, NEW n \in Nat, NEW m \in Nat, NEW j \in Nat, NEW l \in Nat, n = j + 1 + l, m = j + l,
           Len(c.policies) = n, DOMAIN c.policies = 1 .. n, Len(d.policies) = m, DOMAIN d.policies = 1 .. m,
           \A k \in 1 .. n : Numbers(c.policies[k]), \A k \in 1 .. m : Numbers(d.policies[k]),
           d.protected = c.protected,
           \A k \in 1 .. j : Factors(c.policies)[k] <= Factors(d.policies)[k],
           \A k \in 1 .. l : Factors(c.policies)[j + 1 + k] <= Factors(d.policies)[j + k]
    PROVE  Survival(c) <= Whole * Survival(d)
<1> DEFINE fs == Factors(c.policies)
           gs == Factors(d.policies)
<1>1. PICK p : Survives(c, p, n)
  BY SurvivalIs
<1>2. PICK q : Survives(d, q, m)
  BY SurvivalIs
<1>3. /\ \A k \in 1 .. n : fs[k] \in Part
      /\ \A k \in 1 .. m : gs[k] \in Part
  BY FactorsAreParts
<1> HIDE DEF fs, gs
<1>4. p[0] = q[0] /\ Chain(p, fs, j + 1 + l) /\ Chain(q, gs, j + l)
  BY <1>1, <1>2 DEF Survives, fs, gs
<1>5. p[j + 1 + l] <= Whole * q[j + l]
  <2>1. /\ \A k \in 1 .. j + 1 + l : fs[k] \in Part
        /\ \A k \in 1 .. j + l : gs[k] \in Part
        /\ \A k \in 1 .. j : fs[k] <= gs[k]
        /\ \A k \in 1 .. l : fs[j + 1 + k] <= gs[j + k]
    BY <1>3 DEF fs, gs
  <2> QED BY <1>4, <2>1, LeftWithout, Zenon
<1> QED
  BY <1>1, <1>2, <1>5 DEF Survives

\* A policy less: less of a risk.
LEMMA LessIsLess ==
    ASSUME NEW S, NEW c \in [version : Int, warmup : Int, protected : BOOLEAN, policies : Seq(S)],
           \A i \in DOMAIN c.policies : Numbers(c.policies[i])
    PROVE  RiskGrows(c)
<1> SUFFICES ASSUME NEW i \in DOMAIN c.policies PROVE Score(Without(c, i)) <= Score(c)
  BY DEF RiskGrows
<1> DEFINE ps == c.policies
           qs == Removed(ps, i)
           d == Without(c, i)
           n == Len(ps)
           j == i - 1
           l == n - i
           m == j + l
<1>1. ps \in Seq(S) /\ n \in Nat /\ DOMAIN ps = 1 .. n
  <2>1. ps \in Seq(S)
    OBVIOUS
  <2> HIDE DEF ps
  <2> QED BY <2>1, LenProperties
<1>2. /\ j \in Nat /\ l \in Nat /\ m \in Nat /\ j + 1 = i /\ n = j + 1 + l /\ m = j + l /\ n = m + 1
      /\ \A k \in 1 .. j : k \in 1 .. n /\ k \in 1 .. m
      /\ \A k \in 1 .. l : j + 1 + k \in 1 .. n /\ j + k \in 1 .. m
      /\ \A k \in 1 .. m : k \in 1 .. j \/ (k - j \in 1 .. l /\ j + (k - j) = k)
  <2>1. i \in 1 .. n
    BY <1>1
  <2>2. j \in Nat /\ l \in Nat /\ m \in Nat /\ j + 1 = i /\ n = j + 1 + l /\ m = j + l /\ n = m + 1
    <3> HIDE DEF n
    <3> QED BY <1>1, <2>1
  <2> HIDE DEF n, j, l, m
  <2> QED BY <2>2
<1>3. d.policies = qs /\ d.protected = c.protected
  BY DEF Without, Removed
<1> HIDE DEF ps, d, n, j, l, m
<1>4. /\ qs \in Seq(S) /\ Len(qs) = m
      /\ \A k \in 1 .. j : qs[k] = ps[k]
      /\ \A k \in 1 .. l : qs[j + k] = ps[j + 1 + k]
      /\ \A k \in 1 .. j : Collides(qs, k) => Collides(ps, k)
      /\ \A k \in 1 .. l : Collides(qs, j + k) => Collides(ps, j + 1 + k)
  <2>1. Len(ps) = j + 1 + l
    BY <1>2 DEF n
  <2>2. /\ Removed(ps, j + 1) \in Seq(S) /\ Len(Removed(ps, j + 1)) = j + l
        /\ \A k \in 1 .. j : Removed(ps, j + 1)[k] = ps[k]
        /\ \A k \in 1 .. l : Removed(ps, j + 1)[j + k] = ps[j + 1 + k]
    <3>1. ps \in Seq(S) /\ j \in Nat /\ l \in Nat
      BY <1>1, <1>2
    <3> HIDE DEF qs
    <3> QED BY <2>1, <3>1, RemovedIs
  <2>3. /\ \A k \in 1 .. j : Collides(Removed(ps, j + 1), k) => Collides(ps, k)
        /\ \A k \in 1 .. l : Collides(Removed(ps, j + 1), j + k) => Collides(ps, j + 1 + k)
    BY <1>1, <1>2, <2>1, CollidesStill
  <2> QED BY <1>2, <2>2, <2>3, Zenon
<1> HIDE DEF qs
<1>5. DOMAIN qs = 1 .. m
  BY <1>4, LenProperties
<1>6. \A k \in 1 .. n : Numbers(ps[k])
  BY <1>1 DEF ps
<1>7. \A k \in 1 .. m : Numbers(qs[k])
  <2> TAKE k \in 1 .. m
  <2>1. CASE k \in 1 .. j
    BY <1>2, <1>4, <1>6, <2>1
  <2>2. CASE k - j \in 1 .. l /\ j + (k - j) = k
    <3>1. qs[k] = ps[j + 1 + (k - j)] /\ j + 1 + (k - j) \in 1 .. n
      BY <1>2, <1>4, <2>2
    <3> QED BY <1>6, <3>1
  <2> QED BY <1>2, <2>1, <2>2
<1>8. \A k \in 1 .. j : Factors(ps)[k] <= Factors(qs)[k]
  BY <1>1, <1>2, <1>4, <1>5, <1>6, FactorsShrink
<1>9. \A k \in 1 .. l : Factors(ps)[j + 1 + k] <= Factors(qs)[j + k]
  BY <1>1, <1>2, <1>4, <1>5, <1>6, FactorsShrink
<1> DEFINE u == Unit(qs)
           L == Survival(c)
           M == Survival(d)
<1>10. /\ u \in Nat /\ u >= 1 /\ Unit(ps) = Whole * u
       /\ L \in Nat /\ L <= 100 * (Whole * u) /\ M \in Nat /\ M <= 100 * u /\ L <= Whole * M
  <2>1. u \in Nat /\ u >= 1 /\ Unit(ps) = Whole * u
    BY <1>1, <1>2, <1>4, <1>5, UnitOfOneMore DEF n
  <2>2. L \in Nat /\ L <= 100 * Unit(ps)
    BY <1>1, <1>6, SurvivalIs DEF n, ps
  <2>3. M \in Nat /\ M <= 100 * u
    BY <1>2, <1>3, <1>4, <1>5, <1>7, SurvivalIs
  <2>4. L <= Whole * M
    <3>1. /\ n \in Nat /\ m \in Nat /\ j \in Nat /\ l \in Nat /\ n = j + 1 + l /\ m = j + l
          /\ Len(d.policies) = m /\ DOMAIN d.policies = 1 .. m
          /\ \A k \in 1 .. m : Numbers(d.policies[k])
          /\ d.protected = c.protected
      BY <1>1, <1>2, <1>3, <1>4, <1>5, <1>7
    <3>2. /\ Len(c.policies) = n /\ DOMAIN c.policies = 1 .. n
          /\ \A k \in 1 .. n : Numbers(c.policies[k])
      BY <1>1, <1>6 DEF n, ps
    <3>3. /\ \A k \in 1 .. j : Factors(c.policies)[k] <= Factors(d.policies)[k]
          /\ \A k \in 1 .. l : Factors(c.policies)[j + 1 + k] <= Factors(d.policies)[j + k]
      BY <1>3, <1>8, <1>9 DEF ps
    <3> QED BY <3>1, <3>2, <3>3, Remaining, Zenon DEF L, M
  <2> HIDE DEF u, L, M
  <2> QED BY <2>1, <2>2, <2>3, <2>4
<1>11. Score(c) = (100 * (Whole * u) - L) \div (Whole * u)
  <2>1. ps # <<>>
    <3>1. n # 0
      BY <1>2
    <3> QED BY <3>1 DEF n
  <2>2. TotalRisk(c) = 100 * Unit(ps) - L
    BY <2>1 DEF TotalRisk, ps
  <2> QED BY <1>10, <2>2, Zenon DEF Score, ps
<1>12. TotalRisk(d) = 0 \/ TotalRisk(d) = 100 * u - M
  BY <1>3 DEF TotalRisk
<1>13. Score(d) = TotalRisk(d) \div u
  BY <1>3 DEF Score
<1> HIDE DEF u, L, M
<1>14. CASE TotalRisk(d) = 100 * u - M
  <2>1. (100 * u - M) \div u <= (100 * (Whole * u) - L) \div (Whole * u)
    BY <1>10, ScoresCompare
  <2> QED BY <1>11, <1>13, <1>14, <2>1, Zenon DEF d
<1>15. CASE TotalRisk(d) = 0
  <2> DEFINE x == 100 * (Whole * u) - L
             y == Whole * u
  <2>1. x \in Nat /\ y \in Nat /\ y >= 1
    BY <1>10 DEF Whole
  <2>2. x \div y \in Nat
    <3> HIDE DEF x, y
    <3> QED BY <2>1, DivIs
  <2>3. Score(d) = 0
    BY <1>10, <1>13, <1>15, SMT
  <2>4. Score(c) = x \div y
    BY <1>11
  <2> HIDE DEF x, y
  <2> QED BY <2>2, <2>3, <2>4 DEF d
<1> QED
  BY <1>12, <1>14, <1>15 DEF d

-----------------------------------------------------------------------------
\* Documents.

LEMMA NothingListed == <<>> \in Seq(Nodes) /\ Len(<<>>) = 0 /\ DOMAIN <<>> = {}
OBVIOUS

LEMMA EmptyConf ==
    Conf(FALSE, <<>>) \in [version : Int, warmup : Int, protected : BOOLEAN, policies : Seq(Nodes)]
<1>1. FALSE \in BOOLEAN
  OBVIOUS
<1> QED
  BY <1>1, NothingListed DEF Conf

LEMMA NoDocIsWritten == NoDoc \in Written
<1> DEFINE conf == Conf(FALSE, <<>>)
<1>1. FALSE \in BOOLEAN
  OBVIOUS
<1>2. conf \in [version : Int, warmup : Int, protected : BOOLEAN, policies : Seq(Nodes)] /\ Len(conf.policies) = 0
  BY EmptyConf, NothingListed DEF Conf
<1>3. NoDoc = [format |-> "yaml", size |-> "none", alias |-> FALSE, head |-> 0, conf |-> conf]
  <2>1. NoDoc = [Doc("yaml", conf) EXCEPT !.size = "none"]
    BY DEF NoDoc
  <2> HIDE DEF conf
  <2> QED
    BY <1>2, <2>1 DEF Doc
<1> QED
  <2> HIDE DEF conf
  <2> QED BY <1>1, <1>2, <1>3 DEF Written

\* The payload of halt is accepted, and leaves no policy.
LEMMA ResetServed ==
    ASSUME gate = "open"
    PROVE  Response(Reset) = "200" /\ Decoded(Received(Reset)).policies = <<>>
<1> DEFINE conf == Conf(FALSE, <<>>)
<1>1. conf.version = 1 /\ conf.warmup = 0 /\ conf.policies = <<>>
  BY DEF Conf
<1>2. Reset.conf = conf /\ Reset.size = "small" /\ ~Reset.alias /\ Received(Reset) = conf
  BY DEF Reset, Doc, Received
<1>3. Decoded(conf).version = 1 /\ Decoded(conf).warmup = 0 /\ Len(Decoded(conf).policies) = 0
      /\ DOMAIN Decoded(conf).policies = {} /\ Decoded(conf).policies \in Seq({Decode(n) : n \in Nodes})
  <2> HIDE DEF conf
  <2>1. conf \in [version : Int, warmup : Int, protected : BOOLEAN, policies : Seq(Nodes)]
    BY EmptyConf DEF conf
  <2> QED
    BY <1>1, <2>1, DecodedPolicies, NothingListed
<1> HIDE DEF conf
<1>4. Valid(Decoded(conf))
  BY <1>3 DEF Valid, MaxPolicies
<1>5. Decoded(conf).policies = <<>>
  BY <1>3, EmptySeq
<1> QED
  BY <1>1, <1>2, <1>4, <1>5, NothingListed DEF Response

\* So is a step of the ramp, if it is valid.
LEMMA RampServed ==
    ASSUME gate = "open", NEW protocol, NEW chance, Valid(Decoded(Ramp(protocol, chance).conf))
    PROVE  /\ Response(Ramp(protocol, chance)) = "200"
           /\ Received(Ramp(protocol, chance)) = Ramp(protocol, chance).conf
<1> DEFINE flags == [type |-> protocol, target |-> "all", latency |-> 0, latencyChance |-> 0,
                     code |-> 503, errorChance |-> chance, drop |-> FALSE]
           flagged == [type             |-> Node("string", flags.type),
                       target           |-> Node("string", flags.target),
                       latency_duration |-> Node("duration", flags.latency),
                       latency_chance   |-> Node("number", flags.latencyChance),
                       error_code       |-> Node("number", flags.code),
                       error_chance     |-> Node("number", flags.errorChance),
                       drop_connection  |-> Node("bool", TRUE)]
           keys == {"type", "target"}
                \cup (IF flags.latency > 0 THEN {"latency_duration", "latency_chance"} ELSE {})
                \cup (IF flags.code > 0 THEN {"error_code", "error_chance"} ELSE {})
                \cup (IF flags.drop THEN {"drop_connection", "error_chance"} ELSE {})
           node == [key \in keys |-> flagged[key]]
           ramp == Ramp(protocol, chance)
<1>1. ramp.size = "small" /\ ~ramp.alias /\ ramp.format = "json" /\ ramp.conf.policies = <<node>>
  BY DEF Ramp, Strike, Doc, Conf
<1>2. flagged["type"].kind = "string" /\ flagged["target"].kind = "string"
      /\ flagged["error_code"].kind = "number" /\ flagged["error_chance"].kind = "number"
  BY DEF Node
<1>3. keys = {"type", "target", "error_code", "error_chance"}
  OBVIOUS
<1>4. WellFormed(node)
  <2>1. \A key \in keys : node[key].kind = Kind[key]
    BY <1>2, <1>3 DEF Kind
  <2> HIDE DEF flagged, keys
  <2> QED
    BY <2>1 DEF WellFormed, Fits
<1>5. Received(ramp) = ramp.conf
  BY <1>1 DEF Received
<1> HIDE DEF node, ramp
<1>6. \A i \in DOMAIN ramp.conf.policies : WellFormed(ramp.conf.policies[i])
  BY <1>1, <1>4
<1>7. Valid(Decoded(ramp.conf))
  BY DEF ramp
<1>8. Response(ramp) = "200"
  BY <1>1, <1>5, <1>6, <1>7 DEF Response
<1> QED
  BY <1>5, <1>8 DEF ramp

-----------------------------------------------------------------------------
\* The inductive invariant.

Looking == {"lint", "plan", "validate"}
Posted(p) == p.pc \in {"post", "await"}
Stops(p) == p.cmd \in {"halt", "run", "autopilot"} \/ p.ttl
Exited(p) == p.pc \in {"exit0", "exit1"}

\* The files are those the command was given.
Given ==
    /\ ctl.cmd \in {"inject", "run"} => file \in Files
    /\ ctl.cmd \in Looking => file \in Drafts

\* Where a process of each command can stand; and what leads to the exit of one
\* that halts the engine is the payload of halt.
Standing(p) ==
    /\ p.pc \in {"cycle", "settle"} => p.cmd = "autopilot"
    /\ p.pc \in {"first", "loop"} => p.cmd = "run"
    /\ p.pc = "probe" => p.cmd \in {"run", "autopilot"}
    /\ p.cmd \in Looking => p.pc \in {"start", "exit0", "exit1", "killed"}
    /\ p.pc = "start" => ~p.ttl
    /\ p.ttl => p.cmd = "strike"
    /\ Posted(p) /\ p.then = "settle" =>
          p.cmd = "autopilot" /\ p.chance <= Limit /\ p.doc = Ramp(p.protocol, p.chance)
    /\ Posted(p) /\ p.then = "loop" => p.cmd = "run"
    /\ Posted(p) /\ p.then \in {"exit0", "exit1"} /\ Stops(p) => p.doc = Reset

\* An experiment that goes on has not met its end.
Underway(p) ==
    \/ p.pc \in {"start", "first", "loop", "probe", "cycle", "settle"}
    \/ Posted(p) /\ p.then \in {"loop", "settle"}
Unbroken ==
    /\ Underway(ctl) => tally.failures < Threshold
    /\ Underway(ctl) /\ ctl.cmd = "autopilot" => tally.errors = 0 /\ tally.slow = 0
    /\ ctl.pc = "probe" /\ ctl.cmd = "run" => tally.probes < MaxProbes

\* Without trouble, a POST is on its way only while somebody waits for it.
Awaited ==
    /\ ctl.pc \in {"start", "first"} => wire = {} /\ engine = Baseline
    /\ ~trouble => wire \subseteq IF ctl.pc \in {"await", "killed"} THEN {ctl.doc} ELSE {}

\* The ramp has climbed so many steps, and what was acceptable of them survived.
Untroubled == ctl.cmd = "autopilot" /\ ~trouble /\ gate = "open"
Climbed ==
    \E k \in Nat :
        /\ ctl.chance = 5 + k * Step
        /\ Untroubled => \A j \in 0 .. k - 1 : Acceptable(5 + j * Step) => 5 + j * Step \in survived

\* What is probed is what runs.
Running ==
    Untroubled /\ ctl.pc \in {"settle", "probe"} /\ Acceptable(ctl.chance) =>
        engine = Decoded(Ramp(ctl.protocol, ctl.chance).conf)

\* Success is recorded at the end of the ramp.
Recordings == {history.entries[i] : i \in DOMAIN history.entries}
AtTheTop ==
    "SUCCESS" \in Recordings =>
        /\ ctl.cmd = "autopilot" /\ ctl.chance > Limit /\ ctl.grade \in {"none", "A+"}
        /\ ctl.pc \in {"post", "await", "exit0", "killed"} /\ ctl.then = "exit0"

\* The commands that look at a file have seen what LoadConfig makes of it.
Looked ==
    /\ ctl.cmd \in Looking /\ ctl.pc = "exit0" => Loads(file)
    /\ ctl.cmd \in Looking \ {"lint"} /\ ctl.pc = "exit1" => ~Loads(file)

CtlInv == CtlTypeOK /\ Given /\ Standing(ctl) /\ Unbroken /\ Awaited /\ QuietAfterExit
          /\ Climbed /\ Running /\ AtTheTop /\ Looked

-----------------------------------------------------------------------------
\* How a process moves.

Pcs == {"start", "post", "await", "ttl", "first", "loop", "probe", "cycle", "settle",
        "exit0", "exit1", "killed"}
Thens == {"ttl", "loop", "settle", "exit0", "exit1"}

\* What no step of a process changes, and what few do.
Same(p, q) == /\ p.cmd = q.cmd /\ p.protocol = q.protocol /\ p.chance = q.chance
              /\ p.ttl = q.ttl /\ p.grade = q.grade

LEMMA ToIs ==
    ASSUME ctl \in Process, NEW pc \in Pcs
    PROVE  /\ To(pc) \in Process /\ Same(To(pc), ctl) /\ To(pc).pc = pc
           /\ To(pc).doc = ctl.doc /\ To(pc).then = ctl.then
BY DEF To, Process, Pcs, Same

IsPosting(p, doc, then) ==
    p \in Process /\ Same(p, ctl) /\ p.pc = "post" /\ p.doc = doc /\ p.then = then

LEMMA PostingIs ==
    ASSUME ctl \in Process, NEW doc \in Payload, NEW then \in Thens
    PROVE  IsPosting(Posting(doc, then), doc, then)
<1>1. Posting(doc, then) \in Process
  BY DEF Posting, Process, Thens
<1>2. Same(Posting(doc, then), ctl)
  BY DEF Posting, Process, Same
<1> QED
  BY <1>1, <1>2 DEF Posting, Process, IsPosting

LEMMA HaltingIs ==
    ASSUME ctl \in Process, NEW then \in Thens
    PROVE  IsPosting(Halting(then), Reset, then)
<1>1. Reset \in Payload
  BY DEF Payload
<1> QED
  BY <1>1, PostingIs DEF Halting

\* The same process with a grade.
SameButGrade(p, q) == /\ p.cmd = q.cmd /\ p.protocol = q.protocol /\ p.chance = q.chance /\ p.ttl = q.ttl
                      /\ p.pc = q.pc /\ p.doc = q.doc /\ p.then = q.then

LEMMA GradedIs ==
    ASSUME NEW p \in Process, NEW grade \in {"none", "A+", "B", "C", "F"}
    PROVE  /\ [p EXCEPT !.grade = grade] \in Process /\ SameButGrade([p EXCEPT !.grade = grade], p)
           /\ [p EXCEPT !.grade = grade].grade = grade
BY DEF Process, SameButGrade

LEMMA GradeIs ==
    /\ Grade \in {"none", "A+", "B", "C", "F"}
    /\ tally.probes \in Nat /\ tally.errors = 0 /\ tally.slow = 0 => Grade \in {"none", "A+"}
BY DEF Grade

\* A step of the process that touches nothing else.
LEMMA Becoming ==
    ASSUME CtlInv, NEW new \in Process, Becomes(new),
           new.cmd = ctl.cmd, new.protocol = ctl.protocol, new.chance = ctl.chance,
           Standing(new), Underway(new) => Underway(ctl),
           new.pc \in {"start", "first"} => ctl.pc \in {"start", "first"},
           ctl.pc \in {"await", "killed"} => new.pc \in {"await", "killed"} /\ new.doc = ctl.doc,
           Exited(new) /\ Stops(new) => engine = Baseline,
           new.pc \in {"settle", "probe"} /\ new.cmd = "autopilot" => ctl.pc \in {"settle", "probe"},
           new.pc = "probe" /\ new.cmd = "run" => tally.probes < MaxProbes,
           "SUCCESS" \in Recordings => /\ new.pc \in {"post", "await", "exit0", "killed"}
                                       /\ new.then = ctl.then /\ new.grade = ctl.grade,
           new.cmd \in Looking /\ new.pc = "exit0" => Loads(file),
           new.cmd \in Looking \ {"lint"} /\ new.pc = "exit1" => ~Loads(file)
    PROVE  CtlInv'
<1> USE DEF CtlInv, Becomes
<1>0. ctl' = new /\ UNCHANGED <<file, gate, tally, wire, engine, history, trouble, survived>>
  OBVIOUS
<1>1. CtlTypeOK'
  BY <1>0 DEF CtlTypeOK
<1>2. Given' /\ Looked'
  BY <1>0 DEF Given, Looked
<1>3. Standing(ctl)'
  BY <1>0 DEF Standing, Posted, Stops
<1>4. Unbroken'
  BY <1>0 DEF Unbroken, Underway, Posted
<1>5. Awaited'
  <2>1. new.pc \in {"start", "first"} => wire' = {} /\ engine' = Baseline
    BY <1>0 DEF Awaited
  <2>2. ASSUME ~trouble PROVE wire' \subseteq IF new.pc \in {"await", "killed"} THEN {new.doc} ELSE {}
    <3>1. wire \subseteq IF ctl.pc \in {"await", "killed"} THEN {ctl.doc} ELSE {}
      BY <2>2 DEF Awaited
    <3> QED
      BY <1>0, <3>1
  <2>3. ctl'.pc = new.pc /\ ctl'.doc = new.doc /\ trouble' = trouble
    BY <1>0
  <2> HIDE DEF CtlInv, Becomes
  <2> QED
    BY <2>1, <2>2, <2>3 DEF Awaited
<1>6. QuietAfterExit'
  BY <1>0 DEF QuietAfterExit, Ended, Halts, Exited, Stops
<1>7. Climbed'
  <2>1. PICK k \in Nat :
            /\ ctl.chance = 5 + k * Step
            /\ Untroubled => \A j \in 0 .. k - 1 : Acceptable(5 + j * Step) => 5 + j * Step \in survived
    BY DEF Climbed
  <2>2. ctl'.chance = ctl.chance /\ survived' = survived
    BY <1>0
  <2>3. \A chance : Acceptable(chance)' = Acceptable(chance)
    BY <1>0 DEF Acceptable
  <2>4. Untroubled' <=> Untroubled
    <3>1. ctl'.cmd = ctl.cmd /\ gate' = gate /\ trouble' = trouble
      BY <1>0
    <3> HIDE DEF CtlInv, Becomes
    <3> QED BY <3>1 DEF Untroubled
  <2> HIDE DEF Becomes, CtlInv
  <2> QED
    BY <2>1, <2>2, <2>3, <2>4, Zenon DEF Climbed
<1>8. Running'
  <2>1. Untroubled' <=> Untroubled
    <3>1. ctl'.cmd = ctl.cmd /\ gate' = gate /\ trouble' = trouble
      BY <1>0
    <3> HIDE DEF CtlInv, Becomes
    <3> QED BY <3>1 DEF Untroubled
  <2>2. Untroubled => new.cmd = "autopilot"
    BY DEF Untroubled
  <2>3. Acceptable(ctl.chance)' <=> Acceptable(ctl.chance)
    BY <1>0, Zenon DEF Acceptable
  <2>4. ctl'.pc = new.pc /\ ctl'.protocol = ctl.protocol /\ ctl'.chance = ctl.chance /\ engine' = engine
    BY <1>0
  <2> HIDE DEF CtlInv, Becomes
  <2>5. Running
    BY DEF CtlInv
  <2> QED
    BY <2>1, <2>2, <2>3, <2>4, <2>5 DEF Running
<1>9. AtTheTop'
  BY <1>0 DEF AtTheTop, Recordings
<1> QED
  BY <1>1, <1>2, <1>3, <1>4, <1>5, <1>6, <1>7, <1>8, <1>9

LEMMA CtlInitially == CtlInit => CtlInv
<1> SUFFICES ASSUME CtlInit PROVE CtlInv OBVIOUS
<1>1. PICK cmd \in Command, protocol \in {"http", "grpc"} :
        ctl = [cmd |-> cmd, protocol |-> protocol, ttl |-> FALSE, chance |-> 5, interrupted |-> FALSE,
               pc |-> "start", then |-> "exit0", doc |-> NoDoc, grade |-> "none"]
  BY DEF CtlInit
<1>2. FALSE \in BOOLEAN /\ NoDoc \in Payload
  BY DEF Payload
<1>3. ctl \in Process
  BY <1>1, <1>2 DEF Process
<1>4. ctl.pc = "start" /\ ~ctl.ttl /\ ctl.chance = 5 /\ ctl.protocol = protocol
  BY <1>1
<1>5. history.entries = <<>> /\ history \in [readable : BOOLEAN, entries : Seq({"SUCCESS", "FAILED"}), backup : BOOLEAN]
  <2>1. PICK readable \in BOOLEAN : history = [readable |-> readable, entries |-> <<>>, backup |-> FALSE]
    BY Zenon DEF CtlInit
  <2>2. <<>> \in Seq({"SUCCESS", "FAILED"})
    OBVIOUS
  <2> QED
    BY <1>2, <2>1, <2>2
<1>6. Given /\ file \in Written
  <2>1. ctl.cmd \in {"inject", "run"} => file \in Files
    BY DEF CtlInit
  <2>2. ctl.cmd \in Looking => file \in Drafts
    BY DEF CtlInit, Looking
  <2>3. file \in Files \cup Drafts \cup {NoDoc}
    BY DEF CtlInit
  <2> QED
    BY <2>1, <2>2, <2>3, CtlAssumption, NoDocIsWritten DEF Given
<1>7. tally = [probes |-> 0, errors |-> 0, slow |-> 0, failures |-> 0]
      /\ Threshold \in Nat \ {0} /\ MaxProbes \in Nat
  BY CtlAssumption, Zenon DEF CtlInit
<1>8. CtlTypeOK
  <2>1. tally \in [probes : Nat, errors : Nat, slow : Nat, failures : 0 .. Threshold]
        /\ tally.errors + tally.slow <= tally.probes /\ tally.probes <= MaxProbes
    BY <1>7
  <2> QED
    BY <1>3, <1>5, <1>6, <2>1 DEF CtlInit, CtlTypeOK
<1>9. Unbroken
  <2>1. tally.failures = 0 /\ tally.errors = 0 /\ tally.slow = 0 /\ 0 < Threshold
    BY <1>7
  <2> QED
    BY <1>4, <2>1 DEF Unbroken
<1>10. Climbed
  <2>1. ctl.chance = 5 + 0 * Step /\ 0 .. 0 - 1 = {}
    BY <1>4, CtlAssumption
  <2> QED
    BY <2>1 DEF Climbed
<1>11. Running /\ Looked /\ QuietAfterExit /\ Standing(ctl)
  BY <1>4 DEF Running, Looked, QuietAfterExit, Ended, Standing, Posted
<1>12. AtTheTop
  BY <1>5, NothingListed DEF AtTheTop, Recordings
<1>13. Awaited
  BY <1>4 DEF Awaited, CtlInit
<1> QED
  BY <1>6, <1>8, <1>9, <1>10, <1>11, <1>12, <1>13 DEF CtlInv

-----------------------------------------------------------------------------
\* The steps of the process alone.

LEMMA StartStep ==
    ASSUME CtlInv, StartHalt \/ StartInject \/ StartGuard \/ StartExperiment
    PROVE  CtlInv'
<1>1. ctl \in Process /\ Standing(ctl) /\ engine = Baseline /\ "SUCCESS" \notin Recordings
      /\ ctl.pc = "start" /\ ~ctl.ttl
  BY DEF CtlInv, CtlTypeOK, Awaited, AtTheTop, Standing, StartHalt, StartInject, StartGuard, StartExperiment, At
<1>2. CASE StartHalt
  <2>1. Becomes(Halting("exit0")) /\ "exit0" \in Thens
    BY <1>2 DEF StartHalt, Thens
  <2> QED
    BY <1>1, <1>2, <2>1, HaltingIs, Becoming
    DEF StartHalt, Same, Standing, Posted, Underway, Exited, Looking, IsPosting
<1>3. CASE StartInject
  <2>1. ctl.cmd = "inject" /\ file \in Files
    BY <1>3 DEF StartInject, CtlInv, Given
  <2>2. CASE Becomes(To("exit0"))
    <3>1. "exit0" \in Pcs
      BY DEF Pcs
    <3> QED
      BY <1>1, <2>1, <2>2, <3>1, ToIs, Becoming
      DEF Same, Standing, Stops, Posted, Underway, Exited, Looking
  <2>3. CASE Becomes(Posting(file, "exit0"))
    <3>1. "exit0" \in Thens /\ file \in Payload
      BY <2>1 DEF Thens, Payload
    <3>2. IsPosting(Posting(file, "exit0"), file, "exit0")
      BY <1>1, <3>1, PostingIs
    <3> QED
      BY <1>1, <2>1, <2>3, <3>2, Becoming
      DEF IsPosting, Same, Standing, Stops, Posted, Underway, Exited, Looking
  <2> QED
    BY <1>3, <2>2, <2>3 DEF StartInject
<1>4. CASE StartGuard
  <2>1. PICK pc \in {"exit0", "exit1"} :
            /\ Becomes(To(pc)) /\ (pc = "exit0" => Loads(file))
            /\ (ctl.cmd # "lint" /\ pc = "exit1" => ~Loads(file))
    BY <1>4 DEF StartGuard
  <2>2. ctl.cmd \in Looking /\ pc \in Pcs
    BY <1>4 DEF StartGuard, Looking, Pcs
  <2> QED
    BY <1>1, <2>1, <2>2, ToIs, Becoming DEF Same, Standing, Stops, Posted, Underway, Exited, Looking
<1>5. CASE StartExperiment
  <2>1. PICK pc \in {"exit1", "first", "cycle"} :
            /\ Becomes(To(pc)) /\ (pc = "first" => ctl.cmd = "run") /\ (pc = "cycle" => ctl.cmd = "autopilot")
    BY <1>5 DEF StartExperiment
  <2>2. ctl.cmd \in {"run", "autopilot"} /\ pc \in Pcs
    BY <1>5 DEF StartExperiment, Pcs
  <2> QED
    BY <1>1, <2>1, <2>2, ToIs, Becoming DEF Same, Standing, Stops, Posted, Underway, Exited, Looking
<1> QED
  BY <1>2, <1>3, <1>4, <1>5

LEMMA StrikeStep == ASSUME CtlInv, StartStrike PROVE CtlInv'
<1>1. ctl \in Process /\ "SUCCESS" \notin Recordings /\ ctl.pc = "start" /\ ctl.cmd = "strike"
  BY DEF CtlInv, CtlTypeOK, AtTheTop, StartStrike, At
<1>2. PICK flags \in Strikes, ttl \in BOOLEAN :
        Becomes([Posting(Strike(flags), IF ttl THEN "ttl" ELSE "exit0") EXCEPT !.ttl = ttl])
  BY DEF StartStrike
<1> DEFINE then == IF ttl THEN "ttl" ELSE "exit0"
           p == Posting(Strike(flags), then)
           new == [p EXCEPT !.ttl = ttl]
<1>3. p \in Process /\ Same(p, ctl) /\ p.pc = "post" /\ p.then = then
  <2>1. Strike(flags) \in Payload /\ then \in Thens
    BY DEF Payload, Thens
  <2> HIDE DEF then
  <2>2. IsPosting(p, Strike(flags), then)
    BY <1>1, <2>1, PostingIs
  <2> HIDE DEF p
  <2> QED
    BY <2>2 DEF IsPosting
<1>4. new \in Process
  <2> HIDE DEF p
  <2> QED BY <1>2, <1>3, Zenon DEF Process
<1>5. new.cmd = "strike" /\ new.protocol = ctl.protocol /\ new.chance = ctl.chance /\ new.pc = "post"
      /\ new.then = then /\ new.ttl = ttl
  <2> HIDE DEF p
  <2> QED BY <1>1, <1>3 DEF Process, Same
<1>6. Becomes(new)
  BY <1>2
<1>7. Standing(new)
  <2> HIDE DEF new
  <2> QED BY <1>5 DEF Standing, Posted, Stops, Looking
<1> HIDE DEF new
<1> QED
  BY <1>1, <1>4, <1>5, <1>6, <1>7, Becoming DEF Underway, Posted, Exited, Looking

LEMMA MoveStep ==
    ASSUME CtlInv, Tick \/ Settled \/ Interrupt \/ Killed
    PROVE  CtlInv'
<1>1. ctl \in Process /\ Standing(ctl)
  BY DEF CtlInv, CtlTypeOK
<1> USE DEF At
<1>2. CASE Tick \/ Settled
  <2>1. Becomes(To("probe")) /\ ctl.pc \in {"loop", "settle"} /\ (ctl.pc = "loop" => tally.probes < MaxProbes)
        /\ "probe" \in Pcs
    BY <1>2 DEF Tick, Settled, Pcs
  <2>2. "SUCCESS" \notin Recordings
    BY <2>1 DEF CtlInv, AtTheTop
  <2> QED
    BY <1>1, <2>1, <2>2, ToIs, Becoming DEF Same, Standing, Posted, Underway, Exited, Looking
<1>3. CASE Interrupt
  <2> DEFINE new == [ctl EXCEPT !.interrupted = TRUE]
  <2>1. new \in Process
    <3>1. TRUE \in BOOLEAN
      OBVIOUS
    <3> QED
      BY <1>1, <3>1, Zenon DEF Process
  <2>2. Same(new, ctl) /\ new.pc = ctl.pc /\ new.doc = ctl.doc /\ new.then = ctl.then
    BY <1>1 DEF Process, Same
  <2>3. Becomes(new) /\ ctl.pc \notin {"exit0", "exit1", "killed", "start"} /\ ctl.cmd \in {"run", "autopilot"}
    BY <1>3 DEF Interrupt
  <2>4. Standing(new)
    BY <1>1, <2>2 DEF Standing, Posted, Stops, Same
  <2> HIDE DEF new
  <2> QED
    BY <1>1, <2>1, <2>2, <2>3, <2>4, Becoming
    DEF Same, Underway, Posted, Exited, Looking, CtlInv, AtTheTop, Unbroken
<1>4. CASE Killed
  <2>1. Becomes(To("killed")) /\ "killed" \in Pcs /\ ctl.pc \notin {"exit0", "exit1", "killed"}
    BY <1>4 DEF Killed, Pcs
  <2> QED
    BY <1>1, <2>1, ToIs, Becoming
    DEF Same, Standing, Posted, Underway, Exited, Looking, CtlInv, AtTheTop
<1> QED
  BY <1>2, <1>3, <1>4

\* A ramp begins at 5 percent.
LEMMA ClimbedFromFive == CtlInv => ctl.chance >= 5
<1> SUFFICES ASSUME CtlInv PROVE ctl.chance >= 5 OBVIOUS
<1>1. PICK k \in Nat : ctl.chance = 5 + k * Step
  BY DEF CtlInv, Climbed
<1>2. k * Step \in Nat
  BY CtlAssumption
<1> QED
  BY <1>1, <1>2

\* Payloads are posted by whoever has nothing under way.
LEMMA PostStep ==
    ASSUME CtlInv, TtlOver \/ Expire \/ FirstProbe \/ Cycle \/ AbortSettle
    PROVE  CtlInv'
<1>1. ctl \in Process /\ Standing(ctl) /\ "SUCCESS" \notin Recordings
      /\ ctl.pc \in {"ttl", "loop", "first", "cycle", "settle"}
  BY DEF CtlInv, CtlTypeOK, AtTheTop, TtlOver, Expire, FirstProbe, Cycle, AbortSettle, At
<1>2. ASSUME NEW new \in Process, Becomes(new), SameButGrade(new, Halting("exit0"))
      PROVE  CtlInv'
  <2>1. "exit0" \in Thens
    BY DEF Thens
  <2>2. new.cmd = ctl.cmd /\ new.protocol = ctl.protocol /\ new.chance = ctl.chance /\ new.ttl = ctl.ttl
        /\ new.pc = "post" /\ new.doc = Reset /\ new.then = "exit0"
    BY <1>1, <1>2, <2>1, HaltingIs DEF SameButGrade, Same, IsPosting
  <2> QED
    BY <1>1, <1>2, <2>2, Becoming DEF Standing, Posted, Underway, Exited, Looking
<1>3. Halting("exit0") \in Process
  BY <1>1, HaltingIs DEF Thens, IsPosting
<1>4. CASE TtlOver
  BY <1>2, <1>3, <1>4 DEF TtlOver, SameButGrade
<1>5. CASE Expire \/ AbortSettle
  BY <1>2, <1>3, <1>5, GradedIs, GradeIs DEF Expire, AbortSettle, Graded
<1>6. CASE FirstProbe
  <2>1. ctl.pc = "first" /\ ctl.cmd = "run" /\ engine = Baseline
    BY <1>1, <1>6 DEF FirstProbe, At, Standing, CtlInv, Awaited
  <2>2. CASE Becomes(To("exit0"))
    <3>1. "exit0" \in Pcs
      BY DEF Pcs
    <3> QED
      BY <1>1, <2>1, <2>2, <3>1, ToIs, Becoming DEF Same, Standing, Posted, Underway, Exited, Looking
  <2>3. CASE Becomes(Halting("exit0"))
    BY <1>2, <1>3, <2>3 DEF SameButGrade
  <2>4. CASE Becomes(Posting(file, "loop"))
    <3>1. file \in Payload /\ "loop" \in Thens
      BY <2>1 DEF CtlInv, Given, Payload, Thens
    <3>2. IsPosting(Posting(file, "loop"), file, "loop")
      BY <1>1, <3>1, PostingIs
    <3> QED
      BY <1>1, <2>1, <2>4, <3>2, Becoming DEF IsPosting, Same, Standing, Posted, Underway, Exited, Looking
  <2> QED
    BY <1>6, <2>2, <2>3, <2>4 DEF FirstProbe
<1>7. CASE Cycle
  <2>1. ctl.pc = "cycle" /\ ctl.cmd = "autopilot" /\ ctl.chance <= Limit
        /\ Becomes(Posting(Ramp(ctl.protocol, ctl.chance), "settle"))
    BY <1>1, <1>7 DEF Cycle, At, Standing
  <2>2. ctl.chance >= 5 /\ ctl.chance \in Nat /\ ctl.protocol \in {"http", "grpc"}
    BY <1>1, ClimbedFromFive DEF Process
  <2>3. Ramp(ctl.protocol, ctl.chance) \in Payload /\ "settle" \in Thens
    BY <2>1, <2>2, CtlAssumption DEF Payload, Thens
  <2>4. IsPosting(Posting(Ramp(ctl.protocol, ctl.chance), "settle"), Ramp(ctl.protocol, ctl.chance), "settle")
    BY <1>1, <2>3, PostingIs
  <2> QED
    BY <1>1, <2>1, <2>4, Becoming DEF IsPosting, Same, Standing, Posted, Underway, Exited, Looking
<1> QED
  BY <1>4, <1>5, <1>6, <1>7
-----------------------------------------------------------------------------
\* The steps that the engine, the network and the probes have a part in.

\* What has been climbed stays climbed.
LEMMA StillClimbed ==
    ASSUME Climbed, ctl'.chance = ctl.chance, ctl'.protocol = ctl.protocol,
           survived \subseteq survived', Untroubled' => Untroubled
    PROVE  Climbed'
<1>1. PICK k \in Nat :
        /\ ctl.chance = 5 + k * Step
        /\ Untroubled => \A j \in 0 .. k - 1 : Acceptable(5 + j * Step) => 5 + j * Step \in survived
  BY DEF Climbed
<1>2. \A chance : Acceptable(chance)' = Acceptable(chance)
  BY DEF Acceptable
<1>3. \A chance : chance \in survived => chance \in survived'
  OBVIOUS
<1> QED
  BY <1>1, <1>2, <1>3, Zenon DEF Climbed

\* What a step keeps that leaves the probes and the records alone.
LEMMA Proceeding ==
    ASSUME CtlInv, ctl' \in Process, wire' \subseteq Payload,
           UNCHANGED <<file, gate, tally, history, survived>>, trouble => trouble',
           Same(ctl', ctl), Underway(ctl') => Underway(ctl),
           ctl'.pc = "probe" => ctl.pc = "probe",
           "SUCCESS" \in Recordings => ctl'.pc \in {"post", "await", "exit0", "killed"} /\ ctl'.then = ctl.then,
           ctl.cmd \in Looking => ctl'.pc = ctl.pc
    PROVE  CtlTypeOK' /\ Given' /\ Unbroken' /\ Climbed' /\ AtTheTop' /\ Looked'
<1> USE DEF CtlInv, Same
<1>1. CtlTypeOK'
  BY DEF CtlTypeOK
<1>2. Given' /\ Looked'
  BY DEF Given, Looked
<1>3. Unbroken'
  BY DEF Unbroken, Underway, Posted
<1>4. Climbed'
  <2>1. Untroubled' => Untroubled
    BY DEF Untroubled
  <2>2. ctl'.chance = ctl.chance /\ ctl'.protocol = ctl.protocol /\ survived \subseteq survived' /\ Climbed
    OBVIOUS
  <2> QED
    BY <2>1, <2>2, StillClimbed
<1>5. AtTheTop'
  BY DEF AtTheTop, Recordings
<1> QED
  BY <1>1, <1>2, <1>3, <1>4, <1>5

\* Nobody who looks at a file posts it.
LEMMA NobodyLooks == ASSUME CtlInv, Posted(ctl) PROVE ctl.cmd \notin Looking
BY DEF CtlInv, Standing, Posted

\* From a POST, whatever came of it, the process goes where it wanted to.
LEMMA GoingOn ==
    ASSUME CtlInv, Posted(ctl), ctl' = To(ctl.then), wire' \subseteq wire,
           UNCHANGED <<file, gate, tally, history, survived>>, trouble => trouble'
    PROVE  /\ CtlTypeOK' /\ Given' /\ Unbroken' /\ Climbed' /\ AtTheTop' /\ Looked' /\ Standing(ctl)'
           /\ Same(ctl', ctl) /\ ctl'.pc = ctl.then /\ ctl.then \in Thens
<1>1. ctl \in Process /\ Standing(ctl) /\ wire \subseteq Payload
  BY DEF CtlInv, CtlTypeOK
<1>2. ctl.then \in Thens /\ ctl.then \in Pcs
  BY <1>1 DEF Process, Thens, Pcs
<1>3. ctl' \in Process /\ Same(ctl', ctl) /\ ctl'.pc = ctl.then /\ ctl'.then = ctl.then
  BY <1>1, <1>2, ToIs
<1>4. ctl.cmd \notin Looking
  BY NobodyLooks
<1>5. Standing(ctl')
  BY <1>1, <1>2, <1>3, <1>4 DEF Standing, Same, Posted, Stops, Thens
<1>6. Underway(ctl') => Underway(ctl)
  BY <1>2, <1>3 DEF Underway, Posted, Thens
<1>7. "SUCCESS" \in Recordings => ctl'.pc = "exit0"
  BY <1>3 DEF CtlInv, AtTheTop
<1>8. ctl'.pc # "probe" /\ wire' \subseteq Payload
  BY <1>1, <1>2, <1>3 DEF Thens
<1>9. CtlTypeOK' /\ Given' /\ Unbroken' /\ Climbed' /\ AtTheTop' /\ Looked'
  BY <1>3, <1>4, <1>6, <1>7, <1>8, Proceeding
<1> QED
  BY <1>2, <1>3, <1>5, <1>9

\* The rest of the invariant asks nothing of a client in trouble.
LEMMA Troubled ==
    ASSUME trouble', ctl'.pc \notin {"start", "first"}
    PROVE  Awaited' /\ QuietAfterExit' /\ Running'
BY DEF Awaited, QuietAfterExit, Running, Untroubled

LEMMA SendStep == ASSUME CtlInv, Send PROVE CtlInv'
<1>1. ctl.pc = "post" /\ Posted(ctl) /\ ctl \in Process /\ Standing(ctl) /\ wire \subseteq Payload
      /\ ctl.doc \in Payload
  BY DEF Send, At, Posted, CtlInv, CtlTypeOK, Process
<1>2. CASE wire' = wire \cup {ctl.doc} /\ ctl' = To("await")
           /\ UNCHANGED <<file, gate, tally, engine, history, trouble, survived>>
  <2>1. "await" \in Pcs
    BY DEF Pcs
  <2>2. ctl' \in Process /\ Same(ctl', ctl) /\ ctl'.pc = "await" /\ ctl'.then = ctl.then /\ ctl'.doc = ctl.doc
    BY <1>1, <1>2, <2>1, ToIs
  <2>3. ctl.cmd \notin Looking /\ wire' \subseteq Payload /\ (Underway(ctl') => Underway(ctl))
    BY <1>1, <1>2, <2>2, NobodyLooks DEF Underway, Posted
  <2>4. CtlTypeOK' /\ Given' /\ Unbroken' /\ Climbed' /\ AtTheTop' /\ Looked'
    BY <1>2, <2>2, <2>3, Proceeding
  <2>5. Standing(ctl')
    BY <1>1, <2>2, <2>3 DEF Standing, Same, Posted, Stops
  <2>6. Awaited'
    <3>1. ~trouble => wire \subseteq {}
      BY <1>1 DEF CtlInv, Awaited
    <3> QED
      BY <1>2, <2>2, <3>1 DEF Awaited
  <2>7. QuietAfterExit' /\ Running'
    BY <2>2 DEF QuietAfterExit, Ended, Running
  <2> QED
    BY <2>4, <2>5, <2>6, <2>7 DEF CtlInv
<1>3. CASE ctl' = To(ctl.then) /\ trouble' = TRUE
           /\ UNCHANGED <<file, gate, tally, wire, engine, history, survived>>
  <2>1. /\ CtlTypeOK' /\ Given' /\ Unbroken' /\ Climbed' /\ AtTheTop' /\ Looked' /\ Standing(ctl)'
        /\ ctl'.pc = ctl.then /\ ctl.then \in Thens
    BY <1>1, <1>3, GoingOn
  <2>2. Awaited' /\ QuietAfterExit' /\ Running'
    BY <1>3, <2>1, Troubled DEF Thens
  <2> QED
    BY <2>1, <2>2 DEF CtlInv
<1> QED
  BY <1>2, <1>3 DEF Send

LEMMA TimeoutStep == ASSUME CtlInv, Timeout PROVE CtlInv'
<1>1. Posted(ctl) /\ ctl' = To(ctl.then) /\ trouble' = TRUE
      /\ UNCHANGED <<file, gate, tally, wire, engine, history, survived>>
  BY DEF Timeout, At, Posted
<1>2. /\ CtlTypeOK' /\ Given' /\ Unbroken' /\ Climbed' /\ AtTheTop' /\ Looked' /\ Standing(ctl)'
      /\ ctl'.pc = ctl.then /\ ctl.then \in Thens
  BY <1>1, GoingOn
<1>3. Awaited' /\ QuietAfterExit' /\ Running'
  BY <1>1, <1>2, Troubled DEF Thens
<1> QED
  BY <1>2, <1>3 DEF CtlInv

\* A POST is handled, or lost, while the process stands still.
LEMMA Still ==
    ASSUME CtlInv, ctl' = ctl, wire' \subseteq wire,
           UNCHANGED <<file, gate, tally, history, survived>>, trouble => trouble'
    PROVE  CtlTypeOK' /\ Given' /\ Unbroken' /\ Climbed' /\ AtTheTop' /\ Looked' /\ Standing(ctl)'
<1>1. ctl' \in Process /\ Standing(ctl') /\ wire' \subseteq Payload
  BY DEF CtlInv, CtlTypeOK
<1>2. Same(ctl', ctl)
  BY DEF Same
<1>3. "SUCCESS" \in Recordings => ctl'.pc \in {"post", "await", "exit0", "killed"}
  BY DEF CtlInv, AtTheTop
<1>4. CtlTypeOK' /\ Given' /\ Unbroken' /\ Climbed' /\ AtTheTop' /\ Looked'
  BY <1>1, <1>2, <1>3, Proceeding
<1> QED
  BY <1>1, <1>4

LEMMA LoseStep == ASSUME CtlInv, Lose PROVE CtlInv'
<1>1. PICK doc \in wire : wire' = wire \ {doc}
  BY DEF Lose
<1>2. trouble' = TRUE /\ ctl' = ctl /\ UNCHANGED <<file, gate, tally, engine, history, survived>>
  BY DEF Lose
<1>3. CtlTypeOK' /\ Given' /\ Unbroken' /\ Climbed' /\ AtTheTop' /\ Looked' /\ Standing(ctl)'
  BY <1>1, <1>2, Still
<1>4. Awaited' /\ QuietAfterExit' /\ Running'
  BY <1>1, <1>2, Troubled DEF CtlInv, Awaited
<1> QED
  BY <1>3, <1>4 DEF CtlInv

LEMMA ServeStep == ASSUME CtlInv, Serve PROVE CtlInv'
<1>1. PICK doc \in wire, answered \in BOOLEAN :
        /\ wire' = wire \ {doc}
        /\ engine' = IF Response(doc) = "200" THEN Decoded(Received(doc)) ELSE engine
        /\ answered => At("await") /\ ctl.doc = doc
        /\ ctl' = IF answered THEN To(ctl.then) ELSE ctl
        /\ UNCHANGED <<file, gate, tally, history, trouble, survived>>
  BY DEF Serve
<1>2. ctl.pc \notin {"start", "first"}
      /\ (~trouble => wire \subseteq IF ctl.pc \in {"await", "killed"} THEN {ctl.doc} ELSE {})
  BY <1>1 DEF CtlInv, Awaited
<1>3. CASE answered
  <2>1. ctl.pc = "await" /\ Posted(ctl) /\ ctl.doc = doc /\ ctl' = To(ctl.then) /\ wire' \subseteq wire
    BY <1>1, <1>3 DEF At, Posted
  <2>2. /\ CtlTypeOK' /\ Given' /\ Unbroken' /\ Climbed' /\ AtTheTop' /\ Looked' /\ Standing(ctl)'
        /\ Same(ctl', ctl) /\ ctl'.pc = ctl.then /\ ctl.then \in Thens
    BY <1>1, <2>1, GoingOn
  <2>3. Awaited'
    <3>1. ~trouble => wire' = {}
      BY <1>1, <1>2, <2>1
    <3> QED
      BY <1>1, <2>2, <3>1 DEF Awaited, Thens
  <2>4. Standing(ctl)
    BY DEF CtlInv
  <2>5. QuietAfterExit'
    <3> SUFFICES ASSUME ctl'.pc \in {"exit0", "exit1"}, Halts', gate = "open"
                 PROVE  engine'.policies = <<>>
      BY <1>1 DEF QuietAfterExit, Ended
    <3>1. doc = Reset
      BY <2>1, <2>2, <2>4 DEF Standing, Stops, Halts, Same
    <3> QED
      BY <1>1, <3>1, ResetServed
  <2>6. Running'
    <3> SUFFICES ASSUME Untroubled', ctl'.pc \in {"settle", "probe"}, Acceptable(ctl.chance)'
                 PROVE  engine' = Decoded(Ramp(ctl.protocol, ctl.chance).conf)
      BY <2>2 DEF Running, Same
    <3>1. ctl.then = "settle" /\ gate = "open"
      BY <1>1, <2>2 DEF Untroubled, Thens
    <3>2. doc = Ramp(ctl.protocol, ctl.chance)
      BY <2>1, <2>4, <3>1 DEF Standing
    <3>3. Valid(Decoded(Ramp(ctl.protocol, ctl.chance).conf))
      BY <2>2 DEF Acceptable, Same
    <3>4. Response(doc) = "200" /\ Received(doc) = Ramp(ctl.protocol, ctl.chance).conf
      BY <3>1, <3>2, <3>3, RampServed
    <3> QED
      BY <1>1, <3>4
  <2> QED
    BY <2>2, <2>3, <2>5, <2>6 DEF CtlInv
<1>4. CASE ~answered
  <2>1. ctl' = ctl /\ wire' \subseteq wire
    BY <1>1, <1>4
  <2>2. CtlTypeOK' /\ Given' /\ Unbroken' /\ Climbed' /\ AtTheTop' /\ Looked' /\ Standing(ctl)'
    BY <1>1, <2>1, Still
  <2>3. Awaited'
    BY <1>1, <1>2, <2>1 DEF Awaited
  <2>4. trouble \/ ctl.pc \in {"await", "killed"}
    BY <1>1, <1>2
  <2>5. QuietAfterExit' /\ Running'
    BY <1>1, <2>1, <2>4 DEF QuietAfterExit, Ended, Running, Untroubled
  <2> QED
    BY <2>2, <2>3, <2>5 DEF CtlInv
<1> QED
  BY <1>3, <1>4

-----------------------------------------------------------------------------
\* The probes.

TallyOK(t) == /\ t \in [probes : Nat, errors : Nat, slow : Nat, failures : Nat]
              /\ t.errors + t.slow <= t.probes

LEMMA CountedIs ==
    ASSUME TallyOK(tally), NEW outcome \in {"ok", "slow", "error"}
    PROVE  /\ TallyOK(Counted(outcome)) /\ Counted(outcome).probes = tally.probes + 1
           /\ Counted(outcome).failures = IF outcome = "ok" THEN 0 ELSE tally.failures + 1
           /\ outcome = "ok" => Counted(outcome).errors = tally.errors /\ Counted(outcome).slow = tally.slow
<1> DEFINE t == Counted(outcome)
           errors == IF outcome = "error" THEN tally.errors + 1 ELSE tally.errors
           slow == IF outcome = "slow" THEN tally.slow + 1 ELSE tally.slow
           failures == IF outcome = "ok" THEN 0 ELSE tally.failures + 1
<1>1. t = [probes |-> tally.probes + 1, errors |-> errors, slow |-> slow, failures |-> failures]
  <2>1. t = [tally EXCEPT !.probes = tally.probes + 1, !.errors = errors, !.slow = slow, !.failures = failures]
    BY Zenon DEF Counted, Bad
  <2>2. tally \in [probes : Nat, errors : Nat, slow : Nat, failures : Nat]
    BY DEF TallyOK
  <2> HIDE DEF t, errors, slow, failures
  <2> QED
    BY <2>1, <2>2
<1> HIDE DEF t
<1>2. t.probes = tally.probes + 1 /\ t.failures = (IF outcome = "ok" THEN 0 ELSE tally.failures + 1)
      /\ (outcome = "ok" => t.errors = tally.errors /\ t.slow = tally.slow)
  BY <1>1
<1>3. t \in [probes : Nat, errors : Nat, slow : Nat, failures : Nat]
  BY <1>1 DEF TallyOK
<1>4. t.errors + t.slow <= t.probes
  BY <1>1 DEF TallyOK
<1> QED
  BY <1>2, <1>3, <1>4 DEF t, TallyOK

\* A probe made while the experiment goes on counts.
LEMMA ProbeCounts ==
    ASSUME CtlInv, ctl.pc = "probe", NEW outcome \in Outcome, tally' = Counted(outcome)
    PROVE  /\ tally' \in [probes : Nat, errors : Nat, slow : Nat, failures : 0 .. Threshold]
           /\ tally'.errors + tally'.slow <= tally'.probes
           /\ ctl.cmd = "run" => tally'.probes <= MaxProbes
           /\ ~Bad(outcome) => tally'.failures = 0 /\ tally'.errors = tally.errors /\ tally'.slow = tally.slow
<1>1. TallyOK(tally) /\ outcome \in {"ok", "slow", "error"}
  BY DEF CtlInv, CtlTypeOK, TallyOK, Outcome
<1>2. tally.failures < Threshold /\ (ctl.cmd = "run" => tally.probes < MaxProbes)
  BY DEF CtlInv, Unbroken, Underway
<1>3. Threshold \in Nat /\ MaxProbes \in Nat
  BY CtlAssumption
<1>4. /\ TallyOK(tally') /\ tally'.probes = tally.probes + 1
      /\ tally'.failures = IF outcome = "ok" THEN 0 ELSE tally.failures + 1
      /\ outcome = "ok" => tally'.errors = tally.errors /\ tally'.slow = tally.slow
  BY <1>1, CountedIs
<1>5. tally'.failures \in 0 .. Threshold /\ (ctl.cmd = "run" => tally'.probes <= MaxProbes)
  BY <1>1, <1>2, <1>3, <1>4 DEF TallyOK
<1>6. tally' \in [probes : Nat, errors : Nat, slow : Nat, failures : 0 .. Threshold]
  BY <1>4, <1>5 DEF TallyOK
<1> QED
  BY <1>4, <1>5, <1>6 DEF TallyOK, Bad

\* The end of an experiment, with its grade.
LEMMA EndingIs ==
    ASSUME CtlInv, NEW then \in {"exit0", "exit1"}, NEW grade \in {"none", "A+", "B", "C", "F"},
           ctl' = [Halting(then) EXCEPT !.grade = grade]
    PROVE  /\ ctl' \in Process /\ ctl'.cmd = ctl.cmd /\ ctl'.protocol = ctl.protocol /\ ctl'.chance = ctl.chance
           /\ ctl'.ttl = ctl.ttl /\ ctl'.pc = "post" /\ ctl'.doc = Reset /\ ctl'.then = then
           /\ ctl'.grade = grade
<1>1. ctl \in Process /\ then \in Thens
  BY DEF CtlInv, CtlTypeOK, Thens
<1>2. IsPosting(Halting(then), Reset, then)
  BY <1>1, HaltingIs
<1>3. ctl' \in Process /\ SameButGrade(ctl', Halting(then)) /\ ctl'.grade = grade
  BY <1>2, GradedIs DEF IsPosting
<1> QED
  BY <1>2, <1>3 DEF IsPosting, Same, SameButGrade

\* The records of the experiments.
LEMMA RecordedIs ==
    ASSUME CtlInv, NEW result \in {"SUCCESS", "FAILED"}
    PROVE  /\ Recorded(result) \in [readable : BOOLEAN, entries : Seq({"SUCCESS", "FAILED"}), backup : BOOLEAN]
           /\ \A i \in DOMAIN Recorded(result).entries :
                Recorded(result).entries[i] \in Recordings \cup {result}
<1> DEFINE S == {"SUCCESS", "FAILED"}
           es == history.entries
<1>1. history \in [readable : BOOLEAN, entries : Seq(S), backup : BOOLEAN]
  BY DEF CtlInv, CtlTypeOK
<1>2. CASE history.readable
  <2>1. es \in Seq(S) /\ result \in S
    BY <1>1
  <2>2. Append(es, result) \in Seq(S) /\ DOMAIN Append(es, result) = 1 .. Len(es) + 1
        /\ \A i \in 1 .. Len(es) + 1 : Append(es, result)[i] = IF i <= Len(es) THEN es[i] ELSE result
    <3> HIDE DEF es, S
    <3> QED BY <2>1, AppendProperties, LenProperties
  <2>3. \A i \in 1 .. Len(es) : es[i] \in Recordings
    <3>1. DOMAIN es = 1 .. Len(es)
      BY <2>1, LenProperties
    <3> QED
      BY <3>1 DEF Recordings
  <2>4. Recorded(result) = [history EXCEPT !.entries = Append(es, result)]
    BY <1>2 DEF Recorded
  <2>5. Recorded(result).entries = Append(es, result)
    BY <1>1, <2>4
  <2>6. Recorded(result) \in [readable : BOOLEAN, entries : Seq(S), backup : BOOLEAN]
    <3> HIDE DEF es, S
    <3> QED BY <1>1, <2>2, <2>4
  <2>7. Len(es) \in Nat
    BY <2>1, LenProperties
  <2> HIDE DEF es
  <2> QED
    BY <2>2, <2>3, <2>5, <2>6, <2>7
<1>3. CASE ~history.readable
  <2>1. Recorded(result) = [readable |-> TRUE, entries |-> <<result>>, backup |-> TRUE]
    BY <1>3 DEF Recorded
  <2>2. <<result>> \in Seq(S) /\ DOMAIN <<result>> = {1} /\ <<result>>[1] = result /\ TRUE \in BOOLEAN
    BY ElementOfSeq
  <2> QED
    BY <2>1, <2>2
<1> QED
  BY <1>2, <1>3

LEMMA RunProbeStep == ASSUME CtlInv, RunProbe PROVE CtlInv'
<1>1. /\ ctl.pc = "probe" /\ ctl.cmd = "run" /\ ctl \in Process /\ "SUCCESS" \notin Recordings
      /\ UNCHANGED <<file, gate, wire, engine, history, trouble, survived>>
  BY DEF RunProbe, At, CtlInv, CtlTypeOK, AtTheTop
<1>2. PICK outcome \in Outcome :
        /\ tally' = Counted(outcome)
        /\ ctl' = IF tally'.failures >= Threshold
                  THEN [Halting("exit1") EXCEPT !.grade = Grade'] ELSE To("loop")
  BY DEF RunProbe
<1>3. /\ tally' \in [probes : Nat, errors : Nat, slow : Nat, failures : 0 .. Threshold]
      /\ tally'.errors + tally'.slow <= tally'.probes /\ tally'.probes <= MaxProbes
  BY <1>1, <1>2, ProbeCounts
<1>4. Threshold \in Nat
  BY CtlAssumption
<1>5. /\ ctl' \in Process /\ ctl'.cmd = "run" /\ ctl'.protocol = ctl.protocol /\ ctl'.chance = ctl.chance
      /\ ctl'.ttl = ctl.ttl
      /\ \/ ctl'.pc = "post" /\ ctl'.then = "exit1" /\ ctl'.doc = Reset
         \/ ctl'.pc = "loop" /\ tally'.failures < Threshold
  <2>1. CASE tally'.failures >= Threshold
    <3>1. Grade' \in {"none", "A+", "B", "C", "F"}
      BY DEF Grade
    <3> QED
      BY <1>1, <1>2, <2>1, <3>1, EndingIs
  <2>2. CASE ~(tally'.failures >= Threshold)
    <3>1. "loop" \in Pcs
      BY DEF Pcs
    <3>2. ctl' \in Process /\ Same(ctl', ctl) /\ ctl'.pc = "loop"
      BY <1>1, <1>2, <2>2, <3>1, ToIs
    <3> QED
      BY <1>1, <1>3, <1>4, <2>2, <3>2 DEF Same
  <2> QED
    BY <2>1, <2>2
<1>6. CtlTypeOK'
  BY <1>1, <1>3, <1>5 DEF CtlInv, CtlTypeOK
<1>7. Given' /\ Looked'
  BY <1>1, <1>5 DEF CtlInv, Given, Looked, Looking
<1>8. Standing(ctl')
  BY <1>1, <1>5 DEF CtlInv, Standing, Posted, Stops, Looking
<1>9. Unbroken'
  BY <1>5 DEF Unbroken, Underway, Posted
<1>10. Awaited'
  <2>1. ~trouble => wire \subseteq {}
    BY <1>1 DEF CtlInv, Awaited
  <2> QED
    BY <1>1, <1>5, <2>1 DEF Awaited
<1>11. QuietAfterExit' /\ Running'
  BY <1>5 DEF QuietAfterExit, Ended, Running
<1>12. Climbed'
  <2>1. ~Untroubled'
    BY <1>5 DEF Untroubled
  <2> QED
    BY <1>1, <1>5, <2>1, StillClimbed DEF CtlInv
<1>13. AtTheTop'
  BY <1>1 DEF AtTheTop, Recordings
<1> QED
  BY <1>6, <1>7, <1>8, <1>9, <1>10, <1>11, <1>12, <1>13 DEF CtlInv

\* The step of a ramp that ends it.
LEMMA RampEnds ==
    ASSUME CtlInv, ctl.cmd = "autopilot", ctl.pc \in {"cycle", "probe"},
           NEW then \in {"exit0", "exit1"}, NEW grade \in {"none", "A+", "B", "C", "F"},
           ctl' = [Halting(then) EXCEPT !.grade = grade],
           NEW result \in {"SUCCESS", "FAILED"}, history' = Recorded(result),
           result = "SUCCESS" => ctl.chance > Limit /\ grade \in {"none", "A+"} /\ then = "exit0",
           tally' \in [probes : Nat, errors : Nat, slow : Nat, failures : 0 .. Threshold],
           tally'.errors + tally'.slow <= tally'.probes,
           UNCHANGED <<file, gate, wire, engine, trouble, survived>>
    PROVE  CtlInv'
<1>1. /\ ctl' \in Process /\ ctl'.cmd = "autopilot" /\ ctl'.protocol = ctl.protocol /\ ctl'.chance = ctl.chance
      /\ ctl'.ttl = ctl.ttl /\ ctl'.pc = "post" /\ ctl'.doc = Reset /\ ctl'.then = then /\ ctl'.grade = grade
  BY EndingIs
<1>2. "SUCCESS" \notin Recordings
  BY DEF CtlInv, AtTheTop
<1>3. /\ history' \in [readable : BOOLEAN, entries : Seq({"SUCCESS", "FAILED"}), backup : BOOLEAN]
      /\ "SUCCESS" \in Recordings' => result = "SUCCESS"
  <2>1. Recordings' = {Recorded(result).entries[i] : i \in DOMAIN Recorded(result).entries}
    BY DEF Recordings
  <2>2. \A i \in DOMAIN Recorded(result).entries : Recorded(result).entries[i] \in Recordings \cup {result}
    BY RecordedIs
  <2>3. Recordings' \subseteq Recordings \cup {result}
    BY <2>1, <2>2, Zenon
  <2>4. history' \in [readable : BOOLEAN, entries : Seq({"SUCCESS", "FAILED"}), backup : BOOLEAN]
    BY RecordedIs
  <2> QED
    BY <1>2, <2>3, <2>4
<1>4. CtlTypeOK'
  BY <1>1, <1>3 DEF CtlInv, CtlTypeOK
<1>5. Given' /\ Looked'
  BY <1>1 DEF CtlInv, Given, Looked, Looking
<1>6. Standing(ctl')
  BY <1>1 DEF CtlInv, Standing, Posted, Stops, Looking
<1>7. Unbroken'
  BY <1>1 DEF Unbroken, Underway, Posted
<1>8. Awaited'
  <2>1. ~trouble => wire \subseteq {}
    BY DEF CtlInv, Awaited
  <2> QED
    BY <1>1, <2>1 DEF Awaited
<1>9. QuietAfterExit' /\ Running'
  BY <1>1 DEF QuietAfterExit, Ended, Running
<1>10. Climbed'
  <2>1. Untroubled' => Untroubled
    BY DEF Untroubled
  <2> QED
    BY <1>1, <2>1, StillClimbed DEF CtlInv
<1>11. AtTheTop'
  BY <1>1, <1>3 DEF AtTheTop
<1> QED
  BY <1>4, <1>5, <1>6, <1>7, <1>8, <1>9, <1>10, <1>11 DEF CtlInv

LEMMA SucceedStep == ASSUME CtlInv, Succeed PROVE CtlInv'
<1>1. ctl.pc = "cycle" /\ ctl.chance > Limit /\ history' = Recorded("SUCCESS")
      /\ ctl' = [Halting("exit0") EXCEPT !.grade = Grade]
      /\ UNCHANGED <<file, gate, tally, wire, engine, trouble, survived>>
  BY DEF Succeed, At, Graded
<1>2. ctl.cmd = "autopilot"
  BY <1>1 DEF CtlInv, Standing
<1>3. tally.errors = 0 /\ tally.slow = 0
  BY <1>1, <1>2 DEF CtlInv, Unbroken, Underway
<1>4. tally \in [probes : Nat, errors : Nat, slow : Nat, failures : 0 .. Threshold]
      /\ tally.errors + tally.slow <= tally.probes
  BY DEF CtlInv, CtlTypeOK
<1>5. Grade \in {"none", "A+"}
  BY <1>3, <1>4, GradeIs
<1> QED
  BY <1>1, <1>2, <1>4, <1>5, RampEnds

\* A good probe raises the chance: one step more has been climbed.
LEMMA ClimbedOn ==
    ASSUME CtlInv, ctl.pc = "probe", ctl'.chance = ctl.chance + Step, ctl'.protocol = ctl.protocol,
           Untroubled' => Untroubled,
           survived' = IF engine = Decoded(Ramp(ctl.protocol, ctl.chance).conf)
                       THEN survived \cup {ctl.chance} ELSE survived
    PROVE  Climbed'
<1>1. PICK k \in Nat :
        /\ ctl.chance = 5 + k * Step
        /\ Untroubled => \A j \in 0 .. k - 1 : Acceptable(5 + j * Step) => 5 + j * Step \in survived
  BY DEF CtlInv, Climbed
<1>2. k + 1 \in Nat /\ ctl'.chance = 5 + (k + 1) * Step
  <2>1. Step \in Nat
    BY CtlAssumption
  <2>2. (k + 1) * Step = k * Step + Step /\ k * Step \in Nat
    BY <2>1
  <2> QED
    BY <1>1, <2>1, <2>2
<1>3. \A chance : Acceptable(chance)' = Acceptable(chance)
  BY DEF Acceptable
<1>4. \A chance : chance \in survived => chance \in survived'
  OBVIOUS
<1>5. Untroubled /\ Acceptable(ctl.chance) => ctl.chance \in survived'
  BY DEF CtlInv, Running
<1>6. ASSUME Untroubled', NEW j \in 0 .. (k + 1) - 1, Acceptable(5 + j * Step)'
      PROVE  5 + j * Step \in survived'
  <2>1. j \in 0 .. k - 1 \/ j = k
    OBVIOUS
  <2>2. Untroubled /\ Acceptable(5 + j * Step)
    BY <1>3, <1>6, Zenon
  <2>3. CASE j \in 0 .. k - 1
    BY <1>1, <1>4, <2>2, <2>3, Zenon
  <2>4. CASE j = k
    BY <1>1, <1>5, <2>2, <2>4, Zenon
  <2> QED
    BY <2>1, <2>3, <2>4
<1> QED
  BY <1>2, <1>6, Zenon DEF Climbed

LEMMA RampProbeStep == ASSUME CtlInv, RampProbe PROVE CtlInv'
<1>1. /\ ctl.pc = "probe" /\ ctl.cmd = "autopilot" /\ ctl \in Process /\ "SUCCESS" \notin Recordings
      /\ UNCHANGED <<file, gate, wire, engine, trouble>>
  BY DEF RampProbe, At, CtlInv, CtlTypeOK, AtTheTop
<1>2. PICK outcome \in Outcome :
        /\ tally' = Counted(outcome)
        /\ IF Bad(outcome)
           THEN /\ ctl' = [Halting("exit1") EXCEPT !.grade = Grade']
                /\ history' = Recorded("FAILED") /\ UNCHANGED survived
           ELSE /\ ctl' = [To("cycle") EXCEPT !.chance = @ + Step]
                /\ survived' = IF engine = Decoded(Ramp(ctl.protocol, ctl.chance).conf)
                               THEN survived \cup {ctl.chance} ELSE survived
                /\ UNCHANGED history
  BY DEF RampProbe
<1>3. /\ tally' \in [probes : Nat, errors : Nat, slow : Nat, failures : 0 .. Threshold]
      /\ tally'.errors + tally'.slow <= tally'.probes
      /\ ~Bad(outcome) => tally'.failures = 0 /\ tally'.errors = tally.errors /\ tally'.slow = tally.slow
  BY <1>1, <1>2, ProbeCounts
<1>4. CASE Bad(outcome)
  <2>1. Grade' \in {"none", "A+", "B", "C", "F"}
    BY DEF Grade
  <2> QED
    BY <1>1, <1>2, <1>3, <1>4, <2>1, RampEnds
<1>5. CASE ~Bad(outcome)
  <2> DEFINE p == To("cycle")
             chance == ctl.chance + Step
  <2>1. p \in Process /\ Same(p, ctl) /\ p.pc = "cycle"
    BY <1>1, ToIs DEF Pcs
  <2>2. ctl' = [p EXCEPT !.chance = chance] /\ chance \in Nat
    <3>1. ctl' = [p EXCEPT !.chance = p.chance + Step]
      BY <1>2, <1>5
    <3>2. p.chance = ctl.chance /\ ctl.chance \in Nat /\ Step \in Nat
      BY <1>1, <2>1, CtlAssumption DEF Same, Process
    <3> QED
      BY <3>1, <3>2
  <2>3. ctl' \in Process /\ ctl'.cmd = "autopilot" /\ ctl'.protocol = ctl.protocol /\ ctl'.chance = chance
        /\ ctl'.ttl = ctl.ttl /\ ctl'.pc = "cycle"
    <3> HIDE DEF p, chance
    <3> QED BY <1>1, <2>1, <2>2 DEF Process, Same
  <2>4. UNCHANGED history
        /\ survived' = IF engine = Decoded(Ramp(ctl.protocol, ctl.chance).conf)
                       THEN survived \cup {ctl.chance} ELSE survived
    BY <1>2, <1>5
  <2>5. CtlTypeOK'
    BY <1>1, <1>3, <2>3, <2>4 DEF CtlInv, CtlTypeOK
  <2>6. Given' /\ Looked'
    BY <1>1, <2>3 DEF CtlInv, Given, Looked, Looking
  <2>7. Standing(ctl')
    BY <1>1, <2>3 DEF CtlInv, Standing, Posted, Stops, Looking
  <2>8. Unbroken'
    <3>1. tally.errors = 0 /\ tally.slow = 0
      BY <1>1 DEF CtlInv, Unbroken, Underway
    <3>2. Threshold \in Nat \ {0}
      BY CtlAssumption
    <3> QED
      BY <1>3, <1>5, <2>3, <3>1, <3>2 DEF Unbroken
  <2>9. Awaited'
    <3>1. ~trouble => wire \subseteq {}
      BY <1>1 DEF CtlInv, Awaited
    <3> QED
      BY <1>1, <2>3, <3>1 DEF Awaited
  <2>10. QuietAfterExit' /\ Running'
    BY <2>3 DEF QuietAfterExit, Ended, Running
  <2>11. Climbed'
    <3>1. Untroubled' => Untroubled
      BY <1>1 DEF Untroubled
    <3> QED
      BY <1>1, <2>3, <2>4, <3>1, ClimbedOn
  <2>12. AtTheTop'
    BY <1>1, <2>4 DEF AtTheTop, Recordings
  <2> QED
    BY <2>5, <2>6, <2>7, <2>8, <2>9, <2>10, <2>11, <2>12 DEF CtlInv
<1> QED
  BY <1>4, <1>5

-----------------------------------------------------------------------------
\* The invariant is inductive.

LEMMA Stuttering == ASSUME CtlInv, UNCHANGED ctlVars PROVE CtlInv'
<1>1. UNCHANGED <<file, gate, ctl, tally, wire, engine, history, trouble, survived>>
  BY DEF ctlVars
<1>2. CtlTypeOK' /\ Given' /\ Unbroken' /\ Climbed' /\ AtTheTop' /\ Looked' /\ Standing(ctl)'
  BY <1>1, Still
<1>3. Awaited' /\ QuietAfterExit'
  BY <1>1 DEF CtlInv, Awaited, QuietAfterExit, Ended, Halts
<1>4. Running'
  BY <1>1 DEF CtlInv, Running, Untroubled, Acceptable
<1> QED
  BY <1>2, <1>3, <1>4 DEF CtlInv

LEMMA CtlStep == CtlInv /\ [CtlNext]_ctlVars => CtlInv'
<1> SUFFICES ASSUME CtlInv, [CtlNext]_ctlVars PROVE CtlInv' OBVIOUS
<1>1. CASE StartHalt \/ StartInject \/ StartGuard \/ StartExperiment
  BY <1>1, StartStep
<1>2. CASE StartStrike
  BY <1>2, StrikeStep
<1>3. CASE Tick \/ Settled \/ Interrupt \/ Killed
  BY <1>3, MoveStep
<1>4. CASE TtlOver \/ Expire \/ FirstProbe \/ Cycle \/ AbortSettle
  BY <1>4, PostStep
<1>5. CASE Send
  BY <1>5, SendStep
<1>6. CASE Timeout
  BY <1>6, TimeoutStep
<1>7. CASE Serve
  BY <1>7, ServeStep
<1>8. CASE Lose
  BY <1>8, LoseStep
<1>9. CASE RunProbe
  BY <1>9, RunProbeStep
<1>10. CASE RampProbe
  BY <1>10, RampProbeStep
<1>11. CASE Succeed
  BY <1>11, SucceedStep
<1>12. CASE UNCHANGED ctlVars
  BY <1>12, Stuttering
<1> QED
  BY <1>1, <1>2, <1>3, <1>4, <1>5, <1>6, <1>7, <1>8, <1>9, <1>10, <1>11, <1>12 DEF CtlNext, Work

\* Every reachable state of a command, its engine and the network satisfies the
\* invariant, however the steps interleave (pastaayctl, pkg/webhook).
THEOREM CtlInvariance == CtlSpec => []CtlInv
<1>1. CtlInit => CtlInv
  BY CtlInitially
<1>2. CtlInv /\ [CtlNext]_ctlVars => CtlInv'
  BY CtlStep
<1> QED
  BY <1>1, <1>2, PTL DEF CtlSpec

\* The variables keep their types; what the process posts is one of its
\* payloads, and no experiment counts a failure beyond its threshold (run.go,
\* autopilot.go).
THEOREM CtlTypes == CtlSpec => []CtlTypeOK
<1>1. CtlInv => CtlTypeOK
  BY DEF CtlInv
<1> QED
  BY <1>1, CtlInvariance, PTL

\* A command that halts the engine and ends by itself leaves it at peace, if the
\* network delivered what it was given: dispatch of the empty configuration.
THEOREM QuietExit == CtlSpec => []QuietAfterExit
<1>1. CtlInv => QuietAfterExit
  BY DEF CtlInv
<1> QED
  BY <1>1, CtlInvariance, PTL

-----------------------------------------------------------------------------
\* What follows from it.

LEMMA FewerSteps ==
    ASSUME NEW j \in Nat, NEW k \in Nat, NEW step \in Nat, j * step < k * step
    PROVE  j < k
<1> SUFFICES ASSUME k <= j PROVE FALSE
  OBVIOUS
<1> DEFINE d == j - k
<1>1. d \in Nat /\ j = k + d
  OBVIOUS
<1> HIDE DEF d
<1>2. j * step = k * step + d * step
  BY <1>1
<1>3. d * step \in Nat /\ k * step \in Nat
  BY <1>1
<1> QED
  BY <1>2, <1>3

LEMMA TopIsEarned == CtlInv => SuccessIsEarned
<1> SUFFICES ASSUME CtlInv, "SUCCESS" \in Recordings
             PROVE  /\ ctl.grade \in {"none", "A+"}
                    /\ ~trouble /\ gate = "open" =>
                          \A chance \in Rung \cap (5 .. Limit) : Acceptable(chance) => chance \in survived
  BY DEF SuccessIsEarned, Recordings
<1>1. ctl.cmd = "autopilot" /\ ctl.chance > Limit /\ ctl.grade \in {"none", "A+"}
  BY DEF CtlInv, AtTheTop
<1>2. ASSUME ~trouble, gate = "open", NEW chance \in Rung \cap (5 .. Limit), Acceptable(chance)
      PROVE  chance \in survived
  <2>1. PICK k \in Nat :
            /\ ctl.chance = 5 + k * Step
            /\ Untroubled => \A j \in 0 .. k - 1 : Acceptable(5 + j * Step) => 5 + j * Step \in survived
    BY DEF CtlInv, Climbed
  <2>2. PICK j \in 0 .. Limit : chance = 5 + j * Step
    BY <1>2 DEF Rung
  <2>3. Step \in Nat /\ Limit \in Nat
    BY CtlAssumption
  <2>4. j \in Nat /\ j * Step \in Nat /\ k * Step \in Nat
    BY <2>1, <2>2, <2>3
  <2>5. j * Step < k * Step
    BY <1>1, <1>2, <2>1, <2>2, <2>3, <2>4
  <2>6. j \in 0 .. k - 1
    <3>1. j < k
      BY <2>1, <2>3, <2>4, <2>5, FewerSteps
    <3> QED
      BY <2>1, <2>4, <3>1
  <2>7. Untroubled
    BY <1>1, <1>2 DEF Untroubled
  <2> QED
    BY <1>2, <2>1, <2>2, <2>6, <2>7, Zenon
<1> QED
  BY <1>1, <1>2

\* The success that autopilot records is earned on every rung of the ramp the
\* engine could run, with a grade to match (autopilot.go, history.go).
THEOREM SuccessEarned == CtlSpec => []SuccessIsEarned
BY TopIsEarned, CtlInvariance, PTL

\* In camelCase, the same document.
LEMMA RespelledAgrees ==
    ASSUME NEW c \in [version : Int, warmup : Int, protected : BOOLEAN, policies : Seq(Nodes)],
           NEW qs, qs = [i \in DOMAIN c.policies |-> Cameled(c.policies[i])],
           NEW d, d = [c EXCEPT !.policies = qs],
           \A i \in DOMAIN c.policies : WellFormed(c.policies[i])
    PROVE  Decoded(d) = Decoded(c) /\ \A i \in DOMAIN d.policies : WellFormed(d.policies[i])
<1> DEFINE ps == c.policies
           rs == [i \in DOMAIN ps |-> Decode(ps[i])]
           ss == [i \in DOMAIN qs |-> Decode(qs[i])]
<1>1. DOMAIN qs = DOMAIN ps /\ \A i \in DOMAIN ps : qs[i] = Cameled(ps[i])
  OBVIOUS
<1>2. \A i \in DOMAIN ps : WellFormed(Cameled(ps[i])) /\ Decode(Cameled(ps[i])) = Decode(ps[i])
  BY SpellingsAgree
<1>3. ss = rs
  <2>1. \A i \in DOMAIN ps : Decode(qs[i]) = Decode(ps[i])
    BY <1>1, <1>2
  <2> HIDE DEF ps
  <2> QED
    BY <1>1, <2>1
<1>4. d.policies = qs
  OBVIOUS
<1>5. Decoded(d) = [d EXCEPT !.policies = ss] /\ Decoded(c) = [c EXCEPT !.policies = rs]
  BY <1>4, Zenon DEF Decoded
<1>6. Decoded(d) = Decoded(c)
  <2> HIDE DEF rs, ss
  <2> QED
    BY <1>3, <1>5
<1>7. \A i \in DOMAIN d.policies : WellFormed(d.policies[i])
  <2> HIDE DEF ps
  <2> QED BY <1>1, <1>2, <1>4
<1> QED
  BY <1>6, <1>7

LEMMA LookedAgrees == CtlInv => ValidateSpeaksForEngine
<1> DEFINE nodes == file.conf.policies
           cameled == [i \in DOMAIN nodes |-> Cameled(nodes[i])]
           conf == [file.conf EXCEPT !.policies = cameled]
           respelled == [file EXCEPT !.conf = conf]
           typed == \A i \in DOMAIN nodes : WellFormed(nodes[i])
<1> SUFFICES ASSUME CtlInv, Ended, ctl.cmd = "validate", file.size = "small", gate = "open"
             PROVE  /\ At("exit0") <=> Response(file) = "200"
                    /\ typed => /\ At("exit0") <=> Response(respelled) = "200"
                                /\ At("exit0") => Decoded(respelled.conf) = Decoded(file.conf)
  BY Zenon DEF ValidateSpeaksForEngine
<1>1. At("exit0") <=> Loads(file)
  BY DEF CtlInv, Looked, Looking, Ended, At
<1>2. file \in Written
  BY DEF CtlInv, CtlTypeOK
<1>3. Received(file) = file.conf
  BY DEF Received
<1>4. Response(file) = "200" <=> Loads(file)
  BY <1>3 DEF Response, Loads
<1>5. ASSUME typed
      PROVE  (Response(respelled) = "200" <=> Loads(file)) /\ Decoded(respelled.conf) = Decoded(file.conf)
  <2>1. file.conf \in [version : Int, warmup : Int, protected : BOOLEAN, policies : Seq(Nodes)]
    BY <1>2 DEF Written
  <2>2. /\ Decoded(conf) = Decoded(file.conf)
        /\ \A i \in DOMAIN conf.policies : WellFormed(conf.policies[i])
    <3> DEFINE c == file.conf
    <3>1. \A i \in DOMAIN c.policies : WellFormed(c.policies[i])
      BY <1>5
    <3>2. cameled = [i \in DOMAIN c.policies |-> Cameled(c.policies[i])] /\ conf = [c EXCEPT !.policies = cameled]
      OBVIOUS
    <3>3. c \in [version : Int, warmup : Int, protected : BOOLEAN, policies : Seq(Nodes)]
      BY <2>1
    <3> HIDE DEF conf, cameled, nodes, c
    <3>4. Decoded(conf) = Decoded(c) /\ \A i \in DOMAIN conf.policies : WellFormed(conf.policies[i])
      BY <3>1, <3>2, <3>3, RespelledAgrees
    <3> QED
      BY <3>4 DEF c
  <2> HIDE DEF conf
  <2>3. respelled.conf = conf /\ respelled.size = "small" /\ respelled.alias = file.alias
    BY <1>2 DEF Written
  <2> HIDE DEF respelled
  <2>4. Received(respelled) = conf
    BY <2>3 DEF Received
  <2>5. Response(respelled) = "200" <=> ~file.alias /\ Valid(Decoded(file.conf))
    BY <2>2, <2>3, <2>4 DEF Response
  <2> QED
    BY <1>5, <2>2, <2>3, <2>5 DEF Loads
<1> QED
  BY <1>1, <1>4, <1>5

\* validate accepts a file within the webhook's limit exactly when the engine
\* does, and whichever spelling its keys have (validate.go, LoadConfig,
\* UnmarshalYAML, WebhookHandler).
THEOREM ValidateAgrees == CtlSpec => []ValidateSpeaksForEngine
BY LookedAgrees, CtlInvariance, PTL

LEMMA PlannedGrows == CtlInv => PlanRiskGrows
<1> SUFFICES ASSUME CtlInv, ctl.pc = "exit0", ctl.cmd = "plan" PROVE RiskGrows(Decoded(file.conf))
  BY DEF PlanRiskGrows, At
<1> DEFINE c == file.conf
           S == {Decode(n) : n \in Nodes}
<1>1. Loads(file) /\ file \in Drafts /\ file \in Written
  BY DEF CtlInv, CtlTypeOK, Looked, Given, Looking
<1>2. c \in [version : Int, warmup : Int, protected : BOOLEAN, policies : Seq(Nodes)]
  BY <1>1, CtlAssumption DEF Written
<1>3. \A i \in DOMAIN c.policies : WellFormed(c.policies[i])
  BY <1>1 DEF Loads
<1>4. Valid(Decoded(c))
  BY <1>1 DEF Loads
<1> HIDE DEF c
<1> DEFINE d == Decoded(c)
<1>5. /\ DOMAIN d.policies = DOMAIN c.policies /\ d.policies \in Seq(S)
      /\ \A i \in DOMAIN c.policies : d.policies[i] = Decode(c.policies[i])
      /\ d \in [version : Int, warmup : Int, protected : BOOLEAN, policies : Seq(S)]
  BY <1>2, DecodedPolicies
<1>6. ASSUME NEW i \in DOMAIN d.policies PROVE Numbers(d.policies[i])
  <2> DEFINE node == c.policies[i]
             numbers == {"error_chance", "latency_chance", "latency_duration", "ram_chunk_mb",
                         "throttle_threshold"}
  <2>1. node \in Nodes /\ WellFormed(node) /\ d.policies[i] = Decode(node)
    BY <1>2, <1>3, <1>5, <1>6, ElementOfSeq
  <2>2. PolicyValid(d.policies[i])
    BY <1>4, <1>6 DEF Valid
  <2>3. numbers \subseteq NumberField
    BY DEF NumberField, Field, Kind
  <2> HIDE DEF node, d
  <2>4. \A f \in numbers : d.policies[i][f] \in Int
    BY <2>1, <2>3, NumbersDecode
  <2>5. "error_chance" \in DOMAIN Ceiling /\ "latency_chance" \in DOMAIN Ceiling
    BY DEF Ceiling
  <2>6. d.policies[i]["error_chance"] >= 0 /\ d.policies[i]["latency_chance"] >= 0
    BY <2>2, <2>5 DEF PolicyValid
  <2> QED
    BY <2>4, <2>6 DEF Numbers
<1>7. RiskGrows(d)
  <2> HIDE DEF d
  <2> QED BY <1>5, <1>6, LessIsLess
<1> QED
  BY <1>7 DEF c

\* In a file that plan accepts, a policy more is never less of a risk, however
\* many policies there are and whatever they say (plan.go, risk.go).
THEOREM PlanGrows == CtlSpec => []PlanRiskGrows
BY PlannedGrows, CtlInvariance, PTL
=============================================================================
