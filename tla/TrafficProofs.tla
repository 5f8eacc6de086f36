----------------------------- MODULE TrafficProofs -----------------------------
(***************************************************************************)
(* What holds of gRPC streams for any methods, metadata and configurations *)
(* that replace each other at any time, and of all the traffic together.   *)
(***************************************************************************)
EXTENDS Traffic, InterceptorsProofs

Deciding == {"lookup", "decide"}
Underway == Deciding \cup {"lock", "roll", "delay"}

\* What a direction looks at comes from some configuration.
OfConfigs == \A d \in Direction : \A i \in DOMAIN half[d].policies : half[d].policies[i] \in Known
Pointed == \A d \in Direction : half[d].pc \in Underway => Unasked(d)

\* Only in an open call is anything evaluated or remembered.
InCall == /\ \A d \in Direction : half[d].pc # "idle" => rpc.kind # "none"
          /\ rpc.kind = "none" => seen = Unseen

\* The mutex covers the whole decision, so nobody else decides meanwhile.
Exclusive == \A d \in Direction :
    /\ half[d].pc \in Deciding => mu = d
    /\ half[d].pc = "decide" => decided[Asked(d)] = "none"

\* What took effect is what the map says.
Remembered == \A p \in Known : \A v \in seen[p] : v = decided[p] /\ v # "none"

StreamInv == StreamTypeOK /\ OfConfigs /\ Pointed /\ InCall /\ Exclusive /\ Remembered

-----------------------------------------------------------------------------
\* Every policy of a configuration is known.
LEMMA KnownPolicies ==
    ASSUME NEW c \in GrpcConfigs
    PROVE  c.policies \in Seq(GrpcPolicy) /\ \A i \in DOMAIN c.policies : c.policies[i] \in Known
BY GrpcAssumption DEF Known

LEMMA EmptyIsSeq == <<>> \in Seq(GrpcPolicy) /\ DOMAIN <<>> = {}
OBVIOUS

LEMMA IdleIsHalf == Idle \in Half /\ Idle.pc = "idle" /\ DOMAIN Idle.policies = {}
<1>1. 1 \in Nat \ {0}
  OBVIOUS
<1> QED
  BY <1>1, EmptyIsSeq DEF Idle, Half

\* A half that is somewhere else, and one that asks the next policy.
LEMMA HalfMoves ==
    ASSUME NEW h \in Half,
           NEW pc \in {"idle", "load", "consult", "lock", "lookup", "decide", "roll", "delay"}
    PROVE  /\ Moved(pc, h) \in Half /\ Moved(pc, h).pc = pc
           /\ Moved(pc, h).policies = h.policies /\ Moved(pc, h).next = h.next
BY DEF Half, Moved

LEMMA HalfOnward ==
    ASSUME NEW h \in Half
    PROVE  Onward(h) \in Half /\ Onward(h).pc = "consult" /\ Onward(h).policies = h.policies
<1>1. h.policies \in Seq(GrpcPolicy) /\ h.next + 1 \in Nat \ {0}
  BY DEF Half
<1> QED
  BY <1>1 DEF Half, Onward

\* A policy a direction asks about is known.
LEMMA AskedIsKnown ==
    ASSUME StreamInv, NEW d \in Direction, half[d].pc \in Underway
    PROVE  Asked(d) \in Known
<1>1. half[d] \in Half
  BY DEF StreamInv, StreamTypeOK
<1>2. half[d].next \in DOMAIN half[d].policies
  BY <1>1 DEF StreamInv, Pointed, Unasked, Half
<1> QED
  BY <1>2 DEF StreamInv, OfConfigs, Asked

\* A verdict takes a message to a place where nothing is held.
LEMMA UnderVerdict ==
    ASSUME NEW h \in Half, NEW v \in Verdict
    PROVE  /\ Under(v, h) \in Half
           /\ Under(v, h).pc \in {"consult", "delay", "idle"}
           /\ Under(v, h).policies = h.policies \/ DOMAIN Under(v, h).policies = {}
           /\ Under(v, h).pc = "delay" => Under(v, h).policies = h.policies /\ Under(v, h).next = h.next
<1>1. CASE v = "pass"
  <2>1. Under(v, h) = Onward(h)
    BY <1>1 DEF Under
  <2> QED
    BY <2>1, HalfOnward
<1>2. CASE v = "delay"
  <2>1. Under(v, h) = Moved("delay", h)
    BY <1>2 DEF Under
  <2> QED
    BY <2>1, HalfMoves
<1>3. CASE v = "error"
  BY <1>3, IdleIsHalf DEF Under
<1> QED
  BY <1>1, <1>2, <1>3 DEF Verdict

LEMMA DrawsAreVerdicts == ASSUME NEW p PROVE Draws(p) \subseteq Verdict \ {"none"}
BY DEF Draws, Verdict

-----------------------------------------------------------------------------
LEMMA Initially == StreamInit => StreamInv
<1> SUFFICES ASSUME StreamInit PROVE StreamInv
  OBVIOUS
<1>1. \A d \in Direction : half[d] = Idle
  BY DEF StreamInit
<1>2. StreamTypeOK
  BY <1>1, IdleIsHalf DEF StreamInit, StreamTypeOK, Nothing, Unseen, NoRpc, Wrapper
<1> QED
  BY <1>1, <1>2, IdleIsHalf
  DEF StreamInit, StreamInv, OfConfigs, Pointed, InCall, Exclusive, Remembered, Unseen, NoRpc, Underway, Deciding

\* One direction moves to a place where it does not decide.
LEMMA Moving ==
    ASSUME StreamInv, NEW d \in Direction, NEW h \in Half,
           half' = [half EXCEPT ![d] = h], UNCHANGED <<live, rpc, decided, mu, seen>>,
           \A i \in DOMAIN h.policies : h.policies[i] \in Known,
           h.pc \notin Deciding, h.pc # "idle" => rpc.kind # "none",
           h.pc \in Underway => h.next <= Len(h.policies)
    PROVE  StreamInv'
<1>1. half \in [Direction -> Half]
  BY DEF StreamInv, StreamTypeOK
<1>2. half' \in [Direction -> Half] /\ half'[d] = h /\ \A e \in Direction \ {d} : half'[e] = half[e]
  BY <1>1
<1>3. StreamTypeOK'
  BY <1>2 DEF StreamInv, StreamTypeOK
<1>4. OfConfigs' /\ Pointed' /\ InCall'
  BY <1>2 DEF StreamInv, OfConfigs, Pointed, InCall, Unasked
<1>5. Exclusive'
  BY <1>2 DEF StreamInv, Exclusive, Asked, Deciding
<1>6. Remembered'
  BY DEF StreamInv, Remembered
<1> QED
  BY <1>3, <1>4, <1>5, <1>6 DEF StreamInv

LEMMA MessageStep == ASSUME StreamInv, NEW d \in Direction, Message(d) PROVE StreamInv'
<1> DEFINE h == Moved("load", half[d])
<1>1. half[d] = Idle
  BY DEF Message
<1>2. h \in Half /\ h.pc = "load" /\ DOMAIN h.policies = {}
  BY <1>1, IdleIsHalf, HalfMoves
<1>3. half' = [half EXCEPT ![d] = h] /\ rpc.kind # "none" /\ UNCHANGED <<live, rpc, decided, mu, seen>>
  BY DEF Message
<1> HIDE DEF h
<1> QED
  BY <1>2, <1>3, Moving DEF Underway, Deciding

LEMMA LoadStep == ASSUME StreamInv, NEW d \in Direction, LoadPolicies(d) PROVE StreamInv'
<1> DEFINE h == [pc |-> "consult", policies |-> live.policies, next |-> 1]
<1>0. 1 \in Nat \ {0}
  OBVIOUS
<1>1. live \in GrpcConfigs
  BY DEF StreamInv, StreamTypeOK
<1>2. h \in Half /\ h.pc = "consult" /\ \A i \in DOMAIN h.policies : h.policies[i] \in Known
  BY <1>0, <1>1, KnownPolicies DEF Half
<1>3. half' = [half EXCEPT ![d] = h] /\ UNCHANGED <<live, rpc, decided, mu, seen>>
  BY DEF LoadPolicies
<1>4. rpc.kind # "none"
  BY DEF LoadPolicies, StreamInv, InCall
<1> HIDE DEF h
<1> QED
  BY <1>2, <1>3, <1>4, Moving DEF Underway, Deciding

LEMMA ConsultStep == ASSUME StreamInv, NEW d \in Direction, Consulting(d) PROVE StreamInv'
<1>1. half[d] \in Half /\ rpc.kind # "none" /\ half[d].pc = "consult"
  BY DEF Consulting, StreamInv, InCall, StreamTypeOK
<1>2. \A i \in DOMAIN half[d].policies : half[d].policies[i] \in Known
  BY DEF StreamInv, OfConfigs
<1>3. UNCHANGED <<live, rpc, decided, mu, seen>>
  BY DEF Consulting
<1>4. CASE ~Unasked(d)
  <2>1. half' = [half EXCEPT ![d] = Idle]
    BY <1>4 DEF Consulting
  <2> QED
    BY <1>3, <2>1, IdleIsHalf, Moving DEF Underway, Deciding
<1>5. CASE Unasked(d) /\ ~Matches(Asked(d))
  <2> DEFINE h == Onward(half[d])
  <2>1. half' = [half EXCEPT ![d] = h]
    BY <1>5 DEF Consulting
  <2>2. h \in Half /\ h.pc = "consult" /\ h.policies = half[d].policies
    BY <1>1, HalfOnward
  <2> HIDE DEF h
  <2> QED
    BY <1>1, <1>2, <1>3, <2>1, <2>2, Moving DEF Underway, Deciding
<1>6. CASE Unasked(d) /\ Matches(Asked(d))
  <2>1. PICK pc \in {"lock", "roll"} : half' = [half EXCEPT ![d] = Moved(pc, half[d])]
    BY <1>6 DEF Consulting
  <2> DEFINE h == Moved(pc, half[d])
  <2>2. h \in Half /\ h.pc = pc /\ h.policies = half[d].policies /\ h.next = half[d].next
    BY <1>1, HalfMoves
  <2>3. half' = [half EXCEPT ![d] = h]
    BY <2>1
  <2> HIDE DEF h
  <2> QED
    BY <1>1, <1>2, <1>3, <1>6, <2>2, <2>3, Moving DEF Deciding, Unasked
<1> QED
  BY <1>4, <1>5, <1>6

LEMMA RollStep == ASSUME StreamInv, NEW d \in Direction, Roll(d) PROVE StreamInv'
<1>1. half[d] \in Half /\ rpc.kind # "none" /\ half[d].pc = "roll"
  BY DEF Roll, StreamInv, InCall, StreamTypeOK
<1>2. (\A i \in DOMAIN half[d].policies : half[d].policies[i] \in Known) /\ Unasked(d)
  BY <1>1 DEF StreamInv, OfConfigs, Pointed, Underway
<1>3. PICK v \in Verdict : half' = [half EXCEPT ![d] = Under(v, half[d])]
  BY DrawsAreVerdicts DEF Roll
<1> DEFINE h == Under(v, half[d])
<1>4. /\ h \in Half /\ h.pc \in {"consult", "delay", "idle"}
      /\ h.policies = half[d].policies \/ DOMAIN h.policies = {}
      /\ h.pc = "delay" => h.policies = half[d].policies /\ h.next = half[d].next
  BY <1>1, UnderVerdict
<1>5. half' = [half EXCEPT ![d] = h] /\ UNCHANGED <<live, rpc, decided, mu, seen>>
  BY <1>3 DEF Roll
<1> HIDE DEF h
<1> QED
  BY <1>1, <1>2, <1>4, <1>5, Moving DEF Underway, Deciding, Unasked

LEMMA WaitStep == ASSUME StreamInv, NEW d \in Direction, WaitOver(d) PROVE StreamInv'
<1>1. half[d] \in Half /\ rpc.kind # "none"
  BY DEF WaitOver, StreamInv, InCall, StreamTypeOK
<1>2. \A i \in DOMAIN half[d].policies : half[d].policies[i] \in Known
  BY DEF StreamInv, OfConfigs
<1>3. UNCHANGED <<live, rpc, decided, mu, seen>>
  BY DEF WaitOver
<1>4. CASE half' = [half EXCEPT ![d] = Idle]
  BY <1>3, <1>4, IdleIsHalf, Moving DEF Underway, Deciding
<1>5. CASE half' = [half EXCEPT ![d] = Onward(half[d])]
  <2> DEFINE h == Onward(half[d])
  <2>1. half' = [half EXCEPT ![d] = h]
    BY <1>5
  <2>2. h \in Half /\ h.pc = "consult" /\ h.policies = half[d].policies
    BY <1>1, HalfOnward
  <2> HIDE DEF h
  <2> QED
    BY <1>1, <1>2, <1>3, <2>1, <2>2, Moving DEF Underway, Deciding
<1> QED
  BY <1>4, <1>5 DEF WaitOver

LEMMA LockStep == ASSUME StreamInv, NEW d \in Direction, Lock(d) PROVE StreamInv'
<1> DEFINE h == Moved("lookup", half[d])
<1>1. half \in [Direction -> Half] /\ half[d] \in Half /\ half[d].pc = "lock" /\ mu = "free"
  BY DEF Lock, StreamInv, StreamTypeOK
<1>2. h \in Half /\ h.pc = "lookup" /\ h.policies = half[d].policies /\ h.next = half[d].next
  BY <1>1, HalfMoves
<1>3. half' = [half EXCEPT ![d] = h] /\ mu' = d /\ UNCHANGED <<live, rpc, decided, seen>>
  BY DEF Lock
<1> HIDE DEF h
<1>4. half' \in [Direction -> Half] /\ half'[d] = h /\ \A e \in Direction \ {d} : half'[e] = half[e]
  BY <1>1, <1>2, <1>3
<1>5. StreamTypeOK'
  BY <1>3, <1>4 DEF StreamInv, StreamTypeOK
<1>6. OfConfigs' /\ Pointed' /\ InCall'
  BY <1>1, <1>2, <1>3, <1>4 DEF StreamInv, OfConfigs, Pointed, InCall, Unasked, Underway
<1>7. \A e \in Direction : half[e].pc \notin Deciding
  BY <1>1 DEF StreamInv, Exclusive, Direction
<1>8. Exclusive'
  BY <1>2, <1>3, <1>4, <1>7 DEF Exclusive, Asked, Deciding
<1>9. Remembered'
  BY <1>3 DEF StreamInv, Remembered
<1> QED
  BY <1>5, <1>6, <1>8, <1>9 DEF StreamInv

\* Whoever holds the mutex is the only one that decides.
LEMMA OthersWait ==
    ASSUME StreamInv, NEW d \in Direction, half[d].pc \in Deciding
    PROVE  \A e \in Direction \ {d} : half[e].pc \notin Deciding
BY DEF StreamInv, Exclusive

\* The mutex is given back, and the verdict v of policy p takes effect.
LEMMA Settling ==
    ASSUME StreamInv, NEW d \in Direction, half[d].pc \in Deciding, NEW v \in Verdict,
           half' = [half EXCEPT ![d] = Under(v, half[d])], mu' = "free", UNCHANGED <<live, rpc>>,
           decided' = [decided EXCEPT ![Asked(d)] = v],
           seen' = [seen EXCEPT ![Asked(d)] = @ \cup {v}],
           decided[Asked(d)] \in {"none", v}
    PROVE  StreamInv'
<1> DEFINE h == Under(v, half[d])
           p == Asked(d)
<1>1. half \in [Direction -> Half] /\ half[d] \in Half /\ Unasked(d) /\ rpc.kind # "none"
  BY DEF StreamInv, StreamTypeOK, Pointed, InCall, Underway, Deciding
<1>2. p \in Known
  BY AskedIsKnown DEF Underway
<1>3. /\ h \in Half /\ h.pc \in {"consult", "delay", "idle"}
      /\ h.policies = half[d].policies \/ DOMAIN h.policies = {}
      /\ h.pc = "delay" => h.policies = half[d].policies /\ h.next = half[d].next
  BY <1>1, UnderVerdict
<1>4. half' = [half EXCEPT ![d] = h]
  OBVIOUS
<1>5. v # "none"
  BY DEF Verdict
<1>6. /\ decided \in [Known -> Verdict \cup {"none"}] /\ seen \in [Known -> SUBSET Verdict]
      /\ decided' = [decided EXCEPT ![p] = v] /\ seen' = [seen EXCEPT ![p] = seen[p] \cup {v}]
      /\ decided[p] \in {"none", v}
  BY DEF StreamInv, StreamTypeOK
<1> HIDE DEF h, p
<1>7. half' \in [Direction -> Half] /\ half'[d] = h /\ \A e \in Direction \ {d} : half'[e] = half[e]
  BY <1>1, <1>3, <1>4
<1>8. decided' \in [Known -> Verdict \cup {"none"}] /\ seen' \in [Known -> SUBSET Verdict]
  <2>1. decided' \in [Known -> Verdict \cup {"none"}]
    BY <1>6
  <2>2. seen[p] \cup {v} \in SUBSET Verdict
    BY <1>2, <1>6
  <2>3. seen' \in [Known -> SUBSET Verdict]
    BY <1>6, <2>2
  <2> QED
    BY <2>1, <2>3
<1>9. StreamTypeOK'
  BY <1>7, <1>8 DEF StreamInv, StreamTypeOK
<1>10. OfConfigs' /\ Pointed'
  BY <1>1, <1>3, <1>7 DEF StreamInv, OfConfigs, Pointed, Unasked, Underway, Deciding
<1>11. InCall'
  BY <1>1, <1>7 DEF StreamInv, InCall
<1>12. Exclusive'
  BY <1>3, <1>7, OthersWait DEF Exclusive, Deciding
<1>13. Remembered'
  <2> SUFFICES ASSUME NEW q \in Known, NEW w \in seen'[q] PROVE w = decided'[q] /\ w # "none"
    BY DEF Remembered
  <2>1. CASE q # p
    BY <1>6, <1>2, <2>1 DEF StreamInv, Remembered
  <2>2. CASE q = p /\ w = v
    BY <1>6, <1>2, <1>5, <2>2
  <2>3. CASE q = p /\ w # v
    BY <1>6, <1>2, <2>3 DEF StreamInv, Remembered
  <2> QED
    BY <2>1, <2>2, <2>3
<1> QED
  BY <1>9, <1>10, <1>11, <1>12, <1>13 DEF StreamInv

LEMMA LookupStep == ASSUME StreamInv, NEW d \in Direction, Lookup(d) PROVE StreamInv'
<1>1. half[d] \in Half /\ half[d].pc = "lookup" /\ half \in [Direction -> Half] /\ rpc.kind # "none"
  BY DEF Lookup, StreamInv, InCall, StreamTypeOK
<1>2. Asked(d) \in Known
  BY <1>1, AskedIsKnown DEF Underway, Deciding
<1>3. CASE decided[Asked(d)] = "none"
  <2> DEFINE h == Moved("decide", half[d])
  <2>1. h \in Half /\ h.pc = "decide" /\ h.policies = half[d].policies /\ h.next = half[d].next
    BY <1>1, HalfMoves
  <2>2. half' = [half EXCEPT ![d] = h] /\ UNCHANGED <<live, rpc, decided, mu, seen>>
    BY <1>3 DEF Lookup
  <2> HIDE DEF h
  <2>3. half' \in [Direction -> Half] /\ half'[d] = h /\ \A e \in Direction \ {d} : half'[e] = half[e]
    BY <1>1, <2>1, <2>2
  <2>4. StreamTypeOK'
    BY <2>2, <2>3 DEF StreamInv, StreamTypeOK
  <2>5. OfConfigs' /\ Pointed' /\ InCall'
    BY <1>1, <2>1, <2>2, <2>3 DEF StreamInv, OfConfigs, Pointed, InCall, Unasked, Underway, Deciding
  <2>6. Exclusive'
    BY <1>1, <1>3, <2>1, <2>2, <2>3 DEF StreamInv, Exclusive, Asked, Deciding
  <2>7. Remembered'
    BY <2>2 DEF StreamInv, Remembered
  <2> QED
    BY <2>4, <2>5, <2>6, <2>7 DEF StreamInv
<1>4. CASE decided[Asked(d)] # "none"
  <2> DEFINE v == decided[Asked(d)]
  <2>1. decided \in [Known -> Verdict \cup {"none"}]
    BY DEF StreamInv, StreamTypeOK
  <2>2. v \in Verdict
    BY <1>2, <1>4, <2>1
  <2>3. /\ half' = [half EXCEPT ![d] = Under(v, half[d])] /\ mu' = "free"
        /\ seen' = [seen EXCEPT ![Asked(d)] = @ \cup {v}] /\ UNCHANGED <<live, rpc, decided>>
    BY <1>4 DEF Lookup
  <2>4. decided' = [decided EXCEPT ![Asked(d)] = v]
    BY <1>2, <2>1, <2>3
  <2> QED
    BY <1>1, <2>2, <2>3, <2>4, Settling DEF Deciding
<1> QED
  BY <1>3, <1>4

LEMMA DecideStep == ASSUME StreamInv, NEW d \in Direction, Decide(d) PROVE StreamInv'
<1>1. half[d].pc \in Deciding /\ decided[Asked(d)] = "none"
  BY DEF Decide, StreamInv, Exclusive, Deciding
<1>2. PICK v \in Draws(Asked(d)) :
        /\ decided' = [decided EXCEPT ![Asked(d)] = v]
        /\ seen' = [seen EXCEPT ![Asked(d)] = @ \cup {v}]
        /\ mu' = "free" /\ half' = [half EXCEPT ![d] = Under(v, half[d])]
  BY DEF Decide
<1>3. v \in Verdict /\ UNCHANGED <<live, rpc>>
  BY DrawsAreVerdicts DEF Decide
<1> QED
  BY <1>1, <1>2, <1>3, Settling

\* The service and the manager.
LEMMA PublishStep == ASSUME StreamInv, Publish PROVE StreamInv'
BY DEF Publish, StreamInv, StreamTypeOK, OfConfigs, Pointed, InCall, Exclusive, Remembered, Unasked, Asked

LEMMA OpenStep == ASSUME StreamInv, OpenStream PROVE StreamInv'
<1>1. rpc' \in Wrapper /\ rpc'.kind = "stream" /\ seen = Unseen
  <2>1. PICK m \in Method, md \in SUBSET Header :
          rpc' = [kind |-> "stream", method |-> m, md |-> md, ignored |-> m \in live.ignored]
    BY DEF OpenStream
  <2>2. (m \in live.ignored) \in BOOLEAN
    OBVIOUS
  <2> QED
    BY <2>1, <2>2 DEF Wrapper, OpenStream, StreamInv, InCall
<1>2. decided' = Nothing /\ UNCHANGED <<live, mu, half, seen>>
  BY DEF OpenStream
<1>3. StreamTypeOK'
  BY <1>1, <1>2 DEF StreamInv, StreamTypeOK, Nothing
<1>4. OfConfigs' /\ Pointed' /\ InCall'
  BY <1>1, <1>2 DEF StreamInv, OfConfigs, Pointed, InCall, Unasked
<1>5. \A d \in Direction : half[d].pc = "idle"
  BY DEF OpenStream, StreamInv, InCall
<1>6. Exclusive'
  BY <1>2, <1>5 DEF Exclusive, Deciding
<1>7. Remembered'
  BY <1>1, <1>2 DEF Remembered, Unseen
<1> QED
  BY <1>3, <1>4, <1>6, <1>7 DEF StreamInv

LEMMA UnaryStep == ASSUME StreamInv, CallUnary PROVE StreamInv'
<1> DEFINE h == Moved("load", Idle)
<1>1. rpc' \in Wrapper /\ rpc'.kind = "unary"
  <2>1. PICK m \in Method \ live.ignored, md \in SUBSET Header :
          rpc' = [kind |-> "unary", method |-> m, md |-> md, ignored |-> FALSE]
    BY DEF CallUnary
  <2> QED
    BY <2>1 DEF Wrapper
<1>2. h \in Half /\ h.pc = "load" /\ DOMAIN h.policies = {}
  BY IdleIsHalf, HalfMoves
<1>3. half' = [half EXCEPT !["recv"] = h] /\ UNCHANGED <<live, decided, mu, seen>>
  BY DEF CallUnary
<1> HIDE DEF h
<1>4. /\ half' \in [Direction -> Half]
      /\ half'["recv"] = h /\ \A e \in Direction \ {"recv"} : half'[e] = half[e]
  BY <1>2, <1>3 DEF StreamInv, StreamTypeOK, Direction
<1>5. StreamTypeOK'
  BY <1>1, <1>3, <1>4 DEF StreamInv, StreamTypeOK
<1>6. OfConfigs' /\ Pointed' /\ InCall'
  BY <1>1, <1>2, <1>3, <1>4 DEF StreamInv, OfConfigs, Pointed, InCall, Unasked, Underway, Deciding
<1>7. Exclusive'
  BY <1>2, <1>3, <1>4 DEF StreamInv, Exclusive, Asked, Deciding
<1>8. Remembered'
  BY <1>3 DEF StreamInv, Remembered
<1> QED
  BY <1>5, <1>6, <1>7, <1>8 DEF StreamInv

LEMMA CloseStep == ASSUME StreamInv, CloseRpc PROVE StreamInv'
<1>1. rpc' = NoRpc /\ decided' = Nothing /\ seen' = Unseen /\ UNCHANGED <<live, mu, half>>
  BY DEF CloseRpc
<1>2. \A d \in Direction : half[d].pc = "idle" /\ DOMAIN half[d].policies = {}
  BY IdleIsHalf DEF CloseRpc
<1>3. StreamTypeOK'
  BY <1>1 DEF StreamInv, StreamTypeOK, Nothing, Unseen, NoRpc, Wrapper
<1>4. OfConfigs' /\ Pointed' /\ InCall' /\ Exclusive'
  BY <1>1, <1>2 DEF OfConfigs, Pointed, InCall, Exclusive, Underway, Deciding, Unasked, NoRpc
<1>5. Remembered'
  BY <1>1 DEF Remembered, Unseen
<1> QED
  BY <1>3, <1>4, <1>5 DEF StreamInv

LEMMA Stuttering == ASSUME StreamInv, UNCHANGED streamVars PROVE StreamInv'
BY DEF streamVars, StreamInv, StreamTypeOK, OfConfigs, Pointed, InCall, Exclusive, Remembered, Unasked, Asked

LEMMA Inductive == StreamInv /\ [StreamNext]_streamVars => StreamInv'
<1> SUFFICES ASSUME StreamInv, [StreamNext]_streamVars PROVE StreamInv'
  OBVIOUS
<1>1. CASE Publish \/ OpenStream \/ CallUnary \/ CloseRpc
  BY <1>1, PublishStep, OpenStep, UnaryStep, CloseStep
<1>2. CASE \E d \in Direction : Message(d) \/ Advance(d) \/ Lock(d) \/ WaitOver(d)
  BY <1>2, MessageStep, LoadStep, ConsultStep, LookupStep, DecideStep, RollStep, LockStep, WaitStep
  DEF Advance
<1>3. CASE UNCHANGED streamVars
  BY <1>3, Stuttering
<1> QED
  BY <1>1, <1>2, <1>3 DEF StreamNext

LEMMA FateFollows == StreamInv => FateIsKept
BY DEF StreamInv, Remembered, FateIsKept

-----------------------------------------------------------------------------
\* The inductive invariant of a stream.
THEOREM StreamInvariance == StreamSpec => []StreamInv
<1>1. [StreamNext]_<<streamVars, vars>> => [StreamNext]_streamVars
  OBVIOUS
<1> QED
  BY Initially, Inductive, <1>1, PTL DEF StreamSpec

\* Types, for any methods, headers and configurations.
THEOREM StreamTypes == StreamSpec => []StreamTypeOK
<1>1. StreamInv => StreamTypeOK
  BY DEF StreamInv
<1> QED
  BY StreamInvariance, <1>1, PTL

\* A stream keeps the verdict on each of its "stream" policies, whichever of its
\* directions met the policy first and whatever was published meanwhile.
THEOREM OneFate == StreamSpec => []FateIsKept
BY StreamInvariance, FateFollows, PTL

-----------------------------------------------------------------------------
\* All the traffic.  What calls and streams share is the bus, and neither reads
\* it, so each invariant withstands the steps of the other.
TrafficInv ==
    /\ CallInv /\ StreamInv /\ BusInv /\ FaultStaysOnRecord
    /\ service \in Services /\ others \in 0 .. Size

LEMMA ReportEmits == ASSUME NEW v, Report(v) PROVE [Next]_vars
BY InterceptorAssumption DEF Report, Next

\* Streams write to the bus by Emit only.
LEMMA StreamOnBus == StreamNext => [Next]_vars
<1> SUFFICES ASSUME StreamNext PROVE [Next]_vars OBVIOUS
<1>1. CASE Publish \/ OpenStream \/ CloseRpc
  BY <1>1 DEF Publish, OpenStream, CloseRpc
<1>2. CASE CallUnary
  BY <1>2 DEF CallUnary
<1>3. ASSUME NEW d \in Direction, Message(d) \/ LoadPolicies(d) \/ Consulting(d) \/ Lookup(d) \/ Lock(d) \/ WaitOver(d)
      PROVE  [Next]_vars
  <2>1. CASE Lookup(d)
    BY <2>1, ReportEmits DEF Lookup
  <2> QED
    BY <1>3, <2>1 DEF Message, LoadPolicies, Consulting, Lock, WaitOver
<1>4. ASSUME NEW d \in Direction, Decide(d) \/ Roll(d) PROVE [Next]_vars
  BY <1>4, ReportEmits DEF Decide, Roll
<1> QED
  BY <1>1, <1>2, <1>3, <1>4 DEF StreamNext, Advance

\* Every step of the traffic is one of a call, of a stream, or of nothing.
LEMMA EachStep ==
    ASSUME [TrafficNext]_allVars
    PROVE  [Next]_vars /\ [ChaosNext]_<<snap, call>> /\ [StreamNext]_streamVars /\ service' = service
<1>1. CASE Calling
  BY <1>1, StepOfBus DEF Calling, ChaosNext
<1>2. CASE StreamNext /\ OnlyGrpc
  BY <1>2, StreamOnBus DEF OnlyGrpc
<1>3. CASE UNCHANGED allVars
  BY <1>3 DEF allVars
<1> QED
  BY <1>1, <1>2, <1>3 DEF TrafficNext

LEMMA TrafficInitially == TrafficInit => TrafficInv
<1> SUFFICES ASSUME TrafficInit PROVE TrafficInv OBVIOUS
<1>1. CallInv /\ StreamInv
  BY CallInvInit, Initially DEF TrafficInit
<1>2. BusInv
  BY BusInvInit DEF TrafficInit, ChaosInit
<1>3. call = NoCall
  BY DEF TrafficInit, ChaosInit
<1>4. FaultStaysOnRecord
  BY <1>3 DEF FaultStaysOnRecord, OnRecord, NoCall, At
<1>5. service \in Services /\ others \in 0 .. Size
  BY BusAssumption DEF TrafficInit
<1> QED
  BY <1>1, <1>2, <1>4, <1>5 DEF TrafficInv

\* The record of a call's fault, while the call goes on ...
LEMMA CallKeepsRecord == ASSUME TrafficInv, Calling PROVE FaultStaysOnRecord' /\ others' \in 0 .. Size
<1> USE DEF TrafficInv
<1>1. CASE (Begin \/ Work) /\ others' = 0
  BY <1>1, RecordStep, BusAssumption DEF FaultStaysOnRecord, FaultIsOnRecord
<1>2. CASE Reconfigure /\ UNCHANGED others
  <2>1. others < Size => OnRecord(others)'
    BY <1>2, RecordStands DEF FaultStaysOnRecord, Reconfigure
  <2> QED
    BY <1>2, <2>1 DEF FaultStaysOnRecord
<1> QED
  BY <1>1, <1>2 DEF Calling

\* ... and while streams write.
LEMMA StreamKeepsRecord ==
    ASSUME TrafficInv, StreamNext, OnlyGrpc
    PROVE  FaultStaysOnRecord' /\ others' \in 0 .. Size
<1> USE DEF TrafficInv
<1>1. PICK k \in Nat : k = others /\ k \in 0 .. Size
  BY BusAssumption
<1>2. call' = call /\ (k < Size => OnRecord(k))
  BY <1>1 DEF OnlyGrpc, FaultStaysOnRecord
<1>3. CASE vars' = vars
  <2>1. others' = k
    BY <1>1, <1>3 DEF OnlyGrpc
  <2>2. k < Size => OnRecord(k)'
    BY <1>2, <1>3, RecordStands
  <2> QED
    BY <1>1, <2>1, <2>2 DEF FaultStaysOnRecord
<1>4. CASE vars' # vars /\ k = Size
  <2>1. others' = k
    BY <1>1, <1>4 DEF OnlyGrpc
  <2> QED
    BY <1>1, <1>4, <2>1, BusAssumption DEF FaultStaysOnRecord
<1>5. CASE vars' # vars /\ k # Size
  <2>1. others' = k + 1 /\ k < Size
    BY <1>1, <1>5, BusAssumption DEF OnlyGrpc
  <2>2. PICK e \in Entry : Emit(e)
    BY <1>5, StreamOnBus DEF Next
  <2>3. k + 1 < Size => OnRecord(k + 1)'
    BY <1>2, <2>1, <2>2, RecordAges
  <2> QED
    BY <1>1, <2>1, <2>3, BusAssumption DEF FaultStaysOnRecord
<1> QED
  BY <1>3, <1>4, <1>5

LEMMA TrafficStep == TrafficInv /\ [TrafficNext]_allVars => TrafficInv'
<1> SUFFICES ASSUME TrafficInv, [TrafficNext]_allVars PROVE TrafficInv' OBVIOUS
<1>1. BusInv' /\ StreamInv' /\ service' \in Services
  BY EachStep, BusInvStep, Inductive DEF TrafficInv
<1>2. CallInv'
  BY EachStep, CallInvStep, CallAlone DEF TrafficInv
<1>3. FaultStaysOnRecord' /\ others' \in 0 .. Size
  <2>1. CASE UNCHANGED allVars
    <3>1. OnRecord(others)' \/ ~(others < Size)
      BY <2>1, RecordStands DEF allVars, TrafficInv, FaultStaysOnRecord
    <3> QED
      BY <2>1, <3>1 DEF allVars, TrafficInv, FaultStaysOnRecord
  <2> QED
    BY <2>1, CallKeepsRecord, StreamKeepsRecord DEF TrafficNext
<1> QED
  BY <1>1, <1>2, <1>3 DEF TrafficInv

\* The inductive invariant of all the traffic.
THEOREM TrafficInvariance == TrafficSpec => []TrafficInv
BY TrafficInitially, TrafficStep, PTL DEF TrafficSpec

\* Types, whatever calls and streams do in turns.
THEOREM TrafficTypes == TrafficSpec => []TrafficTypeOK
<1>1. TrafficInv => TrafficTypeOK
  BY DEF TrafficInv, CallInv, StreamInv, BusInv, TrafficTypeOK
<1> QED
  BY <1>1, TrafficInvariance, PTL

\* Calls and streams do not spoil each other's promises when they take turns in
\* any order: failed commands were not executed, sheltered ones are spared, a
\* stream keeps its fate ...
THEOREM TrafficIsSafe == TrafficSpec => [](FaultIsNotExecuted /\ ShelteredIsSpared /\ FateIsKept)
<1>1. TrafficInv => FaultIsNotExecuted /\ ShelteredIsSpared
  BY CallsAreSafe DEF TrafficInv
<1>2. TrafficInv => FateIsKept
  BY FateFollows DEF TrafficInv
<1> QED
  BY <1>1, <1>2, TrafficInvariance, PTL

\* ... the fault of a call stays on record behind what streams write, for a ring
\* of any size ...
THEOREM TrafficKeepsRecord == TrafficSpec => []FaultStaysOnRecord
<1>1. TrafficInv => FaultStaysOnRecord
  BY DEF TrafficInv
<1> QED
  BY <1>1, TrafficInvariance, PTL

\* ... and the bus they all write to implements the log of recent entries.
THEOREM TrafficImplementsLog == TrafficSpec => SnapshotIsRecent
<1>1. TrafficInit => Init
  BY DEF TrafficInit, ChaosInit
<1>2. [TrafficNext]_allVars => [Next]_vars
  BY EachStep
<1>3. TrafficSpec => Spec
  BY <1>1, <1>2, PTL DEF TrafficSpec, Spec
<1> QED
  BY <1>3, RingImplementsLog
=============================================================================
