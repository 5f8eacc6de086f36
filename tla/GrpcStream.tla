------------------------------ MODULE GrpcStream ------------------------------
(***************************************************************************)
(* The gRPC interceptor (pkg/grpcchaos): one unary call or one stream at a *)
(* time, the two directions of a stream driven by goroutines of their own, *)
(* and the configuration replaced between any two steps.  A stream decides *)
(* once upon a policy whose stream_roll_mode is "stream", and keeps what   *)
(* it decided in a map guarded by a mutex.                                 *)
(***************************************************************************)
EXTENDS Interceptors

CONSTANTS
    Method,     \* full names of the service's methods
    Header,     \* pairs of a metadata key and a value, without regard to case
    GrpcConfigs \* what Manager may publish for "grpc"

\* PolicyHash covers every field: a policy stands for its hash, and name tells
\* apart what the fields abstracted away do.
GrpcPolicy == [name : STRING, target : {"all"} \cup Method, headers : SUBSET Header,
               mode : {"stream", "frame"}, latency : Chance, lasting : BOOLEAN, error : Chance]

ASSUME GrpcAssumption ==
    GrpcConfigs \subseteq [ignored : SUBSET Method, policies : Seq(GrpcPolicy)]

VARIABLES
    live,    \* what the atomic pointer publishes for "grpc"
    rpc,     \* the wrapper of the stream, or what the unary interceptor holds
    decided, \* decidedPolicies: the verdict on each policy
    mu,      \* who holds the stream's mutex
    half,    \* the evaluation under way in each direction
    seen     \* history: the verdicts that took effect in this stream, by policy

streamVars == <<live, rpc, decided, mu, half, seen>>

Direction == {"send", "recv"}
Verdict == {"pass", "delay", "error"}

\* The policies that some configuration holds.
Known == UNION {{c.policies[i] : i \in DOMAIN c.policies} : c \in GrpcConfigs}

Wrapper == [kind : {"none", "unary", "stream"}, method : Method \cup {"none"},
            md : SUBSET Header, ignored : BOOLEAN]
NoRpc == [kind |-> "none", method |-> "none", md |-> {}, ignored |-> FALSE]

Half == [pc : {"idle", "load", "consult", "lock", "lookup", "decide", "roll", "delay"},
         policies : Seq(GrpcPolicy), next : Nat \ {0}]
Idle == [pc |-> "idle", policies |-> <<>>, next |-> 1]

Moved(place, h) == [h EXCEPT !.pc = place]
Onward(h) == [pc |-> "consult", policies |-> h.policies, next |-> h.next + 1]

Nothing == [p \in Known |-> "none"]
Unseen == [p \in Known |-> {}]

StreamInit ==
    /\ Init /\ live \in GrpcConfigs /\ rpc = NoRpc /\ mu = "free"
    /\ decided = Nothing /\ half = [d \in Direction |-> Idle] /\ seen = Unseen

-----------------------------------------------------------------------------
\* Manager.Update.
Publish == live' \in GrpcConfigs \ {live} /\ UNCHANGED <<rpc, decided, mu, half, seen, vars>>

\* The handshake of a stream: protection is looked up here, and never again.
OpenStream ==
    /\ rpc.kind = "none"
    /\ \E m \in Method, md \in SUBSET Header :
        rpc' = [kind |-> "stream", method |-> m, md |-> md, ignored |-> m \in live.ignored]
    /\ decided' = Nothing /\ UNCHANGED <<live, mu, half, seen, vars>>

\* A unary call that is not protected is evaluated once, before its handler,
\* with no map of verdicts.
CallUnary ==
    /\ rpc.kind = "none"
    /\ \E m \in Method \ live.ignored, md \in SUBSET Header :
        rpc' = [kind |-> "unary", method |-> m, md |-> md, ignored |-> FALSE]
    /\ half' = [half EXCEPT !["recv"] = Moved("load", Idle)]
    /\ UNCHANGED <<live, decided, mu, seen, vars>>

\* The handler returns.
CloseRpc ==
    /\ rpc.kind # "none" /\ \A d \in Direction : half[d] = Idle
    /\ rpc' = NoRpc /\ decided' = Nothing /\ seen' = Unseen
    /\ UNCHANGED <<live, mu, half, vars>>

-----------------------------------------------------------------------------
\* SendMsg or RecvMsg of a stream that was not protected when it opened; in one
\* that was, messages pass at once.
Message(d) ==
    /\ rpc.kind = "stream" /\ ~rpc.ignored /\ half[d] = Idle
    /\ half' = [half EXCEPT ![d] = Moved("load", half[d])]
    /\ UNCHANGED <<live, rpc, decided, mu, seen, vars>>

\* GetActivePolicies, for this message.
LoadPolicies(d) ==
    /\ half[d].pc = "load"
    /\ half' = [half EXCEPT ![d] = [pc |-> "consult", policies |-> live.policies, next |-> 1]]
    /\ UNCHANGED <<live, rpc, decided, mu, seen, vars>>

Asked(d) == half[d].policies[half[d].next]
Unasked(d) == half[d].next <= Len(half[d].policies)

\* Target, then matchMetadataPure: each required header is among the call's.
Matches(p) == p.target \in {"all", rpc.method} /\ p.headers \subseteq rpc.md

Consulting(d) ==
    /\ half[d].pc = "consult"
    /\ half' = [half EXCEPT ![d] =
            IF ~Unasked(d) THEN Idle
            ELSE IF ~Matches(Asked(d)) THEN Onward(half[d])
            ELSE Moved(IF Asked(d).mode = "stream" /\ rpc.kind = "stream" THEN "lock" ELSE "roll",
                    half[d])]
    /\ UNCHANGED <<live, rpc, decided, mu, seen, vars>>

\* Mutant: the map is read and written without the mutex.
LockNothing(d) ==
    /\ half[d].pc = "lock"
    /\ half' = [half EXCEPT ![d] = Moved("lookup", half[d])]
    /\ UNCHANGED <<live, rpc, decided, mu, seen, vars>>

Lock(d) ==
    /\ half[d].pc = "lock" /\ mu = "free"
    /\ mu' = d /\ half' = [half EXCEPT ![d] = Moved("lookup", half[d])]
    /\ UNCHANGED <<live, rpc, decided, seen, vars>>

\* What a message does under verdict v: it asks the next policy, waits, or
\* returns to its caller.
Under(v, h) == CASE v = "pass"  -> Onward(h)
                 [] v = "delay" -> Moved("delay", h)
                 [] v = "error" -> Idle

\* A verdict found in the map takes effect again, unreported.
Lookup(d) ==
    /\ half[d].pc = "lookup"
    /\ LET v == decided[Asked(d)] IN
       IF v = "none"
       THEN half' = [half EXCEPT ![d] = Moved("decide", half[d])] /\ UNCHANGED <<mu, seen>>
       ELSE /\ mu' = "free" /\ half' = [half EXCEPT ![d] = Under(v, half[d])]
            /\ seen' = [seen EXCEPT ![Asked(d)] = @ \cup {v}]
    /\ UNCHANGED <<live, rpc, decided, vars>>

\* An error rules out the latency; a latency of no duration is none.
Draws(p) == {IF e THEN "error" ELSE IF l /\ p.lasting THEN "delay" ELSE "pass" :
                e \in Hits(p.error), l \in Hits(p.latency)}

\* An error that was just drawn is reported.
Report(v) == IF v = "error" THEN Emit("error") ELSE UNCHANGED vars

\* Mutant: the mutex is still held while the message is delayed.
DecideHolding(d) ==
    /\ half[d].pc = "decide"
    /\ \E v \in Draws(Asked(d)) :
        /\ decided' = [decided EXCEPT ![Asked(d)] = v]
        /\ seen' = [seen EXCEPT ![Asked(d)] = @ \cup {v}]
        /\ mu' = IF v = "delay" THEN mu ELSE "free"
        /\ half' = [half EXCEPT ![d] = Under(v, half[d])] /\ Report(v)
    /\ UNCHANGED <<live, rpc>>

Decide(d) ==
    /\ half[d].pc = "decide"
    /\ \E v \in Draws(Asked(d)) :
        /\ decided' = [decided EXCEPT ![Asked(d)] = v]
        /\ seen' = [seen EXCEPT ![Asked(d)] = @ \cup {v}]
        /\ mu' = "free" /\ half' = [half EXCEPT ![d] = Under(v, half[d])] /\ Report(v)
    /\ UNCHANGED <<live, rpc>>

\* Other modes, and unary calls: for this message only.
Roll(d) ==
    /\ half[d].pc = "roll"
    /\ \E v \in Draws(Asked(d)) :
        half' = [half EXCEPT ![d] = Under(v, half[d])] /\ Report(v)
    /\ UNCHANGED <<live, rpc, decided, mu, seen>>

\* waitContext: the timer fires, or the context of the call is done.
WaitOver(d) ==
    /\ half[d].pc = "delay"
    /\ \/ half' = [half EXCEPT ![d] = Onward(half[d])]
       \/ half' = [half EXCEPT ![d] = Idle]
    /\ UNCHANGED <<live, rpc, decided, mu, seen, vars>>

-----------------------------------------------------------------------------
Advance(d) == LoadPolicies(d) \/ Consulting(d) \/ Lookup(d) \/ Decide(d) \/ Roll(d)

StreamNext ==
    \/ Publish \/ OpenStream \/ CallUnary \/ CloseRpc
    \/ \E d \in Direction : Message(d) \/ Advance(d) \/ Lock(d) \/ WaitOver(d)

StreamSpec == StreamInit /\ [][StreamNext]_<<streamVars, vars>>

-----------------------------------------------------------------------------
\* Every variable has its type.
StreamTypeOK ==
    /\ live \in GrpcConfigs /\ rpc \in Wrapper /\ mu \in Direction \cup {"free"}
    /\ decided \in [Known -> Verdict \cup {"none"}] /\ seen \in [Known -> SUBSET Verdict]
    /\ half \in [Direction -> Half]

\* A stream has one fate under each of its "stream" policies: a verdict that took
\* effect for one message is the one every other message gets, in the other
\* direction too, whatever was reconfigured in between (a policy that leaves
\* and comes back unchanged finds its old verdict).
FateIsKept == \A p \in Known : \A v, w \in seen[p] : v = w

\* A message of one direction is decided although the other one may be delayed
\* without end: it passes, fails, or meets a delay of its own.
DirectionsIndependent ==
    \A d \in Direction : half[d].pc \notin {"idle", "delay"} ~> half[d].pc \in {"idle", "delay"}
=============================================================================
