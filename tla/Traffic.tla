------------------------------- MODULE Traffic -------------------------------
(***************************************************************************)
(* What a service sends and receives: calls of databases and brokers       *)
(* (Interceptors) and gRPC (GrpcStream), at the same time.  The two are    *)
(* separate but for the telemetry bus, to which both write in turns.       *)
(***************************************************************************)
EXTENDS GrpcStream

\* What a service does: the ways of its calls and the methods it serves (none,
\* if it has no such traffic), and the configurations it is given meanwhile.
CONSTANT Services

ASSUME TrafficAssumption ==
    Services \subseteq [ways : SUBSET Ways, methods : SUBSET Method,
                        snapshots : SUBSET Snapshots, configs : SUBSET GrpcConfigs]

VARIABLES
    service, \* the service of this behaviour
    others   \* history: entries of streams that followed the last step of the call, up to Size

allVars == <<service, others, snap, call, streamVars, vars>>

TrafficInit ==
    /\ ChaosInit /\ StreamInit /\ others = 0
    /\ service \in Services /\ snap \in service.snapshots /\ live \in service.configs

\* A step of a call, or of its configuration.
Calling ==
    /\ \/ (Begin \/ Work) /\ others' = 0
       \/ Reconfigure /\ UNCHANGED others
    /\ snap' \in service.snapshots /\ (call'.pc = "idle" \/ call'.way \in service.ways)
    /\ UNCHANGED <<service, streamVars>>

\* Nothing but gRPC goes on in this step.
OnlyGrpc ==
    /\ live' \in service.configs /\ rpc'.method \in service.methods \cup {"none"}
    /\ others' = IF vars' = vars \/ others = Size THEN others ELSE others + 1
    /\ UNCHANGED <<service, snap, call>>

TrafficNext == Calling \/ (StreamNext /\ OnlyGrpc)

\* The scheduler runs every goroutine that can go on.  A mutex that is free time
\* and again is acquired in the end (sync.Mutex hands it to a waiter that
\* starves), and nothing is assumed of the delays.
Fairness ==
    \A d \in Direction : WF_allVars(Advance(d) /\ OnlyGrpc) /\ SF_allVars(Lock(d) /\ OnlyGrpc)

TrafficSpec == TrafficInit /\ [][TrafficNext]_allVars /\ Fairness

\* Every variable has its type.
TrafficTypeOK ==
    TypeOK /\ CallTypeOK /\ StreamTypeOK /\ service \in Services /\ others \in 0 .. Size

\* The fault of a call stays on record, whatever streams write in between: the
\* error it returned, or the delay that goes on, has after it as many entries as
\* others wrote since, until these fill the ring.
FaultStaysOnRecord == others < Size => OnRecord(others)
=============================================================================
