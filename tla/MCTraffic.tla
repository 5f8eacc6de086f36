------------------------------ MODULE MCTraffic ------------------------------
\* The configurations of MCInterceptors, and three for gRPC; a service that only
\* calls, one that only serves, and a smaller one that does both at once.
EXTENDS Traffic, MCInterceptors

\* gRPC: a policy decided once per stream, which two configurations share, one
\* that is rolled for each message, and one that asks for a header.
G(name, target, headers, mode, latency, error) ==
    [name |-> name, target |-> target, headers |-> headers, mode |-> mode,
     latency |-> latency, lasting |-> TRUE, error |-> error]
Sticky == G("sticky", "all", {}, "stream", "may", "may")
Frames == G("frames", "get", {}, "frame", "may", "may")
Canary == G("canary", "all", {"x"}, "stream", "sure", "no")
Idler == [Canary EXCEPT !.name = "idler", !.target = "list", !.lasting = FALSE]

Rollouts == {Conf({}, <<Sticky, Frames>>), Conf({"list"}, <<Canary, Sticky>>), Conf({}, <<Idler>>)}
PerMessage == {Conf({}, <<Frames>>)}
AllGrpc == Rollouts \cup PerMessage

S(ways, methods, snapshots, configs) ==
    [ways |-> ways, methods |-> methods, snapshots |-> snapshots, configs |-> configs]
Client == S(Ways, {}, Mixed, {Conf({}, <<Idler>>)})
Server == S({}, Method, {Slow}, Rollouts)
Relay == S({"message"}, {"get"}, {Slow}, PerMessage)
ThreeServices == {Client, Server, Relay}
=============================================================================
