----------------------------- MODULE MCPastaayctl -----------------------------
\* Pastaayctl with files that the webhook accepts, rejects and cuts short, and
\* drafts of up to two policies for the guard.
EXTENDS Pastaayctl, TLC

Errs(type, target, chance, code) ==
    "type" :> Node("string", type) @@ "target" :> Node("string", target)
        @@ "error_chance" :> Node("number", chance) @@ "error_code" :> Node("number", code)
Delays(type, target, chance, seconds) ==
    "type" :> Node("string", type) @@ "target" :> Node("string", target)
        @@ "latency_chance" :> Node("number", chance) @@ "latency_duration" :> Node("duration", seconds)
Hogs(type, mb, rounds) ==
    "type" :> Node("string", type) @@ "target" :> Node("string", "all")
        @@ "ram_chunk_mb" :> Node("number", mb) @@ "throttle_threshold" :> Node("number", rounds)

Good == Errs("http", "/a", 50, 503)
Illegal == Errs("http", "/b", 200, 503)
Large(format, nodes, head) == [Doc(format, Conf(TRUE, nodes)) EXCEPT !.size = "large", !.head = head]

SomeFiles == {NoDoc, Doc("yaml", Conf(TRUE, <<Good>>)), Doc("yaml", Conf(TRUE, <<Illegal>>)),
              Large("yaml", <<Good, Illegal>>, 1), Large("json", <<Good, Good>>, 1)}
Oversized == {Large("yaml", <<Good, Illegal>>, 1)}

SomeStrikes ==
    {[type |-> "http", target |-> "all", latency |-> 2, latencyChance |-> 100,
      code |-> 0, errorChance |-> 100, drop |-> FALSE],
     [type |-> "grpc", target |-> "all", latency |-> 0, latencyChance |-> 100,
      code |-> 503, errorChance |-> 100, drop |-> TRUE]}

Already == Decoded(Conf(TRUE, <<Delays("sql", "SELECT", 100, 1)>>))

\* Policies at the boundaries of Validate and of the guard's thresholds.
BoundaryNodes ==
    {Errs(type, target, chance, code) : type \in {"http", "grpc", "HTTP", "gopher"},
        target \in {"all", "/a", ""}, chance \in {0, 100, 110}, code \in {0, 16, 99, 503}}
    \cup {Delays("http", "/a", chance, s) : chance \in {-10, 10, 100}, s \in {0, 1, 5, 3600, 3601}}
    \cup {Hogs(type, mb, n) : type \in {"resource", "Resource"}, mb \in {0, 256, 1024, 4097}, n \in {0, 1, 100000}}
    \cup {Errs("sql", "(", 50, 0), "error_chance" :> Node("string", "half") @@ Good,
          "errorChance" :> Node("string", "half") @@ "latencyDuration" :> Node("duration", 5)
            @@ "type" :> Node("string", "http") @@ "target" :> Node("string", "ALL"),
          "latency_chance" :> Node("number", 10) @@ "latencyChance" :> Node("number", 20)
            @@ "drop_connection" :> Node("bool", TRUE) @@ "stream_roll_mode" :> Node("string", "message") @@ Good}

SomeDrafts ==
    {Doc("yaml", Conf(TRUE, <<n>>)) : n \in BoundaryNodes}
    \cup {Doc("yaml", Conf(FALSE, <<n, m>>)) : n \in BoundaryNodes, m \in {Good, Delays("http", "/a", 10, 1)}}
    \cup {Doc("yaml", Conf(FALSE, <<>>)), [Doc("yaml", Conf(TRUE, <<Good>>)) EXCEPT !.alias = TRUE],
          [Doc("yaml", Conf(TRUE, <<Good>>)) EXCEPT !.size = "huge"],
          [Doc("yaml", Conf(TRUE, <<Good>>)) EXCEPT !.conf.version = 2], NoDoc}
NoDrafts == {NoDoc}
SomeNodes == BoundaryNodes \cup {Good, Illegal}
=============================================================================
