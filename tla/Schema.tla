-------------------------------- MODULE Schema --------------------------------
(***************************************************************************)
(* The schema of a configuration (pkg/config/config.go): how a document is *)
(* decoded, with the keys of a policy in snake_case or in camelCase, and   *)
(* which configurations Validate accepts.                                  *)
(*                                                                         *)
(* A policy is written as a function from keys to scalars, a scalar being  *)
(* what YAML takes it for: [kind, value].  Chances are in percent,         *)
(* durations in seconds.                                                   *)
(***************************************************************************)
EXTENDS Integers, Sequences

\* The fields, by their snake_case keys.  name is only a label.
Kind == [type |-> "string", target |-> "string",
         latency_chance |-> "number", latency_duration |-> "duration",
         error_chance |-> "number", error_code |-> "number", error_body |-> "string",
         match_headers |-> "map", drop_connection |-> "bool", stream_roll_mode |-> "string",
         throttle_threshold |-> "number", ram_chunk_mb |-> "number", ram_interval |-> "duration"]
Field == DOMAIN Kind

ZeroOf == [string |-> "", number |-> 0, duration |-> 0, bool |-> FALSE, map |-> {}]

\* The keys that have a second spelling.
Camel == [latency_chance |-> "latencyChance", latency_duration |-> "latencyDuration",
          error_chance |-> "errorChance", error_code |-> "errorCode", error_body |-> "errorBody",
          match_headers |-> "matchHeaders", drop_connection |-> "dropConnection",
          stream_roll_mode |-> "streamRollMode", throttle_threshold |-> "throttleThreshold",
          ram_chunk_mb |-> "ramChunkMB", ram_interval |-> "ramInterval"]

\* A scalar that decodes as the field: a duration is a string with a unit, never
\* a bare number.
Fits(f, scalar) == scalar.kind = Kind[f]

\* The camelCase key that gives the field its value: none beside the snake_case one.
ByCamel(f, node) ==
    /\ f \in DOMAIN Camel /\ f \notin DOMAIN node
    /\ Camel[f] \in DOMAIN node /\ Fits(f, node[Camel[f]])

\* Mutant: the camelCase keys of durations are forgotten.
DecodeNumbersOnly(node) ==
    [f \in Field |-> IF f \in DOMAIN node THEN node[f].value
                     ELSE IF ByCamel(f, node) /\ Kind[f] # "duration" THEN node[Camel[f]].value
                     ELSE ZeroOf[Kind[f]]]

\* UnmarshalYAML: a camelCase value that does not decode is warned about, and
\* the field stays zero ...
Decode(node) ==
    [f \in Field |-> IF f \in DOMAIN node THEN node[f].value
                     ELSE IF ByCamel(f, node) THEN node[Camel[f]].value
                     ELSE ZeroOf[Kind[f]]]

\* The same policy with its keys in camelCase; of a field that is there in both
\* spellings, the value that counts.
Respelled(key) == IF key \in DOMAIN Camel THEN Camel[key] ELSE key
Snaked(key, node) == {f \in DOMAIN Camel \cap DOMAIN node : Camel[f] = key}
Cameled(node) ==
    [key \in {Respelled(k) : k \in DOMAIN node} |->
        node[IF Snaked(key, node) = {} THEN key ELSE CHOOSE f \in Snaked(key, node) : TRUE]]

\* ... while a snake_case one fails the whole document.
WellFormed(node) == \A f \in Field \cap DOMAIN node : Fits(f, node[f])

-----------------------------------------------------------------------------
\* Names differ in case only here and there: what ToLower makes of those that do.
Lowered == [Resource |-> "resource", HTTP |-> "http", ALL |-> "all"]
Lower(s) == IF s \in DOMAIN Lowered THEN Lowered[s] ELSE s

Protocol == {"http", "sql", "grpc", "redis", "mongo", "kafka", "rabbitmq", "resource"}
RollMode == {"", "per-call", "per-frame", "stream"}

\* Fields that Validate bounds from both sides, and by what.
Ceiling == [latency_chance |-> 100, error_chance |-> 100,
            latency_duration |-> 3600, ram_interval |-> 3600,
            ram_chunk_mb |-> 4096, throttle_threshold |-> 10000000]

CodeFits(p) ==
    CASE Lower(p.type) = "http" -> p.error_code = 0 \/ p.error_code \in 100 .. 599
      [] Lower(p.type) = "grpc" -> p.error_code \in 0 .. 16
      [] OTHER                  -> TRUE

\* The target of an SQL policy is a regular expression; "(" is none.
TargetFits(p) == p.target # "" /\ (Lower(p.type) = "sql" => p.target # "(")

PolicyValid(p) ==
    /\ Lower(p.type) \in Protocol /\ TargetFits(p) /\ CodeFits(p)
    /\ \A f \in DOMAIN Ceiling : p[f] >= 0 /\ p[f] <= Ceiling[f]
    /\ Lower(p.stream_roll_mode) \in RollMode

\* PastaayConfig, with its policies still to decode: warmup in hours.
MaxPolicies == 1024
Decoded(conf) ==
    [conf EXCEPT !.policies = [i \in DOMAIN conf.policies |-> Decode(conf.policies[i])]]

Valid(c) ==
    /\ c.version = 1 /\ c.warmup \in 0 .. 24 /\ Len(c.policies) <= MaxPolicies
    /\ \A i \in DOMAIN c.policies : PolicyValid(c.policies[i])
=============================================================================
