-------------------------- MODULE ConfigMapSensor --------------------------
(***************************************************************************)
(* The Kubernetes sensor (WatchK8sConfigMap in pkg/config/remote_k8s.go):  *)
(* it polls a ConfigMap, applies its payload when the resourceVersion      *)
(* differs from the last one seen, and reports its health to the manager.  *)
(*                                                                         *)
(* The API server is external: it answers with the ConfigMap as it is when *)
(* the request arrives, or the poll fails in one of the ways the code      *)
(* tells apart (token, transport, HTTP status, decoding).                  *)
(***************************************************************************)
EXTENDS Naturals

CONSTANTS
    MaxVersion, \* bound: versions of the ConfigMap
    MaxOther    \* bound: updates of the manager by others (webhook, console)

Payload == {"valid", "invalid", "garbage", "nokey"}
Failure == {"token_missing", "api_error", "http_status", "decode_error"}

VARIABLES
    map,         \* the ConfigMap: its resourceVersion and its payload
    api,         \* a poll succeeds
    ctxDone,     \* the context of the sensor is done
    sensor,      \* where the goroutine is
    answer,      \* the ConfigMap the poll returned
    lastVersion, \* lastVersion, 0 for ""
    status,      \* sensorStatus["k8s"]
    engine,      \* the version the manager runs on, 0 for a configuration of others
    past,        \* the versions the manager ever ran on
    other        \* updates by others so far

sensorVars == <<sensor, answer, lastVersion, status>>
vars == <<map, api, ctxDone, sensorVars, engine, past, other>>

\* The token, namespace and CA were read; the ConfigMap exists.
Init ==
    /\ map \in [version : {1}, payload : Payload] /\ api \in BOOLEAN /\ ctxDone = FALSE
    /\ sensor = "select" /\ answer = [version |-> 0, payload |-> "nokey"]
    /\ lastVersion = 0 /\ status = "initializing" /\ engine = 0 /\ other = 0
    /\ past = {}

\* A process outside Kubernetes: the sensor returned, and nothing changes any more.
Over ==
    /\ map = [version |-> MaxVersion, payload |-> "nokey"] /\ api = FALSE /\ ctxDone = TRUE
    /\ sensor = "returned" /\ answer = [version |-> 0, payload |-> "nokey"]
    /\ lastVersion = 0 /\ status = "initializing" /\ engine = 0 /\ other = MaxOther
    /\ past = {}

\* kubectl edit, with a resourceVersion that was never used before.
Edit ==
    /\ map.version < MaxVersion
    /\ \E p \in Payload : map' = [version |-> map.version + 1, payload |-> p]
    /\ UNCHANGED <<api, ctxDone, sensorVars, engine, past, other>>

Flap == ~ctxDone /\ api' = ~api /\ UNCHANGED <<map, ctxDone, sensorVars, engine, past, other>>

\* Another source of configurations calls Manager.Update.
Override ==
    /\ other < MaxOther /\ other' = other + 1 /\ engine' = 0
    /\ UNCHANGED <<map, api, ctxDone, sensorVars, past>>

Cancel == ~ctxDone /\ ctxDone' = TRUE /\ UNCHANGED <<map, api, sensorVars, engine, past, other>>

-----------------------------------------------------------------------------
\* The goroutine.

\* Mutant: the version is noted before it is compared.
PollNoting ==
    /\ sensor = "select" /\ api /\ ~ctxDone
    /\ sensor' = "answered" /\ answer' = map /\ lastVersion' = map.version
    /\ UNCHANGED <<status, engine, past>>

\* A tick, and a poll that succeeds ...
Poll ==
    /\ sensor = "select" /\ api /\ ~ctxDone
    /\ sensor' = "answered" /\ answer' = map
    /\ UNCHANGED <<lastVersion, status, engine, past>>

\* ... or fails; a done context fails it too.
PollFails ==
    /\ sensor = "select" /\ (~api \/ ctxDone)
    /\ status' \in Failure /\ UNCHANGED <<sensor, answer, lastVersion, engine, past>>

\* The version is as last seen: nothing to do, and nothing is reported.
Unchanged ==
    /\ sensor = "answered" /\ answer.version = lastVersion
    /\ sensor' = "select" /\ UNCHANGED <<answer, lastVersion, status, engine, past>>

\* Mutant: the version is not noted.
ProcessUnnoted ==
    /\ sensor = "answered" /\ answer.version # lastVersion /\ sensor' = "select"
    /\ IF answer.payload = "valid"
         THEN engine' = answer.version /\ past' = past \cup {answer.version}
         ELSE UNCHANGED <<engine, past>>
    /\ UNCHANGED <<answer, lastVersion, status>>

\* The version is noted before the payload is looked at; Validate then rejects
\* it, or Update applies it.
Process ==
    /\ sensor = "answered" /\ answer.version # lastVersion
    /\ sensor' = "select" /\ lastVersion' = answer.version
    /\ status' = [nokey |-> status, garbage |-> "yaml_error",
                  invalid |-> "invalid_config", valid |-> "healthy"][answer.payload]
    /\ IF answer.payload = "valid"
         THEN engine' = answer.version /\ past' = past \cup {answer.version}
         ELSE UNCHANGED <<engine, past>>
    /\ UNCHANGED answer

Return ==
    /\ sensor = "select" /\ ctxDone
    /\ sensor' = "returned" /\ UNCHANGED <<answer, lastVersion, status, engine, past>>

Sensor ==
    /\ Poll \/ PollFails \/ Unchanged \/ Process \/ Return
    /\ UNCHANGED <<map, api, ctxDone, other>>

Next == Edit \/ Flap \/ Override \/ Cancel \/ Sensor

\* The ticker ticks; select does not pass over a done context forever, and an
\* API server that answers again and again answers some poll.
Fairness == WF_vars(Sensor) /\ SF_vars(Sensor /\ Poll) /\ WF_vars(Sensor /\ Return)

Spec == Init /\ [][Next]_vars
FairSpec == Spec /\ Fairness

-----------------------------------------------------------------------------
\* Every variable has its type.
TypeOK ==
    /\ map \in [version : 1 .. MaxVersion, payload : Payload]
    /\ api \in BOOLEAN /\ ctxDone \in BOOLEAN
    /\ sensor \in {"select", "answered", "returned"}
    /\ answer \in [version : 0 .. MaxVersion, payload : Payload]
    /\ lastVersion \in 0 .. MaxVersion
    /\ status \in Failure \cup {"initializing", "yaml_error", "invalid_config", "healthy"}
    /\ engine \in 0 .. MaxVersion /\ other \in 0 .. MaxOther
    /\ past \subseteq 1 .. MaxVersion

\* A version of the ConfigMap is applied at most once, and in order: a poll
\* never takes the engine back to a version it has left, not even after the
\* webhook or the console replaced the configuration.
AppliedOnceInOrder == [][engine' \notin {engine, 0} => \A v \in past : v < engine']_vars

\* The engine comes to run on the ConfigMap as it is left, if it is valid and
\* nobody else replaced the configuration; otherwise the sensor has seen it.
EngineFollowsMap ==
    (<>[](~ctxDone) /\ []<>api) =>
        <>[](/\ lastVersion = map.version
             /\ map.payload = "valid" => engine = map.version \/ other > 0)

\* The goroutine ends with its context.
SensorStops == ctxDone ~> sensor = "returned"

\* A statement the code does not keep, and no run checks (see README.md): the
\* status is healthy in the end when polls succeed for good on a valid
\* ConfigMap.  A failed poll is reported, its end is not.
StatusRecovers ==
    <>[](api /\ ~ctxDone /\ map.payload = "valid") => <>[](status = "healthy")
=============================================================================
