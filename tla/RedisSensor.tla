---------------------------- MODULE RedisSensor ----------------------------
(***************************************************************************)
(* Fleet synchronisation over Redis (pkg/config/remote_redis.go): the      *)
(* sensor goroutine that subscribes, applies payloads and launches         *)
(* acknowledgements, and the shutdown of the process that drains them      *)
(* (main of examples/demo).  The acknowledgements are counted in main's    *)
(* WaitGroup, the sensor goroutine that launches them is not.              *)
(*                                                                         *)
(* Redis and go-redis are modelled by what the sensor relies on: pub/sub   *)
(* delivers in order to who is subscribed, and keeps nothing for others.   *)
(***************************************************************************)
EXTENDS Integers, Sequences, FiniteSets

CONSTANTS
    MaxMessage, \* bound: messages published
    MaxOutage   \* bound: outages of Redis, and channels that go-redis closes

ASSUME SensorAssumption == MaxMessage \in Nat /\ MaxOutage \in Nat

Message == 1 .. MaxMessage
Payload == {"valid", "invalid", "garbage"}

VARIABLES
    redis,    \* Redis answers
    outages,  \* outages so far
    sent,     \* the payloads published so far
    inbox,    \* messages delivered to the channel of the subscription
    sensor,   \* where the sensor goroutine is
    msg,      \* the message it handles
    status,   \* sensorStatus["redis"]
    applied,  \* the message the engine runs on, 0 for the file's configuration
    ack,      \* where the acknowledgement of each message is
    wg,       \* counter of main's WaitGroup
    others,   \* the other goroutines of the WaitGroup are running
    main      \* where main is; mainCtx is done unless "running"

redisVars == <<redis, outages, sent>>
sensorVars == <<inbox, sensor, msg, status, applied>>
ackVars == <<ack, wg>>
mainVars == <<others, main>>
vars == <<redisVars, sensorVars, ackVars, mainVars>>

CtxDone == main # "running"
Alive == main # "exited"
Subscribed == sensor \in {"listening", "handling", "acking"}

Init ==
    /\ redis = TRUE /\ outages = 0 /\ sent = <<>> /\ inbox = <<>>
    /\ sensor = "starting" /\ msg = 0 /\ status = "initializing" /\ applied = 0
    /\ ack = [m \in Message |-> "none"] /\ wg = 1 /\ others = TRUE /\ main = "running"

\* A process without Redis: nothing of this module runs in it.
Over ==
    /\ redis = TRUE /\ outages = MaxOutage /\ sent = [m \in Message |-> "garbage"] /\ inbox = <<>>
    /\ sensor = "returned" /\ msg = 0 /\ status = "initializing" /\ applied = 0
    /\ ack = [m \in Message |-> "none"] /\ wg = 0 /\ others = FALSE /\ main = "exited"

-----------------------------------------------------------------------------
\* Redis and its publishers.

Publish(p) ==
    /\ Len(sent) < MaxMessage /\ redis /\ sent' = Append(sent, p)
    /\ inbox' = IF Subscribed /\ Alive THEN Append(inbox, Len(sent')) ELSE inbox
    /\ UNCHANGED <<redis, outages, sensor, msg, status, applied, ackVars, mainVars>>

\* go-redis reconnects a subscription by itself once Redis is back.
Outage == outages < MaxOutage /\ redis /\ redis' = FALSE /\ outages' = outages + 1
Recovery == ~redis /\ redis' = TRUE /\ UNCHANGED outages

Redis ==
    \/ \E p \in Payload : Publish(p)
    \/ (Outage \/ Recovery) /\ UNCHANGED <<sent, sensorVars, ackVars, mainVars>>

-----------------------------------------------------------------------------
\* The sensor goroutine.

Goto(from, to) == sensor = from /\ sensor' = to

\* The select at the top of the loop, and after a pause.
Begin ==
    /\ Goto("starting", IF CtxDone THEN "returned" ELSE "subscribing")
    /\ UNCHANGED <<inbox, msg, status, applied, ackVars, outages>>

Subscribe ==
    /\ \/ redis /\ ~CtxDone /\ Goto("subscribing", "listening") /\ status' = "connected"
       \/ (~redis \/ CtxDone) /\ Goto("subscribing", "pausing") /\ status' = "error"
    /\ inbox' = <<>> /\ UNCHANGED <<msg, applied, ackVars, outages>>

\* 5 seconds after an error, 2 after a disconnect, or the end of the context.
Pause ==
    /\ \/ Goto("pausing", "starting")
       \/ CtxDone /\ Goto("pausing", "returned")
    /\ UNCHANGED <<inbox, msg, status, applied, ackVars, outages>>

\* The select of the inner loop, over the context and the channel.
Receive ==
    /\ Goto("listening", "handling") /\ inbox # <<>>
    /\ msg' = Head(inbox) /\ inbox' = Tail(inbox)
    /\ UNCHANGED <<status, applied, ackVars, outages>>

\* ctx.Done(), or the channel was closed: Close, and status "disconnected".
EndListening ==
    /\ Goto("listening", "pausing") /\ status' = "disconnected" /\ inbox' = <<>>
    /\ \/ CtxDone /\ UNCHANGED outages
       \/ inbox = <<>> /\ outages < MaxOutage /\ outages' = outages + 1
    /\ UNCHANGED <<msg, applied, ackVars>>

\* Mutant: only what is refused is acknowledged.
HandleQuietly ==
    /\ Goto("handling", IF sent[msg] = "valid" THEN "listening" ELSE "acking")
    /\ status' = [valid |-> "healthy", invalid |-> "rejected_payload", garbage |-> status][sent[msg]]
    /\ applied' = IF sent[msg] = "valid" THEN msg ELSE applied
    /\ UNCHANGED <<inbox, msg, ackVars, outages>>

\* Unmarshal, Validate, Update and SetSensorStatus.
Handle ==
    /\ Goto("handling", "acking")
    /\ status' = [valid |-> "healthy", invalid |-> "rejected_payload", garbage |-> status][sent[msg]]
    /\ applied' = IF sent[msg] = "valid" THEN msg ELSE applied
    /\ UNCHANGED <<inbox, msg, ackVars, outages>>

\* Mutant: the goroutine is not counted when it is launched.
LaunchUncounted ==
    /\ Goto("acking", "listening") /\ ack' = [ack EXCEPT ![msg] = "publishing"]
    /\ UNCHANGED <<inbox, msg, status, applied, wg, outages>>

\* sendAck: wg.Add(1), then the goroutine.
LaunchAck ==
    /\ Goto("acking", "listening")
    /\ ack' = [ack EXCEPT ![msg] = "publishing"] /\ wg' = wg + 1
    /\ UNCHANGED <<inbox, msg, status, applied, outages>>

Sensor ==
    /\ Alive
    /\ Begin \/ Subscribe \/ Pause \/ Receive \/ EndListening \/ Handle \/ LaunchAck
    /\ UNCHANGED <<redis, sent, mainVars>>

\* Mutant: Done is called at the end and deferred as well.
FinishAckTwice(m) ==
    /\ Alive /\ ack[m] = "publishing" /\ wg' = wg - 2
    /\ \/ redis /\ main # "closed" /\ ack' = [ack EXCEPT ![m] = "published"]
       \/ ack' = [ack EXCEPT ![m] = "failed"]
    /\ UNCHANGED <<redisVars, sensorVars, mainVars>>

\* Mutant: Done is called after a success only.
FinishAckUndone(m) ==
    /\ Alive /\ ack[m] = "publishing"
    /\ \/ /\ redis /\ main # "closed"
          /\ ack' = [ack EXCEPT ![m] = "published"] /\ wg' = wg - 1
       \/ ack' = [ack EXCEPT ![m] = "failed"] /\ UNCHANGED wg
    /\ UNCHANGED <<redisVars, sensorVars, mainVars>>

\* The goroutine of an acknowledgement: its context outlives mainCtx, but
\* lasts 2 seconds.  Publish needs Redis, and a client that main has not closed.
FinishAck(m) ==
    /\ Alive /\ ack[m] = "publishing" /\ wg' = wg - 1
    /\ \/ redis /\ main # "closed" /\ ack' = [ack EXCEPT ![m] = "published"]
       \/ ack' = [ack EXCEPT ![m] = "failed"]
    /\ UNCHANGED <<redisVars, sensorVars, mainVars>>

-----------------------------------------------------------------------------
\* main.

OthersReturn ==
    /\ Alive /\ CtxDone /\ others /\ others' = FALSE /\ wg' = wg - 1
    /\ UNCHANGED <<redisVars, sensorVars, ack, main>>

\* SIGTERM.
Cancel == main = "running" /\ main' = "draining" /\ UNCHANGED <<wg, others>>

\* wg.Wait() returns, and done is closed.
WaitReturns == main = "draining" /\ wg = 0 /\ main' = "waited" /\ UNCHANGED <<wg, others>>

\* The deferred rdb.Close() ...
CloseClient == main = "waited" /\ main' = "closed" /\ UNCHANGED <<wg, others>>

\* ... and the end of the process.
Exit == main = "closed" /\ main' = "exited" /\ UNCHANGED <<wg, others>>

Shutdown == (WaitReturns \/ CloseClient \/ Exit) /\ UNCHANGED <<redisVars, sensorVars, ack>>

Next ==
    \/ Redis \/ Sensor \/ OthersReturn \/ Shutdown
    \/ Cancel /\ UNCHANGED <<redisVars, sensorVars, ack>>
    \/ \E m \in Message : FinishAck(m)

\* Goroutines run, and timeouts expire; Redis comes back.
Fairness ==
    /\ WF_vars(Sensor) /\ WF_vars(OthersReturn) /\ WF_vars(Shutdown)
    /\ \A m \in Message : WF_vars(FinishAck(m))
    /\ WF_vars(Recovery /\ UNCHANGED <<sent, sensorVars, ackVars, mainVars>>)

Spec == Init /\ [][Next]_vars
FairSpec == Spec /\ Fairness

-----------------------------------------------------------------------------
Publishing == {m \in Message : ack[m] = "publishing"}

\* Every variable has its type.
TypeOK ==
    /\ redis \in BOOLEAN /\ outages \in 0 .. MaxOutage
    /\ sent \in Seq(Payload) /\ Len(sent) <= MaxMessage /\ inbox \in Seq(Message)
    /\ sensor \in {"starting", "subscribing", "pausing", "listening", "handling", "acking", "returned"}
    /\ msg \in 0 .. MaxMessage /\ applied \in 0 .. MaxMessage
    /\ status \in {"initializing", "connected", "error", "disconnected", "healthy", "rejected_payload"}
    /\ ack \in [Message -> {"none", "publishing", "published", "failed"}]
    /\ wg \in Nat /\ others \in BOOLEAN
    /\ main \in {"running", "draining", "waited", "closed", "exited"}

\* main waits for every acknowledgement that was launched: when wg.Wait()
\* returns none is being published, so the client is not closed under it.
GraceRespected == [][main = "draining" /\ main' = "waited" => Publishing = {}]_vars

\* While the process runs, a payload that was applied is acknowledged: the
\* publication is attempted, whatever else the sensor goes through.
AppliedIsAcked ==
    \A m \in Message : (applied = m) ~> (ack[m] \in {"published", "failed"} \/ CtxDone)

\* The sensor gets back to its channel after any outage.
SensorReturns == []<>(sensor = "listening" \/ CtxDone)

\* The process ends once it is told to.
ProcessExits == CtxDone ~> main = "exited"

\* A statement the code does not keep, and no run checks (see README.md): even
\* if the process is told to stop, the acknowledgement of a payload that was
\* applied is attempted before it exits (docs/architecture.md).
FinalAckAttempted ==
    main = "exited" /\ applied # 0 => ack[applied] \in {"published", "failed"}
=============================================================================
