----------------------------- MODULE SourcesProofs -----------------------------
(***************************************************************************)
(* What holds of the remote sources of an engine for any numbers of        *)
(* messages, versions, outages and pods.                                   *)
(***************************************************************************)
EXTENDS RemoteSources, FiniteSetTheorems, SequenceTheorems, TLAPS

-----------------------------------------------------------------------------
\* The ConfigMap sensor.

\* What was seen is no newer than the map, what was applied no newer than what
\* was seen, and an answer no older.
Seen ==
    /\ ConfigMap!TypeOK
    /\ lastVersion <= map.version /\ answer.version <= map.version
    /\ mapSensor = "answered" => lastVersion <= answer.version
    /\ \A v \in past : v <= lastVersion

LEMMA MapInit == ConfigMap!Init \/ ConfigMap!Over => Seen
<1> USE SourcesAssumption DEF Seen, ConfigMap!TypeOK, ConfigMap!Payload, ConfigMap!Failure
<1>1. 0 \in 0 .. MaxVersion /\ 1 \in 1 .. MaxVersion /\ MaxVersion \in 1 .. MaxVersion
  OBVIOUS
<1>2. CASE ConfigMap!Init
  <2>1. map \in [version : 1 .. MaxVersion, payload : ConfigMap!Payload] /\ map.version = 1
    BY <1>1, <1>2 DEF ConfigMap!Init
  <2>2. answer \in [version : 0 .. MaxVersion, payload : ConfigMap!Payload] /\ answer.version = 0
    BY <1>1, <1>2 DEF ConfigMap!Init
  <2>3. api \in BOOLEAN /\ mapDone \in BOOLEAN
    BY <1>2, Zenon DEF ConfigMap!Init
  <2>4. lastVersion = 0 /\ mapEngine = 0 /\ other \in 0 .. MaxOther /\ past = {} /\ mapSensor # "answered"
    BY <1>2 DEF ConfigMap!Init
  <2> QED
    BY <1>1, <1>2, <2>1, <2>2, <2>3, <2>4 DEF ConfigMap!Init
<1>3. CASE ConfigMap!Over
  <2>1. map \in [version : 1 .. MaxVersion, payload : ConfigMap!Payload] /\ map.version = MaxVersion
    BY <1>1, <1>3 DEF ConfigMap!Over
  <2>2. answer \in [version : 0 .. MaxVersion, payload : ConfigMap!Payload] /\ answer.version = 0
    BY <1>1, <1>3 DEF ConfigMap!Over
  <2>3. api \in BOOLEAN /\ mapDone \in BOOLEAN
    BY <1>3, Zenon DEF ConfigMap!Over
  <2>4. lastVersion = 0 /\ mapEngine = 0 /\ other \in 0 .. MaxOther /\ past = {} /\ mapSensor # "answered"
    BY <1>3 DEF ConfigMap!Over
  <2> QED
    BY <1>1, <1>3, <2>1, <2>2, <2>3, <2>4 DEF ConfigMap!Over
<1> QED
  BY <1>2, <1>3

LEMMA MapStep == Seen /\ [ConfigMap!Next]_mapVars => Seen'
<1> SUFFICES ASSUME Seen, [ConfigMap!Next]_mapVars PROVE Seen'
  OBVIOUS
<1> USE SourcesAssumption DEF Seen, ConfigMap!TypeOK, ConfigMap!Payload, ConfigMap!Failure
<1>1. CASE ConfigMap!Edit
  BY <1>1 DEF ConfigMap!Edit, ConfigMap!sensorVars
<1>2. CASE ConfigMap!Flap \/ ConfigMap!Cancel
  BY <1>2 DEF ConfigMap!Flap, ConfigMap!Cancel, ConfigMap!sensorVars
<1>3. CASE ConfigMap!Override
  BY <1>3 DEF ConfigMap!Override, ConfigMap!sensorVars
<1>4. CASE ConfigMap!Sensor /\ ConfigMap!Poll
  BY <1>4 DEF ConfigMap!Sensor, ConfigMap!Poll
<1>5. CASE ConfigMap!Sensor /\ (ConfigMap!PollFails \/ ConfigMap!Unchanged \/ ConfigMap!Return)
  BY <1>5 DEF ConfigMap!Sensor, ConfigMap!PollFails, ConfigMap!Unchanged, ConfigMap!Return
<1>6. CASE ConfigMap!Sensor /\ ConfigMap!Process
  <2>1. mapSensor' = "select" /\ lastVersion' = answer.version /\ UNCHANGED <<map, api, mapDone, other, answer>>
    BY <1>6 DEF ConfigMap!Sensor, ConfigMap!Process
  <2>2. mapStatus' \in ConfigMap!Failure \cup {"initializing", "yaml_error", "invalid_config", "healthy"}
    BY <1>6 DEF ConfigMap!Process
  <2>3. /\ answer.version \in 1 .. MaxVersion
        /\ mapEngine' \in {mapEngine, answer.version} /\ past' \subseteq past \cup {answer.version}
    BY <1>6 DEF ConfigMap!Process
  <2>4. past' \subseteq 1 .. MaxVersion /\ \A v \in past' : v <= lastVersion'
    <3>1. past \subseteq 1 .. MaxVersion /\ lastVersion \in Nat /\ MaxVersion \in Nat
      OBVIOUS
    <3>2. lastVersion <= answer.version /\ \A v \in past : v <= lastVersion
      BY <1>6 DEF ConfigMap!Sensor, ConfigMap!Process
    <3> HIDE DEF Seen, ConfigMap!TypeOK
    <3>3. \A v \in past' : v \in 1 .. MaxVersion /\ v <= answer.version
      BY <2>3, <3>1, <3>2
    <3> QED
      BY <2>1, <3>3
  <2>5. mapEngine' \in 0 .. MaxVersion /\ lastVersion' \in 0 .. MaxVersion
    BY <2>1, <2>3
  <2> QED
    BY <2>1, <2>2, <2>4, <2>5
<1>7. CASE UNCHANGED mapVars
  BY <1>7 DEF mapVars
<1> QED
  BY <1>1, <1>2, <1>3, <1>4, <1>5, <1>6, <1>7 DEF ConfigMap!Next, ConfigMap!Sensor

\* A step that brings a version to the engine brings one that is newer than all before.
LEMMA MapOrder ==
    ASSUME Seen, ConfigMap!Next, mapEngine' \notin {mapEngine, 0}
    PROVE  \A v \in past : v < mapEngine'
<1>1. ConfigMap!Process
  BY DEF ConfigMap!Next, ConfigMap!Edit, ConfigMap!Flap, ConfigMap!Override, ConfigMap!Cancel,
         ConfigMap!Sensor, ConfigMap!Poll, ConfigMap!PollFails, ConfigMap!Unchanged, ConfigMap!Return
<1> QED
  <2>1. mapEngine' = answer.version /\ answer.version # lastVersion /\ mapSensor = "answered"
    BY <1>1 DEF ConfigMap!Process
  <2>2. /\ answer.version \in Nat /\ lastVersion \in Nat /\ past \subseteq Nat
        /\ lastVersion <= answer.version /\ \A v \in past : v <= lastVersion
    BY <2>1 DEF Seen, ConfigMap!TypeOK
  <2> QED
    BY <2>1, <2>2

-----------------------------------------------------------------------------
\* The sensor of Redis and the shutdown.

\* A message is acknowledged once: until then it is ahead of the sensor, or in
\* its hands, and no two entries of the channel are the same.
Unread ==
    /\ \A m \in Message : m > Len(sent) => ack[m] = "none"
    /\ \A i \in DOMAIN inbox : inbox[i] <= Len(sent) /\ ack[inbox[i]] = "none"
    /\ \A i, j \in DOMAIN inbox : i # j => inbox[i] # inbox[j]
    /\ sensor \in {"handling", "acking"} =>
          /\ msg \in Message /\ msg <= Len(sent) /\ ack[msg] = "none"
          /\ \A i \in DOMAIN inbox : inbox[i] # msg

\* The WaitGroup counts what is being published, and the other goroutines.
Counted == wg = Cardinality(Publishing) + (IF others THEN 1 ELSE 0)

Drained == TypeOK /\ Unread /\ Counted

LEMMA PublishingFinite ==
    /\ IsFiniteSet(Publishing) /\ Cardinality(Publishing) \in Nat
    /\ Cardinality(Publishing) = 0 => Publishing = {}
<1>1. IsFiniteSet(Message)
  BY SensorAssumption, FS_Interval DEF Message
<1>2. Publishing \in SUBSET Message
  BY DEF Publishing
<1> QED
  BY <1>1, <1>2, FS_Subset, FS_CardinalityType, FS_EmptySet

LEMMA NothingPublishing ==
    ASSUME ack = [m \in Message |-> "none"] PROVE Cardinality(Publishing) = 0
<1>1. Publishing = {}
  BY DEF Publishing
<1> QED
  BY <1>1, FS_EmptySet

LEMMA RedisInit == Init \/ Over => Drained
<1>1. CASE Init
  <2>1. <<>> \in Seq(Payload) /\ <<>> \in Seq(Message) /\ Len(<<>>) = 0 /\ DOMAIN <<>> = {}
    OBVIOUS
  <2>2. redis \in BOOLEAN /\ others \in BOOLEAN
    BY <1>1, Zenon DEF Init
  <2>3. TypeOK
    BY <1>1, <2>1, <2>2, SensorAssumption DEF Init, TypeOK
  <2>4. Unread
    BY <1>1, <2>1 DEF Init, Unread
  <2>5. Counted
    BY <1>1, NothingPublishing DEF Init, Counted
  <2> QED
    BY <2>3, <2>4, <2>5 DEF Drained
<1>2. CASE Over
  <2>1. <<>> \in Seq(Message) /\ DOMAIN <<>> = {}
    OBVIOUS
  <2>2. sent \in [1 .. MaxMessage -> Payload]
    BY <1>2 DEF Over, Message, Payload
  <2>3. sent \in Seq(Payload) /\ Len(sent) = MaxMessage
    BY <2>2, SensorAssumption
  <2>4. redis \in BOOLEAN /\ others \in BOOLEAN
    BY <1>2, Zenon DEF Over
  <2>5. TypeOK
    BY <1>2, <2>1, <2>3, <2>4, SensorAssumption DEF Over, TypeOK
  <2>6. Unread
    BY <1>2, <2>1 DEF Over, Unread
  <2>7. Counted
    BY <1>2, NothingPublishing DEF Over, Counted
  <2> QED
    BY <2>5, <2>6, <2>7 DEF Drained
<1> QED
  BY <1>1, <1>2

\* Nothing is launched, and nothing counted ends.
LEMMA CountKept == ASSUME Counted, UNCHANGED <<ack, wg, others>> PROVE Counted'
BY DEF Counted, Publishing

LEMMA PublishKeeps == ASSUME Drained, NEW p \in Payload, Publish(p) PROVE Drained'
<1> USE DEF redisVars, sensorVars, ackVars, mainVars
<1>1. /\ sent \in Seq(Payload) /\ inbox \in Seq(Message) /\ MaxMessage \in Nat
      /\ Len(sent) < MaxMessage /\ sent' = Append(sent, p)
  BY SensorAssumption DEF Drained, TypeOK, Publish
<1>2. sent' \in Seq(Payload) /\ Len(sent') = Len(sent) + 1 /\ Len(sent') \in Message
  BY <1>1, AppendProperties DEF Message
<1>3. inbox' = inbox \/ inbox' = Append(inbox, Len(sent'))
  BY DEF Publish
<1>4. /\ inbox' \in Seq(Message)
      /\ \A i \in DOMAIN inbox' :
            \/ i \in DOMAIN inbox /\ inbox'[i] = inbox[i]
            \/ i = Len(inbox) + 1 /\ inbox'[i] = Len(sent')
  <2>1. CASE inbox' = inbox
    BY <1>1, <2>1
  <2>2. CASE inbox' = Append(inbox, Len(sent'))
    <3>1. /\ inbox' \in Seq(Message) /\ Len(inbox') = Len(inbox) + 1
          /\ \A i \in 1 .. Len(inbox) : inbox'[i] = inbox[i]
          /\ inbox'[Len(inbox) + 1] = Len(sent')
      BY <1>1, <1>2, <2>2, AppendProperties
    <3>2. DOMAIN inbox = 1 .. Len(inbox) /\ DOMAIN inbox' = 1 .. Len(inbox) + 1 /\ Len(inbox) \in Nat
      BY <1>1, <3>1, LenProperties
    <3> QED
      BY <3>1, <3>2
  <2> QED
    BY <1>3, <2>1, <2>2
<1>5. UNCHANGED <<redis, outages, sensor, msg, status, applied, ack, wg, others, main>>
  BY DEF Publish
<1>6. TypeOK'
  BY <1>1, <1>2, <1>4, <1>5 DEF Drained, TypeOK
<1>7. Unread'
  <2>1. \A m \in Message : m > Len(sent) => ack[m] = "none"
    BY DEF Drained, Unread
  <2>2. \A i \in DOMAIN inbox : inbox[i] <= Len(sent) /\ inbox[i] \in Message /\ ack[inbox[i]] = "none"
    BY <1>1 DEF Drained, Unread
  <2>3. \A m \in Message : m > Len(sent') => ack[m] = "none"
    BY <1>1, <1>2, <2>1 DEF Message
  <2>4. ack[Len(sent')] = "none"
    BY <1>1, <1>2, <2>1
  <2>5. \A i \in DOMAIN inbox' : inbox'[i] <= Len(sent') /\ ack[inbox'[i]] = "none"
    <3> SUFFICES ASSUME NEW i \in DOMAIN inbox'
                 PROVE  inbox'[i] <= Len(sent') /\ ack[inbox'[i]] = "none"
      OBVIOUS
    <3>1. Len(sent) \in Nat /\ Len(sent') = Len(sent) + 1
      BY <1>1, <1>2
    <3>2. CASE i \in DOMAIN inbox /\ inbox'[i] = inbox[i]
      BY <2>2, <3>1, <3>2 DEF Message
    <3>3. CASE inbox'[i] = Len(sent')
      BY <2>4, <3>1, <3>3
    <3> QED
      BY <1>4, <3>2, <3>3
  <2>6. \A i, j \in DOMAIN inbox' : i # j => inbox'[i] # inbox'[j]
    BY <1>1, <1>2, <1>4, <2>2 DEF Drained, Unread, Message
  <2>7. sensor \in {"handling", "acking"} =>
          /\ msg \in Message /\ msg <= Len(sent') /\ ack[msg] = "none"
          /\ \A i \in DOMAIN inbox' : inbox'[i] # msg
    BY <1>1, <1>2, <1>4 DEF Drained, Unread, Message
  <2> QED
    BY <1>5, <2>3, <2>5, <2>6, <2>7 DEF Unread
<1> QED
  BY <1>5, <1>6, <1>7, CountKept DEF Drained

\* A step of the sensor that launches no acknowledgement, and neither takes nor
\* holds a message.
LEMMA SensorKeeps ==
    ASSUME Drained, UNCHANGED <<redis, sent, ack, wg, others, main>>,
           outages' \in 0 .. MaxOutage,
           sensor' \in {"starting", "subscribing", "pausing", "listening", "returned"},
           inbox' \in {inbox, <<>>}, UNCHANGED msg, applied' = applied,
           status' \in {"initializing", "connected", "error", "disconnected", "healthy",
                        "rejected_payload"}
    PROVE  Drained'
<1>1. <<>> \in Seq(Message) /\ DOMAIN <<>> = {}
  OBVIOUS
<1>2. TypeOK'
  BY <1>1 DEF Drained, TypeOK
<1>3. Unread'
  BY <1>1 DEF Drained, Unread
<1> QED
  BY <1>2, <1>3, CountKept DEF Drained

LEMMA QuietStepKeeps ==
    ASSUME Drained, Sensor, Begin \/ Subscribe \/ Pause \/ EndListening
    PROVE  Drained'
<1> USE DEF Goto, ackVars
<1>0. UNCHANGED <<redis, sent, others, main>>
  BY DEF Sensor, mainVars
<1>1. outages \in 0 .. MaxOutage /\ MaxOutage \in Nat
  BY SensorAssumption DEF Drained, TypeOK
<1>2. CASE Begin
  BY <1>0, <1>1, <1>2, SensorKeeps DEF Begin, Drained, TypeOK
<1>3. CASE Subscribe
  BY <1>0, <1>1, <1>3, SensorKeeps DEF Subscribe, Drained, TypeOK
<1>4. CASE Pause
  BY <1>0, <1>1, <1>4, SensorKeeps DEF Pause, Drained, TypeOK
<1>5. CASE EndListening
  BY <1>0, <1>1, <1>5, SensorKeeps DEF EndListening, Drained, TypeOK
<1> QED
  BY <1>2, <1>3, <1>4, <1>5

LEMMA ReceiveKeeps == ASSUME Drained, Sensor, Receive PROVE Drained'
<1> USE DEF Goto, ackVars
<1>1. /\ inbox \in Seq(Message) /\ inbox # <<>> /\ msg' = Head(inbox) /\ inbox' = Tail(inbox)
      /\ sensor' = "handling" /\ UNCHANGED <<redis, sent, others, main, ack, wg, outages, status, applied>>
  BY DEF Receive, Sensor, mainVars, Drained, TypeOK
<1>2. /\ inbox' \in Seq(Message) /\ Len(inbox') = Len(inbox) - 1 /\ Len(inbox) \in Nat \ {0}
      /\ \A i \in 1 .. Len(inbox') : inbox'[i] = inbox[i + 1]
  BY <1>1, HeadTailProperties, EmptySeq
<1>3. DOMAIN inbox = 1 .. Len(inbox) /\ DOMAIN inbox' = 1 .. Len(inbox')
  BY <1>1, <1>2, LenProperties
<1>4. 1 \in DOMAIN inbox /\ msg' = inbox[1] /\ msg' \in Message
  BY <1>1, <1>2, <1>3
<1>5. \A i \in DOMAIN inbox' : i + 1 \in DOMAIN inbox /\ i + 1 # 1 /\ inbox'[i] = inbox[i + 1]
  BY <1>2, <1>3
<1>6. TypeOK'
  BY <1>1, <1>2, <1>4 DEF Drained, TypeOK, Message
<1>7. Unread'
  <2>1. \A i \in DOMAIN inbox' : inbox'[i] <= Len(sent) /\ ack[inbox'[i]] = "none"
    BY <1>5 DEF Drained, Unread
  <2>2. \A i \in DOMAIN inbox' : inbox'[i] # msg'
    BY <1>4, <1>5 DEF Drained, Unread
  <2>3. \A i, j \in DOMAIN inbox' : i # j => inbox'[i] # inbox'[j]
    <3>1. \A i, j \in DOMAIN inbox' : i # j => i + 1 # j + 1
      BY <1>2, <1>3
    <3> QED
      BY <1>5, <3>1 DEF Drained, Unread
  <2>4. msg' <= Len(sent) /\ ack[msg'] = "none"
    BY <1>4 DEF Drained, Unread
  <2> QED
    BY <1>1, <1>4, <2>1, <2>2, <2>3, <2>4 DEF Drained, Unread
<1> QED
  BY <1>1, <1>6, <1>7, CountKept DEF Drained

LEMMA HandleKeeps == ASSUME Drained, Sensor, Handle PROVE Drained'
<1> USE DEF Goto, ackVars
<1>1. /\ sensor = "handling" /\ sensor' = "acking"
      /\ UNCHANGED <<redis, sent, others, main, ack, wg, outages, inbox, msg>>
  BY DEF Handle, Sensor, mainVars
<1>2. msg \in Message /\ msg <= Len(sent) /\ sent \in Seq(Payload) /\ msg \in 1 .. Len(sent)
  BY <1>1 DEF Drained, Unread, TypeOK, Message
<1>3. sent[msg] \in Payload
  BY <1>2
<1>4. /\ applied' \in {msg, applied}
      /\ status' \in {"healthy", "rejected_payload", status}
  BY <1>3 DEF Handle, Payload
<1>5. TypeOK'
  BY <1>1, <1>2, <1>4 DEF Drained, TypeOK, Message
<1>6. Unread'
  BY <1>1 DEF Drained, Unread
<1> QED
  BY <1>1, <1>5, <1>6, CountKept DEF Drained

LEMMA LaunchKeeps == ASSUME Drained, Sensor, LaunchAck PROVE Drained'
<1> USE DEF Goto
<1>1. /\ sensor = "acking" /\ sensor' = "listening"
      /\ ack' = [ack EXCEPT ![msg] = "publishing"] /\ wg' = wg + 1
      /\ UNCHANGED <<redis, sent, others, main, outages, inbox, msg, status, applied>>
  BY DEF LaunchAck, Sensor, mainVars
<1>2. /\ msg \in Message /\ msg <= Len(sent) /\ ack[msg] = "none"
      /\ \A i \in DOMAIN inbox : inbox[i] # msg
  BY <1>1 DEF Drained, Unread
<1>3. ack \in [Message -> {"none", "publishing", "published", "failed"}] /\ wg \in Nat
  BY DEF Drained, TypeOK
<1>4. TypeOK'
  <2>1. ack' \in [Message -> {"none", "publishing", "published", "failed"}]
    BY <1>1, <1>3
  <2>2. wg' \in Nat
    BY <1>1, <1>3
  <2> QED
    BY <1>1, <2>1, <2>2 DEF Drained, TypeOK
<1>5. Unread'
  <2>1. \A m \in Message : m # msg => ack'[m] = ack[m]
    BY <1>1, <1>3
  <2>2. \A m \in Message : m > Len(sent) => m # msg
    BY <1>2 DEF Message, Drained, TypeOK
  <2>3. \A i \in DOMAIN inbox : inbox[i] \in Message
    BY DEF Drained, TypeOK
  <2> QED
    BY <1>1, <1>2, <2>1, <2>2, <2>3 DEF Drained, Unread
<1>6. Counted'
  <2>1. Publishing' = Publishing \cup {msg} /\ msg \notin Publishing
    BY <1>1, <1>2, <1>3 DEF Publishing
  <2>2. Cardinality(Publishing') = Cardinality(Publishing) + 1
    BY <2>1, PublishingFinite, FS_AddElement
  <2> QED
    BY <1>1, <2>2, PublishingFinite DEF Drained, Counted
<1> QED
  BY <1>4, <1>5, <1>6 DEF Drained

LEMMA FinishKeeps == ASSUME Drained, NEW m \in Message, FinishAck(m) PROVE Drained'
<1>1. /\ ack[m] = "publishing" /\ wg' = wg - 1
      /\ UNCHANGED <<redis, outages, sent, inbox, sensor, msg, status, applied, others, main>>
  BY DEF FinishAck, redisVars, sensorVars, mainVars
<1>2. PICK result \in {"published", "failed"} : ack' = [ack EXCEPT ![m] = result]
  BY DEF FinishAck
<1>3. ack \in [Message -> {"none", "publishing", "published", "failed"}]
  BY DEF Drained, TypeOK
<1>4. Counted' /\ wg' \in Nat
  <2>1. Publishing' = Publishing \ {m} /\ m \in Publishing
    BY <1>1, <1>2, <1>3 DEF Publishing
  <2>2. Cardinality(Publishing') = Cardinality(Publishing) - 1
    BY <2>1, PublishingFinite, FS_RemoveElement
  <2>3. Cardinality(Publishing') \in Nat
    <3>1. IsFiniteSet(Publishing')
      BY <2>1, PublishingFinite, FS_RemoveElement
    <3> QED
      BY <3>1, FS_CardinalityType
  <2> QED
    BY <1>1, <2>2, <2>3, PublishingFinite DEF Drained, Counted
<1>5. TypeOK'
  BY <1>1, <1>2, <1>3, <1>4 DEF Drained, TypeOK
<1>6. Unread'
  <2>1. \A n \in Message : n # m => ack'[n] = ack[n]
    BY <1>2, <1>3
  <2>2. \A i \in DOMAIN inbox : inbox[i] \in Message
    BY DEF Drained, TypeOK
  <2>3. \A n \in Message : ack[n] = "none" => ack'[n] = "none"
    BY <1>1, <2>1
  <2> QED
    BY <1>1, <2>2, <2>3 DEF Drained, Unread
<1> QED
  BY <1>4, <1>5, <1>6 DEF Drained

LEMMA MainKeeps ==
    ASSUME Drained, \/ OthersReturn \/ Shutdown
                    \/ Cancel /\ UNCHANGED <<redisVars, sensorVars, ack>>
                    \/ (Outage \/ Recovery) /\ UNCHANGED <<sent, sensorVars, ackVars, mainVars>>
    PROVE  Drained'
<1> USE DEF redisVars, sensorVars, ackVars, mainVars
<1>1. CASE OthersReturn
  <2>1. /\ others /\ ~others' /\ wg' = wg - 1
        /\ UNCHANGED <<redis, outages, sent, inbox, sensor, msg, status, applied, ack, main>>
    BY <1>1 DEF OthersReturn
  <2>2. others' \in BOOLEAN
    BY <1>1, Zenon DEF OthersReturn
  <2>3. Counted' /\ wg' \in Nat
    BY <2>1, PublishingFinite DEF Drained, Counted, Publishing
  <2> QED
    BY <2>1, <2>2, <2>3 DEF Drained, TypeOK, Unread
<1>2. CASE Shutdown
  BY <1>2, CountKept
  DEF Shutdown, WaitReturns, CloseClient, Exit, Drained, TypeOK, Unread
<1>3. CASE Cancel /\ UNCHANGED <<redisVars, sensorVars, ack>>
  BY <1>3, CountKept DEF Cancel, Drained, TypeOK, Unread
<1>4. CASE (Outage \/ Recovery) /\ UNCHANGED <<sent, sensorVars, ackVars, mainVars>>
  <2>1. redis' \in BOOLEAN
    BY <1>4, Zenon DEF Outage, Recovery
  <2>2. outages' \in 0 .. MaxOutage
    BY <1>4, SensorAssumption DEF Outage, Recovery, Drained, TypeOK
  <2> QED
    BY <1>4, <2>1, <2>2, CountKept DEF Drained, TypeOK, Unread
<1> QED
  BY <1>1, <1>2, <1>3, <1>4

LEMMA RedisStep == Drained /\ [Next]_vars => Drained'
<1> SUFFICES ASSUME Drained, [Next]_vars PROVE Drained'
  OBVIOUS
<1>1. CASE Redis
  BY <1>1, PublishKeeps, MainKeeps DEF Redis
<1>2. CASE Sensor
  BY <1>2, QuietStepKeeps, ReceiveKeeps, HandleKeeps, LaunchKeeps DEF Sensor
<1>3. CASE OthersReturn \/ Shutdown \/ (Cancel /\ UNCHANGED <<redisVars, sensorVars, ack>>)
  BY <1>3, MainKeeps
<1>4. CASE \E m \in Message : FinishAck(m)
  BY <1>4, FinishKeeps
<1>5. CASE UNCHANGED vars
  BY <1>5, CountKept DEF vars, redisVars, sensorVars, ackVars, mainVars, Drained, TypeOK, Unread
<1> QED
  BY <1>1, <1>2, <1>3, <1>4, <1>5 DEF Next

\* When wg.Wait() returns, nothing is being published.
LEMMA WaitedFor ==
    ASSUME Drained, [Next]_vars, main = "draining", main' = "waited"
    PROVE  Publishing = {}
<1>1. wg = 0
  BY DEF Next, Redis, Publish, Sensor, OthersReturn, Shutdown, WaitReturns, CloseClient, Exit, Cancel,
         FinishAck, vars, redisVars, sensorVars, ackVars, mainVars
<1> QED
  BY <1>1, PublishingFinite DEF Drained, Counted

-----------------------------------------------------------------------------
\* The streamers of the console.

Registered ==
    /\ Pods!TypeOK
    /\ \A s \in Pods!Stream : Pods!Live(s) => streamer[s].pod \in Pod
    /\ Pods!NoOrphanStream

LEMMA PodsInit == Pods!Init \/ Pods!Over => Registered
<1> SUFFICES ASSUME Pods!Init \/ Pods!Over PROVE Registered
  OBVIOUS
<1> USE SourcesAssumption DEF Pods!Init, Pods!Over
<1>1. <<>> \in Seq(Pods!Event)
  OBVIOUS
<1>2. podsDone \in BOOLEAN /\ open \in BOOLEAN
  BY Zenon
<1>3. pods \in [Pod -> Pods!Phase] /\ active \in [Pod -> Pods!Stream \cup {0}]
  BY DEF Pods!Phase
<1>4. Pods!NoStreamer \in Pods!Streamer
  <2>1. FALSE \in BOOLEAN
    OBVIOUS
  <2> QED
    BY <2>1 DEF Pods!NoStreamer, Pods!Streamer
<1>5. streamer \in [Pods!Stream -> Pods!Streamer] /\ \A s \in Pods!Stream : ~Pods!Live(s)
  <2>1. \A s \in Pods!Stream : streamer[s] = Pods!NoStreamer
    OBVIOUS
  <2>2. streamer = [s \in Pods!Stream |-> Pods!NoStreamer]
    OBVIOUS
  <2> HIDE DEF Pods!Init, Pods!Over
  <2>3. streamer \in [Pods!Stream -> Pods!Streamer]
    BY <1>4, <2>2
  <2>4. Pods!NoStreamer.at = "none"
    BY DEF Pods!NoStreamer
  <2> QED
    BY <2>1, <2>3, <2>4 DEF Pods!Live
<1>6. changes \in 0 .. MaxChange /\ breaks \in 0 .. MaxBreak /\ watcher \in {"select", "returned"} /\ events = <<>>
  OBVIOUS
<1> QED
  BY <1>1, <1>2, <1>3, <1>5, <1>6 DEF Registered, Pods!TypeOK, Pods!NoOrphanStream

\* Steps that leave the streamers and their register alone.
LEMMA RegisterKept ==
    ASSUME Registered, UNCHANGED <<active, streamer>>, Pods!TypeOK' PROVE Registered'
BY DEF Registered, Pods!NoOrphanStream, Pods!Live

\* The cluster and the connection.
LEMMA OutsideKeeps ==
    ASSUME Registered, (\E p \in Pod : Pods!Change(p)) \/ Pods!Break \/ Pods!Cancel PROVE Registered'
<1> USE DEF Pods!podVars, Pods!watchVars, Pods!streamVars
<1>0. /\ Pods!TypeOK /\ pods \in [Pod -> Pods!Phase] /\ events \in Seq(Pods!Event)
      /\ changes \in 0 .. MaxChange /\ breaks \in 0 .. MaxBreak
  BY DEF Registered, Pods!TypeOK
<1>1. ASSUME NEW p \in Pod, Pods!Change(p) PROVE Registered'
  <2>1. PICK phase \in Pods!Phase :
          /\ pods' = [pods EXCEPT ![p] = phase]
          /\ \/ events' = events
             \/ \E type \in {"ADDED", "MODIFIED", "DELETED"} :
                    events' = Append(events, [pod |-> p, phase |-> phase, type |-> type])
    BY <1>1 DEF Pods!Change
  <2>2. pods' \in [Pod -> Pods!Phase]
    BY <1>0, <2>1
  <2>3. events' \in Seq(Pods!Event)
    <3>1. \A type \in {"ADDED", "MODIFIED", "DELETED"} :
            [pod |-> p, phase |-> phase, type |-> type] \in Pods!Event
      BY DEF Pods!Event
    <3> QED
      BY <1>0, <2>1, <3>1, AppendProperties
  <2>4. changes' \in 0 .. MaxChange
    BY <1>0, <1>1, SourcesAssumption DEF Pods!Change
  <2>5. UNCHANGED <<breaks, podsDone, watcher, open, active, streamer>>
    BY <1>1 DEF Pods!Change
  <2>6. Pods!TypeOK'
    BY <1>0, <2>2, <2>3, <2>4, <2>5 DEF Pods!TypeOK
  <2> QED
    BY <2>5, <2>6, RegisterKept
<1>2. CASE Pods!Break
  <2>1. PICK n \in 0 .. Len(events) : events' = SubSeq(events, 1, n)
    BY <1>2 DEF Pods!Break
  <2>2. events' \in Seq(Pods!Event)
    <3>1. n \in Int /\ \A i \in 1 .. n : events[i] \in Pods!Event
      BY <1>0, LenProperties, ElementOfSeq
    <3> QED
      BY <2>1, <3>1, SubSeqProperties
  <2>3. open' \in BOOLEAN
    BY <1>2, Zenon DEF Pods!Break
  <2>4. breaks' \in 0 .. MaxBreak /\ UNCHANGED <<pods, changes, podsDone, watcher, active, streamer>>
    BY <1>0, <1>2, SourcesAssumption DEF Pods!Break
  <2>5. Pods!TypeOK'
    BY <1>0, <2>2, <2>3, <2>4 DEF Pods!TypeOK
  <2> QED
    BY <2>4, <2>5, RegisterKept
<1>3. CASE Pods!Cancel
  <2>1. podsDone' \in BOOLEAN
    BY <1>3, Zenon DEF Pods!Cancel
  <2>2. Pods!TypeOK' /\ UNCHANGED <<active, streamer>>
    BY <1>0, <1>3, <2>1 DEF Pods!Cancel, Pods!TypeOK
  <2> QED
    BY <2>2, RegisterKept
<1> QED
  BY <1>1, <1>2, <1>3

\* Everybody who is registered is told to stop, so whoever is not told is not live.
LEMMA StopAllKeeps ==
    ASSUME Registered, Pods!StopAll,
           UNCHANGED <<pods, changes, podsDone, open, events, breaks>>,
           watcher' \in {"select", "returned"}
    PROVE  Registered'
<1>1. /\ active \in [Pod -> Pods!Stream \cup {0}] /\ streamer \in [Pods!Stream -> Pods!Streamer]
      /\ Pods!TypeOK
  BY DEF Registered, Pods!TypeOK
<1>2. active' \in [Pod -> Pods!Stream \cup {0}]
  BY DEF Pods!StopAll
<1>3. \A s \in Pods!Stream :
        /\ streamer'[s] = [streamer[s] EXCEPT !.cancelled = TRUE] \/ streamer'[s] = streamer[s]
        /\ (\E p \in Pod : active[p] = s) => streamer'[s].cancelled
  BY <1>1 DEF Pods!StopAll, Pods!Streamer
<1>4. \A s \in Pods!Stream :
        /\ streamer'[s] \in Pods!Streamer
        /\ streamer'[s].pod = streamer[s].pod /\ streamer'[s].at = streamer[s].at
        /\ streamer[s].cancelled => streamer'[s].cancelled
  <2> SUFFICES ASSUME NEW s \in Pods!Stream
               PROVE  /\ streamer'[s] \in Pods!Streamer
                      /\ streamer'[s].pod = streamer[s].pod /\ streamer'[s].at = streamer[s].at
                      /\ streamer[s].cancelled => streamer'[s].cancelled
    OBVIOUS
  <2>1. TRUE \in BOOLEAN
    OBVIOUS
  <2> QED
    BY <1>1, <1>3, <2>1 DEF Pods!Streamer
<1>5. streamer' \in [Pods!Stream -> Pods!Streamer]
  BY <1>4 DEF Pods!StopAll
<1>6. Pods!TypeOK'
  BY <1>1, <1>2, <1>5 DEF Pods!TypeOK
<1>7. \A s \in Pods!Stream : Pods!Live(s)' => Pods!Live(s) /\ streamer'[s].cancelled
  BY <1>3, <1>4 DEF Registered, Pods!Live, Pods!NoOrphanStream
<1> QED
  BY <1>4, <1>6, <1>7 DEF Registered, Pods!NoOrphanStream

LEMMA ConsumeKeeps == ASSUME Registered, Pods!Consume PROVE Registered'
<1> DEFINE e == Head(events)
<1>1. /\ active \in [Pod -> Pods!Stream \cup {0}] /\ streamer \in [Pods!Stream -> Pods!Streamer]
      /\ Pods!TypeOK /\ events \in Seq(Pods!Event) /\ events # <<>> /\ events' = Tail(events)
      /\ UNCHANGED <<pods, changes, podsDone, watcher, open, breaks>>
  BY DEF Registered, Pods!TypeOK, Pods!Consume, Pods!podVars
<1>2. e.pod \in Pod /\ events' \in Seq(Pods!Event)
  BY <1>1, HeadTailProperties DEF Pods!Event
<1>3. CASE Pods!WantsStream(e) /\ Pods!Attach(e.pod)
  <2> DEFINE p == e.pod
  <2>1. PICK s \in Pods!Free :
          /\ active' = [active EXCEPT ![p] = s]
          /\ streamer' = [streamer EXCEPT ![s] = [pod |-> p, at |-> "opening", cancelled |-> FALSE]]
    BY <1>3 DEF Pods!Attach
  <2>2. s \in Pods!Stream /\ active[p] = 0 /\ 0 \notin Pods!Stream
    BY <1>3 DEF Pods!Free, Pods!WantsStream, Pods!Stream
  <2>3. p \in Pod
    BY <1>2
  <2> HIDE DEF p, e
  <2>4. [pod |-> p, at |-> "opening", cancelled |-> FALSE] \in Pods!Streamer
    <3>1. FALSE \in BOOLEAN
      OBVIOUS
    <3> QED
      BY <2>3, <3>1 DEF Pods!Streamer
  <2>5. Pods!TypeOK'
    BY <1>1, <1>2, <2>1, <2>2, <2>3, <2>4 DEF Pods!TypeOK
  <2>6. \A r \in Pods!Stream \ {s} : streamer'[r] = streamer[r]
    BY <1>1, <2>1
  <2>7. streamer'[s].pod = p /\ active'[p] = s
    BY <1>1, <2>1, <2>2, <2>3
  <2>8. \A q \in Pod \ {p} : active'[q] = active[q]
    BY <1>1, <2>1
  <2>9. ASSUME NEW r \in Pods!Stream, Pods!Live(r)'
        PROVE  streamer'[r].pod \in Pod
    BY <2>3, <2>6, <2>7, <2>9 DEF Registered, Pods!Live
  <2>10. ASSUME NEW r \in Pods!Stream, Pods!Live(r)', ~streamer'[r].cancelled
         PROVE  active'[streamer'[r].pod] = r
    <3>1. CASE r = s
      BY <2>7, <3>1
    <3>2. CASE r # s
      <4>1. streamer'[r] = streamer[r] /\ streamer[r].pod \in Pod /\ active[streamer[r].pod] = r
        BY <2>6, <2>10, <3>2 DEF Registered, Pods!Live, Pods!NoOrphanStream
      <4> QED
        BY <2>2, <2>8, <4>1
    <3> QED
      BY <3>1, <3>2
  <2> QED
    BY <2>5, <2>9, <2>10 DEF Registered, Pods!NoOrphanStream
<1>4. CASE Pods!LosesStream(e) /\ Pods!Detach(e.pod)
  <2> DEFINE p == e.pod
             s == active[p]
  <2>1. /\ active' = [active EXCEPT ![p] = 0] /\ streamer' = [streamer EXCEPT ![s].cancelled = TRUE]
        /\ s # 0
    BY <1>4 DEF Pods!Detach, Pods!LosesStream
  <2>2. p \in Pod /\ s \in Pods!Stream
    BY <1>1, <1>2, <2>1
  <2>3. s = active[p]
    OBVIOUS
  <2> HIDE DEF p, e, s
  <2>4. /\ \A r \in Pods!Stream \ {s} : streamer'[r] = streamer[r]
        /\ streamer'[s] = [streamer[s] EXCEPT !.cancelled = TRUE]
    BY <1>1, <2>1, <2>2
  <2>5. streamer'[s].pod = streamer[s].pod /\ streamer'[s].at = streamer[s].at /\ streamer'[s].cancelled
    BY <1>1, <2>2, <2>4 DEF Pods!Streamer
  <2>6. streamer' \in [Pods!Stream -> Pods!Streamer]
    <3>1. TRUE \in BOOLEAN
      OBVIOUS
    <3> QED
      BY <1>1, <2>1, <2>2, <3>1 DEF Pods!Streamer
  <2>7. Pods!TypeOK'
    BY <1>1, <1>2, <2>1, <2>6 DEF Pods!TypeOK
  <2>8. \A q \in Pod \ {p} : active'[q] = active[q]
    BY <1>1, <2>1
  <2>9. ASSUME NEW r \in Pods!Stream, Pods!Live(r)'
        PROVE  Pods!Live(r) /\ streamer'[r].pod = streamer[r].pod /\ streamer[r].pod \in Pod
    BY <2>4, <2>5, <2>9 DEF Registered, Pods!Live
  <2>10. ASSUME NEW r \in Pods!Stream, Pods!Live(r)', ~streamer'[r].cancelled
         PROVE  active'[streamer'[r].pod] = r
    <3>1. r # s /\ streamer'[r] = streamer[r]
      BY <2>4, <2>5, <2>10
    <3>2. active[streamer[r].pod] = r /\ streamer[r].pod \in Pod
      BY <2>9, <2>10, <3>1 DEF Registered, Pods!NoOrphanStream
    <3> QED
      BY <2>3, <2>8, <3>1, <3>2
  <2> QED
    BY <2>7, <2>9, <2>10 DEF Registered, Pods!NoOrphanStream
<1>5. CASE UNCHANGED <<active, streamer>>
  BY <1>1, <1>2, <1>5, RegisterKept DEF Pods!TypeOK
<1> QED
  BY <1>3, <1>4, <1>5 DEF Pods!Consume, Pods!streamVars

LEMMA StreamerKeeps ==
    ASSUME Registered, NEW s \in Pods!Stream, Pods!StreamerStep(s) PROVE Registered'
<1>1. PICK at \in {"tailing", "ended"} : streamer' = [streamer EXCEPT ![s].at = at]
  BY DEF Pods!StreamerStep
<1>2. /\ streamer[s].at \in {"opening", "tailing"} /\ Pods!TypeOK
      /\ streamer \in [Pods!Stream -> Pods!Streamer]
      /\ UNCHANGED <<pods, changes, podsDone, watcher, open, events, breaks, active>>
  BY DEF Pods!StreamerStep, Registered, Pods!TypeOK, Pods!podVars, Pods!watchVars
<1>3. /\ \A r \in Pods!Stream \ {s} : streamer'[r] = streamer[r]
      /\ streamer'[s] = [streamer[s] EXCEPT !.at = at]
  BY <1>1, <1>2
<1>4. streamer'[s] \in Pods!Streamer /\ streamer'[s].pod = streamer[s].pod
      /\ streamer'[s].cancelled = streamer[s].cancelled
  BY <1>2, <1>3 DEF Pods!Streamer
<1>5. Pods!TypeOK'
  <2>1. streamer' \in [Pods!Stream -> Pods!Streamer]
    BY <1>1, <1>2, <1>3, <1>4
  <2> QED
    BY <1>2, <2>1 DEF Pods!TypeOK
<1>6. \A r \in Pods!Stream : Pods!Live(r)' => Pods!Live(r)
  BY <1>2, <1>3 DEF Pods!Live
<1>7. \A r \in Pods!Stream :
        streamer'[r].pod = streamer[r].pod /\ streamer'[r].cancelled = streamer[r].cancelled
  BY <1>3, <1>4
<1> QED
  BY <1>2, <1>5, <1>6, <1>7 DEF Registered, Pods!NoOrphanStream

LEMMA WatchKeeps ==
    ASSUME Registered, Pods!Watch \/ Pods!WatchFails \/ Pods!Backoff PROVE Registered'
<1> USE DEF Pods!podVars, Pods!streamVars
<1>0. Pods!TypeOK
  BY DEF Registered
<1>1. CASE Pods!Watch
  <2> DEFINE n == Pods!Cardinality(Pods!Present)
  <2>1. PICK order \in [1 .. n -> Pods!Present] : events' = Pods!Listed(order)
    BY <1>1 DEF Pods!Watch
  <2>2. n \in Nat
    <3>1. n = Cardinality(Pods!Present)
      BY DEF Pods!Cardinality, Cardinality
    <3> QED
      BY <3>1, SourcesAssumption, FS_Subset, FS_CardinalityType DEF Pods!Present
  <2>3. \A p \in Pods!Present : p \in Pod /\ pods[p] \in Pods!Phase
    BY <1>0 DEF Pods!TypeOK, Pods!Present
  <2> HIDE DEF n
  <2>4. \A i \in 1 .. n : [type |-> "ADDED", pod |-> order[i], phase |-> pods[order[i]]] \in Pods!Event
    BY <2>3 DEF Pods!Event
  <2>5. events' \in [1 .. n -> Pods!Event]
    BY <2>1, <2>4 DEF Pods!Listed
  <2>6. events' \in Seq(Pods!Event)
    BY <2>2, <2>5
  <2>7. open' \in BOOLEAN
    BY <1>1, Zenon DEF Pods!Watch
  <2>8. UNCHANGED <<pods, changes, podsDone, breaks, active, streamer>> /\ watcher' = "consuming"
    BY <1>1 DEF Pods!Watch
  <2> QED
    BY <1>0, <2>6, <2>7, <2>8, RegisterKept DEF Pods!TypeOK
<1>2. CASE Pods!WatchFails \/ Pods!Backoff
  BY <1>0, <1>2, RegisterKept DEF Pods!WatchFails, Pods!Backoff, Pods!TypeOK
<1> QED
  BY <1>1, <1>2

LEMMA PodsStep == Registered /\ [Pods!Next]_podVars => Registered'
<1> SUFFICES ASSUME Registered, [Pods!Next]_podVars PROVE Registered'
  OBVIOUS
<1>1. CASE Pods!Return \/ Pods!Reconnect
  BY <1>1, StopAllKeeps DEF Pods!Return, Pods!Reconnect, Pods!podVars
<1>2. CASE Pods!Watch \/ Pods!WatchFails \/ Pods!Backoff \/ Pods!Consume
  BY <1>2, WatchKeeps, ConsumeKeeps
<1>3. CASE Pods!Break \/ Pods!Cancel \/ \E p \in Pod : Pods!Change(p)
  BY <1>3, OutsideKeeps
<1>4. CASE \E s \in Pods!Stream : Pods!StreamerStep(s)
  BY <1>4, StreamerKeeps
<1>5. CASE UNCHANGED podVars
  BY <1>5, RegisterKept DEF podVars, Registered, Pods!TypeOK
<1> QED
  BY <1>1, <1>2, <1>3, <1>4, <1>5 DEF Pods!Next, Pods!Watcher

-----------------------------------------------------------------------------
\* What is inductive of an engine's remote sources together.
IInv == Drained /\ Seen /\ Registered

LEMMA Initially == SourcesInit => IInv
BY RedisInit, MapInit, PodsInit DEF SourcesInit, IInv

LEMMA Parts ==
    [SourcesNext]_allVars => [Next]_vars /\ [ConfigMap!Next]_mapVars /\ [Pods!Next]_podVars
BY DEF SourcesNext, allVars

LEMMA Inductive == IInv /\ [SourcesNext]_allVars => IInv'
BY Parts, RedisStep, MapStep, PodsStep DEF IInv

\* The inductive invariant of the sources.
THEOREM Invariance == SourcesSpec => []IInv
BY Initially, Inductive, PTL DEF SourcesSpec

\* Types, for any numbers of messages, versions, outages and pods.
THEOREM TypeCorrect == SourcesSpec => []SourcesTypeOK
<1>1. IInv => SourcesTypeOK
  BY DEF IInv, SourcesTypeOK, Drained, Seen, Registered
<1> QED
  BY Invariance, <1>1, PTL

\* main waits for every acknowledgement that was launched before it closes the client.
THEOREM GraceGiven == SourcesSpec => GraceRespected
<1>1. IInv /\ [SourcesNext]_allVars
        => [main = "draining" /\ main' = "waited" => Publishing = {}]_vars
  BY Parts, WaitedFor DEF IInv
<1> QED
  BY Invariance, <1>1, PTL DEF SourcesSpec, GraceRespected

\* A version of the ConfigMap is applied once at most, and in order.
THEOREM VersionsInOrder == SourcesSpec => AppliedOnceInOrder
<1>1. IInv /\ [SourcesNext]_allVars
        => [mapEngine' \notin {mapEngine, 0} => \A v \in past : v < mapEngine']_ConfigMap!vars
  BY Parts, MapOrder DEF IInv, mapVars, ConfigMap!vars, ConfigMap!sensorVars
<1> QED
  BY Invariance, <1>1, PTL DEF SourcesSpec, AppliedOnceInOrder, ConfigMap!AppliedOnceInOrder

\* No pod is tailed twice, and none by a streamer that nobody can detach.
THEOREM NobodyOrphaned == SourcesSpec => []NoOrphanStream
<1>1. IInv => NoOrphanStream
  BY DEF IInv, Registered, NoOrphanStream
<1> QED
  BY Invariance, <1>1, PTL
=============================================================================
