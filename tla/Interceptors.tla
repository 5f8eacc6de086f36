----------------------------- MODULE Interceptors -----------------------------
(***************************************************************************)
(* The interceptors of database and broker traffic: pkg/sqlchaos,          *)
(* pkg/redischaos, pkg/mongochaos and pkg/brokerchaos, with the telemetry  *)
(* bus they emit to.  One call is in flight, while the configuration may   *)
(* be replaced between any two of its steps.                               *)
(*                                                                         *)
(* Ways through the interceptors:                                          *)
(*   "plain"     SQL statement or transaction, Redis command, RunCommand   *)
(*   "query"     a query of database/sql, which falls back to a prepared   *)
(*               statement when the driver answers ErrSkip                 *)
(*   "pipeline"  a batch of Redis commands                                 *)
(*   "observed"  the MongoDB command monitor, which cannot stop a command  *)
(*   "message"   a Kafka or RabbitMQ message                               *)
(*   "connect"   a new SQL connection; "dial" one to Redis or MongoDB      *)
(***************************************************************************)
EXTENDS TelemetryBus, FiniteSets

CONSTANTS
    Command,  \* commands and topics
    Snapshots \* what Manager may publish for the protocol at hand

\* Chances are "no" (0), "may" (between) and "sure" (1); lasting says that
\* latency_duration is positive, global that the target is "all" or "database".
Chance == {"no", "may", "sure"}
Policy == [match : SUBSET Command, global : BOOLEAN, drop : BOOLEAN,
           latency : Chance, lasting : BOOLEAN, error : Chance]

ASSUME InterceptorAssumption ==
    /\ IsFiniteSet(Command) /\ Snapshots # {} /\ {"latency", "error"} \subseteq Entry
    /\ Snapshots \subseteq [ignored : SUBSET Command, policies : Seq(Policy)]

VARIABLES
    snap, \* what the atomic pointer publishes
    call  \* the call in flight

chaosVars == <<snap, call, vars>>

Ways == {"plain", "query", "pipeline", "observed", "message", "connect", "dial"}

\* What the wrapped driver can do: run a query at once, or answer ErrSkip to
\* it; prepare and run statements with a context.
Driver == [fast : {"absent", "skips", "runs"}, contextual : BOOLEAN]

\* A call: its way, its commands and its driver; where it is, and in which
\* stage of a query; the policies it loaded; the commands it has not asked
\* about yet and those found unprotected; what was rolled for it; and how it
\* ended, for which commands with an injected error, and what was executed.
\* struck holds the stages in which a fault was injected.
Call == [way : Ways, cmds : SUBSET Command, driver : Driver,
         pc : {"idle", "protect", "load", "consult", "delay", "weigh", "judge", "draw",
               "forward", "prepare", "done"},
         stage : {"first", "prepared"}, policies : Seq(Policy), next : Nat \ {0},
         todo : SUBSET Command, open : SUBSET Command, verdict : {"pass", "fault", "dropped"},
         result : {"none", "ok", "fault", "cancelled", "dropped", "errskip"},
         failed : SUBSET Command, executed : SUBSET Command, struck : SUBSET {"first", "prepared"}]

NoCall ==
    [way |-> "plain", cmds |-> {}, driver |-> [fast |-> "runs", contextual |-> TRUE],
     pc |-> "idle", stage |-> "first", policies |-> <<>>, next |-> 1,
     todo |-> {}, open |-> {}, verdict |-> "pass",
     result |-> "none", failed |-> {}, executed |-> {}, struck |-> {}]

ChaosInit == Init /\ snap \in Snapshots /\ call = NoCall

-----------------------------------------------------------------------------
\* Manager.Update, by anyone.
Reconfigure == snap' \in Snapshots \ {snap} /\ UNCHANGED <<call, vars>>

\* The call goes on as new, and nothing is logged.
Quietly(new) == call' = new /\ UNCHANGED <<snap, vars>>

\* The call goes on as new, and e is logged.
Logging(e, new) == call' = new /\ Emit(e) /\ UNCHANGED snap

At(pc) == call.pc = pc
To(pc) == [call EXCEPT !.pc = pc]
Ended(result) == [call EXCEPT !.pc = "done", !.result = result]

Begin ==
    /\ At("idle")
    /\ \E way \in Ways, cs \in SUBSET Command \ {{}}, d \in Driver :
        /\ Cardinality(cs) = 1 \/ way = "pipeline"
        /\ way = "query" \/ d = NoCall.driver
        /\ Quietly([NoCall EXCEPT !.way = way, !.cmds = cs, !.driver = d, !.todo = cs,
                !.pc = CASE way \in {"pipeline", "connect", "dial"} -> "load"
                         [] way = "query" /\ d.fast = "absent"      -> "prepare"
                         [] OTHER                                   -> "protect"])

\* IsCommandIgnored, on a snapshot of its own.
Protect ==
    /\ At("protect") /\ call.way # "pipeline"
    /\ Quietly(To(IF call.cmds \subseteq snap.ignored THEN "forward" ELSE "load"))

\* A pipeline asks for each of its commands, after it has loaded the policies.
ProtectEach ==
    /\ At("protect") /\ call.way = "pipeline"
    /\ \E c \in call.todo :
        Quietly([call EXCEPT
            !.todo = @ \ {c}, !.open = IF c \in snap.ignored THEN @ ELSE @ \cup {c},
            !.pc = IF call.todo = {c} THEN "weigh" ELSE "protect"])

\* GetActivePolicies.
Load ==
    /\ At("load")
    /\ Quietly([call EXCEPT !.policies = snap.policies, !.next = 1,
            !.pc = CASE call.way = "pipeline"              -> "protect"
                     [] call.way = "message"               -> "weigh"
                     [] call.way \in {"connect", "dial"}   -> "draw"
                     [] OTHER                              -> "consult"])

\* What rand.Float64() may say of a chance.
Hits(chance) == [no |-> {FALSE}, may |-> BOOLEAN, sure |-> {TRUE}][chance]

More == call.next <= Len(call.policies)
Current == call.policies[call.next]
Skip == [call EXCEPT !.next = @ + 1]
Struck == call.struck \cup {call.stage}

\* An injected error: the monitor only reports it, the others return it.
Fail ==
    IF call.way = "observed" THEN [To("forward") EXCEPT !.struck = Struck]
    ELSE [Ended("fault") EXCEPT !.failed = call.cmds, !.struck = Struck]

\* One policy: it is skipped, fails the call, delays it, or does neither.
Consult ==
    /\ At("consult") /\ More
    /\ IF call.cmds \cap Current.match = {} THEN Quietly(Skip) ELSE
       \E latencyHit \in Hits(Current.latency), errorHit \in Hits(Current.error) :
            \/ errorHit /\ Logging("error", Fail)
            \/ latencyHit /\ ~errorHit /\ Logging("latency", [To("delay") EXCEPT !.struck = Struck])
            \/ ~latencyHit /\ ~errorHit /\ Quietly(Skip)

Consulted == At("consult") /\ ~More /\ Quietly(To("forward"))

\* Mutant: the policy after the one that delayed the call is passed over.
WakeTooFar ==
    /\ At("delay")
    /\ Quietly(IF call.way \in {"pipeline", "message"} THEN To("judge")
               ELSE [To("consult") EXCEPT !.next = @ + 2])

\* The timer fires ...
Wake ==
    /\ At("delay")
    /\ Quietly(IF call.way \in {"pipeline", "message"} THEN To("judge")
               ELSE [To("consult") EXCEPT !.next = @ + 1])

\* ... or the context is done first.
Cancelled ==
    /\ At("delay")
    /\ Quietly(IF call.way = "observed" THEN To("forward") ELSE Ended("cancelled"))

-----------------------------------------------------------------------------
\* Pipelines and messages roll for all policies before they do anything.

\* The policies that may hit with latency (slow) and with errors (bad).
Rolls(slow, bad, among) ==
    /\ slow \cap bad = {}
    /\ \A i \in among : LET p == call.policies[i] IN
        /\ (i \in bad) \in Hits(p.error)
        /\ i \notin bad => (i \in slow) \in Hits(p.latency)

\* The longest of the latencies that hit is positive.
Lasts(slow) == \E i \in slow : call.policies[i].lasting

\* The longest latency delays the batch, any error aborts it.
WeighPipeline ==
    LET matching == {i \in DOMAIN call.policies : call.policies[i].match \cap call.open # {}} IN
    /\ At("weigh") /\ call.way = "pipeline"
    /\ \E slow, bad \in SUBSET matching :
        /\ Rolls(slow, bad, matching)
        /\ LET new == [call EXCEPT !.verdict = IF bad # {} THEN "fault" ELSE "pass"] IN
           IF Lasts(slow) THEN Logging("latency", [new EXCEPT !.pc = "delay", !.struck = Struck])
                        ELSE Quietly([new EXCEPT !.pc = "judge"])

\* The first error ends the rolls; its policy drops the message or fails it.
WeighMessage ==
    LET matching == {i \in DOMAIN call.policies : call.cmds \cap call.policies[i].match # {}} IN
    /\ At("weigh") /\ call.way = "message"
    /\ \E bad \in {{}} \cup {{i} : i \in matching}, slow \in SUBSET matching :
        LET rolled == {i \in matching : \A j \in bad : i <= j}
            drops == \E i \in bad : call.policies[i].drop
            new == [call EXCEPT !.verdict = CASE bad = {} -> "pass"
                                             [] drops    -> "dropped"
                                             [] OTHER    -> "fault"]
        IN
        /\ slow \subseteq rolled /\ Rolls(slow, bad, rolled)
        /\ IF Lasts(slow) THEN Logging("latency", [new EXCEPT !.pc = "delay", !.struck = Struck])
                        ELSE Quietly([new EXCEPT !.pc = "judge"])

\* Mutant: the batch is sent before its commands get the error.
AbortBatchAfterwards ==
    [Ended("fault") EXCEPT !.failed = call.open, !.struck = Struck, !.executed = call.cmds]

\* Mutant: the protected commands get the error too.
AbortWholeBatch == [Ended("fault") EXCEPT !.failed = call.cmds, !.struck = Struck]

\* A batch is aborted, and its commands get the error except the protected ones.
AbortBatch == [Ended("fault") EXCEPT !.failed = call.open, !.struck = Struck]

\* A message is dropped, or handed back with an error.
RejectMessage == [Ended(call.verdict) EXCEPT !.failed = call.cmds, !.struck = Struck]

\* Mutant: the error is not reported to the bus.
JudgeSilently ==
    /\ At("judge")
    /\ Quietly(CASE call.verdict = "pass" -> To("forward")
                 [] call.verdict # "pass" /\ call.way = "pipeline" -> AbortBatch
                 [] OTHER -> RejectMessage)

\* What was rolled takes effect after the delay.
Judge ==
    /\ At("judge")
    /\ IF call.verdict = "pass" THEN Quietly(To("forward"))
       ELSE Logging("error", IF call.way = "pipeline" THEN AbortBatch ELSE RejectMessage)

\* A policy without a chance is sure to drop new connections.
Drops == IF Current.error = "no" THEN {TRUE} ELSE Hits(Current.error)

\* One policy looked at for a new connection.
Draw ==
    /\ At("draw")
    /\ IF ~More THEN Quietly(Ended("ok"))
       ELSE IF ~(Current.drop /\ Current.global) THEN Quietly(Skip)
       ELSE \E hit \in Drops :
                \/ hit /\ call.way = "connect" /\ Logging("error", Ended("dropped"))
                \/ hit /\ call.way = "dial" /\ Quietly(Ended("dropped"))
                \/ ~hit /\ Quietly(Skip)

-----------------------------------------------------------------------------
\* The call reaches the driver, the server or the consumer.
Forward ==
    /\ At("forward")
    /\ Quietly(IF call.way = "query" /\ call.stage = "first" /\ call.driver.fast = "skips"
               THEN To("prepare") ELSE [Ended("ok") EXCEPT !.executed = call.cmds])

\* database/sql prepares the query with the context it was called with, and
\* runs the statement; a driver without contexts is answered ErrSkip for.
Prepare ==
    /\ At("prepare")
    /\ Quietly(IF call.driver.contextual THEN [To("protect") EXCEPT !.stage = "prepared"]
               ELSE Ended("errskip"))

Finish == At("done") /\ Quietly(NoCall)

Work ==
    \/ Protect \/ ProtectEach \/ Load \/ Consult \/ Consulted \/ Wake \/ Cancelled
    \/ WeighPipeline \/ WeighMessage \/ Judge \/ Draw \/ Forward \/ Prepare \/ Finish

ChaosNext == Begin \/ Work \/ Reconfigure

ChaosSpec == ChaosInit /\ [][ChaosNext]_chaosVars

-----------------------------------------------------------------------------
\* Every variable has its type.
CallTypeOK == snap \in Snapshots /\ call \in Call /\ call.next <= Len(call.policies) + 1

\* What chaos reported as failed has had no effect: neither the command nor
\* another one of its batch has reached the server, at any stage of the call.
FaultIsNotExecuted == call.result \in {"fault", "cancelled", "dropped"} => call.executed = {}

\* Commands every configuration protects.
Sheltered == {c \in Command : \A s \in Snapshots : c \in s.ignored}

\* They get no injected error, in a batch with others neither, and a call that
\* holds nothing else is not even delayed, whatever is reconfigured meanwhile.
ShelteredIsSpared ==
    /\ call.failed \cap Sheltered = {}
    /\ call.way \notin {"connect", "dial"} /\ call.cmds \subseteq Sheltered => call.struck = {}

\* The error returned, or the delay that goes on, is k entries before the last
\* that a reader of the bus sees.
OnRecord(k) ==
    /\ call.result \in {"fault", "dropped"} /\ call.way # "dial" =>
            size > k /\ Snapshot[size - k] = "error"
    /\ At("delay") => size > k /\ Snapshot[size - k] = "latency"

\* A fault is on record when it takes effect: it is the last entry, if there are
\* no other writers.
FaultIsOnRecord == OnRecord(0)

\* One query is decided upon once ("Pastaay avoids the Double-Chaos trap where
\* a single query triggers faults multiple times", docs/architecture.md).
NoDoubleChaos == call.way = "query" => Cardinality(call.struck) <= 1

\* Two statements the code does not keep, and no run checks (see README.md): a
\* sheltered command of a batch is executed, and an error that the monitor
\* reports has stopped the command.
ShelteredIsExecuted == call.pc = "done" => (call.cmds \cap Sheltered) \subseteq call.executed \/ call.result = "cancelled"
ObservedFaultAborts == call.way = "observed" /\ call.struck # {} => call.executed = {}
=============================================================================
