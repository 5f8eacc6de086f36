------------------------------ MODULE Pastaayctl ------------------------------
(***************************************************************************)
(* One command of pastaayctl, from its start to its exit, the webhook of   *)
(* the engine it attacks, and the network between them: a POST may be      *)
(* refused, lost, or applied after the client has given up on it.          *)
(*                                                                         *)
(* A document is a YAML or JSON text: size says whether it is within the   *)
(* webhook's 1 MiB, within the 5 MiB of LoadConfig, or beyond; head is how *)
(* many of its policies the first MiB holds.                               *)
(***************************************************************************)
EXTENDS Guard

CONSTANTS
    Nodes,     \* policies as they are written
    Files,     \* what the YAML argument of inject and run may name
    Drafts,    \* what that of lint, plan and validate may name
    Strikes,   \* flags of strike
    Step,      \* --step and --limit of autopilot, in percent
    Limit,
    Threshold, \* --threshold of run
    MaxProbes, \* bound: probes of one run
    Baseline   \* the configuration the engine runs at first

VARIABLES
    file,    \* the YAML file; its size is "none" when it does not exist
    gate,    \* what the webhook's gate says of our token: "open", "401" or "503"
    ctl,     \* the process
    tally,   \* its probes
    wire,    \* POSTs on their way
    engine,  \* the configuration the engine runs
    history, \* ~/.pastaay_history.json
    trouble, \* history: some POST was refused, lost, or given up
    survived \* history: chances at which a good probe met an engine that ran them

ctlVars == <<file, gate, ctl, tally, wire, engine, history, trouble, survived>>

Conf(protected, policies) == [version |-> 1, warmup |-> 0, protected |-> protected, policies |-> policies]
Doc(format, conf) ==
    [format |-> format, size |-> "small", alias |-> FALSE, head |-> Len(conf.policies), conf |-> conf]
Written == [format : {"yaml", "json"}, size : {"none", "small", "large", "huge"}, alias : BOOLEAN,
            head : Nat, conf : [version : Int, warmup : Int, protected : BOOLEAN, policies : Seq(Nodes)]]

\* A scalar that YAML takes for a number or a duration is one.
ASSUME CtlAssumption ==
    /\ \A node \in Nodes : \A key \in DOMAIN node :
        node[key].kind \in {"number", "duration"} => node[key].value \in Int
    /\ Files \subseteq Written /\ Drafts \subseteq Written
    /\ Step \in Nat /\ Limit \in Nat /\ Threshold \in Nat \ {0} /\ MaxProbes \in Nat

NoDoc == [Doc("yaml", Conf(FALSE, <<>>)) EXCEPT !.size = "none"]

\* The payload of halt.
Reset == Doc("json", Conf(FALSE, <<>>))

\* The payload of strike: a latency, an error or a drop, as flagged.
Node(kind, value) == [kind |-> kind, value |-> value]
Strike(flags) ==
    LET flagged == [type             |-> Node("string", flags.type),
                    target           |-> Node("string", flags.target),
                    latency_duration |-> Node("duration", flags.latency),
                    latency_chance   |-> Node("number", flags.latencyChance),
                    error_code       |-> Node("number", flags.code),
                    error_chance     |-> Node("number", flags.errorChance),
                    drop_connection  |-> Node("bool", TRUE)]
        keys == {"type", "target"}
                \cup (IF flags.latency > 0 THEN {"latency_duration", "latency_chance"} ELSE {})
                \cup (IF flags.code > 0 THEN {"error_code", "error_chance"} ELSE {})
                \cup (IF flags.drop THEN {"drop_connection", "error_chance"} ELSE {})
    IN  Doc("json", Conf(FALSE, <<[key \in keys |-> flagged[key]]>>))

\* The payload of one cycle of autopilot.
Ramp(protocol, chance) ==
    Strike([type |-> protocol, target |-> "all", latency |-> 0, latencyChance |-> 0,
            code |-> 503, errorChance |-> chance, drop |-> FALSE])

\* What the process may have posted, or be about to.
Payload == {NoDoc, Reset} \cup Files \cup {Strike(flags) : flags \in Strikes}
              \cup {Ramp(protocol, chance) : protocol \in {"http", "grpc"}, chance \in 5 .. Limit}

-----------------------------------------------------------------------------
\* LoadConfig, of the commands that look at the file themselves.
Loads(doc) ==
    /\ doc.size \in {"small", "large"} /\ ~doc.alias
    /\ \A i \in DOMAIN doc.conf.policies : WellFormed(doc.conf.policies[i])
    /\ Valid(Decoded(doc.conf))

\* The webhook reads the first MiB.
Received(doc) ==
    IF doc.size = "small" THEN doc.conf ELSE [doc.conf EXCEPT !.policies = SubSeq(@, 1, doc.head)]

\* WebhookHandler: the gate, the text, its decoding, its validation.
Response(doc) ==
    LET conf == Received(doc)
        cut == doc.size # "small" /\ doc.format = "json"
        decodes == \A i \in DOMAIN conf.policies : WellFormed(conf.policies[i])
    IN  IF gate # "open" THEN gate
        ELSE IF doc.alias \/ cut \/ ~decodes THEN "400"
        ELSE IF ~Valid(Decoded(conf)) THEN "422"
        ELSE "200"

Command == {"halt", "strike", "inject", "run", "autopilot", "lint", "plan", "validate"}

\* pc says what the process does next; then, what follows the POST of doc.
Process == [cmd : Command, protocol : {"http", "grpc"}, ttl : BOOLEAN, chance : Nat, interrupted : BOOLEAN,
            pc : {"start", "post", "await", "ttl", "first", "loop", "probe", "cycle", "settle",
                  "exit0", "exit1", "killed"},
            then : {"ttl", "loop", "settle", "exit0", "exit1"}, doc : Payload,
            grade : {"none", "A+", "B", "C", "F"}]

CtlInit ==
    /\ \E cmd \in Command, protocol \in {"http", "grpc"} :
        /\ cmd = "autopilot" \/ protocol = "http"
        /\ ctl = [cmd |-> cmd, protocol |-> protocol, ttl |-> FALSE, chance |-> 5, interrupted |-> FALSE,
                  pc |-> "start", then |-> "exit0", doc |-> NoDoc, grade |-> "none"]
    /\ file \in IF ctl.cmd \in {"inject", "run"} THEN Files
                ELSE IF ctl.cmd \in {"lint", "plan", "validate"} THEN Drafts ELSE {NoDoc}
    /\ gate \in {"open", "401", "503"} /\ engine = Baseline /\ wire = {}
    /\ tally = [probes |-> 0, errors |-> 0, slow |-> 0, failures |-> 0]
    /\ history \in [readable : BOOLEAN, entries : {<<>>}, backup : {FALSE}]
    /\ trouble = FALSE /\ survived = {}

-----------------------------------------------------------------------------
\* A step of the process that touches nothing else.
Becomes(new) == ctl' = new /\ UNCHANGED <<file, gate, tally, wire, engine, history, trouble, survived>>

To(pc) == [ctl EXCEPT !.pc = pc]
At(pc) == ctl.pc = pc
Posting(doc, then) == [ctl EXCEPT !.pc = "post", !.doc = doc, !.then = then]
Halting(then) == Posting(Reset, then)

\* printResilienceScore: the grade of errors and slow answers among the probes.
Grade ==
    LET Lost(percent) == 100 * (3 * tally.errors + tally.slow) > percent * 2 * tally.probes
    IN  IF tally.probes = 0 THEN "none"
        ELSE IF Lost(50) THEN "F" ELSE IF Lost(25) THEN "C" ELSE IF Lost(10) THEN "B" ELSE "A+"
Graded(p) == [p EXCEPT !.grade = Grade]

StartHalt == At("start") /\ ctl.cmd = "halt" /\ Becomes(Halting("exit0"))

\* strike, with or without a --ttl.
StartStrike ==
    /\ At("start") /\ ctl.cmd = "strike"
    /\ \E flags \in Strikes, ttl \in BOOLEAN :
        Becomes([Posting(Strike(flags), IF ttl THEN "ttl" ELSE "exit0") EXCEPT !.ttl = ttl])

\* inject posts the file as it is.
StartInject ==
    /\ At("start") /\ ctl.cmd = "inject"
    /\ Becomes(IF file.size = "none" THEN To("exit0") ELSE Posting(file, "exit0"))

\* lint, plan and validate look at the file, and post nothing.
StartGuard ==
    /\ At("start") /\ ctl.cmd \in {"lint", "plan", "validate"}
    /\ Becomes(To(IF ~Loads(file) \/ (ctl.cmd = "lint" /\ Issues(Decoded(file.conf)) # {})
                  THEN "exit1" ELSE "exit0"))

\* run and autopilot give up when they know no health URL.
StartExperiment ==
    /\ At("start") /\ ctl.cmd \in {"run", "autopilot"}
    /\ \E known \in BOOLEAN :
        Becomes(To(IF ~known THEN "exit1" ELSE IF ctl.cmd = "run" THEN "first" ELSE "cycle"))

\* dispatch has sent a command without --ttl on its way.
Send ==
    /\ At("post")
    /\ \/ /\ wire' = wire \cup {ctl.doc} /\ ctl' = To("await")
          /\ UNCHANGED <<file, gate, tally, engine, history, trouble, survived>>
       \/ /\ ctl' = To(ctl.then) /\ trouble' = TRUE \* the connection is refused
          /\ UNCHANGED <<file, gate, tally, wire, engine, history, survived>>

\* The engine handles a POST.  The client goes on, unless it has given it up or
\* the answer is lost.
Serve ==
    \E doc \in wire, answered \in BOOLEAN :
        /\ wire' = wire \ {doc}
        /\ engine' = IF Response(doc) = "200" THEN Decoded(Received(doc)) ELSE engine
        /\ answered => At("await") /\ ctl.doc = doc
        /\ ctl' = IF answered THEN To(ctl.then) ELSE ctl
        /\ UNCHANGED <<file, gate, tally, history, trouble, survived>>

Lose ==
    /\ \E doc \in wire : wire' = wire \ {doc}
    /\ trouble' = TRUE /\ UNCHANGED <<file, gate, ctl, tally, engine, history, survived>>

\* Mutant: the request has no deadline.
TimeoutNever == At("await") /\ FALSE /\ UNCHANGED ctlVars

\* Five seconds without an answer.
Timeout ==
    /\ At("await") /\ ctl' = To(ctl.then) /\ trouble' = TRUE
    /\ UNCHANGED <<file, gate, tally, wire, engine, history, survived>>

\* The TTL is over, or the operator aborts.
TtlOver == At("ttl") /\ Becomes(Halting("exit0"))

\* SIGINT and SIGTERM reach a context of the command's own; those that arrive
\* before it exists are swallowed by the one of Execute.
Interrupt ==
    /\ ~ctl.interrupted /\ ctl.pc \notin {"exit0", "exit1", "killed", "start"}
    /\ ctl.cmd \in {"run", "autopilot"}
    /\ Becomes([ctl EXCEPT !.interrupted = TRUE])

\* SIGHUP, SIGKILL or a crash.
Killed == ctl.pc \notin {"exit0", "exit1", "killed"} /\ Becomes(To("killed"))

-----------------------------------------------------------------------------
\* What a probe finds; once interrupted, its context is done.
Outcome == IF ctl.interrupted THEN {"error"} ELSE {"ok", "slow", "error"}
Bad(outcome) == outcome # "ok"

\* The system must be healthy before a run; if it is not, or there is no file,
\* nothing is injected.
FirstProbe ==
    /\ At("first")
    /\ \E outcome \in Outcome :
        Becomes(IF outcome = "error" THEN To("exit0")
                ELSE IF file.size = "none" THEN Halting("exit0")
                ELSE Posting(file, "loop"))

\* The ticker of run, bounded.
Tick == At("loop") /\ tally.probes < MaxProbes /\ Becomes(To("probe"))

\* The experiment is over, or the operator aborts it: the deferred halt.
Expire == At("loop") /\ Becomes(Graded(Halting("exit0")))

\* Mutant: a bad probe counts twice.
CountedTwice(outcome) ==
    [tally EXCEPT !.probes = IF Bad(outcome) THEN @ + 2 ELSE @ + 1,
                  !.errors = IF outcome = "error" THEN @ + 1 ELSE @,
                  !.slow = IF outcome = "slow" THEN @ + 1 ELSE @,
                  !.failures = IF Bad(outcome) THEN @ + 1 ELSE 0]

Counted(outcome) ==
    [tally EXCEPT !.probes = @ + 1,
                  !.errors = IF outcome = "error" THEN @ + 1 ELSE @,
                  !.slow = IF outcome = "slow" THEN @ + 1 ELSE @,
                  !.failures = IF Bad(outcome) THEN @ + 1 ELSE 0]

\* Mutant: os.Exit, which skips the deferred halt, without a halt of its own.
RunProbeExits ==
    /\ At("probe") /\ ctl.cmd = "run"
    /\ \E outcome \in Outcome :
        /\ tally' = Counted(outcome)
        /\ ctl' = IF tally'.failures >= Threshold THEN To("exit1") ELSE To("loop")
    /\ UNCHANGED <<file, gate, wire, engine, history, trouble, survived>>

\* A run ends at the threshold of failures in a row.
RunProbe ==
    /\ At("probe") /\ ctl.cmd = "run"
    /\ \E outcome \in Outcome :
        /\ tally' = Counted(outcome)
        /\ ctl' = IF tally'.failures >= Threshold
                  THEN [Halting("exit1") EXCEPT !.grade = Grade'] ELSE To("loop")
    /\ UNCHANGED <<file, gate, wire, engine, history, trouble, survived>>

-----------------------------------------------------------------------------
\* recordStrike: an unreadable file is backed up and begun anew.
Recorded(result) ==
    IF history.readable THEN [history EXCEPT !.entries = Append(@, result)]
    ELSE [readable |-> TRUE, entries |-> <<result>>, backup |-> TRUE]

\* One cycle of autopilot, or its end.
Cycle ==
    /\ At("cycle") /\ ctl.chance <= Limit
    /\ Becomes(Posting(Ramp(ctl.protocol, ctl.chance), "settle"))

Succeed ==
    /\ At("cycle") /\ ctl.chance > Limit
    /\ ctl' = Graded(Halting("exit0")) /\ history' = Recorded("SUCCESS")
    /\ UNCHANGED <<file, gate, tally, wire, engine, trouble, survived>>

\* The settle time is over, or the operator aborts.
Settled == At("settle") /\ Becomes(To("probe"))
AbortSettle == At("settle") /\ ctl.interrupted /\ Becomes(Graded(Halting("exit0")))

\* Mutant: a slow answer is no breach.
RampProbeSlowly ==
    /\ At("probe") /\ ctl.cmd = "autopilot"
    /\ \E outcome \in Outcome :
        /\ tally' = Counted(outcome)
        /\ IF outcome = "error"
           THEN /\ ctl' = [Halting("exit1") EXCEPT !.grade = Grade']
                /\ history' = Recorded("FAILED") /\ UNCHANGED survived
           ELSE /\ ctl' = [To("cycle") EXCEPT !.chance = @ + Step]
                /\ survived' = IF outcome = "ok" THEN survived \cup {ctl.chance} ELSE survived
                /\ UNCHANGED history
    /\ UNCHANGED <<file, gate, wire, engine, trouble>>

\* A bad probe ends the ramp, a good one raises the chance.
RampProbe ==
    /\ At("probe") /\ ctl.cmd = "autopilot"
    /\ \E outcome \in Outcome :
        /\ tally' = Counted(outcome)
        /\ IF Bad(outcome)
           THEN /\ ctl' = [Halting("exit1") EXCEPT !.grade = Grade']
                /\ history' = Recorded("FAILED") /\ UNCHANGED survived
           ELSE /\ ctl' = [To("cycle") EXCEPT !.chance = @ + Step]
                /\ survived' = IF engine = Decoded(Ramp(ctl.protocol, ctl.chance).conf)
                               THEN survived \cup {ctl.chance} ELSE survived
                /\ UNCHANGED history
    /\ UNCHANGED <<file, gate, wire, engine, trouble>>

-----------------------------------------------------------------------------
Work ==
    \/ StartHalt \/ StartStrike \/ StartInject \/ StartGuard \/ StartExperiment
    \/ Send \/ Timeout \/ TtlOver \/ FirstProbe \/ Tick \/ RunProbe
    \/ Cycle \/ Succeed \/ Settled \/ AbortSettle \/ RampProbe

CtlNext == Work \/ Expire \/ Serve \/ Lose \/ Interrupt \/ Killed

\* The process runs on, its requests and its probes have deadlines, and a select
\* with several ready cases takes each of them in the end.  Nothing is assumed
\* of the network or of the operator.
CtlSpec == CtlInit /\ [][CtlNext]_ctlVars /\ WF_ctlVars(Work) /\ SF_ctlVars(Expire)

-----------------------------------------------------------------------------
\* Every variable has its type.
CtlTypeOK ==
    /\ gate \in {"open", "401", "503"} /\ ctl \in Process /\ wire \subseteq Payload
    /\ file \in Written
    /\ tally \in [probes : Nat, errors : Nat, slow : Nat, failures : 0 .. Threshold]
    /\ tally.errors + tally.slow <= tally.probes /\ (ctl.cmd = "run" => tally.probes <= MaxProbes)
    /\ history \in [readable : BOOLEAN, entries : Seq({"SUCCESS", "FAILED"}), backup : BOOLEAN]

Ended == ctl.pc \in {"exit0", "exit1"}

\* The commands that leave the engine at peace.
Halts == ctl.cmd \in {"halt", "run", "autopilot"} \/ ctl.ttl

\* Whichever way such a command ends by itself (time is up, the operator aborts,
\* the service degrades, a file is missing), the engine runs nothing of it,
\* provided the network delivered what it was given.
QuietAfterExit ==
    Ended /\ Halts /\ ~trouble /\ gate = "open" => engine.policies = <<>> \/ engine = Baseline

\* Every command ends, whatever the network does, unless it is killed.  This is
\* about the process only: the engine may go on with the attack, after a halt
\* that was lost, a kill, or a command that does not halt (see Halts).
CommandEnds == <>(Ended \/ At("killed"))

\* Autopilot claims success only of chances at which the service answered in
\* time, with a grade to match, if the engine can run what it was sent.
Rung == {5 + k * Step : k \in 0 .. Limit}
Acceptable(chance) == Valid(Decoded(Ramp(ctl.protocol, chance).conf))
SuccessIsEarned ==
    "SUCCESS" \in {history.entries[i] : i \in DOMAIN history.entries} =>
        /\ ctl.grade \in {"none", "A+"}
        /\ ~trouble /\ gate = "open" =>
            \A chance \in Rung \cap (5 .. Limit) : Acceptable(chance) => chance \in survived

\* validate speaks for the engine: a file of at most 1 MiB passes it exactly
\* when the webhook accepts it, and, if its keys are well typed, when the
\* webhook accepts it with the keys in camelCase, as the same policies.
ValidateSpeaksForEngine ==
    LET nodes == file.conf.policies
        cameled == [i \in DOMAIN nodes |-> Cameled(nodes[i])]
        respelled == [file EXCEPT !.conf = [file.conf EXCEPT !.policies = cameled]]
    IN  Ended /\ ctl.cmd = "validate" /\ file.size = "small" /\ gate = "open" =>
            /\ At("exit0") <=> Response(file) = "200"
            /\ (\A i \in DOMAIN nodes : WellFormed(nodes[i])) =>
                    /\ At("exit0") <=> Response(respelled) = "200"
                    /\ At("exit0") => Decoded(respelled.conf) = Decoded(file.conf)

\* In a file that plan accepts, a policy more is never less of a risk.
PlanRiskGrows == At("exit0") /\ ctl.cmd = "plan" => RiskGrows(Decoded(file.conf))

\* "If a misconfigured pipeline or malicious actor blasts a 10GB payload, the
\* engine drops the connection" (docs/remote_control.md): nothing of a payload
\* over the cap runs.
OversizedIsRefused ==
    file.size = "large" => engine = Baseline \/ engine.policies # Decoded(Received(file)).policies
=============================================================================
