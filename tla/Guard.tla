-------------------------------- MODULE Guard --------------------------------
(***************************************************************************)
(* The guard (pkg/guard): the risk and the issues of a configuration.  The *)
(* code's fractions are integers here, exact when every chance is a        *)
(* multiple of 10 percent: severities in percent, weights in tenths, risks *)
(* in thousandths.  (TLC counts to 2^31: it can weigh two policies.)       *)
(***************************************************************************)
EXTENDS Schema, FiniteSetsExt

Harmless(p) ==
    /\ p.latency_chance = 0 /\ p.error_chance = 0 /\ ~p.drop_connection
    /\ p.ram_chunk_mb = 0 /\ p.throttle_threshold = 0

GlobalTarget(p) == Lower(p.target) \in {"all", "database", "*", ""}

\* An earlier policy of the list that has the same protocol and target.
Collides(ps, i) ==
    \E j \in 1 .. i - 1 : /\ ~Harmless(ps[j]) /\ Lower(ps[j].type) = Lower(ps[i].type)
                          /\ Lower(ps[j].target) = Lower(ps[i].target)

Scope(ps, i) ==
    Min({10, (IF GlobalTarget(ps[i]) THEN 10 ELSE 4) + (IF Collides(ps, i) THEN 2 ELSE 0)})

LatencyWeight(p) ==
    IF p.latency_duration >= 5 THEN 10 ELSE IF p.latency_duration >= 1 THEN 6 ELSE 3

RAMSeverity(mb) == IF mb >= 1024 THEN 90 ELSE IF mb >= 256 THEN 50 ELSE IF mb > 0 THEN 20 ELSE 0
CPUSeverity(n) == IF n >= 100000 THEN 80 ELSE IF n > 0 THEN 40 ELSE 0

\* "resource" as it is spelled: of a capitalised type neither counts.
Severity(p) ==
    Max({IF p.drop_connection THEN 100 ELSE 0, p.error_chance,
         (p.latency_chance * LatencyWeight(p)) \div 10}
        \cup (IF p.type = "resource" THEN {RAMSeverity(p.ram_chunk_mb), CPUSeverity(p.throttle_threshold)}
              ELSE {}))

Risk(ps, i) == IF Harmless(ps[i]) THEN 0 ELSE Min({950, Severity(ps[i]) * Scope(ps, i)})

\* What remains of the first by as many factors, one after the other.
Product(first, factors) ==
    LET part[n \in 0 .. Len(factors)] == IF n = 0 THEN first ELSE part[n - 1] * factors[n]
    IN  part[Len(factors)]

\* Mutant: a policy replaces the survival of those before it.
SurvivalOfLast(c) ==
    LET ps == c.policies IN
    Product(IF c.protected THEN 100 ELSE 85,
            [i \in DOMAIN ps |-> IF i = Len(ps) THEN 1000 - Risk(ps, i) ELSE 1000])

\* The chance that the system survives all of it, in 1 / (100 * Unit): 15 percent
\* off when the core guard is disabled.
Unit(ps) == Product(1, [i \in DOMAIN ps |-> 1000])
Survival(c) ==
    Product(IF c.protected THEN 100 ELSE 85, [i \in DOMAIN c.policies |-> 1000 - Risk(c.policies, i)])

\* TotalRisk, Score and Status; no policies are no risk.
TotalRisk(c) == IF c.policies = <<>> THEN 0 ELSE 100 * Unit(c.policies) - Survival(c)
Score(c) == TotalRisk(c) \div Unit(c.policies)
Status(c) == CASE Score(c) >= 75 -> "CRITICAL" [] Score(c) \in 50 .. 74 -> "HIGH"
               [] Score(c) \in 25 .. 49 -> "ELEVATED" [] OTHER -> "SAFE"

\* What the linter complains about, with the policy it is about.
Complaint(issue, ps, i) ==
    LET p == ps[i] IN
    \/ issue = "global" /\ GlobalTarget(p)
    \/ issue = "collision" /\ Collides(ps, i)
    \/ issue = "drop" /\ p.drop_connection
    \/ issue = "timeout" /\ p.latency_chance > 0 /\ p.latency_duration >= 5
    \/ issue = "oom" /\ p.type = "resource" /\ p.ram_chunk_mb >= 1024
    \/ issue = "lock" /\ p.type = "resource" /\ p.throttle_threshold >= 100000

Issues(c) ==
    LET ps == c.policies IN
    {found \in (DOMAIN ps) \X {"global", "collision", "drop", "timeout", "oom", "lock"} :
        ~Harmless(ps[found[1]]) /\ Complaint(found[2], ps, found[1])}
    \cup (IF ps # <<>> /\ ~c.protected THEN {<<0, "core guard">>} ELSE {})

\* "plan" weighs each policy by itself, in percent.
Weight(p) == IF p.drop_connection THEN 100
             ELSE (p.error_chance * 7 + p.latency_chance * 3) \div 10

-----------------------------------------------------------------------------
\* A policy more is never less of a risk, wherever in the list it stands: what
\* remains of the policies without it has no higher score.
Without(c, i) ==
    LET ps == c.policies IN [c EXCEPT !.policies = SubSeq(ps, 1, i - 1) \o SubSeq(ps, i + 1, Len(ps))]
RiskGrows(c) == \A i \in DOMAIN c.policies : Score(Without(c, i)) <= Score(c)
=============================================================================
