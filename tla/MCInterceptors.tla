---------------------------- MODULE MCInterceptors ----------------------------
\* Interceptors with three commands: one that every configuration protects, one
\* that some do, and one that none does.
EXTENDS Interceptors

P(match, global, drop, latency, lasting, error) ==
    [match |-> match, global |-> global, drop |-> drop,
     latency |-> latency, lasting |-> lasting, error |-> error]
Conf(ignored, policies) == [ignored |-> ignored, policies |-> policies]

Slow == Conf({"ping"} \cap Command, <<P({"get"}, FALSE, FALSE, "may", TRUE, "may"),
                                      P(Command, TRUE, FALSE, "sure", TRUE, "no")>>)
Harsh == Conf({"ping", "set"}, <<P(Command, TRUE, TRUE, "may", TRUE, "may"),
                                 P({"set"}, FALSE, TRUE, "no", FALSE, "sure")>>)
Severed == Conf({"ping"}, <<P({"get"}, FALSE, FALSE, "may", FALSE, "no"),
                            P(Command, TRUE, TRUE, "no", FALSE, "no")>>)

Mixed == {Slow, Harsh, Severed}
OnlySlow == {Slow}
=============================================================================
