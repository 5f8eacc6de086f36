---------------------------- MODULE MCConfigPlane ----------------------------
\* ConfigPlane with two paths and a handful of configurations.
EXTENDS ConfigPlane, TLC

Policy(match, latency, error) == [match |-> match, latency |-> latency, error |-> error]
Conf(valid, warmup, ignored, http) ==
    [valid |-> valid, warmup |-> warmup, ignored |-> ignored, http |-> http]

Glitch == Conf(TRUE, FALSE, {"health"},
    <<Policy(Path, "may", "may"), Policy({"api"}, "sure", "no"), Policy(Path, "no", "sure")>>)
Warm == Conf(TRUE, TRUE, {"health"}, <<Policy(Path, "sure", "may")>>)
Broken == Conf(FALSE, FALSE, {"health"}, <<Policy(Path, "no", "sure")>>)
Calm == Conf(TRUE, FALSE, {"health"}, <<>>)

\* Every configuration protects the same path, or none does and the console
\* may reset the engine.
Uniform == {Glitch, Warm, Broken, Calm}
Bare == {[c EXCEPT !.ignored = {}] : c \in {Glitch, Warm, Broken}} \cup {NoConfig}
UniformOrBare == {Uniform, Bare}
\* Every configuration but the reset of the console protects a path.
Reset == {{Glitch, Calm, NoConfig}}
=============================================================================
