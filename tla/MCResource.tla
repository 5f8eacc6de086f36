----------------------------- MODULE MCResource -----------------------------
\* ResourceChaos on small configurations, in units of one chunk.
EXTENDS ResourceChaos

Burner == [id |-> "burner", timed |-> TRUE, chunk |-> 0]
Leaker == [id |-> "leaker", timed |-> FALSE, chunk |-> 2]
Burst  == [id |-> "burst", timed |-> TRUE, chunk |-> 1]

\* Two leakers that contend for the pool, one of which ends by itself, a CPU
\* burner, and nothing.
Contended == {<<Leaker, Burst>>, <<Burner>>, <<>>}
\* A policy listed twice, as two custom resources with the same spec give it.
Doubled == {<<Burner>>, <<Leaker, Leaker>>, <<Burner, Burner>>}
=============================================================================
