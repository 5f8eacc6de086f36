----------------------------- MODULE MCOperator -----------------------------
\* Operator on small clusters, all keys with names of their own.
EXTENDS Operator, TLC

CONSTANTS p1, p2

MCName(p) == p

\* A timed policy beside a plain one, or a plain one beside an invalid one.
Mixed == {(p1 :> "timed") @@ (p2 :> "plain"), (p1 :> "plain") @@ (p2 :> "invalid")}
OneTimed == {p1 :> "timed"}
=============================================================================
