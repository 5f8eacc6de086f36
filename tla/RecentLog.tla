------------------------------ MODULE RecentLog ------------------------------
(***************************************************************************)
(* What the telemetry bus promises its readers: the last Capacity entries  *)
(* that were emitted, in the order of emission.                            *)
(***************************************************************************)
EXTENDS Naturals, Sequences

CONSTANTS Entry, Capacity
VARIABLE recent

Init == recent = <<>>

Push(e) ==
    recent' = IF Len(recent) < Capacity THEN Append(recent, e) ELSE Append(Tail(recent), e)

Next == \E e \in Entry : Push(e)
Spec == Init /\ [][Next]_recent
=============================================================================
