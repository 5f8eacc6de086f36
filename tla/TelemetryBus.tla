---------------------------- MODULE TelemetryBus ----------------------------
(***************************************************************************)
(* The telemetry bus (pkg/telemetry/bus.go): a ring of the last events,    *)
(* written by every interceptor and read by the console.  Emit and         *)
(* Snapshot hold the mutex, so each is one step.                           *)
(***************************************************************************)
EXTENDS Naturals, Sequences

CONSTANTS
    Entry, \* what is logged
    Size   \* length of the ring (256 in the code)

ASSUME BusAssumption == Size \in Nat \ {0} /\ Entry # {}

VARIABLES buf, head, size
vars == <<buf, head, size>>

\* The zero value of the array.
Zero == CHOOSE e \in Entry : TRUE

Init == buf = [i \in 0 .. Size - 1 |-> Zero] /\ head = 0 /\ size = 0

\* Mutant: the head does not wrap.
EmitUnwrapped(e) ==
    /\ buf' = [buf EXCEPT ![head] = e] /\ head' = head + 1
    /\ size' = IF size < Size THEN size + 1 ELSE size

Emit(e) ==
    /\ buf' = [buf EXCEPT ![head] = e]
    /\ head' = (head + 1) % Size
    /\ size' = IF size < Size THEN size + 1 ELSE size

\* Mutant: the ring is read from its head, as if it were full.
SnapshotFromHead == [i \in 1 .. size |-> buf[(head + i - 1) % Size]]

Snapshot ==
    LET start == (head - size + Size) % Size
    IN  [i \in 1 .. size |-> buf[(start + i - 1) % Size]]

Next == \E e \in Entry : Emit(e)
Spec == Init /\ [][Next]_vars

-----------------------------------------------------------------------------
\* Every variable has its type.
TypeOK ==
    /\ buf \in [0 .. Size - 1 -> Entry]
    /\ head \in 0 .. Size - 1 /\ size \in 0 .. Size

\* Until the ring is full, its entries are the ones before head (the proof
\* needs it beside TypeOK).
NotWrapped == size < Size => head = size

\* A reader sees the last Size events in order, across the wrap of the ring.
Log == INSTANCE RecentLog WITH Capacity <- Size, recent <- Snapshot
SnapshotIsRecent == Log!Spec
=============================================================================
