-------------------------- MODULE InterceptorsProofs --------------------------
(***************************************************************************)
(* What holds of the interceptors for any commands, any configurations and *)
(* a telemetry bus of any size: first of the bus alone, whose ring         *)
(* implements a log of recent entries, then of the calls that write to it. *)
(***************************************************************************)
EXTENDS Interceptors, SequenceTheorems, FiniteSetTheorems, TLAPS

\* Where an index one or two turns away falls in the ring.
LEMMA Wrap ==
    ASSUME NEW a \in Nat, a < 2 * Size
    PROVE  a % Size = IF a < Size THEN a ELSE a - Size
BY BusAssumption, Z3

BusInv == TypeOK /\ NotWrapped

LEMMA NextHead ==
    ASSUME BusInv
    PROVE  (head + 1) % Size = IF head + 1 < Size THEN head + 1 ELSE 0
<1> DEFINE k == head + 1
<1>1. k \in Nat /\ k < 2 * Size /\ k <= Size
  BY BusAssumption DEF BusInv, TypeOK
<1>2. k % Size = IF k < Size THEN k ELSE k - Size
  <2> HIDE DEF k
  <2> QED BY <1>1, Wrap
<1> QED
  BY <1>1, <1>2, BusAssumption DEF BusInv, TypeOK

LEMMA BusInvInit == Init => BusInv
<1> SUFFICES ASSUME Init PROVE BusInv OBVIOUS
<1>1. Zero \in Entry
  BY BusAssumption DEF Zero
<1> QED
  BY <1>1, BusAssumption DEF Init, BusInv, TypeOK, NotWrapped

LEMMA BusInvStep == BusInv /\ [Next]_vars => BusInv'
<1> SUFFICES ASSUME BusInv, [Next]_vars PROVE BusInv' OBVIOUS
<1>1. CASE UNCHANGED vars
  BY <1>1 DEF vars, BusInv, TypeOK, NotWrapped
<1>2. CASE Next
  <2>1. PICK e \in Entry : Emit(e)
    BY <1>2 DEF Next
  <2>2. head' = IF head + 1 < Size THEN head + 1 ELSE 0
    BY <2>1, NextHead DEF Emit
  <2>3. TypeOK'
    BY <2>1, <2>2, BusAssumption DEF Emit, BusInv, TypeOK
  <2>4. NotWrapped'
    BY <2>1, <2>2, BusAssumption DEF Emit, BusInv, TypeOK, NotWrapped
  <2> QED
    BY <2>3, <2>4 DEF BusInv
<1> QED
  BY <1>1, <1>2

\* The type invariant, and head = size until the ring wraps.
THEOREM RingInvariant == Spec => []BusInv
BY BusInvInit, BusInvStep, PTL DEF Spec

\* Every variable of the ring keeps its type, for every size of the ring.
THEOREM RingTypes == Spec => []TypeOK
<1>1. BusInv => TypeOK
  BY DEF BusInv
<1> QED
  BY <1>1, RingInvariant, PTL

\* The i-th entry a reader sees.
Index(i) == IF head - size + i - 1 < 0 THEN head - size + i - 1 + Size ELSE head - size + i - 1

LEMMA SnapshotIs ==
    ASSUME BusInv
    PROVE  /\ Snapshot = [i \in 1 .. size |-> buf[Index(i)]]
           /\ \A i \in 1 .. size : Index(i) \in 0 .. Size - 1
           /\ Snapshot \in Seq(Entry) /\ Len(Snapshot) = size
<1>1. ASSUME NEW i \in 1 .. size
      PROVE  /\ (((head - size + Size) % Size) + i - 1) % Size = Index(i)
             /\ Index(i) \in 0 .. Size - 1
  <2>1. head - size + Size \in Nat /\ head - size + Size < 2 * Size
    BY BusAssumption DEF BusInv, TypeOK
  <2> DEFINE j == head - size + Size
  <2>2. (head - size + Size) % Size = IF head < size THEN head - size + Size ELSE head - size
    <3>1. j % Size = IF j < Size THEN j ELSE j - Size
      <4> HIDE DEF j
      <4>1. j \in Nat /\ j < 2 * Size
        BY <2>1 DEF j
      <4> QED BY <4>1, Wrap
    <3> QED
      BY <3>1, BusAssumption DEF BusInv, TypeOK
  <2> DEFINE k == ((head - size + Size) % Size) + i - 1
  <2>3. k \in Nat /\ k < 2 * Size
    BY <2>2, BusAssumption DEF BusInv, TypeOK
  <2>4. k % Size = IF k < Size THEN k ELSE k - Size
    <3> HIDE DEF k
    <3> QED BY <2>3, Wrap
  <2> QED
    BY <2>2, <2>4, BusAssumption DEF BusInv, TypeOK, Index
<1>2. Snapshot = [i \in 1 .. size |-> buf[Index(i)]]
  BY <1>1 DEF Snapshot
<1>3. \A i \in 1 .. size : buf[Index(i)] \in Entry
  BY <1>1 DEF BusInv, TypeOK
<1> QED
  BY <1>1, <1>2, <1>3 DEF BusInv, TypeOK

Entries ==
    /\ \A i \in 1 .. size : Snapshot[i] = buf[Index(i)]
    /\ Snapshot \in Seq(Entry) /\ Len(Snapshot) = size

LEMMA SnapshotEntries == BusInv => Entries
BY SnapshotIs DEF Entries

LEMMA SnapshotNext == BusInv' => Entries'
BY SnapshotEntries, PTL

LEMMA EmitPushes == BusInv /\ [Next]_vars => [Log!Next]_Snapshot
<1> SUFFICES ASSUME BusInv, Next PROVE \E e \in Entry : Log!Push(e)
  BY DEF vars, Snapshot, Log!Next
<1>1. PICK e \in Entry : Emit(e)
  BY DEF Next
<1>2. BusInv'
  BY BusInvStep
<1>3. head' = IF head + 1 < Size THEN head + 1 ELSE 0
  BY <1>1, NextHead DEF Emit
<1> DEFINE s == Snapshot
           t == Snapshot'
<1>4. /\ \A i \in 1 .. size : s[i] = buf[Index(i)] /\ Index(i) \in 0 .. Size - 1
      /\ s \in Seq(Entry) /\ Len(s) = size
  BY SnapshotIs
<1>5. /\ \A i \in 1 .. size' : t[i] = buf'[Index(i)']
      /\ t \in Seq(Entry) /\ Len(t) = size'
  BY <1>2, SnapshotNext DEF Entries
<1>6. CASE size < Size
  <2>1. \A i \in 1 .. size : Index(i)' = Index(i) /\ Index(i) # head
    BY <1>1, <1>3, <1>6, BusAssumption DEF Emit, BusInv, TypeOK, NotWrapped, Index
  <2>2. size' = size + 1 /\ Index(size)' = head /\ size \in Nat
    BY <1>1, <1>3, <1>6, BusAssumption DEF Emit, BusInv, TypeOK, NotWrapped, Index
  <2>3. \A i \in 1 .. size : t[i] = s[i]
    BY <1>1, <1>4, <1>5, <2>1, <2>2 DEF Emit, BusInv, TypeOK
  <2>4. t[size + 1] = e
    BY <1>1, <1>5, <2>2 DEF Emit, BusInv, TypeOK
  <2>5. t = Append(s, e)
    <3> HIDE DEF s, t
    <3>1. /\ Append(s, e) \in Seq(Entry) /\ Len(Append(s, e)) = size + 1
          /\ \A i \in 1 .. size : Append(s, e)[i] = s[i]
          /\ Append(s, e)[size + 1] = e
      BY <1>4, AppendProperties
    <3>2. \A i \in 1 .. Len(t) : t[i] = Append(s, e)[i]
      BY <1>5, <2>2, <2>3, <2>4, <3>1 DEF BusInv, TypeOK
    <3> QED
      BY <1>5, <2>2, <3>1, <3>2, SeqEqual
  <2> QED
    BY <1>4, <1>6, <2>5 DEF Log!Push
<1>7. CASE size = Size
  <2>1. \A i \in 1 .. size - 1 : Index(i)' = Index(i + 1) /\ Index(i + 1) # head
    BY <1>1, <1>3, <1>7, BusAssumption DEF Emit, BusInv, TypeOK, Index
  <2>2. size' = size /\ Index(size)' = head /\ size \in Nat \ {0}
    BY <1>1, <1>3, <1>7, BusAssumption DEF Emit, BusInv, TypeOK, Index
  <2>3. \A i \in 1 .. size - 1 : t[i] = s[i + 1]
    BY <1>1, <1>4, <1>5, <2>1, <2>2 DEF Emit, BusInv, TypeOK
  <2>4. t[size] = e
    BY <1>1, <1>5, <2>2 DEF Emit, BusInv, TypeOK
  <2>5. t = Append(Tail(s), e)
    <3> HIDE DEF s, t
    <3> DEFINE u == Tail(s)
    <3>1. /\ u \in Seq(Entry) /\ Len(u) = size - 1
          /\ \A i \in 1 .. size - 1 : u[i] = s[i + 1]
      <4>1. s # <<>>
        BY <1>4, <2>2
      <4> QED
        BY <1>4, <4>1, HeadTailProperties
    <3> HIDE DEF u
    <3>2. /\ Append(u, e) \in Seq(Entry) /\ Len(Append(u, e)) = size
          /\ \A i \in 1 .. size - 1 : Append(u, e)[i] = u[i]
          /\ Append(u, e)[size] = e
      <4>1. Len(u) + 1 = size
        BY <2>2, <3>1
      <4> QED
        BY <3>1, <4>1, AppendProperties
    <3>3. \A i \in 1 .. Len(t) : t[i] = Append(u, e)[i]
      BY <1>5, <2>2, <2>3, <2>4, <3>1, <3>2
    <3>4. t = Append(u, e)
      BY <1>5, <2>2, <3>2, <3>3, SeqEqual
    <3> QED
      BY <3>4 DEF u
  <2> QED
    BY <1>4, <1>7, <2>5 DEF Log!Push
<1> QED
  BY <1>6, <1>7, BusAssumption DEF BusInv, TypeOK

LEMMA LastEntry ==
    ASSUME BusInv, NEW e \in Entry, Emit(e)
    PROVE  size' > 0 /\ Snapshot'[size'] = e
<1>1. BusInv'
  BY BusInvStep DEF Next
<1>2. head' = IF head + 1 < Size THEN head + 1 ELSE 0
  BY NextHead DEF Emit
<1>3. size' > 0 /\ size' \in 1 .. size' /\ Index(size)' = head
  BY <1>2, BusAssumption DEF Emit, BusInv, TypeOK, NotWrapped, Index
<1>4. Snapshot'[size'] = buf'[Index(size)']
  BY <1>1, <1>3, SnapshotNext DEF Entries
<1> QED
  BY <1>3, <1>4 DEF Emit, BusInv, TypeOK

\* A reader sees the last Size events in the order they were emitted: the ring
\* implements RecentLog, whatever its size.
THEOREM RingImplementsLog == Spec => SnapshotIsRecent
<1>1. Init => Log!Init
  BY DEF Init, Log!Init, Snapshot
<1> QED
  BY <1>1, RingInvariant, EmitPushes, PTL DEF Spec, SnapshotIsRecent, Log!Spec

-----------------------------------------------------------------------------
\* Steps write to the bus by Emit only.

LEMMA LoggingEmits ==
    ASSUME NEW e \in {"latency", "error"}, NEW new, Logging(e, new)
    PROVE  [Next]_vars
BY InterceptorAssumption DEF Logging, Next

LEMMA StepOfBus == [ChaosNext]_chaosVars => [Next]_vars
<1> SUFFICES ASSUME ChaosNext PROVE [Next]_vars
  BY DEF chaosVars
<1>1. CASE Begin
  BY <1>1 DEF Begin, Quietly
<1>2. CASE Reconfigure
  BY <1>2 DEF Reconfigure
<1>3. CASE Consult
  BY <1>3, LoggingEmits, Zenon DEF Consult, Quietly
<1>4. CASE WeighPipeline
  BY <1>4, LoggingEmits DEF WeighPipeline, Quietly
<1>5. CASE WeighMessage
  BY <1>5, LoggingEmits DEF WeighMessage, Quietly
<1>6. CASE Judge
  BY <1>6, LoggingEmits DEF Judge, Quietly
<1>7. CASE Draw
  BY <1>7, LoggingEmits DEF Draw, Quietly
<1>8. CASE Protect \/ ProtectEach \/ Load \/ Consulted \/ Wake
  BY <1>8 DEF Protect, ProtectEach, Load, Consulted, Wake, Quietly
<1>9. CASE Cancelled \/ Forward \/ Prepare \/ Finish
  BY <1>9 DEF Cancelled, Forward, Prepare, Finish, Quietly
<1> QED
  BY <1>1, <1>2, <1>3, <1>4, <1>5, <1>6, <1>7, <1>8, <1>9 DEF ChaosNext, Work

\* The interceptors use the bus as its specification says ...
THEOREM InterceptorsUseBus == ChaosSpec => Spec
<1>1. ChaosInit => Init
  BY DEF ChaosInit
<1> QED
  BY <1>1, StepOfBus, PTL DEF ChaosSpec, Spec

\* ... so its readers see the last events in order, whatever is intercepted.
THEOREM ReadersSeeRecentLog == ChaosSpec => SnapshotIsRecent
BY InterceptorsUseBus, RingImplementsLog, PTL

-----------------------------------------------------------------------------
\* Types.

LEMMA Configured ==
    ASSUME snap \in Snapshots
    PROVE  snap.policies \in Seq(Policy) /\ snap.ignored \subseteq Command
BY InterceptorAssumption

LEMMA NoPolicies == <<>> \in Seq(Policy) /\ Len(<<>>) = 0
OBVIOUS

LEMMA CallTypeInit == ChaosInit => CallTypeOK
<1> SUFFICES ASSUME ChaosInit PROVE CallTypeOK OBVIOUS
<1> QED
  BY NoPolicies DEF ChaosInit, CallTypeOK, NoCall, Call, Ways, Driver

Pending == At("delay") /\ call.way \notin {"pipeline", "message"} => More

Fits(c) == c \in Call /\ c.next <= Len(c.policies) + 1

LEMMA CallTypeStep == CallTypeOK /\ Pending /\ [ChaosNext]_chaosVars => CallTypeOK'
<1> SUFFICES ASSUME CallTypeOK, Pending, [ChaosNext]_chaosVars PROVE CallTypeOK' OBVIOUS
<1> USE DEF Quietly, Logging, At
<1>a. snap \in Snapshots /\ Fits(call)
  BY DEF CallTypeOK, Fits
<1>b. ASSUME NEW pc \in {"idle", "protect", "load", "consult", "delay", "weigh", "judge", "draw",
               "forward", "prepare", "done"}
      PROVE  Fits(To(pc)) /\ Fits([To(pc) EXCEPT !.struck = Struck])
  BY <1>a DEF Fits, To, Struck, Call
<1>c. ASSUME NEW result \in {"none", "ok", "fault", "cancelled", "dropped", "errskip"}
      PROVE  Fits(Ended(result))
  BY <1>a DEF Fits, Ended, Call
<1>d. ASSUME More PROVE Fits(Skip) /\ Fits([To("consult") EXCEPT !.next = @ + 1])
  <2>1. call.next + 1 \in Nat \ {0} /\ call.next + 1 <= Len(call.policies) + 1
    BY <1>a, <1>d DEF Fits, More, Call
  <2> QED
    BY <1>a, <2>1 DEF Fits, Skip, To, Call
<1>e. Fits(NoCall)
  BY NoPolicies DEF Fits, NoCall, Call, Ways, Driver
<1>f. SUFFICES Fits(call') /\ snap' \in Snapshots
  BY DEF CallTypeOK, Fits
<1>0. CASE UNCHANGED chaosVars
  BY <1>0, <1>a DEF chaosVars
<1>1. CASE Begin
  <2>1. PICK way \in Ways, cs \in SUBSET Command, d \in Driver :
          Quietly([NoCall EXCEPT !.way = way, !.cmds = cs, !.driver = d, !.todo = cs,
                !.pc = CASE way \in {"pipeline", "connect", "dial"} -> "load"
                         [] way = "query" /\ d.fast = "absent"      -> "prepare"
                         [] OTHER                                   -> "protect"])
    BY <1>1 DEF Begin
  <2> DEFINE pc == CASE way \in {"pipeline", "connect", "dial"} -> "load"
                     [] way = "query" /\ d.fast = "absent"      -> "prepare"
                     [] OTHER                                   -> "protect"
  <2>2. pc \in {"load", "prepare", "protect"}
    OBVIOUS
  <2> HIDE DEF pc
  <2>3. call' = [NoCall EXCEPT !.way = way, !.cmds = cs, !.driver = d, !.todo = cs, !.pc = pc]
    BY <2>1 DEF pc
  <2> DEFINE put == [NoCall EXCEPT !.way = way, !.cmds = cs]
  <2>4. Fits(put)
    BY <1>e DEF Fits, Call
  <2>5. call' = [put EXCEPT !.driver = d, !.todo = cs, !.pc = pc]
    BY <1>e, <2>3 DEF Fits, Call
  <2> HIDE DEF put
  <2>6. Fits(call')
    BY <2>2, <2>4, <2>5 DEF Fits, Call
  <2> QED
    BY <1>1, <1>a, <2>6 DEF Begin
<1>2. CASE Reconfigure
  BY <1>2, <1>a DEF Reconfigure
<1>3. CASE Protect
  BY <1>3, <1>a, <1>b DEF Protect
<1>4. CASE ProtectEach
  <2>1. PICK c \in call.todo :
          Quietly([call EXCEPT
            !.todo = @ \ {c}, !.open = IF c \in snap.ignored THEN @ ELSE @ \cup {c},
            !.pc = IF call.todo = {c} THEN "weigh" ELSE "protect"])
    BY <1>4 DEF ProtectEach
  <2> DEFINE open == IF c \in snap.ignored THEN call.open ELSE call.open \cup {c}
             pc == IF call.todo = {c} THEN "weigh" ELSE "protect"
  <2>2. open \in SUBSET Command /\ call.todo \ {c} \in SUBSET Command /\ pc \in {"weigh", "protect"}
    BY <1>a DEF Fits, Call
  <2>3. call' = [call EXCEPT !.todo = @ \ {c}, !.open = open, !.pc = pc]
    BY <2>1
  <2> HIDE DEF open, pc
  <2> QED
    BY <1>4, <1>a, <2>2, <2>3 DEF ProtectEach, Fits, Call
<1>5. CASE Load
  <2>1. PICK pc \in {"protect", "weigh", "draw", "consult"} :
          call' = [call EXCEPT !.policies = snap.policies, !.next = 1, !.pc = pc]
    BY <1>5 DEF Load
  <2> DEFINE policies == snap.policies
  <2>2. policies \in Seq(Policy) /\ 1 <= Len(policies) + 1
    BY <1>a, Configured
  <2> HIDE DEF policies
  <2>3. call' = [call EXCEPT !.policies = policies, !.next = 1, !.pc = pc]
    BY <2>1 DEF policies
  <2>4. Fits(call')
    <3>1. call' \in Call
      <4> DEFINE loaded == [call EXCEPT !.policies = policies, !.pc = pc]
      <4>1. loaded \in Call
        BY <1>a, <2>2 DEF Fits, Call
      <4>2. call' = [loaded EXCEPT !.next = 1]
        BY <1>a, <2>3 DEF Fits, Call
      <4>3. 1 \in Nat \ {0}
        OBVIOUS
      <4> HIDE DEF loaded
      <4> QED
        BY <4>1, <4>2, <4>3 DEF Call
    <3>2. call'.next = 1 /\ call'.policies = policies
      BY <1>a, <2>3 DEF Fits, Call
    <3> QED
      BY <2>2, <3>1, <3>2 DEF Fits
  <2> QED
    BY <1>5, <1>a, <2>4 DEF Load
<1>6. CASE Consult
  <2>1. Fits([Ended("fault") EXCEPT !.failed = call.cmds, !.struck = Struck])
    BY <1>a DEF Fits, Ended, Struck, Call
  <2>2. Fits(Fail)
    BY <1>b, <2>1 DEF Fail
  <2> QED
    BY <1>6, <1>a, <1>b, <1>d, <2>2 DEF Consult
<1>7. CASE Consulted
  BY <1>7, <1>a, <1>b DEF Consulted
<1>8. CASE Wake
  BY <1>8, <1>a, <1>b, <1>d DEF Wake, Pending
<1>9. CASE Cancelled
  BY <1>9, <1>a, <1>b, <1>c DEF Cancelled
<1>10. CASE WeighPipeline
  <2>1. PICK v \in {"fault", "pass"} :
          \/ call' = [[call EXCEPT !.verdict = v] EXCEPT !.pc = "delay", !.struck = Struck]
          \/ call' = [[call EXCEPT !.verdict = v] EXCEPT !.pc = "judge"]
    BY <1>10 DEF WeighPipeline
  <2>2. Struck \in SUBSET {"first", "prepared"}
    BY <1>a DEF Fits, Struck, Call
  <2> DEFINE judged == [call EXCEPT !.verdict = v]
  <2>3. Fits(judged)
    BY <1>a DEF Fits, Call
  <2> HIDE DEF judged
  <2>4. /\ Fits([judged EXCEPT !.pc = "delay", !.struck = Struck])
        /\ Fits([judged EXCEPT !.pc = "judge"])
    BY <2>2, <2>3 DEF Fits, Call
  <2> QED
    BY <1>10, <1>a, <2>1, <2>4 DEF WeighPipeline, judged
<1>11. CASE WeighMessage
  <2>1. PICK v \in {"fault", "pass", "dropped"} :
          \/ call' = [[call EXCEPT !.verdict = v] EXCEPT !.pc = "delay", !.struck = Struck]
          \/ call' = [[call EXCEPT !.verdict = v] EXCEPT !.pc = "judge"]
    BY <1>11 DEF WeighMessage
  <2>2. Struck \in SUBSET {"first", "prepared"}
    BY <1>a DEF Fits, Struck, Call
  <2> DEFINE judged == [call EXCEPT !.verdict = v]
  <2>3. Fits(judged)
    BY <1>a DEF Fits, Call
  <2> HIDE DEF judged
  <2>4. /\ Fits([judged EXCEPT !.pc = "delay", !.struck = Struck])
        /\ Fits([judged EXCEPT !.pc = "judge"])
    BY <2>2, <2>3 DEF Fits, Call
  <2> QED
    BY <1>11, <1>a, <2>1, <2>4 DEF WeighMessage, judged
<1>12. CASE Judge
  <2>1. Struck \in SUBSET {"first", "prepared"} /\ call.verdict \in {"pass", "fault", "dropped"}
    BY <1>a DEF Fits, Struck, Call
  <2>2. Fits(AbortBatch)
    BY <1>a, <2>1 DEF AbortBatch, Ended, Fits, Call
  <2>3. call.verdict # "pass" => Fits(RejectMessage)
    BY <1>a, <2>1 DEF RejectMessage, Ended, Fits, Call
  <2> QED
    BY <1>12, <1>a, <1>b, <2>2, <2>3 DEF Judge
<1>13. CASE Draw
  BY <1>13, <1>a, <1>c, <1>d DEF Draw
<1>14. CASE Forward
  <2>1. Fits([Ended("ok") EXCEPT !.executed = call.cmds])
    BY <1>a DEF Fits, Ended, Call
  <2> QED
    BY <1>14, <1>a, <1>b, <2>1 DEF Forward
<1>15. CASE Prepare
  <2>1. Fits([To("protect") EXCEPT !.stage = "prepared"])
    BY <1>a DEF Fits, To, Call
  <2> QED
    BY <1>15, <1>a, <1>c, <2>1 DEF Prepare
<1>16. CASE Finish
  BY <1>16, <1>a, <1>e DEF Finish
<1> QED
  BY <1>0, <1>1, <1>2, <1>3, <1>4, <1>5, <1>6, <1>7, <1>8, <1>9, <1>10, <1>11, <1>12,
     <1>13, <1>14, <1>15, <1>16 DEF ChaosNext, Work

-----------------------------------------------------------------------------
\* The inductive invariant.

\* A call executes nothing before its last step.
Unexecuted ==
    /\ call.pc # "done" => call.executed = {} /\ call.result = "none"
    /\ FaultIsNotExecuted

\* Connections and batches keep to their own steps.
Kinds ==
    /\ call.way \in {"connect", "dial"} => call.pc \in {"idle", "load", "draw", "done"}
    /\ call.way = "pipeline" => call.pc # "consult"

\* Only batches have several commands, and none that is sheltered is open.
Batch ==
    /\ call.todo \subseteq call.cmds /\ call.open \subseteq call.cmds
    /\ call.open \cap Sheltered = {}
    /\ call.way # "pipeline" => \A c, d \in call.cmds : c = d

\* A call that chaos looks at, or has struck, holds a command that is not
\* sheltered.
Exposed ==
    /\ call.way \notin {"connect", "dial"}
    /\ \/ call.struck # {} \/ call.verdict # "pass"
       \/ call.way # "pipeline" /\ call.pc \in {"load", "consult", "delay", "weigh", "judge"}
    => ~(call.cmds \subseteq Sheltered)

Spared == call.failed \cap Sheltered = {}

CallInv == CallTypeOK /\ Pending /\ Unexecuted /\ Kinds /\ Batch /\ Exposed /\ Spared

LEMMA ShelteredIsIgnored ==
    ASSUME snap \in Snapshots
    PROVE  Sheltered \subseteq snap.ignored
BY DEF Sheltered

LEMMA CallInvInit == ChaosInit => CallInv
<1> SUFFICES ASSUME ChaosInit PROVE CallInv OBVIOUS
<1>1. CallTypeOK
  BY CallTypeInit
<1>2. Pending /\ Unexecuted /\ Kinds /\ Batch /\ Exposed /\ Spared
  BY DEF ChaosInit, NoCall, Pending, At, Unexecuted, FaultIsNotExecuted, Kinds, Batch, Exposed, Spared
<1> QED
  BY <1>1, <1>2 DEF CallInv

\* What a step must show of the call it leads to, beside its type.
Good == Pending /\ Unexecuted /\ Kinds /\ Batch /\ Exposed /\ Spared

LEMMA GoodStep == CallInv /\ [ChaosNext]_chaosVars => Good'
<1> SUFFICES ASSUME CallInv, [ChaosNext]_chaosVars PROVE Good' OBVIOUS
<1> USE DEF Quietly, Logging, At, To, Ended, Good, Pending, More, Unexecuted, FaultIsNotExecuted,
            Kinds, Batch, Exposed, Spared
<1>a. snap \in Snapshots /\ call \in Call /\ Good
  BY DEF CallInv, CallTypeOK
<1>0. CASE UNCHANGED chaosVars
  BY <1>0, <1>a DEF chaosVars
<1>1. CASE Begin
  <2>1. PICK way \in Ways, cs \in SUBSET Command, d \in Driver :
          /\ Cardinality(cs) = 1 \/ way = "pipeline"
          /\ Quietly([NoCall EXCEPT !.way = way, !.cmds = cs, !.driver = d, !.todo = cs,
                !.pc = CASE way \in {"pipeline", "connect", "dial"} -> "load"
                         [] way = "query" /\ d.fast = "absent"      -> "prepare"
                         [] OTHER                                   -> "protect"])
    BY <1>1 DEF Begin
  <2> DEFINE pc == CASE way \in {"pipeline", "connect", "dial"} -> "load"
                     [] way = "query" /\ d.fast = "absent"      -> "prepare"
                     [] OTHER                                   -> "protect"
  <2>2. /\ pc \in {"load", "prepare", "protect"}
        /\ pc = "load" <=> way \in {"pipeline", "connect", "dial"}
    OBVIOUS
  <2>3. way # "pipeline" => \A c, e \in cs : c = e
    <3>1. IsFiniteSet(cs)
      BY InterceptorAssumption, FS_Subset
    <3> QED
      BY <2>1, <3>1, FS_Singleton
  <2> HIDE DEF pc
  <2>4. call' = [NoCall EXCEPT !.way = way, !.cmds = cs, !.driver = d, !.todo = cs, !.pc = pc]
    BY <2>1 DEF pc
  <2> QED
    BY <2>2, <2>3, <2>4 DEF NoCall
<1>2. CASE Reconfigure
  BY <1>2, <1>a DEF Reconfigure
<1>3. CASE Protect
  BY <1>3, <1>a, ShelteredIsIgnored DEF Protect, Call
<1>4. CASE ProtectEach
  BY <1>4, <1>a, ShelteredIsIgnored DEF ProtectEach, Call
<1>5. CASE Load
  BY <1>5, <1>a DEF Load, Call
<1>6. CASE Consult
  <2>1. CASE call.cmds \cap Current.match # {} /\ call' = Fail
    <3>1. ~(call.cmds \subseteq Sheltered) /\ call.way \notin {"pipeline", "connect", "dial"}
      BY <1>6, <1>a DEF Consult
    <3>2. call.cmds \cap Sheltered = {}
      BY <1>a, <3>1
    <3> QED
      BY <1>6, <1>a, <2>1, <3>1, <3>2 DEF Consult, Fail, Struck, Call
  <2>2. CASE call' = [To("delay") EXCEPT !.struck = Struck]
    BY <1>6, <1>a, <2>2 DEF Consult, Struck, Call
  <2>3. CASE call' = Skip
    BY <1>6, <1>a, <2>3 DEF Consult, Skip, Call
  <2> QED
    BY <1>6, <2>1, <2>2, <2>3 DEF Consult
<1>7. CASE Consulted
  BY <1>7, <1>a DEF Consulted, Call
<1>8. CASE Wake
  BY <1>8, <1>a DEF Wake, Call
<1>9. CASE Cancelled
  BY <1>9, <1>a DEF Cancelled, Call
<1>10. CASE WeighPipeline
  <2> DEFINE matching == {i \in DOMAIN call.policies : call.policies[i].match \cap call.open # {}}
  <2>1. PICK slow \in SUBSET matching, v \in {"fault", "pass"} :
          /\ v = "fault" => matching # {}
          /\ \/ /\ Lasts(slow)
                /\ call' = [[call EXCEPT !.verdict = v] EXCEPT !.pc = "delay", !.struck = Struck]
             \/ call' = [[call EXCEPT !.verdict = v] EXCEPT !.pc = "judge"]
    BY <1>10 DEF WeighPipeline
  <2>2. matching # {} => ~(call.cmds \subseteq Sheltered)
    BY <1>a
  <2>3. Lasts(slow) => matching # {}
    BY DEF Lasts
  <2> HIDE DEF matching
  <2>4. call.pc = "weigh" /\ call.way = "pipeline"
    BY <1>10 DEF WeighPipeline
  <2>5. CASE Lasts(slow) /\ call' = [[call EXCEPT !.verdict = v] EXCEPT !.pc = "delay", !.struck = Struck]
    BY <1>a, <2>2, <2>3, <2>4, <2>5 DEF Call
  <2>6. CASE call' = [[call EXCEPT !.verdict = v] EXCEPT !.pc = "judge"]
    BY <1>a, <2>1, <2>2, <2>4, <2>6 DEF Call
  <2> QED
    BY <2>1, <2>5, <2>6
<1>11. CASE WeighMessage
  <2>1. PICK v \in {"fault", "pass", "dropped"} :
          \/ call' = [[call EXCEPT !.verdict = v] EXCEPT !.pc = "delay", !.struck = Struck]
          \/ call' = [[call EXCEPT !.verdict = v] EXCEPT !.pc = "judge"]
    BY <1>11 DEF WeighMessage
  <2>2. ~(call.cmds \subseteq Sheltered)
    BY <1>11, <1>a DEF WeighMessage, Ways
  <2>3. CASE call' = [[call EXCEPT !.verdict = v] EXCEPT !.pc = "delay", !.struck = Struck]
    BY <1>11, <1>a, <2>2, <2>3 DEF WeighMessage, Call
  <2>4. CASE call' = [[call EXCEPT !.verdict = v] EXCEPT !.pc = "judge"]
    BY <1>11, <1>a, <2>2, <2>4 DEF WeighMessage, Call
  <2> QED
    BY <2>1, <2>3, <2>4
<1>12. CASE Judge
  <2>1. CASE call.verdict = "pass"
    BY <1>12, <1>a, <2>1 DEF Judge, Call
  <2>2. CASE call.verdict # "pass" /\ call.way = "pipeline"
    <3>1. ~(call.cmds \subseteq Sheltered)
      BY <1>12, <1>a, <2>2 DEF Judge
    <3>2. call' = [[[call EXCEPT !.pc = "done"] EXCEPT !.result = "fault"]
                     EXCEPT !.failed = call.open, !.struck = Struck]
      BY <1>12, <2>2 DEF Judge, AbortBatch
    <3>3. call.executed = {}
      BY <1>12, <1>a DEF Judge
    <3> QED
      BY <1>a, <2>2, <3>1, <3>2, <3>3 DEF Call
  <2>3. CASE call.verdict # "pass" /\ call.way # "pipeline"
    <3>1. ~(call.cmds \subseteq Sheltered) /\ call.way \notin {"connect", "dial"}
      BY <1>12, <1>a, <2>3 DEF Judge
    <3>2. call.cmds \cap Sheltered = {}
      BY <1>a, <2>3, <3>1
    <3>3. call' = [[[call EXCEPT !.pc = "done"] EXCEPT !.result = call.verdict]
                     EXCEPT !.failed = call.cmds, !.struck = Struck]
      BY <1>12, <2>3 DEF Judge, RejectMessage
    <3>4. call.executed = {}
      BY <1>12, <1>a DEF Judge
    <3> QED
      BY <1>a, <2>3, <3>1, <3>2, <3>3, <3>4 DEF Call
  <2> QED
    BY <2>1, <2>2, <2>3
<1>13. CASE Draw
  <2>1. call' \in {Ended("ok"), Ended("dropped"), Skip}
    BY <1>13 DEF Draw
  <2>2. ASSUME NEW result \in {"ok", "dropped"}, call' = Ended(result) PROVE Good'
    BY <1>13, <1>a, <2>2 DEF Draw, Call
  <2>3. call' = Skip => Good'
    BY <1>13, <1>a DEF Draw, Skip, Call
  <2> QED
    BY <2>1, <2>2, <2>3
<1>14. CASE Forward
  BY <1>14, <1>a DEF Forward, Call
<1>15. CASE Prepare
  BY <1>15, <1>a DEF Prepare, Call
<1>16. CASE Finish
  BY <1>16, <1>a DEF Finish, NoCall
<1> QED
  BY <1>0, <1>1, <1>2, <1>3, <1>4, <1>5, <1>6, <1>7, <1>8, <1>9, <1>10, <1>11, <1>12,
     <1>13, <1>14, <1>15, <1>16 DEF ChaosNext, Work

LEMMA CallInvStep == CallInv /\ [ChaosNext]_chaosVars => CallInv'
BY GoodStep, CallTypeStep DEF CallInv, Good

\* It is about the configuration and the call only.
LEMMA CallAlone == ASSUME CallInv, UNCHANGED <<snap, call>> PROVE CallInv'
<1>1. CallTypeOK' /\ Kinds' /\ Batch' /\ Spared'
  BY DEF CallInv, CallTypeOK, Kinds, Batch, Spared
<1>2. Pending' /\ Unexecuted'
  BY DEF CallInv, Pending, More, At, Current, Unexecuted, FaultIsNotExecuted
<1>3. Exposed'
  BY DEF CallInv, Exposed
<1> QED
  BY <1>1, <1>2, <1>3 DEF CallInv

LEMMA CallsAreSafe == CallInv => FaultIsNotExecuted /\ ShelteredIsSpared
BY DEF CallInv, Unexecuted, Exposed, Spared, ShelteredIsSpared

\* The inductive invariant: calls are typed, execute nothing before their last
\* step, and are exposed to chaos only if they hold a command not sheltered.
THEOREM ChaosInvariance == ChaosSpec => []CallInv
BY CallInvInit, CallInvStep, PTL DEF ChaosSpec

\* Every variable keeps its type, for any commands and configurations.
THEOREM CallTypes == ChaosSpec => []CallTypeOK
<1>1. CallInv => CallTypeOK
  BY DEF CallInv
<1> QED
  BY <1>1, ChaosInvariance, PTL

\* Whatever is intercepted and reconfigured: a call that chaos failed, dropped
\* or cancelled has not been executed.
THEOREM NothingHalfDone == ChaosSpec => []FaultIsNotExecuted
BY CallsAreSafe, ChaosInvariance, PTL

\* Whatever is intercepted and reconfigured: commands every configuration
\* protects get no injected error, and are not delayed on their own.
THEOREM Shelter == ChaosSpec => []ShelteredIsSpared
BY CallsAreSafe, ChaosInvariance, PTL

-----------------------------------------------------------------------------
\* Faults and the telemetry bus.

\* A fault that takes effect with an entry of its kind is on record.
LEMMA Recorded ==
    ASSUME BusInv, NEW e \in {"latency", "error"}, NEW new, Logging(e, new),
           new.pc = "delay" => e = "latency",
           new.result \in {"fault", "dropped"} => e = "error"
    PROVE  FaultIsOnRecord'
<1>1. size' > 0 /\ Snapshot'[size'] = e
  BY LastEntry, InterceptorAssumption DEF Logging
<1>2. size' - 0 = size'
  BY BusInvStep, LoggingEmits DEF BusInv, TypeOK
<1> QED
  BY <1>1, <1>2 DEF FaultIsOnRecord, OnRecord, Logging, At

\* Without an entry, no fault takes effect.
LEMMA Unrecorded ==
    ASSUME NEW new, Quietly(new), new.pc # "delay",
           new.result \in {"fault", "dropped"} => new.way = "dial"
    PROVE  FaultIsOnRecord'
BY DEF FaultIsOnRecord, OnRecord, Quietly, At

\* So every step of a call leaves it on record.
LEMMA RecordStep == CallInv /\ BusInv /\ (Begin \/ Work) => FaultIsOnRecord'
<1> SUFFICES ASSUME CallInv, BusInv, Begin \/ Work PROVE FaultIsOnRecord'
  OBVIOUS
<1>a. call \in Call /\ (call.pc # "done" => call.result = "none")
  BY DEF CallInv, CallTypeOK, Unexecuted
<1>c. ASSUME NEW pc \in {"idle", "protect", "load", "consult", "weigh", "judge", "draw", "forward",
               "prepare", "done"}, call.pc # "done", Quietly(To(pc))
      PROVE  FaultIsOnRecord'
  BY <1>a, <1>c, Unrecorded DEF To, Call
<1>d. ASSUME NEW result \in {"ok", "cancelled", "errskip"}, Quietly(Ended(result))
      PROVE  FaultIsOnRecord'
  BY <1>a, <1>d, Unrecorded DEF Ended, Call
<1>e. ASSUME call.pc \notin {"delay", "done"}, Quietly(Skip) PROVE FaultIsOnRecord'
  BY <1>a, <1>e, Unrecorded DEF Skip, Call
<1> USE DEF At
<1>1. CASE Begin
  <2>1. PICK way \in Ways, cs \in SUBSET Command, d \in Driver :
          Quietly([NoCall EXCEPT !.way = way, !.cmds = cs, !.driver = d, !.todo = cs,
                !.pc = CASE way \in {"pipeline", "connect", "dial"} -> "load"
                         [] way = "query" /\ d.fast = "absent"      -> "prepare"
                         [] OTHER                                   -> "protect"])
    BY <1>1 DEF Begin
  <2> DEFINE pc == CASE way \in {"pipeline", "connect", "dial"} -> "load"
                     [] way = "query" /\ d.fast = "absent"      -> "prepare"
                     [] OTHER                                   -> "protect"
             new == [NoCall EXCEPT !.way = way, !.cmds = cs, !.driver = d, !.todo = cs, !.pc = pc]
  <2>2. pc # "delay"
    OBVIOUS
  <2> HIDE DEF pc
  <2>3. new.pc # "delay" /\ new.result = "none"
    BY <2>2 DEF NoCall
  <2>4. Quietly(new)
    BY <2>1 DEF pc
  <2> HIDE DEF new
  <2> QED
    BY <2>3, <2>4, Unrecorded
<1>3. CASE Protect
  BY <1>3, <1>c DEF Protect
<1>4. CASE ProtectEach
  <2>1. PICK c \in call.todo :
          Quietly([call EXCEPT
            !.todo = @ \ {c}, !.open = IF c \in snap.ignored THEN @ ELSE @ \cup {c},
            !.pc = IF call.todo = {c} THEN "weigh" ELSE "protect"])
    BY <1>4 DEF ProtectEach
  <2> QED
    BY <1>4, <1>a, <2>1, Unrecorded DEF ProtectEach, Call
<1>5. CASE Load
  <2>1. PICK pc \in {"protect", "weigh", "draw", "consult"} :
          Quietly([call EXCEPT !.policies = snap.policies, !.next = 1, !.pc = pc])
    BY <1>5 DEF Load, Quietly
  <2> QED
    BY <1>5, <1>a, <2>1, Unrecorded DEF Load, Call
<1>6. CASE Consult
  <2>1. CASE Logging("error", Fail)
    <3>1. Fail.pc # "delay"
      BY <1>a DEF Fail, To, Ended, Call
    <3> QED
      BY <2>1, <3>1, Recorded
  <2>2. CASE Logging("latency", [To("delay") EXCEPT !.struck = Struck])
    <3>1. [To("delay") EXCEPT !.struck = Struck].result = "none"
      BY <1>6, <1>a DEF Consult, To, Call
    <3> QED
      BY <2>2, <3>1, Recorded
  <2> QED
    BY <1>6, <1>e, <2>1, <2>2 DEF Consult
<1>7. CASE Consulted
  BY <1>7, <1>c DEF Consulted
<1>8. CASE Wake
  <2>1. CASE Quietly([To("consult") EXCEPT !.next = @ + 1])
    <3> DEFINE new == [To("consult") EXCEPT !.next = @ + 1]
    <3>1. new.pc = "consult" /\ new.result = "none"
      BY <1>8, <1>a DEF Wake, To, Call
    <3> HIDE DEF new
    <3>2. Quietly(new)
      BY <2>1 DEF new
    <3> QED
      BY <3>1, <3>2, Unrecorded
  <2> QED
    BY <1>8, <1>c, <2>1 DEF Wake
<1>9. CASE Cancelled
  BY <1>9, <1>c, <1>d DEF Cancelled
<1>10. CASE WeighPipeline
  <2>1. PICK v :
          \/ Logging("latency", [[call EXCEPT !.verdict = v] EXCEPT !.pc = "delay", !.struck = Struck])
          \/ Quietly([[call EXCEPT !.verdict = v] EXCEPT !.pc = "judge"])
    BY <1>10 DEF WeighPipeline
  <2> QED
    BY <1>10, <1>a, <2>1, Recorded, Unrecorded DEF WeighPipeline, Call
<1>11. CASE WeighMessage
  <2>1. PICK v :
          \/ Logging("latency", [[call EXCEPT !.verdict = v] EXCEPT !.pc = "delay", !.struck = Struck])
          \/ Quietly([[call EXCEPT !.verdict = v] EXCEPT !.pc = "judge"])
    BY <1>11 DEF WeighMessage
  <2> QED
    BY <1>11, <1>a, <2>1, Recorded, Unrecorded DEF WeighMessage, Call
<1>12. CASE Judge
  <2>1. AbortBatch.pc = "done" /\ RejectMessage.pc = "done"
    BY <1>a DEF AbortBatch, RejectMessage, Ended, Call
  <2> QED
    BY <1>12, <1>c, <2>1, Recorded DEF Judge
<1>13. CASE Draw
  <2>1. CASE Logging("error", Ended("dropped"))
    <3>1. Ended("dropped").pc = "done"
      BY <1>a DEF Ended, Call
    <3> QED
      BY <2>1, <3>1, Recorded
  <2>2. CASE call.way = "dial" /\ Quietly(Ended("dropped"))
    BY <1>a, <2>2, Unrecorded DEF Ended, Call
  <2> QED
    BY <1>13, <1>d, <1>e, <2>1, <2>2 DEF Draw
<1>14. CASE Forward
  <2>1. CASE Quietly([Ended("ok") EXCEPT !.executed = call.cmds])
    BY <1>a, <2>1, Unrecorded DEF Ended, Call
  <2> QED
    BY <1>14, <1>c, <2>1 DEF Forward
<1>15. CASE Prepare
  <2>1. CASE Quietly([To("protect") EXCEPT !.stage = "prepared"])
    BY <1>15, <1>a, <2>1, Unrecorded DEF Prepare, To, Call
  <2> QED
    BY <1>15, <1>d, <2>1 DEF Prepare
<1>16. CASE Finish
  BY <1>16, Unrecorded DEF Finish, NoCall
<1> QED
  BY <1>1, <1>3, <1>4, <1>5, <1>6, <1>7, <1>8, <1>9, <1>10, <1>11, <1>12,
     <1>13, <1>14, <1>15, <1>16 DEF Work

\* Where nothing is called and nothing written, the record stands.
LEMMA RecordStands == ASSUME NEW k, OnRecord(k), UNCHANGED <<call, vars>> PROVE OnRecord(k)'
BY DEF OnRecord, At, vars, Snapshot

\* One entry later it stands one place further back, until the ring is full.
LEMMA RecordAges ==
    ASSUME BusInv, NEW k \in Nat, k + 1 < Size, OnRecord(k), UNCHANGED call, NEW e \in Entry, Emit(e)
    PROVE  OnRecord(k + 1)'
<1>1. BusInv'
  BY BusInvStep DEF Next
<1>2. head' = IF head + 1 < Size THEN head + 1 ELSE 0
  BY NextHead DEF Emit
<1>3. size \in Nat /\ size' \in Nat /\ size' = IF size < Size THEN size + 1 ELSE Size
  BY BusAssumption DEF Emit, BusInv, TypeOK
<1>4. ASSUME size > k
      PROVE  size' > k + 1 /\ Snapshot'[size' - (k + 1)] = Snapshot[size - k]
  <2>1. PICK i \in 1 .. size : i = size - k
    BY <1>3, <1>4
  <2>2. PICK j \in 1 .. size' : j = size' - (k + 1) /\ size' > k + 1
    BY <1>3, <1>4, BusAssumption
  <2>3. Index(j)' = Index(i) /\ Index(i) # head
    BY <1>2, <1>3, <2>1, <2>2, BusAssumption DEF Emit, BusInv, TypeOK, NotWrapped, Index
  <2>4. Snapshot[i] = buf[Index(i)] /\ Index(i) \in 0 .. Size - 1
    BY <2>1, SnapshotIs
  <2>5. Snapshot'[j] = buf'[Index(j)']
    BY <1>1, <2>2, SnapshotNext DEF Entries
  <2>6. buf'[Index(i)] = buf[Index(i)]
    BY <2>3, <2>4 DEF Emit, BusInv, TypeOK
  <2> QED
    BY <2>1, <2>2, <2>3, <2>4, <2>5, <2>6
<1> QED
  BY <1>4 DEF OnRecord, At

\* A reader of the bus sees every error returned and every delay that goes on,
\* for a ring of any size: it is the last entry, if there are no other writers.
THEOREM FaultsAreOnRecord == ChaosSpec => []FaultIsOnRecord
<1>1. ChaosInit => FaultIsOnRecord
  BY DEF ChaosInit, NoCall, FaultIsOnRecord, OnRecord, At
<1>3. CallInv /\ BusInv /\ FaultIsOnRecord /\ [ChaosNext]_chaosVars => FaultIsOnRecord'
  BY RecordStep, RecordStands DEF ChaosNext, Reconfigure, chaosVars, FaultIsOnRecord
<1>2. ChaosSpec => []BusInv
  BY InterceptorsUseBus, RingInvariant, PTL
<1> QED
  BY <1>1, <1>2, <1>3, ChaosInvariance, PTL DEF ChaosSpec
=============================================================================
