---------------------------- MODULE WatcherProofs ----------------------------
(***************************************************************************)
(* Proofs about Watcher for any set of reload bodies and any bounds.       *)
(*                                                                         *)
(* What makes cancel() safe is a chain: after StopTimer nothing is armed   *)
(* and the loop cannot arm again, for it sees stopFlag under timerMu;      *)
(* fireWG counts exactly the bodies in flight, so when JoinReloads passes  *)
(* none is; and a body that begins later sees stopFlag first.  IInv says   *)
(* each link.                                                              *)
(***************************************************************************)
EXTENDS Watcher, FiniteSetTheorems, TLAPS

\* fireWG counts the bodies between Add and Done.
Counted == fireWG = Cardinality(InFlight)

\* Once cancel() has stopped the timer, nothing is armed or about to be.
NothingArmed ==
    cancel \in {"joining", "draining", "returned"} =>
        loop # "arm" /\ \A b \in Body : pc[b] # "armed"

\* Once cancel() has joined the loop, the loop stays gone.
LoopJoined == cancel \in {"draining", "returned"} => loop = "exited"

IInv == TypeOK /\ OneTimerArmed /\ Counted /\ NothingArmed /\ LoopJoined /\ QuietAfterCancel

-----------------------------------------------------------------------------
\* The set of bodies in flight is finite, so Cardinality counts it.
LEMMA InFlightFinite == IsFiniteSet(InFlight)
  <1>1. InFlight \subseteq Body
    BY DEF InFlight
  <1> QED
    BY <1>1, BodyAssumption, FS_Subset

\* A body that is not in flight and enters adds one.
LEMMA EnterCounts ==
    ASSUME TypeOK, Counted, NEW b \in Body, Enter(b)
    PROVE  Counted'
  <1>1. InFlight' = InFlight \cup {b} /\ b \notin InFlight
    BY DEF InFlight, Enter, Goto, TypeOK
  <1>2. Cardinality(InFlight') = Cardinality(InFlight) + 1
    BY <1>1, InFlightFinite, FS_AddElement
  <1> QED
    BY <1>2 DEF Counted, Enter

\* A body in flight that leaves takes one away.
LEMMA LeaveCounts ==
    ASSUME TypeOK, Counted, NEW b \in InFlight, Leave(b)
    PROVE  Counted'
  <1>1. InFlight' = InFlight \ {b}
    BY DEF InFlight, Leave, TypeOK
  <1>2. Cardinality(InFlight') = Cardinality(InFlight) - 1
    BY <1>1, InFlightFinite, FS_RemoveElement
  <1> QED
    BY <1>2 DEF Counted, Leave

\* A body that only moves on is still counted.
LEMMA GotoCounts ==
    ASSUME TypeOK, Counted, NEW b \in Body, NEW from, NEW to, Goto(b, from, to),
           UNCHANGED fireWG,
           from \in {"idle", "armed", "fired"} <=> to \in {"idle", "armed", "fired"}
    PROVE  Counted'
  <1>1. InFlight' = InFlight
    BY DEF InFlight, Goto, TypeOK
  <1> QED
    BY <1>1 DEF Counted

-----------------------------------------------------------------------------
\* Only one variable is Boolean; it stays so.
LEMMA ReloadAttached == ASSUME TypeOK, NEW b \in Body, Reload(b) PROVE attached' \in BOOLEAN
  <1>1. attached' = attached \/ attached' = TRUE \/ attached' = FALSE
    BY ZenonT(30) DEF Reload, Fire, Enter, Detach, Attach, Load, Deliver, CallbackReturns, fileVars
  <1> QED BY <1>1, Zenon DEF TypeOK

\* Every reload body keeps the types.
LEMMA ReloadTypes == ASSUME TypeOK, NEW b \in Body, Reload(b) PROVE TypeOK'
  <1>0. attached' \in BOOLEAN BY ReloadAttached
  <1> USE <1>0 DEF TypeOK, Reload, Goto, Leave, fileVars
  <1>1. CASE Fire(b)            BY <1>1 DEF Fire
  <1>2. CASE Enter(b)           BY <1>2 DEF Enter
  <1>3. CASE Detach(b)
    <2>1. CASE Stopped /\ Leave(b) /\ UNCHANGED <<attached, tries>>
      BY <1>3, <2>1 DEF Detach
    <2>2. CASE ~Stopped
      BY <1>3, <2>2, BoundAssumption DEF Detach
    <2> QED BY <1>3, <2>1, <2>2 DEF Detach
  <1>4. CASE Attach(b)          BY <1>4, BoundAssumption DEF Attach
  <1>5. CASE Load(b)            BY <1>5 DEF Load
  <1>6. CASE Deliver(b)         BY <1>6 DEF Deliver
  <1>7. CASE CallbackReturns(b) BY <1>7 DEF CallbackReturns
  <1> QED BY <1>1, <1>2, <1>3, <1>4, <1>5, <1>6, <1>7

\* Every reload body keeps the count.
LEMMA ReloadCounts == ASSUME TypeOK, Counted, NEW b \in Body, Reload(b) PROVE Counted'
  <1>1. CASE Fire(b)            BY <1>1, GotoCounts DEF Fire
  <1>2. CASE Enter(b)           BY <1>2, EnterCounts
  <1>3. CASE Leave(b) /\ pc[b] \notin {"idle", "armed", "fired"}
    BY <1>3, LeaveCounts DEF InFlight
  <1>4. CASE UNCHANGED <<pc, fireWG>>
    BY <1>4 DEF Counted, InFlight
  <1>5. CASE Detach(b)          BY <1>3, <1>5, GotoCounts DEF Detach
  <1>6. CASE Attach(b)          BY <1>3, <1>4, <1>6, GotoCounts DEF Attach
  <1>7. CASE Load(b)            BY <1>3, <1>7, GotoCounts DEF Load
  <1>8. CASE Deliver(b)         BY <1>3, <1>8, GotoCounts DEF Deliver
  <1>9. CASE CallbackReturns(b) BY <1>3, <1>9 DEF CallbackReturns
  <1> QED BY <1>1, <1>2, <1>5, <1>6, <1>7, <1>8, <1>9 DEF Reload

\* A reload body arms nothing and, once cancel() has returned, only leaves.
LEMMA ReloadStaysQuiet ==
    ASSUME IInv, NEW b \in Body, Reload(b)
    PROVE  OneTimerArmed' /\ NothingArmed' /\ LoopJoined' /\ QuietAfterCancel'
  <1> USE DEF IInv, TypeOK, OneTimerArmed, NothingArmed, LoopJoined, QuietAfterCancel,
              Reload, Goto, Leave, Stopped
  <1>1. CASE Fire(b)            BY <1>1 DEF Fire
  <1>2. CASE Enter(b)           BY <1>2 DEF Enter
  <1>3. CASE Detach(b)          BY <1>3 DEF Detach
  <1>4. CASE Attach(b)          BY <1>4 DEF Attach
  <1>5. CASE Load(b)            BY <1>5 DEF Load
  <1>6. CASE Deliver(b)         BY <1>6 DEF Deliver
  <1>7. CASE CallbackReturns(b) BY <1>7 DEF CallbackReturns
  <1> QED BY <1>1, <1>2, <1>3, <1>4, <1>5, <1>6, <1>7

\* Stopping or replacing the pending timer does not touch a body in flight.
LEMMA TimerStoppedFact ==
    ASSUME TypeOK, OneTimerArmed, NEW b \in Body
    PROVE  /\ TimerStopped[b] # "armed"
           /\ TimerStopped[b] \notin {"idle", "armed", "fired"}
                <=> pc[b] \notin {"idle", "armed", "fired"}
           /\ pc[b] \in {"idle", "fired", "entered"} =>
                TimerStopped[b] \in {"idle", "fired", "entered"}
  BY DEF TypeOK, OneTimerArmed, TimerStopped

\* The event loop.
LEMMA LoopStep == ASSUME IInv, Loop PROVE IInv'
  <1> USE DEF IInv, TypeOK, OneTimerArmed, Counted, InFlight, NothingArmed, LoopJoined,
              QuietAfterCancel, fileVars, bodyVars, Stopped
  <1>1. CASE Receive          BY <1>1 DEF Receive
  <1>2. CASE LockAndCheckStop BY <1>2 DEF LockAndCheckStop
  <1>3. CASE Arm
    <2>1. PICK b \in Body : /\ TimerStopped[b] = "idle"
                            /\ pc' = [TimerStopped EXCEPT ![b] = "armed"]
                            /\ timer' = b
      BY <1>3 DEF Arm
    <2>2. TypeOK'
      BY <1>3, <2>1 DEF Arm, TimerStopped
    <2>3. OneTimerArmed'
      BY <2>1, TimerStoppedFact DEF TimerStopped
    <2>4. InFlight' = InFlight
      BY <2>1, TimerStoppedFact DEF TimerStopped
    <2>5. NothingArmed' /\ LoopJoined' /\ QuietAfterCancel'
      BY <1>3, <2>1 DEF Arm
    <2> QED BY <1>3, <2>2, <2>3, <2>4, <2>5 DEF Arm
  <1>4. CASE ExitLoop         BY <1>4 DEF ExitLoop
  <1> QED BY <1>1, <1>2, <1>3, <1>4 DEF Loop

\* cancel().  JoinReloads passes only when no body is in flight.
LEMMA CancelStep == ASSUME IInv, CloseStopFlag \/ Cancel PROVE IInv'
  <1> USE DEF IInv, TypeOK, OneTimerArmed, Counted, NothingArmed, LoopJoined,
              QuietAfterCancel, fileVars, bodyVars, Stopped
  <1>1. CASE CloseStopFlag  BY <1>1 DEF CloseStopFlag, InFlight
  <1>2. CASE StopTimer
    <2>1. InFlight' = InFlight
      BY <1>2, TimerStoppedFact DEF StopTimer, InFlight, TimerStopped
    <2>2. TypeOK' /\ OneTimerArmed' /\ NothingArmed'
      BY <1>2, TimerStoppedFact DEF StopTimer, TimerStopped
    <2> QED BY <1>2, <2>1, <2>2 DEF StopTimer
  <1>3. CASE JoinLoop       BY <1>3 DEF JoinLoop, InFlight
  <1>4. CASE JoinReloads
    <2>1. InFlight = {}
      BY <1>4, InFlightFinite, FS_EmptySet DEF JoinReloads
    <2>2. \A b \in Body : pc[b] \in {"idle", "fired"}
      BY <1>4, <2>1 DEF JoinReloads, InFlight
    <2> QED BY <1>4, <2>2 DEF JoinReloads, InFlight
  <1> QED BY <1>1, <1>2, <1>3, <1>4 DEF Cancel

\* The environment only touches the file, the watch and the events.
LEMMA EnvironmentStep == ASSUME IInv, Environment PROVE IInv'
  <1>1. attached' \in BOOLEAN
    BY Zenon DEF IInv, TypeOK, Environment, Write, Replace, WatchError
  <1>2. TypeOK'
    BY <1>1 DEF IInv, TypeOK, Environment, Write, Replace, WatchError, bodyVars
  <1> QED
    BY <1>2 DEF IInv, OneTimerArmed, Counted, InFlight, NothingArmed, LoopJoined,
                QuietAfterCancel, Environment, bodyVars

-----------------------------------------------------------------------------
\* IInv is an invariant of WatchConfig.
THEOREM Invariance == Spec => []IInv
  <1>1. Init => IInv
    <2> SUFFICES ASSUME Init PROVE IInv
      OBVIOUS
    <2>1. InFlight = {}
      BY DEF Init, InFlight
    <2> QED
      BY <2>1, FS_EmptySet, BodyAssumption, BoundAssumption
      DEF Init, IInv, TypeOK, OneTimerArmed, Counted, NothingArmed, LoopJoined, QuietAfterCancel
  <1>2. IInv /\ [Next]_vars => IInv'
    <2> SUFFICES ASSUME IInv, [Next]_vars PROVE IInv'
      OBVIOUS
    <2>1. CASE Environment             BY <2>1, EnvironmentStep
    <2>2. CASE Loop                    BY <2>2, LoopStep
    <2>3. CASE CloseStopFlag \/ Cancel BY <2>3, CancelStep
    <2>4. ASSUME NEW b \in Body, Reload(b) PROVE IInv'
      BY <2>4, ReloadTypes, ReloadCounts, ReloadStaysQuiet DEF IInv
    <2>5. CASE UNCHANGED vars
      BY <2>5 DEF IInv, TypeOK, OneTimerArmed, Counted, InFlight, NothingArmed, LoopJoined,
                  QuietAfterCancel, vars, fileVars, bodyVars
    <2> QED BY <2>1, <2>2, <2>3, <2>4, <2>5 DEF Next, Finished
  <1> QED BY <1>1, <1>2, PTL DEF Spec

\* Every variable of the watcher has its type.
THEOREM TypeCorrect == Spec => []TypeOK
  <1>1. IInv => TypeOK BY DEF IInv
  <1> QED BY <1>1, Invariance, PTL

\* At most one reload is pending, however events and cancel() interleave.
THEOREM Debounced == Spec => []OneTimerArmed
  <1>1. IInv => OneTimerArmed BY DEF IInv
  <1> QED BY <1>1, Invariance, PTL

\* When cancel() has returned, nothing is left that could call the callback.
THEOREM CancelQuiesces == Spec => []QuietAfterCancel
  <1>1. IInv => QuietAfterCancel BY DEF IInv
  <1> QED BY <1>1, Invariance, PTL

\* The callback installs nothing once cancel() has returned.
THEOREM NoUseAfterCancel == Spec => NoReloadAfterCancel
  <1>1. IInv /\ [Next]_vars => [cancel = "returned" => applied' = applied]_vars
    <2> SUFFICES ASSUME IInv, Next, cancel = "returned" PROVE applied' = applied
      BY DEF vars
    <2>1. ASSUME NEW b \in Body, Reload(b) PROVE applied' = applied
      <3>1. pc[b] # "calling"
        BY DEF IInv, QuietAfterCancel
      <3> QED
        BY <2>1, <3>1 DEF Reload, Fire, Enter, Detach, Attach, Load, Deliver, CallbackReturns
    <2> QED
      BY <2>1 DEF Next, Environment, Loop, Receive, LockAndCheckStop, Arm, ExitLoop,
                  CloseStopFlag, Cancel, StopTimer, JoinLoop, JoinReloads, Finished,
                  vars, bodyVars
  <1> QED BY <1>1, Invariance, PTL DEF Spec, NoReloadAfterCancel
=============================================================================
