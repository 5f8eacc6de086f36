------------------------------- MODULE Watcher -------------------------------
(***************************************************************************)
(* config.WatchConfig (pkg/config/watcher.go): the configuration file, the *)
(* fsnotify event loop, the debounced reload bodies that time.AfterFunc    *)
(* runs on goroutines of their own, and cancel().  The reload callback is  *)
(* Manager.Update, reduced to the version of the file the engine runs on.  *)
(*                                                                         *)
(* timer.Stop() cannot stop a body that has begun, so bodies overlap.      *)
(* Two steps are separate exactly where another goroutine can come between *)
(* them: fireWG.Add and the check of stopFlag, the attach, the read of the *)
(* file, the last check of stopFlag, and the return of the callback.       *)
(***************************************************************************)
EXTENDS Integers, FiniteSets

CONSTANTS
    Body,        \* goroutine slots for reload bodies, reused once idle
    None,        \* no timer was ever armed
    MaxVersion,  \* bound: how often the environment acts on the file
    MaxAttempts, \* attempts to re-attach the watch (10 in the code)
    MayVanish    \* whether the file may be missing between two versions

ASSUME BodyAssumption == IsFiniteSet(Body) /\ None \notin Body
ASSUME BoundAssumption ==
    MaxVersion \in Nat /\ MaxAttempts \in Nat \ {0} /\ MayVanish \in BOOLEAN

VARIABLES
    file,     \* the file: how often it was touched, and what it holds
    attached, \* the inotify watch is on the inode the path names
    events,   \* events and errors the loop has not received yet
    timer,    \* the body armed last
    pc,       \* where each body is
    tries,    \* failed attempts of each body to re-attach
    loaded,   \* the version each body read
    fireWG,   \* counter of the WaitGroup over the bodies in flight
    loop,     \* where the event loop is; "arm" holds timerMu
    cancel,   \* how far cancel() got; stopFlag is closed unless "open"
    applied   \* the version the callback installed last

fileVars == <<file, attached, events>>
bodyVars == <<pc, tries, loaded, fireWG, applied>>
vars == <<fileVars, timer, bodyVars, loop, cancel>>

Stopped == cancel # "open"
Present == file.holds # "nothing"
InFlight == {b \in Body : pc[b] \notin {"idle", "armed", "fired"}}

\* LoadConfig succeeded before WatchConfig was called, and watcher.Add did too.
Init ==
    /\ file = [ver |-> 0, holds |-> "valid"] /\ attached = TRUE /\ events = 0
    /\ timer = None /\ fireWG = 0 /\ applied = 0
    /\ pc = [b \in Body |-> "idle"]
    /\ tries = [b \in Body |-> 0] /\ loaded = [b \in Body |-> 0]
    /\ loop = "select" /\ cancel = "open"

-----------------------------------------------------------------------------
\* The environment.  Each act is a new version; a watched inode reports it.

\* Rewritten in place (a chmod rewrites the same contents).
Write(h) ==
    /\ Present /\ file' = [ver |-> file.ver + 1, holds |-> h]
    /\ events' = IF attached THEN events + 1 ELSE events
    /\ UNCHANGED attached

\* Renamed over, created, or (h = "nothing") removed: the watched inode goes.
Replace(h) ==
    /\ file' = [ver |-> file.ver + 1, holds |-> h]
    /\ events' = IF attached THEN events + 1 ELSE events
    /\ attached' = FALSE

\* An error on watcher.Errors: the loop answers it like an event.
WatchError == file' = [file EXCEPT !.ver = @ + 1] /\ events' = events + 1 /\ UNCHANGED attached

Environment ==
    /\ file.ver < MaxVersion
    /\ \/ \E h \in {"valid", "invalid"} : Write(h) \/ Replace(h)
       \/ MayVanish /\ Present /\ Replace("nothing")
       \/ WatchError
    /\ UNCHANGED <<timer, bodyVars, loop, cancel>>

-----------------------------------------------------------------------------
\* The event loop and scheduleReload.

\* timer.Stop(): a body that is armed never runs, any other is not affected.
TimerStopped ==
    [b \in Body |-> IF b = timer /\ pc[b] = "armed" THEN "idle" ELSE pc[b]]

Receive ==
    /\ loop = "select" /\ events > 0
    /\ events' = events - 1 /\ loop' = "schedule"
    /\ UNCHANGED <<file, attached, timer, bodyVars, cancel>>

\* Mutant: the loop arms a timer without looking at stopFlag.
LockWithoutCheck ==
    /\ loop = "schedule" /\ loop' = "arm"
    /\ UNCHANGED <<fileVars, timer, bodyVars, cancel>>

LockAndCheckStop ==
    /\ loop = "schedule" /\ loop' = IF Stopped THEN "select" ELSE "arm"
    /\ UNCHANGED <<fileVars, timer, bodyVars, cancel>>

\* Mutant: the timer is replaced, and not stopped.
ArmWithoutStop ==
    /\ loop = "arm" /\ loop' = "select"
    /\ \E b \in Body : pc[b] = "idle" /\ pc' = [pc EXCEPT ![b] = "armed"] /\ timer' = b
    /\ UNCHANGED <<fileVars, tries, loaded, fireWG, applied, cancel>>

\* Mutant: an event that arrives during a reload is taken for its echo.
ArmUnlessBusy ==
    /\ loop = "arm" /\ loop' = "select"
    /\ \/ InFlight # {} /\ UNCHANGED <<pc, timer>>
       \/ InFlight = {} /\ \E b \in Body :
            /\ TimerStopped[b] = "idle" /\ pc' = [TimerStopped EXCEPT ![b] = "armed"] /\ timer' = b
    /\ UNCHANGED <<fileVars, tries, loaded, fireWG, applied, cancel>>

Arm ==
    /\ loop = "arm" /\ loop' = "select"
    /\ \E b \in Body :
        /\ TimerStopped[b] = "idle"
        /\ pc' = [TimerStopped EXCEPT ![b] = "armed"]
        /\ timer' = b
    /\ UNCHANGED <<fileVars, tries, loaded, fireWG, applied, cancel>>

\* ctx.Done(): the loop returns, and its deferred watcher.Close() runs.
ExitLoop ==
    /\ loop = "select" /\ Stopped /\ loop' = "exited"
    /\ UNCHANGED <<fileVars, timer, bodyVars, cancel>>

Loop == Receive \/ LockAndCheckStop \/ Arm \/ ExitLoop

-----------------------------------------------------------------------------
\* A reload body.

Goto(b, from, to) == pc[b] = from /\ pc' = [pc EXCEPT ![b] = to]

\* Mutant: return without fireWG.Done().
LeaveUndone(b) == pc' = [pc EXCEPT ![b] = "idle"] /\ UNCHANGED fireWG

\* return, with the deferred fireWG.Done().
Leave(b) == pc' = [pc EXCEPT ![b] = "idle"] /\ fireWG' = fireWG - 1

Fire(b) == Goto(b, "armed", "fired") /\ UNCHANGED <<fileVars, tries, loaded, fireWG, applied>>

Enter(b) ==
    /\ Goto(b, "fired", "entered") /\ fireWG' = fireWG + 1
    /\ UNCHANGED <<fileVars, tries, loaded, applied>>

Detach(b) ==
    /\ pc[b] = "entered"
    /\ \/ Stopped /\ Leave(b) /\ UNCHANGED <<attached, tries>>
       \/ /\ ~Stopped /\ Goto(b, "entered", "attaching")
          /\ attached' = FALSE /\ tries' = [tries EXCEPT ![b] = 0]
          /\ UNCHANGED fireWG
    /\ UNCHANGED <<file, events, loaded, applied>>

\* One round of the retry loop; the select after a failed one may see stopFlag.
Attach(b) ==
    /\ pc[b] = "attaching"
    /\ \/ /\ tries[b] < MaxAttempts /\ Present /\ loop # "exited"
          /\ attached' = TRUE /\ Goto(b, "attaching", "loading") /\ UNCHANGED <<tries, fireWG>>
       \/ /\ tries[b] < MaxAttempts /\ (~Present \/ loop = "exited")
          /\ tries' = [tries EXCEPT ![b] = @ + 1] /\ UNCHANGED <<attached, pc, fireWG>>
       \/ tries[b] > 0 /\ Stopped /\ Leave(b) /\ UNCHANGED <<attached, tries>>
       \/ /\ tries[b] = MaxAttempts
          /\ Goto(b, "attaching", "loading") /\ UNCHANGED <<attached, tries, fireWG>>
    /\ UNCHANGED <<file, events, loaded, applied>>

\* LoadConfig and Validate; a missing or invalid file skips the reload.
Load(b) ==
    /\ pc[b] = "loading"
    /\ \/ /\ file.holds = "valid" /\ Goto(b, "loading", "loaded")
          /\ loaded' = [loaded EXCEPT ![b] = file.ver] /\ UNCHANGED fireWG
       \/ file.holds # "valid" /\ Leave(b) /\ UNCHANGED loaded
    /\ UNCHANGED <<fileVars, tries, applied>>

Deliver(b) ==
    /\ pc[b] = "loaded"
    /\ \/ Stopped /\ Leave(b)
       \/ ~Stopped /\ Goto(b, "loaded", "calling") /\ UNCHANGED fireWG
    /\ UNCHANGED <<fileVars, tries, loaded, applied>>

CallbackReturns(b) ==
    /\ pc[b] = "calling" /\ Leave(b) /\ applied' = loaded[b]
    /\ UNCHANGED <<fileVars, tries, loaded>>

Reload(b) ==
    /\ \/ Fire(b) \/ Enter(b) \/ Detach(b) \/ Attach(b)
       \/ Load(b) \/ Deliver(b) \/ CallbackReturns(b)
    /\ UNCHANGED <<timer, loop, cancel>>

-----------------------------------------------------------------------------
\* cancel(), called once.

CloseStopFlag ==
    /\ cancel = "open" /\ cancel' = "closed"
    /\ UNCHANGED <<fileVars, timer, bodyVars, loop>>

StopTimer ==
    /\ cancel = "closed" /\ loop # "arm" /\ cancel' = "joining"
    /\ pc' = TimerStopped
    /\ UNCHANGED <<fileVars, timer, tries, loaded, fireWG, applied, loop>>

JoinLoop ==
    /\ cancel = "joining" /\ loop = "exited" /\ cancel' = "draining"
    /\ UNCHANGED <<fileVars, timer, bodyVars, loop>>

\* Mutant: cancel() does not wait for the bodies in flight.
JoinNothing ==
    /\ cancel = "draining" /\ cancel' = "returned"
    /\ UNCHANGED <<fileVars, timer, bodyVars, loop>>

JoinReloads ==
    /\ cancel = "draining" /\ fireWG = 0 /\ cancel' = "returned"
    /\ UNCHANGED <<fileVars, timer, bodyVars, loop>>

Cancel == StopTimer \/ JoinLoop \/ JoinReloads
Finished == cancel = "returned" /\ UNCHANGED vars

Next ==
    \/ Environment \/ Loop \/ CloseStopFlag \/ Cancel \/ Finished
    \/ \E b \in Body : Reload(b)

\* Every goroutine keeps running; only the owner decides whether to cancel.
Fairness == WF_vars(Loop) /\ WF_vars(Cancel) /\ \A b \in Body : WF_vars(Reload(b))

Spec == Init /\ [][Next]_vars
FairSpec == Spec /\ Fairness

-----------------------------------------------------------------------------
\* Every variable has its type.
TypeOK ==
    /\ file \in [ver : Nat, holds : {"valid", "invalid", "nothing"}]
    /\ attached \in BOOLEAN /\ events \in Nat
    /\ timer \in Body \cup {None}
    /\ pc \in [Body -> {"idle", "armed", "fired", "entered", "attaching",
                        "loading", "loaded", "calling"}]
    /\ tries \in [Body -> 0..MaxAttempts]
    /\ loaded \in [Body -> Nat]
    /\ fireWG \in Int /\ applied \in Nat
    /\ loop \in {"select", "schedule", "arm", "exited"}
    /\ cancel \in {"open", "closed", "joining", "draining", "returned"}

\* Once cancel() has returned nothing of the watcher is left that could call
\* the callback or wake up later: the loop is gone, no timer is armed, and a
\* body that fired too late for fireWG.Wait() has its check of stopFlag ahead.
QuietAfterCancel ==
    cancel = "returned" =>
        loop = "exited" /\ \A b \in Body : pc[b] \in {"idle", "fired", "entered"}

\* A burst of events leaves one reload pending: rearming under timerMu always
\* stops the body that was armed before.
OneTimerArmed == \A b \in Body : pc[b] = "armed" => b = timer

\* The callback never runs once cancel() has returned (the use after cancel
\* that TestWatchConfig_CancelWaitsForInFlightReload looks for).
NoReloadAfterCancel == [][cancel = "returned" => applied' = applied]_vars

\* cancel() returns: the loop and every body in flight let it.
CancelReturns == (cancel = "closed") ~> (cancel = "returned")

\* Whenever the environment leaves a valid file alone, the engine comes to
\* run on it, unless the watcher is cancelled.
EngineFollowsFile == []<>(applied = file.ver \/ file.holds # "valid" \/ Stopped)

\* A file that is back is watched again, unless the watcher is cancelled.
WatchReattached == []<>(attached \/ ~Present \/ Stopped)

\* Both hold only while no body runs out of attempts to re-attach the watch,
\* and the first only while reload bodies do not overlap.
Patient == \A b \in Body : tries[b] < MaxAttempts
Apart == Cardinality(InFlight) <= 1

PatientEngineFollows ==
    /\ []Patient => WatchReattached
    /\ [](Patient /\ Apart) => EngineFollowsFile
=============================================================================
