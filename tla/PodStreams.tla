------------------------------ MODULE PodStreams ------------------------------
(***************************************************************************)
(* The console's log sources (web/handler.go): a goroutine that watches    *)
(* the pods of its namespace and keeps one streamer goroutine per running  *)
(* pod, each with a context of its own in the map activeStreams.           *)
(*                                                                         *)
(* The API server is external: a watch begins with an event for each pod   *)
(* there is, delivers changes in order, and may break off at any time.     *)
(***************************************************************************)
EXTENDS Naturals, Sequences, FiniteSets

CONSTANTS
    Pod,
    MaxChange, \* bound: changes of pods
    MaxBreak,  \* bound: watches that break off
    MaxStream  \* bound: streamers alive at a time, and those still registered

VARIABLES
    pods,     \* the phase of each pod, "absent" when there is none
    changes,  \* changes so far
    breaks,   \* broken watches so far
    ctxDone,  \* the context of the console is done
    watcher,  \* where the watching goroutine is
    open,     \* its watch is open
    events,   \* events in the channel of the watch
    active,   \* activeStreams: the streamer registered for each pod, or 0
    streamer  \* the streamers: whose logs, where they are, whether cancelled

podVars == <<pods, changes>>
watchVars == <<watcher, open, events, breaks>>
streamVars == <<active, streamer>>
vars == <<podVars, ctxDone, watchVars, streamVars>>

Phase == {"absent", "pending", "running"}
Stream == 1 .. MaxStream
Event == [type : {"ADDED", "MODIFIED", "DELETED"}, pod : Pod, phase : Phase]
Streamer == [pod : Pod \cup {"none"}, at : {"none", "opening", "tailing", "ended"}, cancelled : BOOLEAN]
NoStreamer == [pod |-> "none", at |-> "none", cancelled |-> FALSE]

Init ==
    /\ pods \in [Pod -> {"absent", "running"}] /\ changes = 0 /\ breaks = 0 /\ ctxDone = FALSE
    /\ watcher = "select" /\ open = FALSE /\ events = <<>>
    /\ active = [p \in Pod |-> 0] /\ streamer = [s \in Stream |-> NoStreamer]

\* A process outside Kubernetes: nothing of this module runs in it.
Over ==
    /\ pods = [p \in Pod |-> "absent"] /\ changes = MaxChange /\ breaks = 0 /\ ctxDone = TRUE
    /\ watcher = "returned" /\ open = FALSE /\ events = <<>>
    /\ active = [p \in Pod |-> 0] /\ streamer = [s \in Stream |-> NoStreamer]

-----------------------------------------------------------------------------
\* The scheduler of the cluster: a pod starts, runs, and goes; a name may come back.
Change(p) ==
    /\ changes < MaxChange /\ changes' = changes + 1
    /\ \E phase \in Phase \ {pods[p]} :
        /\ phase = "pending" => pods[p] = "absent"
        /\ pods' = [pods EXCEPT ![p] = phase]
        /\ events' = IF ~open THEN events ELSE
                     Append(events, [pod |-> p, phase |-> phase,
                                     type |-> CASE pods[p] = "absent" -> "ADDED"
                                                [] phase = "absent"   -> "DELETED"
                                                [] OTHER              -> "MODIFIED"])
    /\ UNCHANGED <<breaks, ctxDone, watcher, open, streamVars>>

\* The connection breaks, an error event stops the watch, or its context is
\* done: the channel is closed, with what was still on the way lost.
Break ==
    /\ open /\ open' = FALSE
    /\ breaks' = IF ctxDone THEN breaks ELSE breaks + 1
    /\ ctxDone \/ breaks < MaxBreak
    /\ \E n \in 0 .. Len(events) : events' = SubSeq(events, 1, n)
    /\ UNCHANGED <<podVars, ctxDone, watcher, streamVars>>

Cancel == ~ctxDone /\ ctxDone' = TRUE /\ UNCHANGED <<podVars, watchVars, streamVars>>

-----------------------------------------------------------------------------
\* The watching goroutine.

\* Mutant: the map is emptied, and nobody is told to stop.
StopAllForgetting == active' = [p \in Pod |-> 0] /\ UNCHANGED streamer

\* stopAll: every registered streamer is cancelled.
StopAll ==
    /\ active' = [p \in Pod |-> 0]
    /\ streamer' = [s \in Stream |->
            IF \E p \in Pod : active[p] = s THEN [streamer[s] EXCEPT !.cancelled = TRUE] ELSE streamer[s]]

Return ==
    /\ watcher \in {"select", "backoff"} /\ ctxDone
    /\ watcher' = "returned" /\ StopAll
    /\ UNCHANGED <<podVars, ctxDone, open, events, breaks>>

\* Watch, without a resourceVersion: it begins with the pods there are, in any order.
Present == {p \in Pod : pods[p] # "absent"}
Listed(order) == [i \in DOMAIN order |-> [type |-> "ADDED", pod |-> order[i], phase |-> pods[order[i]]]]

Watch ==
    /\ watcher = "select" /\ ~ctxDone /\ watcher' = "consuming" /\ open' = TRUE
    /\ \E order \in [1 .. Cardinality(Present) -> Present] :
        /\ \A i, j \in DOMAIN order : order[i] = order[j] => i = j
        /\ events' = Listed(order)
    /\ UNCHANGED <<podVars, ctxDone, breaks, streamVars>>

WatchFails ==
    /\ watcher = "select" /\ watcher' = "backoff"
    /\ UNCHANGED <<podVars, ctxDone, open, events, breaks, streamVars>>

Backoff ==
    /\ watcher = "backoff" /\ watcher' = "select"
    /\ UNCHANGED <<podVars, ctxDone, open, events, breaks, streamVars>>

\* A streamer is free again when it has ended and nobody holds its cancel.
Free == {s \in Stream : streamer[s].at \in {"none", "ended"} /\ \A p \in Pod : active[p] # s}

Attach(p) ==
    \E s \in Free :
        /\ \A r \in Free : s <= r
        /\ active' = [active EXCEPT ![p] = s]
        /\ streamer' = [streamer EXCEPT ![s] = [pod |-> p, at |-> "opening", cancelled |-> FALSE]]

Detach(p) ==
    /\ active' = [active EXCEPT ![p] = 0]
    /\ streamer' = [streamer EXCEPT ![active[p]].cancelled = TRUE]

\* Mutant: a pod that comes to run after it was added is passed over.
WantsStreamAdded(e) == e.type = "ADDED" /\ e.phase = "running" /\ active[e.pod] = 0

\* A running pod that has no streamer yet.
WantsStream(e) == e.type \in {"ADDED", "MODIFIED"} /\ e.phase = "running" /\ active[e.pod] = 0
LosesStream(e) == e.type = "DELETED" /\ active[e.pod] # 0

Consume ==
    /\ watcher = "consuming" /\ events # <<>> /\ events' = Tail(events)
    /\ LET e == Head(events) IN
        \/ WantsStream(e) /\ Attach(e.pod)
        \/ LosesStream(e) /\ Detach(e.pod)
        \/ ~WantsStream(e) /\ ~LosesStream(e) /\ UNCHANGED streamVars
    /\ UNCHANGED <<podVars, ctxDone, watcher, open, breaks>>

\* The channel is closed: all streamers are torn down.
Reconnect ==
    /\ watcher = "consuming" /\ ~open /\ events = <<>>
    /\ watcher' = "select" /\ StopAll
    /\ UNCHANGED <<podVars, ctxDone, open, events, breaks>>

-----------------------------------------------------------------------------
\* A streamer: its stream is opened, or fails; it ends by itself, because its
\* container ends or a line is too long, or when it is cancelled.
StreamerStep(s) ==
    /\ \/ /\ streamer[s].at = "opening" /\ ~streamer[s].cancelled /\ ~ctxDone
          /\ streamer' = [streamer EXCEPT ![s].at = "tailing"]
       \/ /\ streamer[s].at \in {"opening", "tailing"}
          /\ streamer' = [streamer EXCEPT ![s].at = "ended"]
    /\ UNCHANGED <<podVars, ctxDone, watchVars, active>>

Live(s) == streamer[s].at \in {"opening", "tailing"}

Watcher == Return \/ Watch \/ WatchFails \/ Backoff \/ Consume \/ Reconnect
Next ==
    \/ Watcher \/ Break \/ Cancel
    \/ \E p \in Pod : Change(p)
    \/ \E s \in Stream : StreamerStep(s)

\* Goroutines run; an API server that is asked again and again answers some
\* watch; a done context ends watches and streams.
Fairness ==
    /\ WF_vars(Watcher) /\ SF_vars(Watch) /\ WF_vars(Return) /\ WF_vars(Break /\ ctxDone)
    /\ \A s \in Stream : WF_vars(StreamerStep(s) /\ (streamer[s].cancelled \/ ctxDone))

Spec == Init /\ [][Next]_vars
FairSpec == Spec /\ Fairness

-----------------------------------------------------------------------------
\* Every variable has its type.
TypeOK ==
    /\ pods \in [Pod -> Phase] /\ changes \in 0 .. MaxChange /\ breaks \in 0 .. MaxBreak
    /\ ctxDone \in BOOLEAN /\ watcher \in {"select", "backoff", "consuming", "returned"}
    /\ open \in BOOLEAN /\ events \in Seq(Event)
    /\ active \in [Pod -> Stream \cup {0}] /\ streamer \in [Stream -> Streamer]

\* A streamer that nobody told to stop is the one registered for its pod: no
\* pod is tailed twice, and none is tailed that nobody can detach.
NoOrphanStream ==
    \A s \in Stream : Live(s) /\ ~streamer[s].cancelled => active[streamer[s].pod] = s

\* A pod that runs for good gets a streamer for good, which ends by itself only,
\* however often the watch broke off before.
RunningPodIsTailed ==
    \A p \in Pod :
        <>[](pods[p] = "running" /\ ~ctxDone) =>
            <>[](active[p] # 0 /\ streamer[active[p]].pod = p /\ ~streamer[active[p]].cancelled)

\* The watcher and the streamers end with the context.
StreamsStop == ctxDone ~> (watcher = "returned" /\ \A s \in Stream : ~Live(s))

\* A statement the code does not keep, and no run checks (see README.md): that
\* streamer never ends for good.  One that ends by itself stays registered, and
\* the pod is not tailed again until it is deleted or the watch breaks off.
RunningPodStaysTailed ==
    \A p \in Pod : <>[](pods[p] = "running" /\ ~ctxDone) => []<>(active[p] # 0 /\ Live(active[p]))
=============================================================================
