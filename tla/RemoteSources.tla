----------------------------- MODULE RemoteSources -----------------------------
(***************************************************************************)
(* The remote sources of an engine: configurations over Redis and from a   *)
(* ConfigMap, and the logs of pods.  Each has goroutines and state of its  *)
(* own, all end with the context of main, and a behaviour is about one.    *)
(***************************************************************************)
EXTENDS RedisSensor

CONSTANTS MaxVersion, MaxOther, Pod, MaxChange, MaxBreak, MaxStream

ASSUME SourcesAssumption ==
    /\ MaxVersion \in Nat \ {0} /\ MaxOther \in Nat
    /\ IsFiniteSet(Pod) /\ "none" \notin Pod
    /\ MaxChange \in Nat /\ MaxBreak \in Nat /\ MaxStream \in Nat

VARIABLES
    map, api, mapDone, mapSensor, answer, lastVersion, mapStatus, mapEngine, past, other,
    pods, changes, breaks, podsDone, watcher, open, events, active, streamer

mapVars == <<map, api, mapDone, mapSensor, answer, lastVersion, mapStatus, mapEngine, past, other>>
podVars == <<pods, changes, breaks, podsDone, watcher, open, events, active, streamer>>
allVars == <<vars, mapVars, podVars>>

ConfigMap == INSTANCE ConfigMapSensor WITH
    ctxDone <- mapDone, sensor <- mapSensor, status <- mapStatus, engine <- mapEngine
Pods == INSTANCE PodStreams WITH ctxDone <- podsDone

\* One source runs, the others are over.
SourcesInit ==
    \/ Init /\ ConfigMap!Over /\ Pods!Over
    \/ Over /\ ConfigMap!Init /\ Pods!Over
    \/ Over /\ ConfigMap!Over /\ Pods!Init

SourcesNext ==
    \/ Next /\ UNCHANGED <<mapVars, podVars>>
    \/ ConfigMap!Next /\ UNCHANGED <<vars, podVars>>
    \/ Pods!Next /\ UNCHANGED <<vars, mapVars>>

SourcesSpec ==
    /\ SourcesInit /\ [][SourcesNext]_allVars
    /\ Fairness /\ ConfigMap!Fairness /\ Pods!Fairness

-----------------------------------------------------------------------------
\* Every variable has its type.
SourcesTypeOK == TypeOK /\ ConfigMap!TypeOK /\ Pods!TypeOK

\* The sensor of Redis stays in its fleet: it gets back to its channel after any
\* outage, and while the process runs a payload that was applied is acknowledged.
FleetInSync == SensorReturns /\ AppliedIsAcked

\* A version of the ConfigMap is applied once at most, and in order.
AppliedOnceInOrder == ConfigMap!AppliedOnceInOrder

\* The engine comes to run on the ConfigMap as it is left.
EngineFollowsMap == ConfigMap!EngineFollowsMap

\* No pod is tailed twice, and none by a streamer that nobody can detach.
NoOrphanStream == Pods!NoOrphanStream

\* A pod that runs for good gets a streamer, however often the watch broke off.
RunningPodIsTailed == Pods!RunningPodIsTailed

\* Every goroutine of a source ends with the context of main, and the process
\* with those of its WaitGroup.
AllStop ==
    /\ ProcessExits
    /\ ConfigMap!SensorStops
    /\ Pods!StreamsStop
=============================================================================
