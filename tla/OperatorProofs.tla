--------------------------- MODULE OperatorProofs ---------------------------
(***************************************************************************)
(* What holds of the operator for any policies, and any number of lost     *)
(* POSTs, crashes and restarts of the engine.                              *)
(*                                                                         *)
(* A resource only moves forward, so what the worker read is no newer than *)
(* the cache, and the cache no newer than the server.  If a write of the   *)
(* worker goes through, nothing had changed since its read, and the policy *)
(* was therefore among those it collected.                                 *)
(***************************************************************************)
EXTENDS Operator, TLAPS

\* Reading r may be older than reading s of the same resource: neither a state
\* nor the phase of a live resource is ever taken back.
Behind(r, s) ==
    /\ s.state = "none" => r.state = "none"
    /\ s.state = "live" => r.state \in {"none", "live"}
    /\ s.state = "live" /\ r.state = "live" /\ s.phase # "Expired" => r.phase # "Expired"

Busy == worker.pc # "idle"

\* Whoever is asked later knows more: the worker, the cache, the server.
Trails == \A p \in Policy : Behind(cache[p], server[p])
ReadTrails == Busy => worker.key \in Policy /\ Behind(worker.read, cache[worker.key])

\* A phase is given to what the informer has seen.
Noticed == \A p \in Policy : /\ server[p].state = "none" => server[p].phase = ""
                             /\ server[p].phase # "" => cache[p].state # "none"

\* What the worker read, by what it does about it.
Reads ==
    /\ worker.pc = "idle" => worker = Idle
    /\ worker.pc = "guard" => worker.read.state = "live"
    /\ worker.pc \in {"flush", "post-flush", "release"} => worker.read.state = "deleting"
    /\ worker.pc \in {"expire", "post-expire", "mark-expired"} =>
            /\ worker.key \in over
            /\ worker.read.state = "live" /\ worker.read.phase # ""
    /\ worker.pc \in {"apply", "post-apply", "mark-applied"} =>
            worker.read.state = "live" /\ worker.read.phase # "Expired"

\* A policy that is about to be released is not sent, and not loaded.
Excluded ==
    /\ worker.pc = "post-flush" => worker.key \notin payload
    /\ worker.pc = "release" => worker.key \notin engine

IInv == TypeOK /\ Trails /\ ReadTrails /\ Noticed /\ Reads /\ Excluded

-----------------------------------------------------------------------------
\* Nothing is behind itself, and what is behind adds up.
LEMMA BehindSelf == \A r : Behind(r, r)
BY DEF Behind

LEMMA BehindAll == \A r, s, t : Behind(r, s) /\ Behind(s, t) => Behind(r, t)
BY DEF Behind

\* The shapes of what the worker handles.
LEMMA Shapes ==
    ASSUME TypeOK
    PROVE  /\ worker.read \in Resource /\ worker.key \in Policy \cup {None}
           /\ \A p \in Policy : server[p] \in Resource /\ cache[p] \in Resource
BY DEF TypeOK

\* A resource that changes as its life goes.
LEMMA Forward ==
    ASSUME NEW r \in Resource
    PROVE  /\ r.state = "none" => Behind(r, [r EXCEPT !.state = "live"])
           /\ r.state = "live" => Behind(r, [r EXCEPT !.state = "deleting"])
                                  /\ Behind(r, [r EXCEPT !.state = "gone"])
           /\ Behind(r, [r EXCEPT !.finalizer = TRUE])
           /\ Behind(r, [r EXCEPT !.finalizer = FALSE, !.state = "gone"])
           /\ Behind(r, [r EXCEPT !.phase = "Expired"])
           /\ r.phase # "Expired" => Behind(r, [r EXCEPT !.phase = "Applied"])
BY DEF Behind, Resource

LEMMA Initially == Init => IInv
<1> SUFFICES ASSUME Init PROVE IInv
  OBVIOUS
<1>1. Absent \in Resource /\ worker = Idle /\ Idle.pc = "idle" /\ Idle.key = None /\ Idle.read = Absent
  BY DEF Init, Absent, Idle, Resource
<1>2. TypeOK
  BY <1>1, OperatorAssumption DEF Init, TypeOK, Idle, AfterPost
<1>3. \A p \in Policy : server[p] = Absent /\ cache[p] = Absent
  BY DEF Init
<1>4. Trails /\ Noticed
  <2>1. Absent.state = "none" /\ Absent.phase = ""
    BY DEF Absent
  <2> QED
    BY <1>3, <2>1, BehindSelf DEF Trails, Noticed
<1>5. ReadTrails /\ Reads /\ Excluded
  BY <1>1 DEF ReadTrails, Reads, Excluded, Busy
<1> QED
  BY <1>2, <1>4, <1>5 DEF IInv

-----------------------------------------------------------------------------
\* A resource of the cluster moves forward, and nobody else does anything.
LEMMA ServerMoves ==
    ASSUME IInv, NEW p \in Policy, NEW r \in Resource, server' = [server EXCEPT ![p] = r],
           Behind(server[p], r), r.state # "none", r.phase = server[p].phase,
           UNCHANGED <<spec, cache, over, queueVars, worker, payload, engine, boundVars>>
    PROVE  IInv'
<1>1. TypeOK'
  BY DEF IInv, TypeOK, queueVars, boundVars, Timed, Invalid
<1>2. server'[p] = r /\ \A q \in Policy \ {p} : server'[q] = server[q]
  BY DEF IInv, TypeOK
<1>3. Trails'
  BY <1>2, BehindAll DEF IInv, Trails
<1>4. Noticed'
  BY <1>2 DEF IInv, Noticed
<1> QED
  BY <1>1, <1>3, <1>4 DEF IInv, ReadTrails, Reads, Excluded, Busy

LEMMA UserStep == ASSUME IInv, NEW p \in Policy, Create(p) \/ Delete(p) PROVE IInv'
<1>1. server \in [Policy -> Resource] /\ server[p] \in Resource
  BY DEF IInv, TypeOK
<1>2. CASE Create(p)
  <2> DEFINE r == [server[p] EXCEPT !.state = "live"]
  <2>1. r \in Resource /\ r.state # "none" /\ r.phase = server[p].phase
    BY <1>1 DEF Resource
  <2>2. Behind(server[p], r)
    BY <1>1, <1>2, Forward DEF Create
  <2>3. server' = [server EXCEPT ![p] = r]
    BY <1>2 DEF Create
  <2> HIDE DEF r
  <2> QED
    BY <1>2, <2>1, <2>2, <2>3, ServerMoves DEF Create
<1>3. CASE Delete(p)
  <2>1. PICK state \in {"deleting", "gone"} : server' = [server EXCEPT ![p].state = state]
    BY <1>3 DEF Delete
  <2> DEFINE r == [server[p] EXCEPT !.state = state]
  <2>2. r \in Resource /\ r.state # "none" /\ r.phase = server[p].phase
    BY <1>1 DEF Resource
  <2>3. Behind(server[p], r)
    BY <1>1, <1>3, <2>1, Forward DEF Delete
  <2>4. server' = [server EXCEPT ![p] = r]
    BY <2>1
  <2> HIDE DEF r
  <2> QED
    BY <1>3, <2>2, <2>3, <2>4, ServerMoves DEF Delete
<1> QED
  BY <1>2, <1>3

\* The informer, the clock and the work queue.
LEMMA AroundStep ==
    ASSUME IInv, NEW p \in Policy, Observe(p) \/ Elapse(p) \/ Due(p) PROVE IInv'
<1>1. CASE Observe(p)
  <2>1. TypeOK'
    BY <1>1 DEF IInv, TypeOK, Observe, boundVars, Timed, Invalid
  <2>2. cache'[p] = server[p] /\ \A q \in Policy \ {p} : cache'[q] = cache[q]
    BY <1>1 DEF IInv, TypeOK, Observe
  <2>3. Trails'
    BY <1>1, <2>2, BehindSelf DEF IInv, Trails, Observe
  <2>4. ReadTrails'
    BY <1>1, <2>2, BehindAll DEF IInv, Trails, ReadTrails, Observe, Busy
  <2>5. Noticed'
    BY <1>1, <2>2 DEF IInv, Noticed, Observe
  <2> QED
    BY <1>1, <2>1, <2>3, <2>4, <2>5 DEF IInv, Reads, Excluded, Observe
<1>2. CASE Elapse(p)
  <2>1. TypeOK'
    BY <1>2 DEF IInv, TypeOK, Elapse, queueVars, boundVars, Timed, Invalid
  <2> QED
    BY <1>2, <2>1 DEF IInv, Trails, ReadTrails, Noticed, Reads, Excluded, Busy, Elapse
<1>3. CASE Due(p)
  <2>1. TypeOK'
    BY <1>3 DEF IInv, TypeOK, Due, clusterVars, boundVars, Timed, Invalid
  <2> QED
    BY <1>3, <2>1 DEF IInv, Trails, ReadTrails, Noticed, Reads, Excluded, Busy, Due, clusterVars
<1> QED
  BY <1>1, <1>2, <1>3

\* The operator begins anew, and the engine does.
LEMMA TroubleStep == ASSUME IInv, CrashOperator \/ RestartEngine PROVE IInv'
<1>0. faults \in Nat /\ crashes \in Nat /\ restarts \in Nat /\ MaxTrouble \in Nat
  BY OperatorAssumption DEF IInv, TypeOK
<1>1. CASE CrashOperator
  <2>1. worker' = Idle /\ Idle.pc = "idle" /\ Idle.key = None /\ Idle.read = Absent /\ Absent \in Resource
    BY <1>1 DEF CrashOperator, Idle, Absent, Resource
  <2>2. faults' + crashes' + restarts' <= MaxTrouble /\ crashes' \in Nat
    BY <1>0, <1>1 DEF CrashOperator, Trouble
  <2>3. TypeOK'
    BY <1>1, <2>1, <2>2 DEF IInv, TypeOK, CrashOperator, Timed, Invalid, Idle, AfterPost
  <2>4. Trails' /\ Noticed'
    BY <1>1, BehindSelf DEF IInv, Trails, Noticed, CrashOperator
  <2> QED
    BY <2>1, <2>3, <2>4 DEF IInv, ReadTrails, Reads, Excluded, Busy
<1>2. CASE RestartEngine
  <2>1. faults' + crashes' + restarts' <= MaxTrouble /\ restarts' \in Nat
    BY <1>0, <1>2 DEF RestartEngine, Trouble
  <2>2. TypeOK'
    BY <1>2, <2>1 DEF IInv, TypeOK, RestartEngine, clusterVars, queueVars, Timed, Invalid
  <2> QED
    BY <1>2, <2>2 DEF IInv, Trails, ReadTrails, Noticed, Reads, Excluded, Busy, RestartEngine, clusterVars
<1> QED
  BY <1>1, <1>2

-----------------------------------------------------------------------------
\* The worker.

LEMMA TakeStep == ASSUME IInv, NEW p \in Policy, Take(p) PROVE IInv'
<1> DEFINE r == cache[p]
<1>1. r \in Resource /\ worker = Idle
  BY DEF IInv, TypeOK, Take
<1>2. CASE UNCHANGED worker
  <2>1. TypeOK'
    BY <1>2 DEF IInv, TypeOK, Take, clusterVars, boundVars, Timed, Invalid
  <2> QED
    BY <1>2, <2>1 DEF IInv, Trails, ReadTrails, Noticed, Reads, Excluded, Busy, Take, clusterVars
<1>3. ASSUME NEW pc \in {"flush", "guard", "expire", "apply"},
             worker' = [pc |-> pc, key |-> p, read |-> r],
             pc = "flush" => r.state = "deleting",
             pc \in {"guard", "expire", "apply"} => r.state = "live",
             pc = "expire" => p \in over /\ r.phase # "",
             pc = "apply" => r.phase # "Expired"
      PROVE  IInv'
  <2>1. worker'.pc = pc /\ worker'.key = p /\ worker'.read = r
    BY <1>3
  <2>2. TypeOK'
    BY <1>1, <1>3 DEF IInv, TypeOK, Take, clusterVars, boundVars, Timed, Invalid
  <2>3. Trails' /\ Noticed' /\ over' = over /\ cache' = cache
    BY DEF IInv, Trails, Noticed, Take, clusterVars
  <2>4. ReadTrails'
    BY <2>1, <2>3, BehindSelf DEF ReadTrails
  <2>5. Reads' /\ Excluded'
    BY <1>3, <2>1, <2>3 DEF Reads, Excluded
  <2> QED
    BY <2>2, <2>3, <2>4, <2>5 DEF IInv
<1>4. \/ UNCHANGED worker
      \/ r.state = "deleting" /\ worker' = [pc |-> "flush", key |-> p, read |-> r]
      \/ r.state = "live" /\ worker' = [pc |-> "guard", key |-> p, read |-> r]
      \/ /\ r.state = "live" /\ p \in over /\ r.phase # ""
         /\ worker' = [pc |-> "expire", key |-> p, read |-> r]
      \/ /\ r.state = "live" /\ r.phase # "Expired"
         /\ worker' = [pc |-> "apply", key |-> p, read |-> r]
  BY DEF Take
<1> QED
  BY <1>2, <1>3, <1>4

\* The worker goes on, from place to place, with what it read.
LEMMA PlaceMoves ==
    ASSUME IInv, NEW pc, Do(pc), Busy, pc # "idle"
    PROVE  worker'.pc = pc /\ worker'.key = worker.key /\ worker'.read = worker.read
BY DEF IInv, TypeOK, Do

\* The worker returns.
LEMMA Returned ==
    ASSUME IInv, worker' = Idle, TypeOK', Trails', Noticed' PROVE IInv'
<1>1. Idle.pc = "idle"
  BY DEF Idle
<1> QED
  BY <1>1 DEF IInv, ReadTrails, Reads, Excluded, Busy

LEMMA CollectStep == ASSUME IInv, Collect PROVE IInv'
<1>1. PICK to \in {"post-apply", "post-flush", "post-expire"} :
        /\ Do(to) /\ Busy
        /\ to = "post-apply" => worker.pc = "apply" /\ payload' = ActiveExcluding({})
        /\ to = "post-flush" => worker.pc = "flush" /\ payload' = ActiveExcluding({Name(worker.key)})
        /\ to = "post-expire" => worker.pc = "expire" /\ payload' = ActiveExcluding({Name(worker.key)})
  BY DEF Collect, Busy
<1>2. worker'.pc = to /\ worker'.key = worker.key /\ worker'.read = worker.read
  BY <1>1, PlaceMoves
<1>3. payload' \subseteq Policy
  BY <1>1 DEF ActiveExcluding
<1>4. TypeOK'
  BY <1>1, <1>3 DEF IInv, TypeOK, Collect, Do, clusterVars, queueVars, boundVars, Timed, Invalid, AfterPost
<1>5. Trails' /\ Noticed' /\ over' = over /\ cache' = cache
  BY DEF IInv, Trails, Noticed, Collect, clusterVars
<1>6. ReadTrails' /\ Reads'
  BY <1>1, <1>2, <1>5 DEF IInv, ReadTrails, Reads, Busy
<1>7. Excluded'
  BY <1>1, <1>2 DEF Excluded, ActiveExcluding
<1> QED
  BY <1>4, <1>5, <1>6, <1>7 DEF IInv

LEMMA AcceptedStep == ASSUME IInv, PostAccepted PROVE IInv'
<1>1. /\ worker.pc \in DOMAIN AfterPost /\ DOMAIN AfterPost = {"post-flush", "post-expire", "post-apply"}
      /\ AfterPost["post-flush"] = "release" /\ AfterPost["post-expire"] = "mark-expired"
      /\ AfterPost["post-apply"] = "mark-applied"
  BY DEF PostAccepted, Posting, AfterPost
<1>2. PICK to \in {"release", "mark-expired", "mark-applied"} :
        /\ Do(to) /\ Busy
        /\ to = "release" => worker.pc = "post-flush"
        /\ to = "mark-expired" => worker.pc = "post-expire"
        /\ to = "mark-applied" => worker.pc = "post-apply"
  BY <1>1 DEF PostAccepted, Busy
<1>3. worker'.pc = to /\ worker'.key = worker.key /\ worker'.read = worker.read
  BY <1>2, PlaceMoves
<1>4. TypeOK'
  BY <1>2 DEF IInv, TypeOK, PostAccepted, Do, clusterVars, queueVars, boundVars, Timed, Invalid
<1>5. Trails' /\ Noticed' /\ over' = over /\ cache' = cache
  BY DEF IInv, Trails, Noticed, PostAccepted, clusterVars
<1>6. ReadTrails' /\ Reads'
  BY <1>2, <1>3, <1>5 DEF IInv, ReadTrails, Reads, Busy
<1>7. Excluded'
  BY <1>2, <1>3 DEF IInv, Excluded, PostAccepted
<1> QED
  BY <1>4, <1>5, <1>6, <1>7 DEF IInv

\* An entry in the delaying queue.
LEMMA LaterType ==
    ASSUME TypeOK, NEW p \in Policy, NEW when \in {"retry", "alarm"}, Later(p, when)
    PROVE  delayed' \in [Policy -> {"none", "retry", "alarm"}]
BY DEF TypeOK, Later

\* Who is at work is at work on a policy.
LEMMA AtWork == ASSUME IInv, Busy PROVE worker.key \in Policy
BY DEF IInv, ReadTrails

LEMMA FailedStep == ASSUME IInv, PostFailed PROVE IInv'
<1>1. Busy
  BY DEF PostFailed, Posting, AfterPost, Busy
<1>2. worker' = Idle /\ Idle.key = None /\ Idle.read \in Resource /\ Idle.pc = "idle"
      /\ Idle = [pc |-> Idle.pc, key |-> Idle.key, read |-> Idle.read]
  BY DEF PostFailed, Idle, Absent, Resource
<1>3. delayed' \in [Policy -> {"none", "retry", "alarm"}]
  BY <1>1, AtWork, LaterType DEF PostFailed, IInv
<1>4. faults' \in Nat /\ faults' + crashes + restarts <= MaxTrouble
  BY OperatorAssumption DEF PostFailed, IInv, TypeOK, Trouble
<1>5. engine' \subseteq Policy \ Invalid
  BY DEF PostFailed, IInv, TypeOK
<1>6. worker' \in [pc : {"idle"}, key : {None}, read : Resource]
  BY <1>2
<1>7. TypeOK'
  BY <1>3, <1>4, <1>5, <1>6 DEF IInv, TypeOK, PostFailed, clusterVars, Timed, Invalid
<1>8. Trails' /\ Noticed'
  BY DEF IInv, Trails, Noticed, PostFailed, clusterVars
<1> QED
  BY <1>2, <1>7, <1>8, Returned

\* The worker returns, or goes on to the alarm.
LEMMA Onwards ==
    ASSUME IInv, Busy, TypeOK', Trails', Noticed', cache' = cache,
           worker' = Idle \/ worker' = [worker EXCEPT !.pc = "wake"]
    PROVE  IInv'
<1>1. CASE worker' = Idle
  BY <1>1, Returned
<1>2. CASE worker' = [worker EXCEPT !.pc = "wake"]
  <2>1. worker'.pc = "wake" /\ worker'.key = worker.key /\ worker'.read = worker.read
    BY <1>2 DEF IInv, TypeOK
  <2> QED
    BY <2>1 DEF IInv, ReadTrails, Reads, Excluded, Busy
<1> QED
  BY <1>1, <1>2

\* A place for the worker has the type of one.
LEMMA PlaceType ==
    ASSUME TypeOK, worker' = Idle \/ worker' = [worker EXCEPT !.pc = "wake"], UNCHANGED spec
    PROVE  worker' \in [pc : {"idle", "flush", "guard", "expire", "apply", "release", "wake",
                              "mark-expired", "mark-applied"} \cup DOMAIN AfterPost,
                        key : Policy \cup {None}, read : Resource]
<1>1. CASE worker' = Idle
  <2>1. Absent \in Resource
    BY DEF Absent, Resource
  <2> QED
    BY <1>1, <2>1 DEF Idle
<1>2. CASE worker' = [worker EXCEPT !.pc = "wake"]
  BY <1>2 DEF TypeOK
<1> QED
  BY <1>1, <1>2

\* A write of what the worker read, moved forward; or a conflict.
LEMMA WriteStep ==
    ASSUME IInv, Busy, NEW r \in Resource, NEW next, Write(r, next),
           next = Idle \/ next = [worker EXCEPT !.pc = "wake"],
           worker.read.state # "none", r.state # "none", Behind(worker.read, r)
    PROVE  IInv'
<1> DEFINE p == worker.key
<1>1. p \in Policy /\ worker.read \in Resource /\ server \in [Policy -> Resource]
  BY AtWork DEF IInv, TypeOK
<1>2. CASE server[p] = worker.read
  <2>1. server' = [server EXCEPT ![p] = r] /\ worker' = next /\ UNCHANGED delayed
    BY <1>2 DEF Write
  <2>2. TypeOK'
    BY <1>1, <2>1, PlaceType DEF IInv, TypeOK, Write, boundVars, Timed, Invalid
  <2>3. server'[p] = r /\ \A q \in Policy \ {p} : server'[q] = server[q]
    BY <1>1, <2>1
  <2>4. cache' = cache /\ Behind(cache[p], server[p])
    BY <1>1 DEF Write, IInv, Trails
  <2>5. Trails'
    BY <1>1, <1>2, <2>3, <2>4, BehindAll DEF IInv, Trails
  <2>6. cache[p].state # "none"
    BY <1>1 DEF IInv, ReadTrails, Behind
  <2>7. Noticed'
    BY <2>3, <2>4, <2>6 DEF IInv, Noticed
  <2> QED
    BY <2>1, <2>2, <2>4, <2>5, <2>7, Onwards
<1>3. CASE server[p] # worker.read
  <2>1. Later(p, "retry") /\ worker' = Idle /\ UNCHANGED server
    BY <1>3 DEF Write
  <2>2. delayed' \in [Policy -> {"none", "retry", "alarm"}]
    BY <1>1, <2>1, LaterType DEF IInv
  <2>3. TypeOK'
    BY <2>1, <2>2, PlaceType DEF IInv, TypeOK, Write, boundVars, Timed, Invalid
  <2>4. Trails' /\ Noticed'
    BY <2>1 DEF IInv, Trails, Noticed, Write
  <2> QED
    BY <2>1, <2>3, <2>4, Returned
<1> QED
  BY <1>2, <1>3

LEMMA WritesStep ==
    ASSUME IInv, AddFinalizer \/ RemoveFinalizer \/ MarkExpired \/ MarkApplied PROVE IInv'
<1>1. worker.read \in Resource
  BY Shapes DEF IInv
<1>2. CASE AddFinalizer
  <2> DEFINE r == [worker.read EXCEPT !.finalizer = TRUE]
  <2>1. Busy /\ worker.read.state = "live"
    BY <1>2 DEF AddFinalizer, IInv, Reads, Busy
  <2>2. r \in Resource /\ r.state = "live" /\ Behind(worker.read, r)
    BY <1>1, <2>1, Forward DEF Resource
  <2>3. Write(r, Idle)
    BY <1>2 DEF AddFinalizer
  <2> HIDE DEF r
  <2> QED
    BY <2>1, <2>2, <2>3, WriteStep
<1>3. CASE RemoveFinalizer
  <2> DEFINE r == [worker.read EXCEPT !.finalizer = FALSE, !.state = "gone"]
  <2>1. Busy /\ worker.read.state = "deleting"
    BY <1>3 DEF RemoveFinalizer, IInv, Reads, Busy
  <2>2. r \in Resource /\ r.state = "gone" /\ Behind(worker.read, r)
    BY <1>1, <2>1, Forward DEF Resource
  <2>3. Write(r, Idle)
    BY <1>3 DEF RemoveFinalizer
  <2> HIDE DEF r
  <2> QED
    BY <2>1, <2>2, <2>3, WriteStep
<1>4. CASE MarkExpired
  <2> DEFINE r == [worker.read EXCEPT !.phase = "Expired"]
  <2>1. Busy /\ worker.read.state = "live"
    BY <1>4 DEF MarkExpired, IInv, Reads, Busy
  <2>2. r \in Resource /\ r.state = "live" /\ Behind(worker.read, r)
    BY <1>1, <2>1, Forward DEF Resource
  <2>3. Write(r, Idle)
    BY <1>4 DEF MarkExpired
  <2> HIDE DEF r
  <2> QED
    BY <2>1, <2>2, <2>3, WriteStep
<1>5. CASE MarkApplied
  <2>1. Busy /\ worker.read.state = "live" /\ worker.read.phase # "Expired"
    BY <1>5 DEF MarkApplied, IInv, Reads, Busy
  <2>2. CASE worker.read.phase = "Applied"
    <3>1. worker' = [worker EXCEPT !.pc = "wake"]
          /\ UNCHANGED <<clusterVars, queueVars, payload, engine, boundVars>>
      BY <1>5, <2>2 DEF MarkApplied, Do
    <3>2. TypeOK'
      BY <3>1, PlaceType DEF IInv, TypeOK, clusterVars, queueVars, boundVars, Timed, Invalid
    <3>3. Trails' /\ Noticed' /\ cache' = cache
      BY <3>1 DEF IInv, Trails, Noticed, clusterVars
    <3> QED
      BY <2>1, <3>1, <3>2, <3>3, Onwards
  <2>3. CASE worker.read.phase # "Applied"
    <3> DEFINE r == [worker.read EXCEPT !.phase = "Applied"]
    <3>1. r \in Resource /\ r.state = "live" /\ Behind(worker.read, r)
      BY <1>1, <2>1, Forward DEF Resource
    <3>2. Write(r, [worker EXCEPT !.pc = "wake"])
      BY <1>5, <2>3 DEF MarkApplied
    <3> HIDE DEF r
    <3> QED
      BY <2>1, <3>1, <3>2, WriteStep
  <2> QED
    BY <2>2, <2>3
<1> QED
  BY <1>2, <1>3, <1>4, <1>5

LEMMA WakeStep == ASSUME IInv, Wake PROVE IInv'
<1>1. Busy /\ worker.key \in Policy
  BY AtWork DEF Wake, Busy
<1>2. delayed' \in [Policy -> {"none", "retry", "alarm"}]
  BY <1>1, LaterType DEF Wake, IInv, TypeOK
<1>3. TypeOK'
  BY <1>2, PlaceType DEF Wake, IInv, TypeOK, clusterVars, boundVars, Timed, Invalid
<1>4. Trails' /\ Noticed'
  BY DEF Wake, IInv, Trails, Noticed, clusterVars
<1> QED
  BY <1>3, <1>4, Returned DEF Wake

LEMMA Inductive == IInv /\ [Next]_vars => IInv'
<1> SUFFICES ASSUME IInv, [Next]_vars PROVE IInv'
  OBVIOUS
<1>1. CASE UNCHANGED vars
  <2>1. TypeOK'
    BY <1>1 DEF IInv, TypeOK, vars, clusterVars, queueVars, boundVars, Timed, Invalid
  <2> QED
    BY <1>1, <2>1 DEF IInv, Trails, ReadTrails, Noticed, Reads, Excluded, Busy, vars, clusterVars
<1>2. CASE Reconcile
  BY <1>2, TakeStep, CollectStep, AcceptedStep, FailedStep, WritesStep, WakeStep DEF Reconcile
<1> QED
  BY <1>1, <1>2, UserStep, AroundStep, TroubleStep DEF Next, User

-----------------------------------------------------------------------------
\* The inductive invariant of the operator, whatever the names of policies.
THEOREM Invariance == Spec => []IInv
BY Initially, Inductive, PTL DEF Spec

\* Types, for any policies and any number of troubles.
THEOREM TypeCorrect == Spec => []TypeOK
<1>1. IInv => TypeOK
  BY DEF IInv
<1> QED
  BY Invariance, <1>1, PTL

\* When the finalizer of a policy is removed, the engine has let go of it,
\* whatever was lost, whoever crashed, and even if others share its name.
THEOREM Flushed == Spec => ReleasedIsFlushed
<1>1. ASSUME IInv, [Next]_vars, NEW p \in Policy, server[p].state = "deleting", server'[p].state = "gone"
      PROVE  p \notin engine
  <2>1. server' # server /\ server \in [Policy -> Resource]
    BY <1>1 DEF IInv, TypeOK
  <2>2. ASSUME NEW q \in Policy, Create(q) \/ Delete(q) PROVE FALSE
    BY <1>1, <2>1, <2>2 DEF Create, Delete
  <2>3. AddFinalizer \/ RemoveFinalizer \/ MarkExpired \/ MarkApplied
    BY <1>1, <2>1, <2>2 DEF Next, User, Reconcile, vars, clusterVars, Take, Collect, PostAccepted, PostFailed,
           Wake, CrashOperator, RestartEngine, Observe, Elapse, Due
  <2>4. ASSUME NEW r, NEW next, Write(r, next), Busy PROVE worker.key = p /\ server[p] = worker.read /\ server'[p] = r
    BY <1>1, <2>1, <2>4, AtWork DEF Write
  <2>5. worker.pc = "release" /\ worker.key = p
    <3>1. Busy
      BY <2>3 DEF AddFinalizer, RemoveFinalizer, MarkExpired, MarkApplied, Busy
    <3>2. CASE RemoveFinalizer
      BY <2>4, <3>1, <3>2 DEF RemoveFinalizer
    <3>3. worker.read \in Resource
      BY <1>1, Shapes DEF IInv
    <3>4. CASE AddFinalizer
      <4> DEFINE r == [worker.read EXCEPT !.finalizer = TRUE]
      <4>1. Write(r, Idle)
        BY <3>4 DEF AddFinalizer
      <4>2. r.state = worker.read.state
        BY <3>3 DEF Resource
      <4> HIDE DEF r
      <4> QED
        BY <1>1, <2>4, <3>1, <4>1, <4>2
    <3>5. CASE MarkExpired
      <4> DEFINE r == [worker.read EXCEPT !.phase = "Expired"]
      <4>1. Write(r, Idle)
        BY <3>5 DEF MarkExpired
      <4>2. r.state = worker.read.state
        BY <3>3 DEF Resource
      <4> HIDE DEF r
      <4> QED
        BY <1>1, <2>4, <3>1, <4>1, <4>2
    <3>6. CASE MarkApplied
      <4> DEFINE r == [worker.read EXCEPT !.phase = "Applied"]
      <4>1. Write(r, [worker EXCEPT !.pc = "wake"])
        BY <2>1, <3>6 DEF MarkApplied, clusterVars
      <4>2. r.state = worker.read.state
        BY <3>3 DEF Resource
      <4> HIDE DEF r
      <4> QED
        BY <1>1, <2>4, <3>1, <4>1, <4>2
    <3> QED
      BY <2>3, <3>2, <3>4, <3>5, <3>6
  <2> QED
    BY <1>1, <2>5 DEF IInv, Excluded
<1>2. IInv /\ [Next]_vars =>
        [\A p \in Policy : server[p].state = "deleting" /\ server'[p].state = "gone" => p \notin engine]_vars
  BY <1>1
<1> QED
  BY Invariance, <1>2, PTL DEF Spec, ReleasedIsFlushed

-----------------------------------------------------------------------------
\* No two policies share a name: reconciling one excludes nobody else.
DistinctNames == \A p, q \in Policy : Name(p) = Name(q) => p = q

\* Everything that reads Applied, and whose time is not over, is in S.
Holds(S) == \A p \in Policy :
    server[p].state = "live" /\ server[p].phase = "Applied" /\ p \notin over => p \in S

\* What is sent keeps the others loaded, and if nothing has happened to the
\* policy that is applied since it was read, loads it.
Carried ==
    /\ worker.pc \in {"post-flush", "post-expire", "post-apply"} => Holds(payload)
    /\ worker.pc = "post-apply" /\ server[worker.key] = worker.read => worker.key \in payload
    /\ worker.pc = "mark-applied" /\ restarts = 0 /\ server[worker.key] = worker.read =>
            worker.key \in engine

Loaded == (restarts = 0 => Holds(engine)) /\ Carried

\* What a resource read live and not expired says of the cache in between.
LEMMA InBetween ==
    ASSUME IInv, NEW p \in Policy, cache[p].state # "none", server[p].state = "live",
           server[p].phase # "Expired"
    PROVE  cache[p].state = "live" /\ cache[p].phase # "Expired"
BY DEF IInv, Trails, Behind

LEMMA CollectLoads == ASSUME DistinctNames, IInv, Loaded, Collect PROVE Loaded'
<1>1. UNCHANGED <<clusterVars, engine, restarts>> /\ Busy /\ worker.key \in Policy
  <2>1. Busy
    BY DEF Collect, Busy
  <2> QED
    BY <2>1, AtWork DEF Collect, boundVars
<1>2. PICK to \in {"post-apply", "post-flush", "post-expire"} :
        /\ Do(to)
        /\ to = "post-apply" => worker.pc = "apply" /\ payload' = ActiveExcluding({})
        /\ to = "post-flush" => worker.pc = "flush" /\ payload' = ActiveExcluding({Name(worker.key)})
        /\ to = "post-expire" => worker.pc = "expire" /\ payload' = ActiveExcluding({Name(worker.key)})
  BY DEF Collect
<1>3. worker'.pc = to /\ worker'.key = worker.key /\ worker'.read = worker.read
  BY <1>1, <1>2, PlaceMoves
<1>4. ASSUME NEW p \in Policy, server[p].state = "live", server[p].phase = "Applied", p \notin over
      PROVE  p \in payload'
  <2>1. cache[p].state = "live" /\ cache[p].phase # "Expired"
    BY <1>4, InBetween DEF IInv, Noticed
  <2>2. CASE to = "post-apply"
    BY <1>2, <2>1, <2>2 DEF ActiveExcluding
  <2>3. CASE to = "post-flush"
    <3>1. worker.key # p
      BY <1>1, <1>2, <2>1, <2>3 DEF IInv, ReadTrails, Reads, Behind
    <3> QED
      BY <1>1, <1>2, <2>1, <2>3, <3>1 DEF ActiveExcluding, DistinctNames
  <2>4. CASE to = "post-expire"
    <3>1. worker.key # p
      BY <1>2, <1>4, <2>4 DEF IInv, Reads
    <3> QED
      BY <1>1, <1>2, <2>1, <2>4, <3>1 DEF ActiveExcluding, DistinctNames
  <2> QED
    BY <2>2, <2>3, <2>4
<1>5. ASSUME to = "post-apply", server[worker.key] = worker.read PROVE worker.key \in payload'
  <2>1. worker.read.state = "live" /\ worker.read.phase # "Expired"
    BY <1>2, <1>5 DEF IInv, Reads
  <2>2. cache[worker.key].state # "none"
    BY <1>1, <2>1 DEF IInv, ReadTrails, Behind
  <2>3. cache[worker.key].state = "live" /\ cache[worker.key].phase # "Expired"
    BY <1>1, <1>5, <2>1, <2>2, InBetween
  <2> QED
    BY <1>1, <1>2, <1>5, <2>3 DEF ActiveExcluding
<1>6. Holds(payload)'
  BY <1>1, <1>4 DEF Holds, clusterVars
<1>7. restarts' = 0 => Holds(engine)'
  BY <1>1 DEF Loaded, Holds, clusterVars
<1> QED
  BY <1>1, <1>3, <1>5, <1>6, <1>7 DEF Loaded, Carried, clusterVars

LEMMA PostLoads == ASSUME IInv, Loaded, PostAccepted \/ PostFailed PROVE Loaded'
<1>1. DOMAIN AfterPost = {"post-flush", "post-expire", "post-apply"}
      /\ AfterPost["post-flush"] = "release" /\ AfterPost["post-expire"] = "mark-expired"
      /\ AfterPost["post-apply"] = "mark-applied"
  BY DEF AfterPost
<1>2. worker.pc \in {"post-flush", "post-expire", "post-apply"} /\ Holds(payload) /\ Busy
  BY <1>1 DEF PostAccepted, PostFailed, Posting, Loaded, Carried, Busy
<1>3. UNCHANGED clusterVars /\ restarts' = restarts
  BY DEF PostAccepted, PostFailed, boundVars
<1>4. engine' \in {engine, payload}
  BY DEF PostAccepted, PostFailed
<1>5. restarts' = 0 => Holds(engine)'
  BY <1>2, <1>3, <1>4 DEF Loaded, Holds, clusterVars
<1>6. CASE PostFailed
  <2>1. worker'.pc = "idle"
    BY <1>6 DEF PostFailed, Idle
  <2> QED
    BY <1>5, <2>1 DEF Loaded, Carried
<1>7. CASE PostAccepted
  <2>1. PICK to \in {"release", "mark-expired", "mark-applied"} :
            Do(to) /\ (to = "mark-applied" => worker.pc = "post-apply")
    BY <1>1, <1>2, <1>7 DEF PostAccepted
  <2>2. worker'.pc = to /\ worker'.key = worker.key /\ worker'.read = worker.read
    BY <1>2, <2>1, PlaceMoves
  <2>3. engine' = payload
    BY <1>7 DEF PostAccepted
  <2> QED
    BY <1>3, <1>5, <2>1, <2>2, <2>3 DEF Loaded, Carried, clusterVars
<1> QED
  BY <1>6, <1>7

\* A write that goes through, of what keeps the engine's promise.
LEMMA WriteLoads ==
    ASSUME IInv, Loaded, Busy, NEW r, NEW next, Write(r, next),
           next = Idle \/ next = [worker EXCEPT !.pc = "wake"],
           \/ r.state # "live" \/ r.phase # "Applied"
           \/ r.state = worker.read.state /\ r.phase = worker.read.phase
           \/ worker.pc = "mark-applied"
    PROVE  Loaded'
<1> DEFINE p == worker.key
<1>1. p \in Policy /\ server \in [Policy -> Resource] /\ UNCHANGED <<over, engine, restarts>>
  BY AtWork DEF IInv, TypeOK, Write, boundVars
<1>2. worker' = Idle \/ worker' = [worker EXCEPT !.pc = "wake"]
  BY DEF Write
<1>3. worker'.pc \in {"idle", "wake"}
  BY <1>2 DEF IInv, TypeOK, Idle
<1>4. restarts = 0 => Holds(engine)'
  <2>1. CASE server' = server
    BY <1>1, <2>1 DEF Loaded, Holds
  <2>2. CASE server[p] = worker.read /\ server' = [server EXCEPT ![p] = r]
    <3>1. server'[p] = r /\ \A q \in Policy \ {p} : server'[q] = server[q]
      BY <1>1, <2>2
    <3>2. restarts = 0 /\ r.state = "live" /\ r.phase = "Applied" /\ p \notin over => p \in engine
      BY <1>1, <2>2 DEF Loaded, Holds, Carried
    <3> QED
      BY <1>1, <3>1, <3>2 DEF Loaded, Holds
  <2> QED
    BY <2>1, <2>2 DEF Write
<1> QED
  BY <1>1, <1>3, <1>4 DEF Loaded, Carried

LEMMA WritesLoad ==
    ASSUME IInv, Loaded, AddFinalizer \/ RemoveFinalizer \/ MarkExpired \/ MarkApplied PROVE Loaded'
<1>1. worker.read \in Resource
  BY Shapes DEF IInv
<1>2. Busy
  BY DEF AddFinalizer, RemoveFinalizer, MarkExpired, MarkApplied, Busy
<1>3. CASE AddFinalizer
  <2> DEFINE r == [worker.read EXCEPT !.finalizer = TRUE]
  <2>1. r.state = worker.read.state /\ r.phase = worker.read.phase /\ Write(r, Idle)
    BY <1>1, <1>3 DEF AddFinalizer, Resource
  <2> HIDE DEF r
  <2> QED
    BY <1>2, <2>1, WriteLoads
<1>4. CASE RemoveFinalizer
  <2> DEFINE r == [worker.read EXCEPT !.finalizer = FALSE, !.state = "gone"]
  <2>1. r.state = "gone" /\ Write(r, Idle)
    BY <1>1, <1>4 DEF RemoveFinalizer, Resource
  <2> HIDE DEF r
  <2> QED
    BY <1>2, <2>1, WriteLoads
<1>5. CASE MarkExpired
  <2> DEFINE r == [worker.read EXCEPT !.phase = "Expired"]
  <2>1. r.phase = "Expired" /\ Write(r, Idle)
    BY <1>1, <1>5 DEF MarkExpired, Resource
  <2> HIDE DEF r
  <2> QED
    BY <1>2, <2>1, WriteLoads
<1>6. CASE MarkApplied /\ worker.read.phase # "Applied"
  <2> DEFINE r == [worker.read EXCEPT !.phase = "Applied"]
  <2>1. worker.pc = "mark-applied" /\ Write(r, [worker EXCEPT !.pc = "wake"])
    BY <1>6 DEF MarkApplied
  <2> HIDE DEF r
  <2> QED
    BY <1>2, <2>1, WriteLoads
<1>7. CASE MarkApplied /\ worker.read.phase = "Applied"
  <2>1. Do("wake") /\ UNCHANGED <<clusterVars, payload, engine, boundVars>>
    BY <1>7 DEF MarkApplied
  <2>2. worker'.pc = "wake"
    BY <1>2, <2>1, PlaceMoves
  <2> QED
    BY <2>1, <2>2 DEF Loaded, Holds, Carried, clusterVars, boundVars
<1> QED
  BY <1>3, <1>4, <1>5, <1>6, <1>7

LEMMA UserLoads == ASSUME IInv, Loaded, NEW p \in Policy, Create(p) \/ Delete(p) PROVE Loaded'
<1>1. server \in [Policy -> Resource] /\ UNCHANGED <<over, worker, payload, engine, restarts>>
  BY DEF IInv, TypeOK, Create, Delete, boundVars
<1>2. \A q \in Policy \ {p} : server'[q] = server[q]
  BY <1>1 DEF Create, Delete
<1>3. ~(server'[p].state = "live" /\ server'[p].phase = "Applied")
  BY <1>1 DEF Create, Delete, IInv, Noticed, Resource
<1>4. \A S : Holds(S) => Holds(S)'
  BY <1>1, <1>2, <1>3 DEF Holds
<1>5. ASSUME worker.key = p, worker.read.state = "live" PROVE server'[p] # worker.read
  <2>1. CASE Create(p) /\ Busy
    BY <1>1, <1>5, <2>1 DEF Create, IInv, Trails, ReadTrails, Behind
  <2>2. CASE Delete(p)
    BY <1>1, <1>5, <2>2 DEF Delete, Resource
  <2>3. CASE ~Busy
    <3>1. Idle.read = Absent
      BY DEF Idle
    <3>2. Absent.state = "none"
      BY DEF Absent
    <3>3. worker = Idle
      BY <2>3 DEF Busy, IInv, Reads
    <3> QED
      BY <1>5, <3>1, <3>2, <3>3
  <2> QED
    BY <1>1, <2>1, <2>2, <2>3
<1>6. worker.pc \in {"post-apply", "mark-applied"} /\ server'[worker.key] = worker.read =>
        server[worker.key] = worker.read
  <2>1. worker.pc \in {"post-apply", "mark-applied"} => worker.read.state = "live" /\ worker.key \in Policy
    BY AtWork DEF IInv, Reads, Busy
  <2> QED
    BY <1>2, <1>5, <2>1
<1> QED
  BY <1>1, <1>4, <1>6 DEF Loaded, Carried

LEMMA LoadedStep == ASSUME DistinctNames, IInv, Loaded, [Next]_vars PROVE Loaded'
<1>1. CASE UNCHANGED vars
  BY <1>1 DEF Loaded, Holds, Carried, vars, clusterVars, boundVars
<1>2. ASSUME NEW p \in Policy, Observe(p) \/ Elapse(p) \/ Due(p) PROVE Loaded'
  BY <1>2 DEF Loaded, Holds, Carried, Observe, Elapse, Due, clusterVars, boundVars
<1>3. CASE CrashOperator
  <2>1. worker'.pc = "idle"
    BY <1>3 DEF CrashOperator, Idle
  <2> QED
    BY <1>3, <2>1 DEF Loaded, Holds, Carried, CrashOperator
<1>4. CASE RestartEngine
  <2>1. restarts' # 0
    BY <1>4 DEF RestartEngine, IInv, TypeOK
  <2> QED
    BY <1>4, <2>1 DEF Loaded, Holds, Carried, RestartEngine, clusterVars
<1>5. ASSUME NEW p \in Policy, Take(p) PROVE Loaded'
  <2>1. worker'.pc \in {"idle", "flush", "guard", "expire", "apply"}
    <3>1. Idle.pc = "idle" /\ worker = Idle
      BY <1>5 DEF Take, Idle
    <3>2. worker' = worker \/ \E pc \in {"flush", "guard", "expire", "apply"} :
                                 worker' = [pc |-> pc, key |-> p, read |-> cache[p]]
      BY <1>5 DEF Take
    <3> QED
      BY <3>1, <3>2
  <2> QED
    BY <1>5, <2>1 DEF Loaded, Holds, Carried, Take, clusterVars, boundVars
<1>6. CASE Wake
  <2>1. worker'.pc = "idle"
    BY <1>6 DEF Wake, Idle
  <2> QED
    BY <1>6, <2>1 DEF Loaded, Holds, Carried, Wake, clusterVars, boundVars
<1>7. CASE Reconcile
  BY <1>5, <1>6, <1>7, CollectLoads, PostLoads, WritesLoad DEF Reconcile
<1> QED
  BY <1>1, <1>2, <1>3, <1>4, <1>7, UserLoads DEF Next, User

\* A policy that reads Applied is loaded until its time is over, whatever else is
\* reconciled, lost or crashes meanwhile, if policies have names of their own
\* and the engine has not restarted.
THEOREM AppliedStaysLoaded == ASSUME DistinctNames PROVE Spec => []AppliedIsLoaded
<1>1. Init => Loaded
  <2> SUFFICES ASSUME Init PROVE Loaded
    OBVIOUS
  <2>1. Idle.pc = "idle" /\ worker = Idle
    BY DEF Init, Idle
  <2>2. Absent.state = "none" /\ \A p \in Policy : server[p] = Absent
    BY DEF Init, Absent
  <2> QED
    BY <2>1, <2>2 DEF Loaded, Holds, Carried
<1>2. IInv /\ Loaded /\ [Next]_vars => Loaded'
  BY DistinctNames, LoadedStep
<1>3. Loaded => AppliedIsLoaded
  BY DEF Loaded, Holds, AppliedIsLoaded
<1> QED
  BY Invariance, <1>1, <1>2, <1>3, PTL DEF Spec
=============================================================================
