------------------------------ MODULE Operator ------------------------------
(***************************************************************************)
(* The Kubernetes operator                                                 *)
(* (operator/internal/controller/chaospolicy_controller.go): one worker    *)
(* reconciles ChaosPolicy resources into the memory of the engine, which   *)
(* it replaces as a whole through the webhook.  Reconcile is cut where it  *)
(* talks to the outside: Get and List from the cache, the POST, the write  *)
(* to the API server, and the clock it reads for the next wake-up.         *)
(*                                                                         *)
(* The API server, the informer cache and the work queue are library code, *)
(* modelled by what Reconcile relies on: the cache trails the server, a    *)
(* write against a stale read fails, a key has at most one delayed entry.  *)
(***************************************************************************)
EXTENDS Naturals, FiniteSets

CONSTANTS
    Policy,      \* keys (namespace and name) of ChaosPolicy resources
    Name(_),     \* the name in a key: two namespaces may use the same
    Specs,       \* what the users may ask for: a kind for each policy
    None,
    MaxTrouble   \* bound: lost POSTs, crashes and engine restarts together

\* "timed" has a valid duration; "invalid" passes the CRD, not the engine.
Kind == {"plain", "timed", "invalid"}

ASSUME OperatorAssumption ==
    Specs \subseteq [Policy -> Kind] /\ None \notin Policy /\ MaxTrouble \in Nat

VARIABLES
    spec,     \* the kind of each policy
    server,   \* the resources in the API server
    cache,    \* the same as the informer last saw them
    over,     \* policies whose duration has passed since LastAppliedTime
    queue,    \* keys ready for the worker
    delayed,  \* the delayed entry of each key, if any
    worker,   \* what the worker does, for which key, as it read it
    payload,  \* the policies of the POST it is about to send
    engine,   \* the policies in the memory of the engine
    faults,   \* POSTs that went wrong so far
    crashes,  \* crashes of the operator so far
    restarts  \* restarts of the engine so far

clusterVars == <<spec, server, cache, over>>
queueVars == <<queue, delayed>>
boundVars == <<faults, crashes, restarts>>
vars == <<clusterVars, queueVars, worker, payload, engine, boundVars>>

\* LastAppliedTime is set exactly when the phase is not "".
Resource == [state : {"none", "live", "deleting", "gone"},
             finalizer : BOOLEAN, phase : {"", "Applied", "Expired"}]
Absent == [state |-> "none", finalizer |-> FALSE, phase |-> ""]
Exists(r) == r.state \in {"live", "deleting"}
Idle == [pc |-> "idle", key |-> None, read |-> Absent]

Timed == {p \in Policy : spec[p] = "timed"}
Invalid == {p \in Policy : spec[p] = "invalid"}

Trouble == faults + crashes + restarts < MaxTrouble

Init ==
    /\ spec \in Specs
    /\ server = [p \in Policy |-> Absent] /\ cache = server
    /\ over = {} /\ queue = {} /\ delayed = [p \in Policy |-> "none"]
    /\ worker = Idle /\ payload = {} /\ engine = {}
    /\ faults = 0 /\ crashes = 0 /\ restarts = 0

-----------------------------------------------------------------------------
\* The cluster.

Create(p) ==
    /\ server[p].state = "none" /\ server' = [server EXCEPT ![p].state = "live"]
    /\ UNCHANGED <<spec, cache, over, queueVars, worker, payload, engine, boundVars>>

\* Only a finalizer keeps a deleted resource in the cluster.
Delete(p) ==
    /\ server[p].state = "live"
    /\ server' = [server EXCEPT ![p].state = IF server[p].finalizer THEN "deleting" ELSE "gone"]
    /\ UNCHANGED <<spec, cache, over, queueVars, worker, payload, engine, boundVars>>

\* The informer sees the resource and enqueues its key.
Observe(p) ==
    /\ cache[p] # server[p] /\ cache' = [cache EXCEPT ![p] = server[p]]
    /\ queue' = queue \cup {p}
    /\ UNCHANGED <<spec, server, over, delayed, worker, payload, engine, boundVars>>

Elapse(p) ==
    /\ p \in Timed \ over /\ server[p].phase # "" /\ over' = over \cup {p}
    /\ UNCHANGED <<spec, server, cache, queueVars, worker, payload, engine, boundVars>>

\* A retry is due after 30 seconds or a backoff, an alarm when time is over.
Due(p) ==
    /\ delayed[p] = "retry" \/ (delayed[p] = "alarm" /\ p \in over)
    /\ delayed' = [delayed EXCEPT ![p] = "none"] /\ queue' = queue \cup {p}
    /\ UNCHANGED <<clusterVars, worker, payload, engine, boundVars>>

\* A new operator lists every resource; delayed entries were only in memory.
CrashOperator ==
    /\ Trouble /\ crashes' = crashes + 1
    /\ worker' = Idle /\ payload' = {} /\ delayed' = [p \in Policy |-> "none"]
    /\ cache' = server /\ queue' = {p \in Policy : Exists(server[p])}
    /\ UNCHANGED <<spec, server, over, engine, faults, restarts>>

\* The engine starts from its file; policies that came by webhook are gone.
RestartEngine ==
    /\ Trouble /\ restarts' = restarts + 1 /\ engine' = {}
    /\ UNCHANGED <<clusterVars, queueVars, worker, payload, faults, crashes>>

-----------------------------------------------------------------------------
\* Reconcile.

\* Mutant: only what is already applied is collected.
AppliedExcluding(names) ==
    {p \in Policy : /\ cache[p].state = "live" /\ cache[p].phase = "Applied"
                    /\ Name(p) \notin names}

\* collectActivePoliciesExcluding: by name, whatever the namespace.
ActiveExcluding(names) ==
    {p \in Policy : /\ cache[p].state = "live" /\ cache[p].phase # "Expired"
                    /\ Name(p) \notin names}

\* RequeueAfter: an entry that is already waiting keeps the earlier time.
Later(p, when) ==
    delayed' = [delayed EXCEPT ![p] = IF @ = "retry" THEN "retry" ELSE when]

Do(pc) == worker' = [worker EXCEPT !.pc = pc]

\* Get, and the decisions that follow from what it returned.
Take(p) ==
    LET r == cache[p]
        begin(pc) == worker' = [pc |-> pc, key |-> p, read |-> r]
        ready == r.state = "live" /\ r.finalizer
        expired == p \in Timed \cap over /\ r.phase # ""
    IN
    /\ worker = Idle /\ p \in queue /\ queue' = queue \ {p}
    /\ \/ (~Exists(r) \/ (ready /\ r.phase = "Expired")) /\ UNCHANGED worker
       \/ r.state = "deleting" /\ begin("flush")
       \/ r.state = "live" /\ ~r.finalizer /\ begin("guard")
       \/ ready /\ r.phase # "Expired" /\ expired /\ begin("expire")
       \/ ready /\ r.phase # "Expired" /\ ~expired /\ begin("apply")
    /\ UNCHANGED <<clusterVars, delayed, payload, engine, boundVars>>

\* List: all of them to apply, all the others to flush or to expire.
Collect ==
    /\ \/ worker.pc = "apply" /\ payload' = ActiveExcluding({}) /\ Do("post-apply")
       \/ /\ worker.pc = "flush" /\ payload' = ActiveExcluding({Name(worker.key)})
          /\ Do("post-flush")
       \/ /\ worker.pc = "expire" /\ payload' = ActiveExcluding({Name(worker.key)})
          /\ Do("post-expire")
    /\ UNCHANGED <<clusterVars, queueVars, engine, boundVars>>

AfterPost == [x \in {"post-flush", "post-expire", "post-apply"} |->
                 CASE x = "post-flush"  -> "release"
                   [] x = "post-expire" -> "mark-expired"
                   [] x = "post-apply"  -> "mark-applied"]
Posting == worker.pc \in DOMAIN AfterPost

\* Mutant: the engine stores what it did not validate.
PostUnchecked ==
    /\ Posting /\ engine' = payload /\ payload' = {} /\ Do(AfterPost[worker.pc])
    /\ UNCHANGED <<clusterVars, queueVars, boundVars>>

\* The engine validates the payload as a whole and answers 200.
PostAccepted ==
    /\ Posting /\ payload \cap Invalid = {}
    /\ engine' = payload /\ payload' = {} /\ Do(AfterPost[worker.pc])
    /\ UNCHANGED <<clusterVars, queueVars, boundVars>>

\* Mutant: an error or a status other than 200 is not looked at.
PostFailureIgnored ==
    /\ Posting
    /\ \/ payload \cap Invalid # {} /\ UNCHANGED <<engine, faults>>
       \/ /\ Trouble /\ faults' = faults + 1
          /\ engine' \in {engine, IF payload \cap Invalid = {} THEN payload ELSE engine}
    /\ Do(AfterPost[worker.pc]) /\ payload' = {}
    /\ UNCHANGED <<clusterVars, queueVars, crashes, restarts>>

\* Mutant: a POST that failed is not retried.
PostFailedForGood ==
    /\ Posting
    /\ \/ payload \cap Invalid # {} /\ UNCHANGED <<engine, faults>>
       \/ /\ Trouble /\ faults' = faults + 1
          /\ engine' \in {engine, IF payload \cap Invalid = {} THEN payload ELSE engine}
    /\ worker' = Idle /\ payload' = {}
    /\ UNCHANGED <<clusterVars, queueVars, crashes, restarts>>

\* 422, or no answer: the request or only the answer was lost.  Retry in 30s.
PostFailed ==
    /\ Posting
    /\ \/ payload \cap Invalid # {} /\ UNCHANGED <<engine, faults>>
       \/ /\ Trouble /\ faults' = faults + 1
          /\ engine' \in {engine, IF payload \cap Invalid = {} THEN payload ELSE engine}
    /\ worker' = Idle /\ payload' = {} /\ Later(worker.key, "retry")
    /\ UNCHANGED <<clusterVars, queue, crashes, restarts>>

\* An Update of the resource that was read; on a conflict Reconcile returns
\* the error and the key is retried.
Write(r, next) ==
    LET p == worker.key IN
    /\ IF server[p] = worker.read
         THEN server' = [server EXCEPT ![p] = r] /\ worker' = next /\ UNCHANGED delayed
         ELSE Later(p, "retry") /\ worker' = Idle /\ UNCHANGED server
    /\ UNCHANGED <<spec, cache, over, queue, payload, engine, boundVars>>

AddFinalizer == worker.pc = "guard" /\ Write([worker.read EXCEPT !.finalizer = TRUE], Idle)

\* Mutant: the finalizer is removed from the copy only.
RemoveUnsaved ==
    /\ worker.pc = "release" /\ worker' = Idle
    /\ UNCHANGED <<clusterVars, queueVars, payload, engine, boundVars>>

\* The last finalizer is removed: the resource leaves the cluster.
RemoveFinalizer ==
    worker.pc = "release" /\ Write([worker.read EXCEPT !.finalizer = FALSE, !.state = "gone"], Idle)

MarkExpired == worker.pc = "mark-expired" /\ Write([worker.read EXCEPT !.phase = "Expired"], Idle)

\* The phase and LastAppliedTime are written once.
MarkApplied ==
    /\ worker.pc = "mark-applied"
    /\ IF worker.read.phase = "Applied"
         THEN Do("wake") /\ UNCHANGED <<clusterVars, queueVars, payload, engine, boundVars>>
         ELSE Write([worker.read EXCEPT !.phase = "Applied"], [worker EXCEPT !.pc = "wake"])

\* Schedule the expiry, if there is time left.
Wake ==
    /\ worker.pc = "wake" /\ worker' = Idle
    /\ IF worker.key \in Timed \ over THEN Later(worker.key, "alarm") ELSE UNCHANGED delayed
    /\ UNCHANGED <<clusterVars, queue, payload, engine, boundVars>>

Reconcile ==
    \/ \E p \in Policy : Take(p)
    \/ Collect \/ PostAccepted \/ PostFailed
    \/ AddFinalizer \/ RemoveFinalizer \/ MarkExpired \/ MarkApplied \/ Wake

User == \E p \in Policy : Create(p) \/ Delete(p)

Next ==
    \/ User \/ Reconcile \/ CrashOperator \/ RestartEngine
    \/ \E p \in Policy : Observe(p) \/ Elapse(p) \/ Due(p)

\* The worker, the informer, the timers and time itself go on; the user, the
\* faults and the restarts need not happen.
Fairness ==
    /\ WF_vars(Reconcile)
    /\ \A p \in Policy : /\ WF_vars(Observe(p)) /\ WF_vars(Elapse(p)) /\ WF_vars(Due(p))
                         /\ SF_vars(Take(p))

Spec == Init /\ [][Next]_vars
FairSpec == Spec /\ Fairness

-----------------------------------------------------------------------------
\* Every variable has its type, and the bound on trouble is kept.
TypeOK ==
    /\ spec \in Specs /\ server \in [Policy -> Resource] /\ cache \in [Policy -> Resource]
    /\ over \subseteq Timed /\ queue \subseteq Policy
    /\ delayed \in [Policy -> {"none", "retry", "alarm"}]
    /\ worker \in [pc : {"idle", "flush", "guard", "expire", "apply", "release", "wake",
                         "mark-expired", "mark-applied"} \cup DOMAIN AfterPost,
                   key : Policy \cup {None}, read : Resource]
    /\ payload \subseteq Policy /\ engine \subseteq Policy \ Invalid
    /\ faults \in Nat /\ crashes \in Nat /\ restarts \in Nat
    /\ faults + crashes + restarts <= MaxTrouble

\* A policy that reads Applied is in the memory of the engine, until its time
\* is over or it is being deleted (docs/operator.md section 4), as long as the
\* engine has not restarted: nothing tells the operator that it has.
AppliedIsLoaded ==
    restarts = 0 =>
        \A p \in Policy :
            server[p].state = "live" /\ server[p].phase = "Applied" /\ p \notin over
                => p \in engine

\* The finalizer is removed last: at that moment the engine has acknowledged
\* a state without the policy, and nothing has brought it back.
ReleasedIsFlushed ==
    [][\A p \in Policy : server[p].state = "deleting" /\ server'[p].state = "gone"
                            => p \notin engine]_vars

\* A live policy that the engine refuses blocks every POST of the whole set.
Poisoned == \E p \in Invalid : server[p].state = "live"

\* A deletion goes through, whatever was lost, unless the set stays poisoned.
DeletionCompletes ==
    <>[]~Poisoned =>
        \A p \in Policy : (server[p].state = "deleting") ~> (server[p].state = "gone")

\* A policy that is left alone is applied, unless the set stays poisoned.
CreatedIsApplied ==
    <>[]~Poisoned =>
        \A p \in Policy :
            (server[p].state = "live") ~> (server[p].state # "live" \/ server[p].phase # "")

\* The revocation of a timed policy that is applied is always ahead: its key
\* is ready, delayed or in the hands of the worker, or the informer has news of
\* it ("the operator schedules highly-precise reconciliation awakenings to
\* automatically revoke chaos policies when their time expires",
\* docs/architecture.md).
RevocationScheduled ==
    \A p \in Timed :
        server[p].state = "live" /\ server[p].phase = "Applied" =>
            \/ p \in queue \/ delayed[p] # "none" \/ worker.key = p
            \/ cache[p] # server[p]

\* Two statements the code does not keep, and no run checks (see README.md):
\* a policy that reads Expired is out of the engine; one that has left the
\* cluster is (the "Zombie Chaos States" of docs/operator.md section 6).
ExpiredIsRevoked == \A p \in Policy : server[p].phase = "Expired" => p \notin engine
NoZombie == \A p \in Policy : server[p].state = "gone" => p \notin engine
=============================================================================
