---------------------------- MODULE ConfigPlane ----------------------------
(***************************************************************************)
(* The configuration plane of the engine: config.Manager                   *)
(* (pkg/config/manager.go), its callers (the webhook of                    *)
(* pkg/config/webhook.go, which the Redis, ConfigMap and file sensors      *)
(* follow in shape: validate, then Update; and the console's rollback),    *)
(* and the HTTP interceptor (pkg/ritual/middleware.go) that reads it.      *)
(*                                                                         *)
(* Readers take no lock: a request loads the snapshot twice, and keeps the *)
(* second one while it is delayed.                                         *)
(***************************************************************************)
EXTENDS Naturals, Sequences

CONSTANTS
    Caller,    \* goroutines that call Manager.Update
    Request,   \* requests in flight at once
    Path,      \* what requests ask for
    Fleets,    \* the sets of configurations that may be in play together
    None,      \* nobody
    MaxUpdate  \* bound: updates and rollbacks submitted

\* Chances are "no" (0), "may" (between) and "sure" (1); match is the set of
\* paths that the target and the headers of a policy cover.
Chance == {"no", "may", "sure"}
HttpPolicy == [match : SUBSET Path, latency : Chance, error : Chance]

\* The part of a PastaayConfig that requests can tell: ignored holds the
\* paths that ignored_commands and the default list protect.
ConfigShape == [valid : BOOLEAN, warmup : BOOLEAN, ignored : SUBSET Path, http : Seq(HttpPolicy)]

ASSUME PlaneAssumption ==
    /\ None \notin Caller /\ MaxUpdate \in Nat /\ Path # {}
    /\ UNION Fleets \subseteq ConfigShape

VARIABLES
    fleet,   \* the configurations in play; with NoConfig the console may reset
    snap,    \* the configuration the atomic pointer publishes
    young,   \* less time than any warmup has passed since startTime
    mu,      \* who holds Manager.mu
    caller,  \* where each caller is, and its configuration
    updates, \* submissions so far
    request  \* where each request is, its path, the policies it loaded

vars == <<fleet, snap, young, mu, caller, updates, request>>

\* The reset by handleRollback: Version 1 and no policies, always valid.
NoConfig == [valid |-> TRUE, warmup |-> FALSE, ignored |-> {}, http |-> <<>>]
NoCall == [pc |-> "idle", config |-> NoConfig]
NoRequest == [pc |-> "idle", path |-> CHOOSE p \in Path : TRUE, policies |-> <<>>, next |-> 1]

\* NewManager has published the file's configuration.
Init ==
    /\ fleet \in Fleets /\ snap \in {c \in fleet : c.valid} /\ young \in BOOLEAN /\ mu = None
    /\ caller = [c \in Caller |-> NoCall] /\ updates = 0
    /\ request = [r \in Request |-> NoRequest]

Mature == young /\ young' = FALSE /\ UNCHANGED <<fleet, snap, mu, caller, updates, request>>

-----------------------------------------------------------------------------
\* The callers and Manager.Update.

At(c, pc) == caller[c].pc = pc
To(c, pc) == caller' = [caller EXCEPT ![c].pc = pc]

\* A payload arrives and is parsed; the console submits no payload.
Submit(c) ==
    /\ At(c, "idle") /\ updates < MaxUpdate /\ updates' = updates + 1
    /\ \/ \E cfg \in fleet : caller' = [caller EXCEPT ![c] = [pc |-> "validate", config |-> cfg]]
       \/ NoConfig \in fleet /\ caller' = [caller EXCEPT ![c] = [pc |-> "update", config |-> NoConfig]]
    /\ UNCHANGED <<fleet, snap, young, mu, request>>

\* Mutant: the handler leaves the validation to Update, which is silent.
ValidateNothing(c) ==
    /\ At(c, "validate") /\ To(c, "update")
    /\ UNCHANGED <<fleet, snap, young, mu, updates, request>>

\* The handler's own Validate: an invalid payload is answered 422.
Validate(c) ==
    /\ At(c, "validate")
    /\ To(c, IF caller[c].config.valid THEN "update" ELSE "rejected")
    /\ UNCHANGED <<fleet, snap, young, mu, updates, request>>

Lock(c) ==
    /\ At(c, "update") /\ mu = None /\ mu' = c /\ To(c, "holding")
    /\ UNCHANGED <<fleet, snap, young, updates, request>>

\* Mutant: Update installs the policies and keeps the rest.
PublishPolicies(c) ==
    /\ At(c, "holding") /\ To(c, "unlock")
    /\ snap' = IF caller[c].config.valid THEN [snap EXCEPT !.http = caller[c].config.http] ELSE snap
    /\ UNCHANGED <<fleet, young, mu, updates, request>>

\* Update validates again, without a word to its caller, then stores once.
Publish(c) ==
    /\ At(c, "holding") /\ To(c, "unlock")
    /\ snap' = IF caller[c].config.valid THEN caller[c].config ELSE snap
    /\ UNCHANGED <<fleet, young, mu, updates, request>>

\* Mutant: Update returns with the mutex locked.
UnlockNothing(c) ==
    /\ At(c, "unlock") /\ To(c, "applied")
    /\ UNCHANGED <<fleet, snap, young, mu, updates, request>>

Unlock(c) ==
    /\ At(c, "unlock") /\ mu' = None /\ To(c, "applied")
    /\ UNCHANGED <<fleet, snap, young, updates, request>>

Reply(c) ==
    /\ caller[c].pc \in {"applied", "rejected"} /\ caller' = [caller EXCEPT ![c] = NoCall]
    /\ UNCHANGED <<fleet, snap, young, mu, updates, request>>

Update(c) == Validate(c) \/ Lock(c) \/ Publish(c) \/ Unlock(c) \/ Reply(c)

-----------------------------------------------------------------------------
\* A request in the middleware.

\* Fields of r that change; every other variable of the plane is left alone.
Step(r, new) ==
    /\ request' = [request EXCEPT ![r] = new]
    /\ UNCHANGED <<fleet, snap, young, mu, caller, updates>>

\* IsCommandIgnored, on the first load of the snapshot.
Arrive(r) ==
    /\ request[r].pc = "idle"
    /\ \E path \in Path :
        Step(r, [pc |-> IF path \in snap.ignored THEN "serve" ELSE "load",
                 path |-> path, policies |-> <<>>, next |-> 1])

\* GetActivePolicies, on the second load: none during the warmup.
LoadPolicies(r) ==
    /\ request[r].pc = "load"
    /\ Step(r, [pc |-> "evaluate", path |-> request[r].path,
                policies |-> IF snap.warmup /\ young THEN <<>> ELSE snap.http, next |-> 1])

\* What rand.Float64() may say of a chance.
Hits(chance) == [no |-> {FALSE}, may |-> BOOLEAN, sure |-> {TRUE}][chance]

\* The loop goes on to the next policy.
Past(q) == [pc |-> "evaluate", path |-> q.path, policies |-> q.policies, next |-> q.next + 1]

\* One policy: skipped, delaying (unless it also fails), failing, or neither.
Evaluate(r) ==
    LET q == request[r]
        p == q.policies[q.next]
    IN
    /\ q.pc = "evaluate" /\ q.next <= Len(q.policies)
    /\ IF q.path \notin p.match THEN Step(r, Past(q)) ELSE
       \E latencyHit \in Hits(p.latency), errorHit \in Hits(p.error) :
            Step(r, CASE errorHit -> [q EXCEPT !.pc = "error"]
                      [] latencyHit /\ ~errorHit -> [q EXCEPT !.pc = "delay"]
                      [] OTHER -> Past(q))

PoliciesDone(r) ==
    /\ request[r].pc = "evaluate" /\ request[r].next > Len(request[r].policies)
    /\ Step(r, [request[r] EXCEPT !.pc = "serve"])

\* The timer fires, and the loop goes on ...
TimerFires(r) ==
    /\ request[r].pc = "delay"
    /\ Step(r, Past(request[r]))

\* ... or the client disconnects first: 499.
Disconnect(r) == request[r].pc = "delay" /\ Step(r, [request[r] EXCEPT !.pc = "gone"])

Serve(r) == request[r].pc = "serve" /\ Step(r, [request[r] EXCEPT !.pc = "served"])

Leave(r) == request[r].pc \in {"served", "error", "gone"} /\ Step(r, NoRequest)

Handle(r) ==
    \/ LoadPolicies(r) \/ Evaluate(r) \/ PoliciesDone(r)
    \/ TimerFires(r) \/ Disconnect(r) \/ Serve(r) \/ Leave(r)

Next ==
    \/ Mature
    \/ \E c \in Caller : Submit(c) \/ Update(c)
    \/ \E r \in Request : Arrive(r) \/ Handle(r)

\* Goroutines run; sync.Mutex hands over to a waiter it has starved.
Fairness ==
    /\ \A c \in Caller : WF_vars(Update(c)) /\ SF_vars(Lock(c))
    /\ \A r \in Request : WF_vars(Handle(r))

Spec == Init /\ [][Next]_vars
FairSpec == Spec /\ Fairness

-----------------------------------------------------------------------------
\* Every variable has its type.
TypeOK ==
    /\ fleet \in Fleets /\ snap \in fleet /\ snap.valid /\ young \in BOOLEAN
    /\ mu \in Caller \cup {None} /\ updates \in 0 .. MaxUpdate
    /\ caller \in [Caller -> [pc : {"idle", "validate", "update", "holding", "unlock",
                                    "applied", "rejected"},
                              config : fleet \cup {NoConfig}]]
    /\ request \in [Request -> [pc : {"idle", "load", "evaluate", "delay", "serve",
                                      "served", "error", "gone"},
                                path : Path,
                                policies : {c.http : c \in fleet} \cup {<<>>},
                                next : Nat \ {0}]]

\* The promise of AtomicEngine, kept by these steps: an update takes effect
\* between call and reply, and a request is bound to a configuration at its
\* last load of the snapshot.
CallState == [idle |-> "idle", validate |-> "open", update |-> "open", holding |-> "open",
              unlock |-> "applied", applied |-> "applied", rejected |-> "rejected"]
RequestState == [idle |-> "out", load |-> "out", evaluate |-> "bound", delay |-> "bound",
                 serve |-> "bound", served |-> "served", error |-> "error", gone |-> "gone"]

Called == [c \in Caller |-> [state |-> CallState[caller[c].pc], config |-> caller[c].config]]

\* What the promise sees of a request q.
Fate(q) ==
    IF RequestState[q.pc] = "out"
    THEN [state |-> "out", path |-> NoRequest.path, policies |-> <<>>]
    ELSE [state |-> RequestState[q.pc], path |-> q.path, policies |-> q.policies]
Decided == [r \in Request |-> Fate(request[r])]

Promise == INSTANCE AtomicEngine WITH
    Config <- UNION Fleets, current <- snap, call <- Called, decision <- Decided
Atomic == Promise!Spec

\* Every request is answered and every update returns, whatever the others do.
EveryoneReturns ==
    /\ \A r \in Request : (request[r].pc = "load") ~> (request[r].pc = "idle")
    /\ \A c \in Caller : At(c, "update") ~> At(c, "idle")

\* A protected path is never sabotaged: if every configuration that has
\* policies protects the path, no request for it fails.
ProtectedIsSpared ==
    \A r \in Request :
        (\A c \in fleet : c.http # <<>> => request[r].path \in c.ignored) => request[r].pc # "error"
=============================================================================
