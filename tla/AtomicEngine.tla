---------------------------- MODULE AtomicEngine ----------------------------
(***************************************************************************)
(* What the configuration plane of the engine promises: configurations are *)
(* replaced atomically, a caller is told "applied" exactly if its own one  *)
(* took effect between call and reply, and each HTTP request is treated by *)
(* the policies that one configuration had for it at one moment.           *)
(***************************************************************************)
EXTENDS Naturals, Sequences

CONSTANTS
    Caller,   \* callers of Manager.Update
    Request,  \* requests in flight at once
    Path,     \* what requests ask for
    Config    \* the configurations callers submit, as ConfigPlane has them

VARIABLES
    current,  \* the configuration in effect
    young,    \* the process is younger than any warmup
    call,     \* what each caller submitted, and what it was told
    decision  \* the policies each request is treated by, and its outcome

vars == <<current, young, call, decision>>

NoConfig == [valid |-> TRUE, warmup |-> FALSE, ignored |-> {}, http |-> <<>>]
NoCall == [state |-> "idle", config |-> NoConfig]
Unbound == [state |-> "out", path |-> CHOOSE p \in Path : TRUE, policies |-> <<>>]

Init ==
    /\ current \in {c \in Config : c.valid} /\ young \in BOOLEAN
    /\ call = [c \in Caller |-> NoCall]
    /\ decision = [r \in Request |-> Unbound]

\* The policies configuration c has for path.
Effective(c, path) ==
    IF path \in c.ignored \/ (c.warmup /\ young) THEN <<>> ELSE c.http

\* A policy the request may get past, delayed or not, and the ways it may end.
Passable(policy, path) == path \notin policy.match \/ policy.error # "sure"
Fails(policy, path) == path \in policy.match /\ policy.error # "no"
Delays(policy, path) == path \in policy.match /\ policy.latency # "no" /\ policy.error # "sure"

Reaches(policies, path, i) == \A j \in 1 .. i - 1 : Passable(policies[j], path)

\* What may become of a request: it is served, it fails, or its client goes
\* away while it is delayed.
Outcomes(policies, path) ==
    {o \in {"served", "error", "gone"} :
        CASE o = "served" -> Reaches(policies, path, Len(policies) + 1)
          [] o = "error"  -> \E i \in DOMAIN policies :
                                Reaches(policies, path, i) /\ Fails(policies[i], path)
          [] o = "gone"   -> \E i \in DOMAIN policies :
                                Reaches(policies, path, i) /\ Delays(policies[i], path)}

-----------------------------------------------------------------------------
Submit(c) ==
    /\ call[c].state = "idle"
    /\ \E cfg \in Config \cup {NoConfig} : call' = [call EXCEPT ![c] = [state |-> "open", config |-> cfg]]
    /\ UNCHANGED <<current, young, decision>>

Apply(c) ==
    /\ call[c].state = "open" /\ call[c].config.valid
    /\ current' = call[c].config /\ call' = [call EXCEPT ![c].state = "applied"]
    /\ UNCHANGED <<young, decision>>

Reject(c) ==
    /\ call[c].state = "open" /\ ~call[c].config.valid
    /\ call' = [call EXCEPT ![c].state = "rejected"]
    /\ UNCHANGED <<current, young, decision>>

Close(c) ==
    /\ call[c].state \in {"applied", "rejected"} /\ call' = [call EXCEPT ![c] = NoCall]
    /\ UNCHANGED <<current, young, decision>>

Mature == young /\ young' = FALSE /\ UNCHANGED <<current, call, decision>>

Bind(r) ==
    /\ decision[r].state = "out"
    /\ \E path \in Path : decision' = [decision EXCEPT ![r] =
            [state |-> "bound", path |-> path, policies |-> Effective(current, path)]]
    /\ UNCHANGED <<current, young, call>>

Finish(r) ==
    /\ decision[r].state = "bound"
    /\ \E o \in Outcomes(decision[r].policies, decision[r].path) :
            decision' = [decision EXCEPT ![r].state = o]
    /\ UNCHANGED <<current, young, call>>

Leave(r) ==
    /\ decision[r].state \notin {"out", "bound"} /\ decision' = [decision EXCEPT ![r] = Unbound]
    /\ UNCHANGED <<current, young, call>>

Next ==
    \/ Mature
    \/ \E c \in Caller : Submit(c) \/ Apply(c) \/ Reject(c) \/ Close(c)
    \/ \E r \in Request : Bind(r) \/ Finish(r) \/ Leave(r)

Spec == Init /\ [][Next]_vars
=============================================================================
