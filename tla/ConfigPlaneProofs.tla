--------------------------- MODULE ConfigPlaneProofs ---------------------------
(***************************************************************************)
(* The configuration plane implements AtomicEngine, for any callers,       *)
(* requests, paths and configurations, provided that all configurations in *)
(* play together protect the same paths: the middleware asks for the       *)
(* protection and for the policies in two loads.                           *)
(***************************************************************************)
EXTENDS ConfigPlane, TLAPS

OneProtection == \A f \in Fleets : \A c, d \in f : c.ignored = d.ignored

\* Only what is valid gets past the handler's own validation, and nobody makes
\* up a configuration.
Validated == \A c \in Caller :
    /\ caller[c].pc \in {"update", "holding"} => caller[c].config.valid
    /\ caller[c].pc = "rejected" => ~caller[c].config.valid
    /\ caller[c].pc # "idle" => caller[c].config \in fleet

\* A request has passed every policy before the one it is at.
Justified(q) ==
    /\ q.pc \in {"idle", "load"} => q.next = 1
    /\ q.pc \in {"evaluate", "delay"} =>
          q.next <= Len(q.policies) + 1 /\ Promise!Reaches(q.policies, q.path, q.next)
    /\ q.pc = "delay" => q.next <= Len(q.policies) /\ Promise!Delays(q.policies[q.next], q.path)
    /\ q.pc = "serve" => Promise!Reaches(q.policies, q.path, Len(q.policies) + 1)

Judged == \A r \in Request : Justified(request[r])

IInv == TypeOK /\ Validated /\ Judged

\* A path that is not protected by one configuration is protected by none.
Exposed == \A r \in Request : request[r].pc = "load" => request[r].path \notin snap.ignored

-----------------------------------------------------------------------------
CallPc == {"idle", "validate", "update", "holding", "unlock", "applied", "rejected"}
RequestPc == {"idle", "load", "evaluate", "delay", "serve", "served", "error", "gone"}
CallShape == [pc : CallPc, config : fleet \cup {NoConfig}]
RequestShape == [pc : RequestPc, path : Path, policies : {c.http : c \in fleet} \cup {<<>>},
                 next : Nat \ {0}]

LEMMA InPlay ==
    ASSUME fleet \in Fleets, NEW c \in fleet
    PROVE  c \in ConfigShape /\ c \in UNION Fleets
BY PlaneAssumption

LEMMA PoliciesInPlay ==
    ASSUME TypeOK, NEW s \in {c.http : c \in fleet} \cup {<<>>}
    PROVE  s \in Seq(HttpPolicy) /\ Len(s) \in Nat /\ \A i \in 1 .. Len(s) : s[i] \in HttpPolicy
<1>1. <<>> \in Seq(HttpPolicy)
  OBVIOUS
<1>2. \A c \in fleet : c.http \in Seq(HttpPolicy)
  BY InPlay DEF TypeOK, ConfigShape
<1>3. s \in Seq(HttpPolicy)
  BY <1>1, <1>2
<1> QED
  BY <1>3

LEMMA FreshRequest ==
    /\ NoRequest.pc = "idle" /\ NoRequest.path \in Path /\ NoRequest.policies = <<>>
    /\ NoRequest.next = 1 /\ NoRequest = [pc |-> "idle", path |-> NoRequest.path,
                                          policies |-> <<>>, next |-> 1]
BY PlaneAssumption DEF NoRequest

LEMMA FreshFits == NoRequest \in RequestShape
<1>1. 1 \in Nat \ {0}
  OBVIOUS
<1> QED
  BY <1>1, FreshRequest DEF RequestShape, RequestPc

\* The steps of callers.
CallerStep(c, new) ==
    /\ caller' = [caller EXCEPT ![c] = new] /\ UNCHANGED <<fleet, young, request>>

LEMMA ToIsStep ==
    ASSUME TypeOK, NEW c \in Caller, NEW pc \in CallPc, To(c, pc)
    PROVE  /\ [pc |-> pc, config |-> caller[c].config] \in CallShape
           /\ caller' = [caller EXCEPT ![c] = [pc |-> pc, config |-> caller[c].config]]
<1>1. caller \in [Caller -> CallShape]
  BY DEF TypeOK, CallShape, CallPc
<1>2. caller[c] = [pc |-> caller[c].pc, config |-> caller[c].config]
  BY <1>1 DEF CallShape
<1>3. [caller[c] EXCEPT !.pc = pc] = [pc |-> pc, config |-> caller[c].config]
  BY <1>2
<1>4. caller' = [caller EXCEPT ![c] = [caller[c] EXCEPT !.pc = pc]]
  BY DEF To
<1> QED
  BY <1>1, <1>3, <1>4 DEF CallShape

LEMMA CalledMoves ==
    ASSUME TypeOK, NEW c \in Caller, NEW new, CallerStep(c, new)
    PROVE  Called' = [Called EXCEPT ![c] = [state |-> CallState[new.pc], config |-> new.config]]
<1>1. caller \in [Caller -> CallShape]
  BY DEF TypeOK, CallShape, CallPc
<1> QED
  BY <1>1 DEF CallerStep, Called

LEMMA CallerKeeps ==
    ASSUME IInv, NEW c \in Caller, NEW new \in CallShape, CallerStep(c, new),
           snap' = snap \/ (snap' = new.config /\ snap' \in fleet /\ snap'.valid),
           mu' \in Caller \cup {None}, updates' \in 0 .. MaxUpdate,
           new.pc \in {"update", "holding"} => new.config.valid,
           new.pc = "rejected" => ~new.config.valid,
           new.pc # "idle" => new.config \in fleet
    PROVE  IInv'
<1>1. caller \in [Caller -> CallShape] /\ TypeOK
  BY DEF IInv, TypeOK, CallShape, CallPc
<1>2. caller' \in [Caller -> CallShape] /\ caller'[c] = new
      /\ \A d \in Caller \ {c} : caller'[d] = caller[d]
  BY <1>1 DEF CallerStep
<1>3. TypeOK'
  BY <1>1, <1>2 DEF CallerStep, TypeOK, CallShape, CallPc
<1>4. Validated'
  BY <1>2 DEF IInv, Validated, CallerStep
<1>5. Judged'
  BY DEF IInv, Judged, CallerStep
<1> QED
  BY <1>3, <1>4, <1>5 DEF IInv

\* What a step of a caller is to the promise.
Kept == IInv' /\ [Promise!Next]_Promise!vars

LEMMA PromisedStutter ==
    ASSUME Called' = Called, Decided' = Decided, UNCHANGED <<snap, young>>
    PROVE  [Promise!Next]_Promise!vars
BY DEF Promise!vars

LEMMA States ==
    /\ CallState["idle"] = "idle" /\ CallState["validate"] = "open" /\ CallState["update"] = "open"
    /\ CallState["holding"] = "open" /\ CallState["unlock"] = "applied"
    /\ CallState["applied"] = "applied" /\ CallState["rejected"] = "rejected"
BY DEF CallState

LEMMA StateOf ==
    ASSUME TypeOK, NEW c \in Caller
    PROVE  /\ Called[c] = [state |-> CallState[caller[c].pc], config |-> caller[c].config]
           /\ Called[c].state = CallState[caller[c].pc] /\ Called[c].config = caller[c].config
           /\ Called = [Called EXCEPT ![c] = Called[c]]
           /\ \A s : [Called EXCEPT ![c].state = s] = [Called EXCEPT ![c] =
                    [state |-> s, config |-> caller[c].config]]
<1>1. Called[c] = [state |-> CallState[caller[c].pc], config |-> caller[c].config]
  BY DEF Called
<1>2. Called = [Called EXCEPT ![c] = Called[c]]
  BY DEF Called
<1>3. ASSUME NEW s
      PROVE  [Called EXCEPT ![c].state = s] = [Called EXCEPT ![c] =
                    [state |-> s, config |-> caller[c].config]]
  <2>1. [Called[c] EXCEPT !.state = s] = [state |-> s, config |-> caller[c].config]
    BY <1>1
  <2> QED
    BY <2>1
<1> QED
  BY <1>1, <1>2, <1>3

\* A caller goes on with its configuration.
LEMMA CalledTo ==
    ASSUME TypeOK, NEW c \in Caller, NEW pc, NEW state,
           CallerStep(c, [pc |-> pc, config |-> caller[c].config]), CallState[pc] = state
    PROVE  /\ Called' = [Called EXCEPT ![c].state = state]
           /\ CallState[caller[c].pc] = state => Called' = Called
<1> DEFINE new == [pc |-> pc, config |-> caller[c].config]
<1>1. new.pc = pc /\ new.config = caller[c].config
  OBVIOUS
<1>2. CallerStep(c, new)
  OBVIOUS
<1> HIDE DEF new
<1>3. Called' = [Called EXCEPT ![c] = [state |-> CallState[new.pc], config |-> new.config]]
  BY <1>2, CalledMoves
<1>4. Called' = [Called EXCEPT ![c] = [state |-> state, config |-> caller[c].config]]
  BY <1>1, <1>3
<1>5. Called' = [Called EXCEPT ![c].state = state]
  BY <1>4, StateOf
<1>6. ASSUME CallState[caller[c].pc] = state PROVE Called' = Called
  <2>1. Called[c] = [state |-> state, config |-> caller[c].config]
    BY <1>6, StateOf
  <2>2. Called = [Called EXCEPT ![c] = Called[c]]
    BY StateOf
  <2> QED
    BY <1>4, <2>1, <2>2
<1> QED
  BY <1>5, <1>6

LEMMA RequestsStay == ASSUME UNCHANGED request PROVE Decided' = Decided
BY DEF Decided

LEMMA SubmitKept == ASSUME IInv, NEW c \in Caller, Submit(c) PROVE Kept
<1>1. TypeOK /\ caller[c].pc = "idle" /\ UNCHANGED <<fleet, snap, young, mu, request>>
  BY DEF Submit, At, IInv
<1>2. PICK pc \in {"validate", "update"}, cfg \in fleet :
        /\ caller' = [caller EXCEPT ![c] = [pc |-> pc, config |-> cfg]]
        /\ pc = "update" => cfg = NoConfig
  BY DEF Submit
<1> DEFINE new == [pc |-> pc, config |-> cfg]
<1>3. new \in CallShape /\ CallerStep(c, new)
  BY <1>1, <1>2 DEF CallShape, CallPc, CallerStep
<1>4. /\ new.pc \in {"update", "holding"} => new.config.valid
      /\ new.pc # "rejected" /\ new.config \in fleet /\ new.config = cfg
  BY <1>2 DEF NoConfig
<1>5. updates' \in 0 .. MaxUpdate /\ mu' \in Caller \cup {None}
  BY <1>1, PlaneAssumption DEF Submit, TypeOK
<1>6. CallState[new.pc] = "open"
  BY <1>2 DEF CallState
<1> HIDE DEF new
<1>7. IInv'
  BY <1>1, <1>3, <1>4, <1>5, CallerKeeps
<1>8. Called' = [Called EXCEPT ![c] = [state |-> "open", config |-> cfg]]
  BY <1>1, <1>3, <1>4, <1>6, CalledMoves
<1>9. Called[c].state = "idle"
  BY <1>1, StateOf, States
<1>10. cfg \in UNION Fleets
  BY <1>1, InPlay DEF TypeOK
<1>11. Promise!Submit(c)
  BY <1>1, <1>8, <1>9, <1>10, RequestsStay DEF Promise!Submit
<1> QED
  BY <1>7, <1>11 DEF Kept, Promise!Next

LEMMA ValidateKept == ASSUME IInv, NEW c \in Caller, Validate(c) PROVE Kept
<1>1. /\ TypeOK /\ caller[c].pc = "validate" /\ UNCHANGED <<fleet, snap, young, mu, updates, request>>
      /\ caller[c].config \in fleet
  BY DEF Validate, At, IInv, Validated
<1>2. updates' \in 0 .. MaxUpdate /\ mu' \in Caller \cup {None}
  BY <1>1 DEF TypeOK
<1>3. CallState[caller[c].pc] = "open"
  BY <1>1, States
<1>4. CASE caller[c].config.valid
  <2> DEFINE new == [pc |-> "update", config |-> caller[c].config]
  <2>1. To(c, "update") /\ "update" \in CallPc
    BY <1>4 DEF Validate, CallPc
  <2>2. new \in CallShape /\ CallerStep(c, new) /\ new.pc = "update" /\ new.config = caller[c].config
    BY <1>1, <2>1, ToIsStep DEF CallerStep
  <2>3. Called' = Called
    BY <1>1, <1>3, <2>2, States, CalledTo
  <2> HIDE DEF new
  <2>4. IInv'
    BY <1>1, <1>2, <1>4, <2>2, CallerKeeps
  <2> QED
    BY <1>1, <2>3, <2>4, RequestsStay, PromisedStutter DEF Kept
<1>5. CASE ~caller[c].config.valid
  <2> DEFINE new == [pc |-> "rejected", config |-> caller[c].config]
  <2>1. To(c, "rejected") /\ "rejected" \in CallPc
    BY <1>5 DEF Validate, CallPc
  <2>2. new \in CallShape /\ CallerStep(c, new) /\ new.pc = "rejected" /\ new.config = caller[c].config
    BY <1>1, <2>1, ToIsStep DEF CallerStep
  <2>3. Called' = [Called EXCEPT ![c].state = "rejected"]
    BY <1>1, <2>2, States, CalledTo
  <2> HIDE DEF new
  <2>4. IInv'
    BY <1>1, <1>2, <1>5, <2>2, CallerKeeps
  <2>5. Called[c].state = "open" /\ Called[c].config = caller[c].config
    BY <1>1, <1>3, StateOf
  <2>6. Promise!Reject(c)
    BY <1>1, <1>5, <2>3, <2>5, RequestsStay DEF Promise!Reject
  <2> QED
    BY <2>4, <2>6 DEF Kept, Promise!Next
<1> QED
  BY <1>4, <1>5

LEMMA LockKept == ASSUME IInv, NEW c \in Caller, Lock(c) PROVE Kept
<1> DEFINE new == [pc |-> "holding", config |-> caller[c].config]
<1>1. /\ TypeOK /\ caller[c].pc = "update" /\ UNCHANGED <<fleet, snap, young, updates, request>>
      /\ To(c, "holding") /\ mu' = c /\ caller[c].config \in fleet /\ caller[c].config.valid
  BY DEF Lock, At, IInv, Validated
<1>2. new \in CallShape /\ CallerStep(c, new) /\ new.pc = "holding" /\ new.config = caller[c].config
  BY <1>1, ToIsStep DEF CallerStep, CallPc
<1>3. Called' = Called
  BY <1>1, <1>2, States, CalledTo
<1> HIDE DEF new
<1>4. IInv'
  BY <1>1, <1>2, CallerKeeps DEF TypeOK
<1> QED
  BY <1>1, <1>3, <1>4, RequestsStay, PromisedStutter DEF Kept

LEMMA PublishKept == ASSUME IInv, NEW c \in Caller, Publish(c) PROVE Kept
<1> DEFINE new == [pc |-> "unlock", config |-> caller[c].config]
<1>1. /\ TypeOK /\ caller[c].pc = "holding" /\ UNCHANGED <<fleet, young, mu, updates, request>>
      /\ To(c, "unlock") /\ caller[c].config \in fleet /\ caller[c].config.valid
  BY DEF Publish, At, IInv, Validated
<1>2. snap' = caller[c].config
  BY <1>1 DEF Publish
<1>3. new \in CallShape /\ CallerStep(c, new) /\ new.pc = "unlock" /\ new.config = caller[c].config
  BY <1>1, ToIsStep DEF CallerStep, CallPc
<1>4. Called' = [Called EXCEPT ![c].state = "applied"]
  BY <1>1, <1>3, States, CalledTo
<1> HIDE DEF new
<1>5. Called[c].state = "open" /\ Called[c].config = caller[c].config
  <2>1. Called[c].state = CallState[caller[c].pc] /\ Called[c].config = caller[c].config
    BY <1>1, StateOf
  <2> QED
    BY <1>1, <2>1, States
<1>6. IInv'
  BY <1>1, <1>2, <1>3, CallerKeeps DEF TypeOK
<1>7. Promise!Apply(c)
  BY <1>1, <1>2, <1>4, <1>5, RequestsStay DEF Promise!Apply
<1> QED
  BY <1>6, <1>7 DEF Kept, Promise!Next

LEMMA UnlockKept == ASSUME IInv, NEW c \in Caller, Unlock(c) PROVE Kept
<1> DEFINE new == [pc |-> "applied", config |-> caller[c].config]
<1>1. /\ TypeOK /\ caller[c].pc = "unlock" /\ UNCHANGED <<fleet, snap, young, updates, request>>
      /\ To(c, "applied") /\ mu' = None /\ caller[c].config \in fleet
  BY DEF Unlock, At, IInv, Validated
<1>2. new \in CallShape /\ CallerStep(c, new) /\ new.pc = "applied" /\ new.config = caller[c].config
  BY <1>1, ToIsStep DEF CallerStep, CallPc
<1>3. Called' = Called
  BY <1>1, <1>2, States, CalledTo
<1> HIDE DEF new
<1>4. IInv'
  BY <1>1, <1>2, CallerKeeps DEF TypeOK
<1> QED
  BY <1>1, <1>3, <1>4, RequestsStay, PromisedStutter DEF Kept

LEMMA ReplyKept == ASSUME IInv, NEW c \in Caller, Reply(c) PROVE Kept
<1>1. /\ TypeOK /\ caller[c].pc \in {"applied", "rejected"}
      /\ UNCHANGED <<fleet, snap, young, mu, updates, request>>
      /\ caller' = [caller EXCEPT ![c] = NoCall]
  BY DEF Reply, IInv
<1>2. NoCall \in CallShape /\ CallerStep(c, NoCall) /\ NoCall.pc = "idle" /\ NoCall.config = NoConfig
  BY <1>1 DEF NoCall, CallShape, CallPc, CallerStep
<1>3. IInv'
  BY <1>1, <1>2, CallerKeeps DEF TypeOK
<1>4. Called' = [Called EXCEPT ![c] = Promise!NoCall] /\ Called[c].state \in {"applied", "rejected"}
  <2>1. CallState[NoCall.pc] = "idle" /\ CallState[caller[c].pc] \in {"applied", "rejected"}
    BY <1>1, <1>2 DEF CallState
  <2>2. Promise!NoCall = [state |-> "idle", config |-> NoConfig]
    BY DEF Promise!NoCall, Promise!NoConfig, NoConfig
  <2> QED
    <3>1. Called' = [Called EXCEPT ![c] = [state |-> CallState[NoCall.pc], config |-> NoCall.config]]
      BY <1>1, <1>2, CalledMoves
    <3>2. Called[c].state = CallState[caller[c].pc]
      BY <1>1, StateOf
    <3> QED
      BY <1>2, <2>1, <2>2, <3>1, <3>2
<1>5. Promise!Close(c)
  BY <1>1, <1>4, RequestsStay DEF Promise!Close
<1> QED
  BY <1>3, <1>5 DEF Kept, Promise!Next

-----------------------------------------------------------------------------
\* The steps of requests.

LEMMA CallersStay == ASSUME UNCHANGED caller PROVE Called' = Called
BY DEF Called

LEMMA RequestIsShape ==
    ASSUME TypeOK, NEW r \in Request
    PROVE  /\ request \in [Request -> RequestShape] /\ request[r] \in RequestShape
           /\ request[r].policies \in Seq(HttpPolicy) /\ Len(request[r].policies) \in Nat
           /\ \A i \in 1 .. Len(request[r].policies) : request[r].policies[i] \in HttpPolicy
           /\ request[r].next \in Nat \ {0} /\ request[r].path \in Path
<1>1. request \in [Request -> RequestShape]
  BY DEF TypeOK, RequestShape, RequestPc
<1>2. /\ request[r].policies \in {c.http : c \in fleet} \cup {<<>>}
      /\ request[r].next \in Nat \ {0} /\ request[r].path \in Path
  BY <1>1 DEF RequestShape
<1> QED
  BY <1>1, <1>2, PoliciesInPlay

LEMMA RequestKeeps ==
    ASSUME IInv, NEW r \in Request, NEW new \in RequestShape, Step(r, new), Justified(new)
    PROVE  IInv'
<1>1. TypeOK /\ request \in [Request -> RequestShape]
  BY RequestIsShape DEF IInv
<1>2. request' \in [Request -> RequestShape] /\ request'[r] = new
      /\ \A q \in Request \ {r} : request'[q] = request[q]
  BY <1>1 DEF Step
<1>3. UNCHANGED <<fleet, snap, young, mu, caller, updates>>
  BY DEF Step
<1>4. TypeOK'
  BY <1>1, <1>2, <1>3 DEF TypeOK, RequestShape, RequestPc
<1>5. Validated'
  BY <1>3 DEF IInv, Validated
<1>6. Judged'
  BY <1>2 DEF IInv, Judged
<1> QED
  BY <1>4, <1>5, <1>6 DEF IInv

LEMMA Fates ==
    ASSUME NEW q
    PROVE  /\ q.pc \in {"idle", "load"} => Fate(q) = Promise!Unbound
           /\ q.pc \in {"evaluate", "delay", "serve"} =>
                Fate(q) = [state |-> "bound", path |-> q.path, policies |-> q.policies]
           /\ q.pc \in {"served", "error", "gone"} =>
                Fate(q) = [state |-> q.pc, path |-> q.path, policies |-> q.policies]
<1>1. /\ RequestState["idle"] = "out" /\ RequestState["load"] = "out"
      /\ RequestState["evaluate"] = "bound" /\ RequestState["delay"] = "bound"
      /\ RequestState["serve"] = "bound" /\ RequestState["served"] = "served"
      /\ RequestState["error"] = "error" /\ RequestState["gone"] = "gone"
  BY DEF RequestState
<1>2. Promise!Unbound = [state |-> "out", path |-> NoRequest.path, policies |-> <<>>]
  BY FreshRequest DEF Promise!Unbound, NoRequest
<1> QED
  BY <1>1, <1>2 DEF Fate

LEMMA DecidedMoves ==
    ASSUME TypeOK, NEW r \in Request, NEW new, Step(r, new)
    PROVE  /\ Decided[r] = Fate(request[r])
           /\ Decided' = [Decided EXCEPT ![r] = Fate(new)]
           /\ Fate(new) = Fate(request[r]) => Decided' = Decided
           /\ UNCHANGED <<snap, young, Called>>
<1>1. request \in [Request -> RequestShape]
  BY RequestIsShape
<1>2. request' = [request EXCEPT ![r] = new] /\ UNCHANGED <<fleet, snap, young, mu, caller, updates>>
  BY DEF Step
<1>3. Decided' = [q \in Request |-> Fate(request'[q])]
  BY DEF Decided, Fate, NoRequest
<1>4. \A q \in Request : Decided'[q] = IF q = r THEN Fate(new) ELSE Fate(request[q])
  BY <1>1, <1>2, <1>3
<1>5. Decided' = [Decided EXCEPT ![r] = Fate(new)]
  BY <1>3, <1>4 DEF Decided
<1>6. Fate(new) = Fate(request[r]) => Decided' = Decided
  BY <1>3, <1>4 DEF Decided
<1> QED
  BY <1>2, <1>5, <1>6, CallersStay DEF Decided

\* A request that goes on with what it is bound to.
LEMMA Onwards ==
    ASSUME IInv, NEW r \in Request, NEW new \in RequestShape, Step(r, new), Justified(new),
           Fate(new) = Fate(request[r])
    PROVE  Kept
BY RequestKeeps, DecidedMoves, PromisedStutter DEF Kept, IInv

\* A request that ends as its policies allow.
LEMMA Ending ==
    ASSUME IInv, NEW r \in Request, NEW o \in {"served", "error", "gone"},
           request[r].pc \in {"evaluate", "delay", "serve"},
           Step(r, [request[r] EXCEPT !.pc = o]),
           o \in Promise!Outcomes(request[r].policies, request[r].path)
    PROVE  Kept
<1> DEFINE q == request[r]
           new == [q EXCEPT !.pc = o]
<1>1. TypeOK /\ q \in RequestShape
  BY RequestIsShape DEF IInv
<1>2. new \in RequestShape /\ new.pc = o /\ new.path = q.path /\ new.policies = q.policies
  BY <1>1 DEF RequestShape, RequestPc
<1>3. Step(r, new)
  OBVIOUS
<1> HIDE DEF new
<1>4. IInv'
  BY <1>2, <1>3, RequestKeeps DEF Justified
<1>5. /\ Decided[r] = [state |-> "bound", path |-> q.path, policies |-> q.policies]
      /\ Decided' = [Decided EXCEPT ![r] = [state |-> o, path |-> q.path, policies |-> q.policies]]
      /\ UNCHANGED <<snap, young, Called>>
  BY <1>1, <1>2, <1>3, DecidedMoves, Fates
<1>6. [Decided EXCEPT ![r].state = o]
        = [Decided EXCEPT ![r] = [state |-> o, path |-> q.path, policies |-> q.policies]]
  <2>1. [Decided[r] EXCEPT !.state = o] = [state |-> o, path |-> q.path, policies |-> q.policies]
    BY <1>5
  <2> QED
    BY <2>1
<1>7. Decided[r].state = "bound" /\ Decided[r].policies = q.policies /\ Decided[r].path = q.path
  BY <1>5
<1>8. Promise!Finish(r)
  <2>1. Decided' = [Decided EXCEPT ![r].state = o]
    BY <1>5, <1>6
  <2>2. o \in Promise!Outcomes(Decided[r].policies, Decided[r].path)
    BY <1>7
  <2> HIDE DEF q
  <2> QED
    BY <1>5, <1>7, <2>1, <2>2 DEF Promise!Finish
<1> QED
  BY <1>4, <1>8 DEF Kept, Promise!Next

\* A request that is bound to the configuration published now.
LEMMA Binding ==
    ASSUME IInv, NEW r \in Request, NEW new \in RequestShape, Step(r, new), Justified(new),
           request[r].pc \in {"idle", "load"}, new.pc \in {"evaluate", "serve"},
           new.policies = Promise!Effective(snap, new.path)
    PROVE  Kept
<1>1. TypeOK /\ new.path \in Path
  BY DEF IInv, RequestShape
<1>2. /\ Decided[r] = Promise!Unbound
      /\ Decided' = [Decided EXCEPT ![r] = [state |-> "bound", path |-> new.path, policies |-> new.policies]]
      /\ UNCHANGED <<snap, young, Called>>
  BY <1>1, DecidedMoves, Fates
<1>3. Decided[r].state = "out"
  BY <1>2 DEF Promise!Unbound
<1>4. Promise!Bind(r)
  BY <1>1, <1>2, <1>3 DEF Promise!Bind
<1>5. IInv'
  BY RequestKeeps
<1> QED
  BY <1>4, <1>5 DEF Kept, Promise!Next

LEMMA ArriveKept == ASSUME IInv, NEW r \in Request, Arrive(r) PROVE Kept
<1>1. TypeOK /\ request[r].pc = "idle"
  BY DEF IInv, Arrive
<1>2. PICK path \in Path :
        Step(r, [pc |-> IF path \in snap.ignored THEN "serve" ELSE "load",
                 path |-> path, policies |-> <<>>, next |-> 1])
  BY DEF Arrive
<1> DEFINE pc == IF path \in snap.ignored THEN "serve" ELSE "load"
           new == [pc |-> pc, path |-> path, policies |-> <<>>, next |-> 1]
<1>3. Step(r, new)
  BY <1>2
<1>4. /\ new.pc = pc /\ new.path = path /\ new.policies = <<>> /\ Len(new.policies) = 0
      /\ new.next = 1 /\ new \in RequestShape
  <2>1. 1 \in Nat \ {0}
    OBVIOUS
  <2> QED
    BY <2>1 DEF RequestShape, RequestPc
<1>5. pc \in {"serve", "load"} /\ (pc = "serve" => path \in snap.ignored)
  OBVIOUS
<1> HIDE DEF new, pc
<1>6. Justified(new)
  BY <1>4, <1>5 DEF Justified, Promise!Reaches
<1>7. CASE pc = "serve"
  <2>1. new.policies = Promise!Effective(snap, new.path)
    BY <1>4, <1>5, <1>7 DEF Promise!Effective
  <2> QED
    BY <1>1, <1>3, <1>4, <1>6, <1>7, <2>1, Binding
<1>8. CASE pc = "load"
  BY <1>1, <1>3, <1>4, <1>6, <1>8, Fates, Onwards
<1> QED
  BY <1>5, <1>7, <1>8

\* What the second load gives a request.
Loaded(q) == [pc |-> "evaluate", path |-> q.path,
              policies |-> IF snap.warmup /\ young THEN <<>> ELSE snap.http, next |-> 1]

LEMMA LoadedFits ==
    ASSUME IInv, NEW r \in Request
    PROVE  Loaded(request[r]) \in RequestShape /\ Justified(Loaded(request[r]))
<1> DEFINE s == IF snap.warmup /\ young THEN <<>> ELSE snap.http
           new == Loaded(request[r])
<1>1. TypeOK /\ request[r].path \in Path /\ 1 \in Nat \ {0}
  BY RequestIsShape DEF IInv
<1>2. new = [pc |-> "evaluate", path |-> request[r].path, policies |-> s, next |-> 1]
  BY DEF Loaded
<1>3. s \in {c.http : c \in fleet} \cup {<<>>}
  BY <1>1 DEF TypeOK
<1> HIDE DEF s
<1>4. new \in RequestShape
  BY <1>1, <1>2, <1>3 DEF RequestShape, RequestPc
<1>5. new.pc = "evaluate" /\ new.policies = s /\ new.next = 1 /\ Len(s) \in Nat
  BY <1>1, <1>2, <1>3, PoliciesInPlay
<1> HIDE DEF new
<1>6. Justified(new)
  BY <1>5 DEF Justified, Promise!Reaches
<1> QED
  BY <1>4, <1>6 DEF new

LEMMA LoadKeeps == ASSUME IInv, NEW r \in Request, LoadPolicies(r) PROVE IInv'
BY LoadedFits, RequestKeeps DEF LoadPolicies, Loaded

LEMMA LoadKept == ASSUME IInv, Exposed, NEW r \in Request, LoadPolicies(r) PROVE Kept
<1> DEFINE new == Loaded(request[r])
<1>1. request[r].pc = "load" /\ request[r].path \notin snap.ignored /\ Step(r, new)
  BY DEF LoadPolicies, Exposed, Loaded
<1>2. new.pc = "evaluate" /\ new.policies = Promise!Effective(snap, new.path)
  BY <1>1 DEF Loaded, Promise!Effective
<1>3. new \in RequestShape /\ Justified(new)
  BY LoadedFits
<1> HIDE DEF new
<1> QED
  BY <1>1, <1>2, <1>3, Binding

LEMMA LenIsDomain ==
    ASSUME NEW s \in Seq(HttpPolicy) PROVE DOMAIN s = 1 .. Len(s)
OBVIOUS

\* The policy a request is at.
LEMMA AtPolicy ==
    ASSUME IInv, NEW r \in Request, request[r].pc \in {"evaluate", "delay"},
           request[r].next <= Len(request[r].policies)
    PROVE  /\ request[r].next \in 1 .. Len(request[r].policies)
           /\ request[r].policies[request[r].next] \in HttpPolicy
           /\ Promise!Reaches(request[r].policies, request[r].path, request[r].next)
<1>1. TypeOK
  BY DEF IInv
<1>2. request[r].next \in 1 .. Len(request[r].policies)
  BY <1>1, RequestIsShape
<1> QED
  BY <1>1, <1>2, RequestIsShape DEF IInv, Judged, Justified

\* What is got past no longer matters.
LEMMA Farther ==
    ASSUME NEW s, NEW path, NEW n \in Nat \ {0},
           Promise!Reaches(s, path, n), Promise!Passable(s[n], path)
    PROVE  Promise!Reaches(s, path, n + 1)
<1>1. \A j \in 1 .. (n + 1) - 1 : j \in 1 .. n - 1 \/ j = n
  OBVIOUS
<1> QED
  BY <1>1 DEF Promise!Reaches

\* A policy that is got past, by luck or after a delay.
LEMMA Skipping ==
    ASSUME IInv, NEW r \in Request, request[r].pc \in {"evaluate", "delay"},
           request[r].next <= Len(request[r].policies),
           Promise!Passable(request[r].policies[request[r].next], request[r].path),
           Step(r, Past(request[r]))
    PROVE  Kept
<1> DEFINE new == Past(request[r])
<1>1. TypeOK
  BY DEF IInv
<1>2. /\ request[r] \in RequestShape /\ request[r].next \in Nat \ {0}
      /\ request[r].next + 1 \in Nat \ {0} /\ Len(request[r].policies) \in Nat
  BY <1>1, RequestIsShape
<1>3. new \in RequestShape /\ new.pc = "evaluate" /\ new.path = request[r].path
      /\ new.policies = request[r].policies /\ new.next = request[r].next + 1
  BY <1>2 DEF RequestShape, RequestPc, Past
<1>4. Promise!Reaches(request[r].policies, request[r].path, request[r].next + 1)
  BY <1>2, AtPolicy, Farther
<1>n. Step(r, new)
  OBVIOUS
<1> HIDE DEF new
<1>5. Justified(new)
  BY <1>2, <1>3, <1>4 DEF Justified
<1>6. Fate(new) = Fate(request[r])
  BY <1>3, Fates
<1> QED
  BY <1>n, <1>3, <1>5, <1>6, Onwards

LEMMA HitsOf == Hits("no") = {FALSE} /\ Hits("may") = BOOLEAN /\ Hits("sure") = {TRUE}
BY DEF Hits

LEMMA EvaluateKept == ASSUME IInv, NEW r \in Request, Evaluate(r) PROVE Kept
<1> DEFINE q == request[r]
           p == q.policies[q.next]
<1>1. TypeOK /\ q.pc = "evaluate" /\ q.next <= Len(q.policies)
  BY DEF IInv, Evaluate
<1>2. q \in RequestShape /\ q.next \in 1 .. Len(q.policies) /\ p \in HttpPolicy
      /\ Promise!Reaches(q.policies, q.path, q.next)
  BY <1>1, RequestIsShape, AtPolicy
<1>4. CASE Step(r, Past(q)) /\ Promise!Passable(p, q.path)
  BY <1>1, <1>4, Skipping
<1>5. CASE Step(r, [q EXCEPT !.pc = "error"]) /\ Promise!Fails(p, q.path)
  <2>1. "error" \in Promise!Outcomes(q.policies, q.path)
    <3>1. q.next \in DOMAIN q.policies
      BY <1>1, <1>2, RequestIsShape, LenIsDomain
    <3> QED
      BY <1>2, <1>5, <3>1 DEF Promise!Outcomes
  <2> QED
    BY <1>1, <1>5, <2>1, Ending
<1>6. CASE Step(r, [q EXCEPT !.pc = "delay"]) /\ Promise!Delays(p, q.path)
  <2> DEFINE new == [q EXCEPT !.pc = "delay"]
  <2>1. new \in RequestShape /\ new.pc = "delay" /\ new.path = q.path
        /\ new.policies = q.policies /\ new.next = q.next
    BY <1>2 DEF RequestShape, RequestPc
  <2>2. Step(r, new)
    BY <1>6
  <2>3. Len(q.policies) \in Nat /\ q.next \in Nat
    BY <1>1, RequestIsShape
  <2> HIDE DEF new
  <2>4. Justified(new)
    BY <1>1, <1>2, <1>6, <2>1, <2>3 DEF Justified
  <2>5. Fate(new) = Fate(q)
    BY <1>1, <2>1, Fates
  <2> QED
    BY <2>1, <2>2, <2>4, <2>5, Onwards
<1>7. \/ Step(r, Past(q)) /\ Promise!Passable(p, q.path)
      \/ Step(r, [q EXCEPT !.pc = "error"]) /\ Promise!Fails(p, q.path)
      \/ Step(r, [q EXCEPT !.pc = "delay"]) /\ Promise!Delays(p, q.path)
  <2>1. CASE q.path \notin p.match
    BY <2>1 DEF Evaluate, Promise!Passable
  <2>2. CASE q.path \in p.match
    <3>1. PICK latencyHit \in Hits(p.latency), errorHit \in Hits(p.error) :
            Step(r, CASE errorHit -> [q EXCEPT !.pc = "error"]
                      [] latencyHit /\ ~errorHit -> [q EXCEPT !.pc = "delay"]
                      [] OTHER -> Past(q))
      BY <2>2 DEF Evaluate
    <3>2. p.error \in Chance /\ p.latency \in Chance
      BY <1>2 DEF HttpPolicy
    <3>3. Hits(p.error) \subseteq BOOLEAN /\ Hits(p.latency) \subseteq BOOLEAN
      <4>1. p.error = "no" \/ p.error = "may" \/ p.error = "sure"
        BY <3>2 DEF Chance
      <4>2. p.latency = "no" \/ p.latency = "may" \/ p.latency = "sure"
        BY <3>2 DEF Chance
      <4> QED
        BY <4>1, <4>2, HitsOf
    <3>4. (errorHit => p.error # "no") /\ (~errorHit => p.error # "sure")
          /\ (latencyHit => p.latency # "no")
      <4>1. errorHit => p.error # "no"
        BY <3>1, HitsOf
      <4>2. ~errorHit => p.error # "sure"
        <5>1. errorHit \in Hits(p.error)
          BY <3>1
        <5>2. p.error = "sure" => Hits(p.error) = {TRUE}
          BY HitsOf, Zenon
        <5>3. ASSUME p.error = "sure" PROVE errorHit
          <6>1. errorHit \in {TRUE}
            BY <5>1, <5>2, <5>3, Zenon
          <6>2. errorHit = TRUE
            BY <6>1, Zenon
          <6> QED
            BY <6>2, Zenon
        <5> QED
          BY <5>3, Zenon
      <4>3. latencyHit => p.latency # "no"
        BY <3>1, HitsOf
      <4> QED
        BY <4>1, <4>2, <4>3
    <3>5. CASE errorHit
      BY <2>2, <3>1, <3>4, <3>5 DEF Promise!Fails
    <3>6. CASE latencyHit /\ ~errorHit
      BY <2>2, <3>1, <3>4, <3>6 DEF Promise!Delays
    <3>7. CASE ~latencyHit /\ ~errorHit
      BY <2>2, <3>1, <3>4, <3>7 DEF Promise!Passable
    <3> QED
      BY <3>5, <3>6, <3>7
  <2> QED
    BY <2>1, <2>2
<1> QED
  BY <1>4, <1>5, <1>6, <1>7

LEMMA DoneKept == ASSUME IInv, NEW r \in Request, PoliciesDone(r) PROVE Kept
<1> DEFINE q == request[r]
           new == [q EXCEPT !.pc = "serve"]
<1>1. TypeOK /\ q.pc = "evaluate" /\ q.next > Len(q.policies) /\ Step(r, new)
  BY DEF IInv, PoliciesDone
<1>2. q \in RequestShape /\ Len(q.policies) \in Nat /\ q.next \in Nat
  BY <1>1, RequestIsShape
<1>3. q.next = Len(q.policies) + 1 /\ Promise!Reaches(q.policies, q.path, Len(q.policies) + 1)
  <2>1. q.next <= Len(q.policies) + 1 /\ Promise!Reaches(q.policies, q.path, q.next)
    BY <1>1 DEF IInv, Judged, Justified
  <2> QED
    BY <1>1, <1>2, <2>1
<1>4. new \in RequestShape /\ new.pc = "serve" /\ new.path = q.path /\ new.policies = q.policies
  BY <1>2 DEF RequestShape, RequestPc
<1> HIDE DEF new
<1>5. Justified(new)
  BY <1>3, <1>4 DEF Justified
<1>6. Fate(new) = Fate(q)
  BY <1>1, <1>4, Fates
<1> QED
  BY <1>1, <1>4, <1>5, <1>6, Onwards

LEMMA TimerKept == ASSUME IInv, NEW r \in Request, TimerFires(r) PROVE Kept
<1> DEFINE q == request[r]
<1>1. q.pc = "delay" /\ Step(r, Past(q)) /\ q.next <= Len(q.policies)
      /\ Promise!Delays(q.policies[q.next], q.path)
  BY DEF IInv, TimerFires, Judged, Justified
<1>2. Promise!Passable(q.policies[q.next], q.path)
  BY <1>1 DEF Promise!Delays, Promise!Passable
<1> QED
  BY <1>1, <1>2, Skipping

LEMMA GoneKept == ASSUME IInv, NEW r \in Request, Disconnect(r) PROVE Kept
<1> DEFINE q == request[r]
<1>1. TypeOK /\ q.pc = "delay" /\ Step(r, [q EXCEPT !.pc = "gone"]) /\ q.next <= Len(q.policies)
      /\ Promise!Delays(q.policies[q.next], q.path)
  BY DEF IInv, Disconnect, Judged, Justified
<1>2. q.next \in DOMAIN q.policies /\ Promise!Reaches(q.policies, q.path, q.next)
  BY <1>1, RequestIsShape, AtPolicy, LenIsDomain
<1>3. "gone" \in Promise!Outcomes(q.policies, q.path)
  BY <1>1, <1>2 DEF Promise!Outcomes
<1> QED
  BY <1>1, <1>3, Ending

LEMMA ServeKept == ASSUME IInv, NEW r \in Request, Serve(r) PROVE Kept
<1> DEFINE q == request[r]
<1>1. q.pc = "serve" /\ Step(r, [q EXCEPT !.pc = "served"])
      /\ Promise!Reaches(q.policies, q.path, Len(q.policies) + 1)
  BY DEF IInv, Serve, Judged, Justified
<1>2. "served" \in Promise!Outcomes(q.policies, q.path)
  BY <1>1 DEF Promise!Outcomes
<1> QED
  BY <1>1, <1>2, Ending

LEMMA LeaveKept == ASSUME IInv, NEW r \in Request, Leave(r) PROVE Kept
<1>1. TypeOK /\ request[r].pc \in {"served", "error", "gone"} /\ Step(r, NoRequest)
  BY DEF IInv, Leave
<1>2. IInv'
  BY <1>1, FreshFits, FreshRequest, RequestKeeps DEF Justified
<1>3. /\ Decided[r].state \in {"served", "error", "gone"}
      /\ Decided' = [Decided EXCEPT ![r] = Promise!Unbound] /\ UNCHANGED <<snap, young, Called>>
  BY <1>1, FreshRequest, DecidedMoves, Fates
<1>4. Promise!Leave(r)
  BY <1>3 DEF Promise!Leave
<1> QED
  BY <1>2, <1>4 DEF Kept, Promise!Next

LEMMA MatureKept == ASSUME IInv, Mature PROVE Kept
<1>1. young' \in BOOLEAN
  BY Zenon DEF Mature
<1>2. IInv'
  BY <1>1 DEF Mature, IInv, TypeOK, Validated, Judged
<1>3. Promise!Mature
  BY RequestsStay, CallersStay DEF Mature, Promise!Mature
<1> QED
  BY <1>2, <1>3 DEF Kept, Promise!Next

-----------------------------------------------------------------------------
LEMMA Initially == Init => IInv /\ Exposed /\ Promise!Init
<1> SUFFICES ASSUME Init PROVE IInv /\ Exposed /\ Promise!Init
  OBVIOUS
<1>1. \A c \in Caller : caller[c] = NoCall
  BY DEF Init
<1>2. \A r \in Request : request[r] = NoRequest
  BY DEF Init
<1>3. 0 \in 0 .. MaxUpdate
  BY PlaneAssumption
<1>4. TypeOK
  <2>1. request \in [Request -> RequestShape]
    BY FreshFits DEF Init
  <2>2. caller \in [Caller -> CallShape]
    BY DEF Init, NoCall, CallShape, CallPc
  <2> QED
    BY <1>3, <2>1, <2>2 DEF Init, TypeOK, RequestShape, RequestPc, CallShape, CallPc
<1>5. Validated
  <2>1. NoCall.pc = "idle"
    BY DEF NoCall
  <2> QED
    BY <1>1, <2>1 DEF Validated
<1>6. Judged /\ Exposed
  BY <1>2, FreshRequest DEF Judged, Justified, Exposed
<1>7. Promise!Init
  <2>1. Called = [c \in Caller |-> Promise!NoCall]
    <3>1. [state |-> CallState[NoCall.pc], config |-> NoCall.config] = Promise!NoCall
      BY States DEF NoCall, NoConfig, Promise!NoCall, Promise!NoConfig
    <3> QED
      BY <1>1, <3>1 DEF Called
  <2>2. Decided = [r \in Request |-> Promise!Unbound]
    <3>1. Fate(NoRequest) = Promise!Unbound
      BY FreshRequest, Fates
    <3> QED
      BY <1>2, <3>1 DEF Decided
  <2>3. snap \in UNION Fleets /\ snap.valid
    BY InPlay DEF Init
  <2> QED
    BY <2>1, <2>2, <2>3 DEF Init, Promise!Init
<1> QED
  BY <1>4, <1>5, <1>6, <1>7 DEF IInv

LEMMA UnchangedKept == ASSUME IInv, UNCHANGED vars PROVE Kept
<1>1. IInv'
  BY DEF vars, IInv, TypeOK, Validated, Judged
<1> QED
  BY <1>1, RequestsStay, CallersStay, PromisedStutter DEF vars, Kept

\* Every step but the second load keeps the promise, whatever is protected.
LEMMA StepKept ==
    ASSUME IInv, [Next]_vars PROVE Kept \/ \E r \in Request : LoadPolicies(r)
<1>1. CASE Mature
  BY <1>1, MatureKept
<1>2. ASSUME NEW c \in Caller, Submit(c) \/ Update(c) PROVE Kept
  BY <1>2, SubmitKept, ValidateKept, LockKept, PublishKept, UnlockKept, ReplyKept DEF Update
<1>3. ASSUME NEW r \in Request, Arrive(r) \/ Handle(r) PROVE Kept \/ LoadPolicies(r)
  BY <1>3, ArriveKept, EvaluateKept, DoneKept, TimerKept, GoneKept, ServeKept, LeaveKept DEF Handle
<1>4. CASE UNCHANGED vars
  BY <1>4, UnchangedKept
<1> QED
  BY <1>1, <1>2, <1>3, <1>4 DEF Next

LEMMA Inductive == IInv /\ [Next]_vars => IInv'
BY StepKept, LoadKeeps DEF Kept

\* A request in the handler is past the first load, or gone.
LEMMA MovedOn ==
    ASSUME IInv, NEW q \in Request, Handle(q)
    PROVE  \E new : Step(q, new) /\ new.pc # "load"
<1>1. request[q] \in RequestShape
  BY RequestIsShape DEF IInv
<1>2. ASSUME NEW pc \in RequestPc PROVE [request[q] EXCEPT !.pc = pc].pc = pc
  BY <1>1 DEF RequestShape
<1>3. CASE LoadPolicies(q)
  BY <1>3 DEF LoadPolicies
<1>4. CASE Evaluate(q)
  <2>1. PICK new \in {Past(request[q]), [request[q] EXCEPT !.pc = "error"],
                      [request[q] EXCEPT !.pc = "delay"]} : Step(q, new)
    BY <1>4 DEF Evaluate
  <2> QED
    BY <1>2, <2>1 DEF Past, RequestPc
<1>5. CASE PoliciesDone(q)
  BY <1>2, <1>5 DEF PoliciesDone, RequestPc
<1>6. CASE TimerFires(q)
  BY <1>6 DEF TimerFires, Past
<1>7. CASE Disconnect(q) \/ Serve(q)
  BY <1>2, <1>7 DEF Disconnect, Serve, RequestPc
<1>8. CASE Leave(q)
  BY <1>8, FreshRequest DEF Leave
<1> QED
  BY <1>3, <1>4, <1>5, <1>6, <1>7, <1>8 DEF Handle

\* Protection that was read once goes on to hold.
LEMMA ExposureKept ==
    ASSUME OneProtection, IInv, IInv', Exposed, [Next]_vars PROVE Exposed'
<1>1. snap' \in fleet /\ snap \in fleet /\ fleet \in Fleets
  <2>1. fleet' = fleet
    BY DEF Next, vars, Mature, Submit, Update, Validate, Lock, Publish, Unlock, Reply, Arrive, Handle,
           LoadPolicies, Evaluate, PoliciesDone, TimerFires, Disconnect, Serve, Leave, Step
  <2> QED
    BY <2>1 DEF IInv, TypeOK
<1>2. snap'.ignored = snap.ignored
  BY <1>1 DEF OneProtection
<1>3. ASSUME NEW r \in Request, request'[r].pc = "load" PROVE request'[r].path \notin snap.ignored
  <2>1. CASE request' = request
    BY <1>3, <2>1 DEF Exposed
  <2>2. ASSUME NEW q \in Request, Arrive(q) PROVE request'[r].path \notin snap.ignored
    BY <1>3, <2>2, FreshRequest, RequestIsShape DEF IInv, Exposed, Arrive, Step, RequestShape
  <2>3. ASSUME NEW q \in Request, Handle(q) PROVE request'[r].path \notin snap.ignored
    <3>1. PICK new : Step(q, new) /\ new.pc # "load"
      BY <2>3, MovedOn
    <3> QED
      BY <1>3, <3>1, RequestIsShape DEF IInv, Exposed, Step
  <2> QED
    BY <2>1, <2>2, <2>3 DEF Next, vars, Mature, Submit, Update, Validate, Lock, Publish, Unlock, Reply
<1> QED
  BY <1>2, <1>3 DEF Exposed

\* The inductive invariant of the plane.
THEOREM Invariance == Spec => []IInv
BY Initially, Inductive, PTL DEF Spec

\* Types, for any callers, requests and configurations.
THEOREM TypeCorrect == Spec => []TypeOK
<1>1. IInv => TypeOK
  BY DEF IInv
<1> QED
  BY Invariance, <1>1, PTL

\* The plane implements AtomicEngine: an update takes effect at one moment between
\* call and reply, exactly if it is answered "applied", and a request is treated
\* by the policies one configuration had for it at one moment.
THEOREM PlaneIsAtomic == ASSUME OneProtection PROVE Spec => Atomic
<1>1. Init => Exposed /\ Promise!Init
  BY Initially
<1>2. IInv /\ IInv' /\ Exposed /\ [Next]_vars => Exposed'
  BY OneProtection, ExposureKept
<1>3. IInv /\ Exposed /\ [Next]_vars => [Promise!Next]_Promise!vars
  BY StepKept, LoadKept DEF Kept
<1> QED
  BY Invariance, <1>1, <1>2, <1>3, PTL DEF Spec, Atomic, Promise!Spec
=============================================================================
