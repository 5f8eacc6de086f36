---------------------------- MODULE ResourceChaos ----------------------------
(***************************************************************************)
(* Resource sabotage (pkg/chaos/resource.go): the daemon MonitorAndTrigger *)
(* polls the manager for the policies of type "resource", and starts, for  *)
(* each set of policies it notices, a generation of goroutines: CPU        *)
(* burners and RAM leakers, the leakers sharing one atomic pool counter.   *)
(*                                                                         *)
(* A policy is a record: id stands for the fields that only its hash sees, *)
(* timed says that latency_duration is positive (it enables the burner and *)
(* bounds both attacks), chunk is ram_chunk_mb.  A hash is abstracted to   *)
(* the policy itself, and the XOR of hashes to the policies that occur an  *)
(* odd number of times: XOR cancels pairs, and 0 is the empty set.         *)
(***************************************************************************)
EXTENDS Integers, Sequences, FiniteSetsExt

CONSTANTS
    Configs,   \* the lists of resource policies a configuration may hold
    Ceiling,   \* maxRAMPoolMB (4096 in the code)
    MaxLen,    \* bound: policies in a configuration
    MaxGen,    \* bound: generations started
    MaxChange  \* bound: times the configuration changes

Policy == [id : STRING, timed : BOOLEAN, chunk : Nat]

ASSUME ResourceAssumption ==
    /\ Ceiling \in Nat /\ MaxLen \in Nat /\ MaxGen \in Nat /\ MaxChange \in Nat
    /\ Configs \subseteq Seq(Policy) /\ \A c \in Configs : Len(c) \in 0..MaxLen

\* A goroutine: its generation, the index of its policy, and what it does.
Worker == (1..MaxGen) \X (1..MaxLen) \X {"cpu", "ram"}
Ram(w) == w[3] = "ram"

VARIABLES
    config,   \* what mgr.GetActivePolicies("resource") returns
    changes,  \* how often it changed
    shutdown, \* the context of the daemon is done
    monitor,  \* where the daemon is
    todo,     \* the policies it read at this tick
    lastHash, \* lastResourceHash
    started,  \* the policies of the running generation, <<>> after a cleanup
    gen,      \* generations started
    active,   \* activeCancel is set: the context of generation gen is live
    wg,       \* counter of activeWG
    work,     \* where each goroutine is
    cur,      \* the value of the pool each leaker loaded
    held,     \* memory each leaker holds
    pool      \* currentPoolMB

daemonVars == <<monitor, todo, lastHash, started, gen, active>>
leakVars == <<cur, held, pool>>
vars == <<config, changes, shutdown, daemonVars, wg, work, leakVars>>

Init ==
    /\ config \in Configs /\ changes = 0 /\ shutdown = FALSE
    /\ monitor = "idle" /\ todo = <<>> /\ lastHash = {} /\ started = <<>>
    /\ gen = 0 /\ active = FALSE /\ wg = 0 /\ pool = 0
    /\ work = [w \in Worker |-> "off"]
    /\ cur = [w \in Worker |-> 0] /\ held = [w \in Worker |-> 0]

\* Any source of configurations calls Manager.Update.
Reconfigure ==
    /\ changes < MaxChange /\ changes' = changes + 1
    /\ config' \in Configs \ {config}
    /\ UNCHANGED <<shutdown, daemonVars, wg, work, leakVars>>

Shutdown ==
    /\ ~shutdown /\ shutdown' = TRUE
    /\ UNCHANGED <<config, changes, daemonVars, wg, work, leakVars>>

-----------------------------------------------------------------------------
\* MonitorAndTrigger.

\* combinedHash ^= p.PolicyHash over the policies.
CombinedHash(ps) ==
    LET occurs(p) == {i \in DOMAIN ps : ps[i] = p}
    IN  {p \in {ps[i] : i \in DOMAIN ps} : Cardinality(occurs(p)) % 2 = 1}

\* A tick that has something to do; it begins cleanup() by cancelling.
Tick ==
    /\ monitor = "idle"
    /\ \/ config = <<>> /\ active /\ monitor' = "clearing"
       \/ /\ config # <<>> /\ CombinedHash(config) # lastHash
          /\ monitor' = "replacing"
    /\ active' = FALSE /\ todo' = config
    /\ UNCHANGED <<config, changes, shutdown, lastHash, started, gen, wg, work, leakVars>>

\* Mutant: the cleanup leaves lastResourceHash as it is.
ClearedButRemembered ==
    /\ monitor = "clearing" /\ wg = 0
    /\ monitor' = "idle" /\ started' = <<>> /\ todo' = <<>>
    /\ UNCHANGED <<config, changes, shutdown, lastHash, gen, active, wg, work, leakVars>>

\* activeWG.Wait() is over, and there is nothing to start.
Cleared ==
    /\ monitor = "clearing" /\ wg = 0
    /\ monitor' = "idle" /\ lastHash' = {} /\ started' = <<>> /\ todo' = <<>>
    /\ UNCHANGED <<config, changes, shutdown, gen, active, wg, work, leakVars>>

\* TriggerResourceSabotage for a policy: the goroutines of generation g it runs.
Jobs(ps, g) == {w \in Worker :
    /\ w[1] = g /\ w[2] \in DOMAIN ps
    /\ IF Ram(w) THEN ps[w[2]].chunk > 0 ELSE ps[w[2]].timed}

\* Mutant: the next generation does not wait for the last one.
StartAtOnce ==
    /\ monitor = "replacing" /\ gen < MaxGen
    /\ monitor' = "idle" /\ lastHash' = CombinedHash(todo) /\ started' = todo /\ todo' = <<>>
    /\ gen' = gen + 1 /\ active' = TRUE
    /\ wg' = wg + Cardinality(Jobs(todo, gen + 1))
    /\ work' = [w \in Worker |-> IF w \notin Jobs(todo, gen + 1) THEN work[w]
                                 ELSE IF Ram(w) THEN "reserve" ELSE "burn"]
    /\ UNCHANGED <<config, changes, shutdown, leakVars>>

\* activeWG.Wait() is over, and the policies read at the tick are started.
Start ==
    /\ monitor = "replacing" /\ wg = 0 /\ gen < MaxGen
    /\ monitor' = "idle" /\ lastHash' = CombinedHash(todo) /\ started' = todo /\ todo' = <<>>
    /\ gen' = gen + 1 /\ active' = TRUE
    /\ wg' = wg + Cardinality(Jobs(todo, gen + 1))
    /\ work' = [w \in Worker |-> IF w \notin Jobs(todo, gen + 1) THEN work[w]
                                 ELSE IF Ram(w) THEN "reserve" ELSE "burn"]
    /\ UNCHANGED <<config, changes, shutdown, leakVars>>

\* ctx.Done(): cleanup() and return.
Stop ==
    /\ monitor = "idle" /\ shutdown
    /\ monitor' = "stopping" /\ active' = FALSE
    /\ UNCHANGED <<config, changes, shutdown, todo, lastHash, started, gen, wg, work, leakVars>>

\* Mutant: the daemon returns without activeWG.Wait().
ReturnAtOnce ==
    /\ monitor = "stopping" /\ monitor' = "returned"
    /\ UNCHANGED <<config, changes, shutdown, todo, lastHash, started, gen, active, wg, work,
                   leakVars>>

Return ==
    /\ monitor = "stopping" /\ wg = 0 /\ monitor' = "returned"
    /\ UNCHANGED <<config, changes, shutdown, todo, lastHash, started, gen, active, wg, work,
                   leakVars>>

Monitor == Tick \/ Cleared \/ Start \/ Stop \/ Return

-----------------------------------------------------------------------------
\* The goroutines of a generation.

Want(w) == started[w[2]].chunk

\* Mutant: the deadline of an attack is not set.
CtxDoneUntimed(w) == ~active \/ w[1] # gen \/ shutdown

\* The context of w is done, or its own deadline may have passed.
CtxDone(w) == ~active \/ w[1] # gen \/ shutdown \/ started[w[2]].timed

Goto(w, from, to) == work[w] = from /\ work' = [work EXCEPT ![w] = to]

\* BurnCPU returns once its context is done.
Burn(w) ==
    /\ Goto(w, "burn", "done") /\ CtxDone(w) /\ wg' = wg - 1
    /\ UNCHANGED leakVars

\* allocate: load the counter, and refuse a chunk beyond the ceiling.
LoadPool(w) ==
    /\ \/ Goto(w, "reserve", "wait") /\ pool + Want(w) > Ceiling /\ UNCHANGED cur
       \/ /\ Goto(w, "reserve", "swap") /\ pool + Want(w) <= Ceiling
          /\ cur' = [cur EXCEPT ![w] = pool]
    /\ UNCHANGED <<wg, held, pool>>

\* Mutant: a store in the place of the compare-and-swap.
SwapBlindly(w) ==
    /\ Goto(w, "swap", "page") /\ pool' = cur[w] + Want(w)
    /\ cur' = [cur EXCEPT ![w] = 0] /\ UNCHANGED <<wg, held>>

\* Mutant: an atomic add in its place, after the check against the ceiling.
CheckThenAdd(w) ==
    /\ Goto(w, "swap", "page") /\ pool' = pool + Want(w)
    /\ cur' = [cur EXCEPT ![w] = 0] /\ UNCHANGED <<wg, held>>

\* allocate: CompareAndSwap, retried from the load when another leaker won.
Swap(w) ==
    /\ \/ pool = cur[w] /\ Goto(w, "swap", "page") /\ pool' = cur[w] + Want(w)
       \/ pool # cur[w] /\ Goto(w, "swap", "reserve") /\ UNCHANGED pool
    /\ cur' = [cur EXCEPT ![w] = 0] /\ UNCHANGED <<wg, held>>

\* allocate: the chunk is made, touched and kept.
Page(w) ==
    /\ Goto(w, "page", "wait") /\ held' = [held EXCEPT ![w] = @ + Want(w)]
    /\ UNCHANGED <<wg, cur, pool>>

LeakTick(w) == Goto(w, "wait", "reserve") /\ UNCHANGED <<wg, leakVars>>

\* The deferred function: the counter goes down first ...
Unaccount(w) ==
    /\ Goto(w, "wait", "free") /\ CtxDone(w) /\ pool' = pool - held[w]
    /\ UNCHANGED <<wg, cur, held>>

\* ... then the pool is dropped and collected, and the WaitGroup released.
Free(w) ==
    /\ Goto(w, "free", "done") /\ held' = [held EXCEPT ![w] = 0] /\ wg' = wg - 1
    /\ UNCHANGED <<cur, pool>>

Allocate(w) == LoadPool(w) \/ Swap(w) \/ Page(w) \/ LeakTick(w)
Leave(w) == Burn(w) \/ Unaccount(w) \/ Free(w)

Run(w) ==
    /\ Allocate(w) \/ Leave(w)
    /\ UNCHANGED <<config, changes, shutdown, daemonVars>>

Finished == monitor = "returned" /\ UNCHANGED vars

Next ==
    \/ Reconfigure \/ Shutdown \/ Monitor \/ Finished
    \/ \E w \in Worker : Run(w)

\* The scheduler runs every goroutine.  A leaker selects at random between a
\* tick and its context, so it does not pass over a context that is done
\* forever.  One generation is alive at a time (OneGeneration), so a policy
\* and a kind name the goroutine.
Fairness ==
    /\ WF_vars(Monitor)
    /\ \A i \in 1..MaxLen, k \in {"cpu", "ram"} :
        LET runs == \E g \in 1..MaxGen : Run(<<g, i, k>>)
            leaves == \E g \in 1..MaxGen : Run(<<g, i, k>>) /\ Leave(<<g, i, k>>)
        IN  WF_vars(runs) /\ SF_vars(leaves)

Spec == Init /\ [][Next]_vars
FairSpec == Spec /\ Fairness

-----------------------------------------------------------------------------
Live(w) == work[w] \notin {"off", "done"}

\* Every variable has its type.
TypeOK ==
    /\ config \in Configs /\ changes \in 0..MaxChange /\ shutdown \in BOOLEAN
    /\ monitor \in {"idle", "clearing", "replacing", "stopping", "returned"}
    /\ todo \in Configs \cup {<<>>} /\ started \in Configs \cup {<<>>}
    /\ lastHash \subseteq Policy /\ gen \in 0..MaxGen /\ active \in BOOLEAN /\ wg \in Int
    /\ work \in [Worker -> {"off", "burn", "reserve", "swap", "page", "wait", "free", "done"}]
    /\ cur \in [Worker -> Int] /\ held \in [Worker -> Nat] /\ pool \in Int

\* The pool counter never passes the ceiling, however the leakers of several
\* policies interleave their loads and swaps.
CeilingHonoured == pool <= Ceiling

\* What a leaker has reserved and not returned: its chunks, and the one it
\* swapped in and is about to page.
Reserved(w) ==
    IF work[w] \in {"reserve", "swap", "wait"} THEN held[w]
    ELSE IF work[w] = "page" THEN held[w] + Want(w) ELSE 0

\* The counter is what the leakers reserved: no reservation is lost or
\* counted twice (TestLeakRAM_AccountingBalances, for any interleaving).
PoolBalanced == pool = SumFunction([w \in Worker |-> Reserved(w)])

\* Sabotage of two configurations never runs at once: a generation starts only
\* when every goroutine of the one before it is gone.
OneGeneration == \A w \in Worker : Live(w) => w[1] = gen

\* When the daemon has returned, nothing burns and nothing is leaked.
QuietAfterReturn == monitor = "returned" => pool = 0 /\ \A w \in Worker : ~Live(w)

\* The sabotage that runs is the one configured, and none once the policies
\* are gone: a change is noticed, however it is interleaved with a cleanup.
SabotageFollowsConfig == []<>(started = config \/ shutdown)

\* Some goroutine of the i-th policy runs.
Attacking(i) == \E g \in 1..MaxGen, k \in {"cpu", "ram"} : Live(<<g, i, k>>)

\* An attack with a duration ends by itself, whatever replaces it meanwhile, and
\* the daemon lets the process shut down.
SabotageEnds ==
    /\ \A i \in 1..MaxLen : (Attacking(i) /\ started[i].timed) ~> ~Attacking(i)
    /\ shutdown ~> (monitor = "returned")

\* Sabotage that is no longer configured comes to an end ("guaranteed cleanup",
\* README.md).
SabotageIsCleanedUp ==
    []<>(shutdown \/ \A w \in Worker : Live(w) => \E i \in DOMAIN config : config[i] = started[w[2]])

\* A statement the code does not keep, and no run checks (see README.md): the
\* memory that leakers hold stays under the ceiling.  The deferred function
\* lowers the counter before the memory is given up.
LiveUnderCeiling == SumFunction(held) <= Ceiling
=============================================================================
