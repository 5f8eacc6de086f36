# pastaay in TLA+

Models of the chaos engine in this repository, the runs that check them with TLC, and proofs that
TLAPS checks. Paths are relative to the root of the repository; "the engine" is a process that
links `pkg/`, "the operator" is `operator/`.

## 1. The system

A process under test links the engine. A configuration (`config.PastaayConfig`, a list of policies)
reaches it from a file, a webhook, the web console, Redis or a ConfigMap, and is published through
`config.Manager`. Interceptors read it on every HTTP request, gRPC call, SQL command, Redis command,
MongoDB command or broker message, and inject latency, errors and disconnections. A daemon burns
CPU and leaks memory for the policies of type `resource`. In Kubernetes an operator turns
`ChaosPolicy` resources into webhook calls. `pastaayctl` drives the webhook by hand.

| Component | State | Operations | Talks to | Hard because | Correct when |
|---|---|---|---|---|---|
| File watcher, `pkg/config/watcher.go` | debounce timer, `fireWG`, `stopFlag`, the watch on an inode | event loop, `scheduleReload`, reload body, `cancel()` | fsnotify; callback to `Manager.Update` | bodies run on timer goroutines that `Stop` cannot stop; renames drop the watch | one reload pending, nothing after `cancel()`, the engine follows the file |
| Resource sabotage, `pkg/chaos/resource.go` | last hash, context and WaitGroup of a generation, `currentPoolMB` | poll, cleanup, trigger; `BurnCPU`, `LeakRAM` | reads the manager | lock-free counter shared by leakers; generations replace each other | ceiling kept, accounting exact, one generation at a time, sabotage ends |
| Manager, `pkg/config/manager.go` | snapshot behind an atomic pointer, mutex, sensor statuses | `Update`, `GetActivePolicies`, `IsCommandIgnored` | all of the others | readers take no lock and load twice | updates are atomic and answered truthfully |
| Webhook and console reset, `pkg/config/webhook.go`, `web/handler.go` | none | validate, `Update`, reply | manager | validation happens twice, `Update` is silent | 200 exactly when the payload took effect |
| HTTP interceptor, `pkg/ritual/middleware.go` | per request: policies loaded | protect, load, evaluate, delay | manager, telemetry | a delayed request outlives its configuration | one configuration per request, always answered |
| Redis sensor, `pkg/config/remote_redis.go` | subscription, status, acknowledgements in flight | subscribe, handle, `sendAck` | Redis, manager, `main`'s WaitGroup | outages; acknowledgements that outlive the context | back after an outage, applied means acknowledged, shutdown neither cut short nor stuck |
| ConfigMap sensor, `pkg/config/remote_k8s.go` | last `resourceVersion`, status | poll, process | API server, manager | polls fail and recover; others replace the configuration | every version at most once and in order, the last one in the end |
| Operator, `operator/internal/controller/` | none of its own: finalizer, phase and LastAppliedTime in the resource, delayed entries in memory | `Reconcile` | API server, informer cache, engine's webhook | stale reads, conflicts, lost POSTs, crashes, clocks | Applied means loaded, deleted means flushed, expiry is scheduled |
| Telemetry bus, `pkg/telemetry/bus.go` | ring of 256 entries | `Emit`, `Snapshot` | written by all, read by the console | the wrap | the last 256 events in order |
| SQL, Redis, MongoDB and broker interceptors | per call: policies loaded, verdict | protect, load, roll, delay, fail, forward | manager, telemetry, `database/sql` | re-entry (`ErrSkip`), batches, reconfiguration under a call | one decision per command, protected commands spared, failed means not executed |
| gRPC interceptor, `pkg/grpcchaos/interceptor.go` | per stream: decisions by policy, a mutex | unary calls, messages of either direction | manager, telemetry | two goroutines of a stream, reconfiguration under it | one fate per stream and policy, directions independent |
| Policy schema and parser, `pkg/config/config.go`, `parser.go` | none | decode, `Validate`, `LoadConfig` | all sources | two spellings of each key, bounds | a file means the same to everyone, invalid input is refused |
| Guard, `pkg/guard/guard.go` | none | `Analyze` | pastaayctl, console | truncated products of capped risks | one policy more is never less of a risk |
| pastaayctl, `cmd/pastaayctl/cmd/` | a process per command, `~/.pastaay_history.json` | halt, strike, inject, run, autopilot, lint, plan, validate | the webhook, a health URL, signals | POSTs that are late or lost, aborts, `os.Exit` past deferred calls | a command ends, one that halts leaves no attack behind, success is earned |
| Pod streams of the console, `web/handler.go` | `activeStreams`, a watch, a context per streamer | watch, attach, detach, `stopAll` | API server | watches that break off while streamers run | no pod is tailed twice or for ever |
| Oracle, metrics and tracing, demo | small | see the source | third parties | | |

`PROJECT.json` lists every component with its status and, under `hazards`, what is hard to test in
this code, at its line, with the properties that watch it.

## 2. The modules

| Module | Models | Runs on it |
|---|---|---|
| `Watcher` (`MCWatcher`, `WatcherProofs`) | file watcher | `watcher` |
| `ResourceChaos` (`MCResource`, `ResourceProofs`) | resource sabotage | `resource`, `resource_doubled` |
| `Operator` (`MCOperator`, `OperatorProofs`) | Kubernetes operator | `operator`, `operator_late_wake` |
| `ConfigPlane` (`MCConfigPlane`, `ConfigPlaneProofs`) composes manager, webhook, console reset and HTTP interceptor; `AtomicEngine` is what they promise | configuration plane | `config_plane`, `config_plane_torn` |
| `RedisSensor`, `ConfigMapSensor`, `PodStreams`, put together by `RemoteSources` (`SourcesProofs`) | remote sources and the shutdown of the process | `remote_sources` |
| `TelemetryBus` (proofs in `InterceptorsProofs`), promise in `RecentLog` | telemetry bus | `traffic` |
| `Interceptors` (`MCInterceptors`, `InterceptorsProofs`), extends `TelemetryBus` | SQL, Redis, MongoDB and broker interceptors, writing to the bus | `traffic`, `sql_double_chaos` |
| `GrpcStream`, extends `Interceptors`; `Traffic` (`MCTraffic`, `TrafficProofs`) puts both together | gRPC interceptor, and all interceptors on one bus | `traffic` |
| `Schema` | decoding and validation of a configuration | `pastaayctl` |
| `Guard`, extends `Schema` | risk and issues of a configuration | `pastaayctl` |
| `Pastaayctl` (`MCPastaayctl`, `PastaayctlProofs`), extends `Guard` | a command of pastaayctl, the network, the webhook's handling of one payload | `pastaayctl`, `ctl_oversized` |

Definitions marked "Mutant:" in their comments are not part of a specification. Each is a plausible
mistake in the action after it; put in its place, it makes TLC violate the property `PROJECT.json`
pairs it with, which shows that the property depends on that line of the code.

### Watcher

The variables are those of `WatchConfig`: `timer` (the body armed last), `fireWG`, `cancel` (closed
`stopFlag` and the progress of `cancel()`), `loop` (where the event loop is; `"arm"` holds
`timerMu`), and for each body its place (`pc`), failed attempts (`tries`) and the version it read
(`loaded`). The environment is the file and its watch: an act is a write, a replacement, a removal
or an error on the channel, each a new version. A body is cut where another goroutine can come in
between: `Fire`, `Enter` (`fireWG.Add`), `Detach` (check of `stopFlag`, `watcher.Remove`), `Attach`
(one attempt), `Load`, `Deliver` (the second check), `CallbackReturns`. Two slots for bodies are
reused; with both busy the loop waits before it arms the next timer, where the code would start a
third goroutine. Overlap needs two.

### ResourceChaos

`monitor` is the daemon: `Tick` reads the policies and cancels, `Cleared` and `Start` follow
`activeWG.Wait()`, `Stop` and `Return` are the shutdown. A goroutine is a generation, the index of a
policy and a kind; `LoadPool` and `Swap` are the load and the compare-and-swap of `allocate`, `Page`
makes the chunk, `Unaccount` and `Free` are the deferred function. Hashes are the policies
themselves and the XOR of hashes is the set of those that occur an odd number of times: that keeps
what XOR loses, and leaves collisions of SHA-256 out.

### Operator

`server` and `cache` hold the resources and what the informer last saw of them; `queue` and
`delayed` are the work queue (a key has at most one delayed entry, the earlier one wins).
`worker` is `Reconcile` between two exchanges with the outside: `Take` (Get and the decisions),
`Collect` (List), `PostAccepted`/`PostFailed` (the POST, the engine's validation of the set as a
whole, a lost request or a lost answer), the four writes with their conflict, and `Wake` (time left
and RequeueAfter). `over` says that the duration of a policy has passed since its LastAppliedTime.
The API server, the informer, the work queue and the engine are external: they do what `Reconcile`
relies on and nothing better.

### ConfigPlane and AtomicEngine

Two goroutines call `Manager.Update` through the webhook's steps (`Validate`, `Lock`, `Publish`,
`Unlock`, `Reply`), the console submits the empty configuration. A request loads the snapshot for
`IsCommandIgnored` (`Arrive`) and again for `GetActivePolicies` (`LoadPolicies`), then walks the
policies. A chance is 0, between, or 1; a policy's target and headers are the set of paths it
matches. `Atomic` maps this to `AtomicEngine`: a call takes effect at one moment between call and
reply exactly if it is answered "applied", and a request is bound to one configuration at one moment
and ends as that configuration allows. For that the two loads must agree about protection, so the
fleets of this run either protect the same path in every configuration or in none;
`config_plane_torn` shows what happens otherwise.

### RedisSensor

`sensor` is the goroutine of the sensor, `ack` the goroutine of each acknowledgement, `main` the
shutdown in `examples/demo/main.go` (cancel, `wg.Wait()`, deferred `rdb.Close()`, exit). `wg` is
`main`'s WaitGroup: the acknowledgements are in it, the sensor is not. Redis delivers in order to
who is subscribed and loses the rest.

### ConfigMapSensor

`Poll`/`PollFails`, then `Unchanged` or `Process`. A payload is valid, invalid, not YAML, or has no
key `pastaay.yaml`. `Override` is an update by anyone else. `past` remembers what the engine ran on,
for the property only.

### TelemetryBus and RecentLog

`Emit` and `Snapshot` with the indices of the code. `RecentLog` keeps the last entries in a sequence.

### Interceptors

One call at a time goes one of seven ways: `plain` (SQL execution or transaction, Redis command,
`RunCommand`), `query` (a query or execution through `database/sql`), `pipeline` (a Redis batch),
`observed` (the MongoDB monitor), `message` (Kafka or RabbitMQ), `connect` (SQL) and `dial` (Redis,
MongoDB). `Protect` and `Load` are the two loads of the snapshot, and `Reconfigure` may come between
any two steps. Sequential evaluators look at one policy per `Consult`; batches and messages roll for
all in `WeighPipeline` and `WeighMessage` and act in `Judge`, after the delay. `Forward` hands over
to the driver, which may answer a query with `ErrSkip`; `Prepare` is what `database/sql` does then:
prepare, and run the statement with the caller's context. `Draw` looks at one drop policy for a new
connection. `struck` remembers in which stage of a query a fault was injected, for the properties
only. Calls do not share anything but the snapshot and the bus, whose operations are atomic, so one
call suffices for what is said of a call. A command is a name, and a target, a regular expression or
a header condition is the set of commands it matches. `rand.Float64() < chance` is the choice `Hits`
leaves.

### RemoteSources

The three sources share nothing but the context of `main`, so a behaviour is about one of them, and
the two others are in their state `Over`. `RedisSensor` and `ConfigMapSensor` are the sections above.

`PodStreams` is `watchAndStreamPods` and the streamer goroutines it starts. `watcher` is the watching
goroutine: `Watch`/`WatchFails` with `Backoff`, `Consume` (one event: `Attach`, `Detach`, or nothing),
`Reconnect` when the channel is closed, and `Return`; the last two call `stopAll`. `active` is the map
`activeStreams`, where the function that cancels a streamer stands for the streamer. A streamer is
opened, tails, and ends by itself or when it is cancelled. The API server is external: a watch without
a resourceVersion begins with an event for each pod there is, and it may break off with events unread.

### GrpcStream and Traffic

One unary call or one stream at a time. `rpc` is what the interceptor fixed at the handshake (the
method, the metadata, whether it is protected). Each direction of a stream is a goroutine of its own
with an evaluation under way, `half`: `LoadPolicies`, `Consulting` for one policy, `Lock`, `Lookup` and
`Decide` around the map `decided`, `Roll` for the modes that roll each time, and `WaitOver` for the
delay. `PolicyHash` covers every field of a policy, so a policy is its own key in the map. `Publish`
replaces the configuration between any two steps. `seen` keeps the verdicts that took effect, for the
property only.

In `Traffic` a step is one of a call or its configuration (`Calling`), or one of gRPC (`OnlyGrpc`), in
any order. `Services` says what a service does: ways of calls, methods, and the configurations it is
given. The two share the telemetry bus and nothing else. So an entry of a stream may follow the fault
of a call before the call goes on: `FaultIsOnRecord` (the fault is the last entry) holds of calls alone,
and `FaultStaysOnRecord` of all the traffic: the fault stands `others` entries from the end, until the
ring is full of those. `others` counts what streams wrote since the last step of the call, for the
property only.

### Schema and Guard

A policy in a document is a function from keys to scalars, `Decode` is `UnmarshalYAML` (both spellings
of a key; a snake_case value that does not decode fails the document, a camelCase one is warned about
and ignored) and `Valid` is `Validate` with its bounds. `Guard` has the arithmetic of `Analyze` in
integers: chances are percents in multiples of ten, for which the code's fractions are exact up to
rounding errors of floating point, which are not modelled. YAML's syntax and names of any spelling are
abstracted: two spellings of a few names occur. `Fits` refuses a scalar that is no string for a field
that is one; yaml.v3 decodes any scalar into a string (`config.go:32`). No property depends on it.

### Pastaayctl

A behaviour is one command from its start to its exit. `ctl` is the process: its place, what it posts
and what follows (`then`), whether it was interrupted. `wire` holds the POSTs on their way, which the
engine serves (`Serve`, with `Response`: gate, 1 MiB limit, alias check, decoding, validation), or which
are lost; the client waits five seconds (`Timeout`) and its POST may still be served after that.
`Interrupt` is SIGINT or SIGTERM, which `run` and `autopilot` receive in contexts of their own, `Killed`
whatever ends the process at once. `RunProbe` and `RampProbe` count a probe and end the experiment, with
the halt that stands before `os.Exit` there and the deferred one elsewhere. `trouble` and `survived` are
for the properties only. The ramp is counted in percent: in the code's floating point 0.05 added up
overshoots 0.15 by a rounding error, so that `--limit 0.15` leaves its last rung out; a `--step` of 0
never ends (autopilot.go:67); and a `--threshold` below 1 is one of 1, since only a bad probe is compared
with it (run.go:111). The first is not modelled; `CtlAssumption` admits a step of 0.

## 3. What the runs show

| Run | Instance | Result |
|---|---|---|
| `watcher` | 2 bodies, 2 acts on the file, 2 attempts to re-attach, `cancel()` at any time | A burst leaves one timer. `cancel()` returns, and then the loop is gone, no timer is armed, no body is past its check, the callback never runs. While attempts do not run out the file is watched again after every rename; while, besides, bodies do not overlap, the engine comes to run on the file. |
| `resource` | 2 leakers (one timed), 1 timed burner, an empty configuration; a pool of 4 chunks, 2 changes, 3 generations | The counter stays under the ceiling and equals what was reserved, generations do not overlap, changes are noticed, timed attacks and the daemon end. |
| `resource_doubled` | a policy listed twice | **Violated**: pairs cancel in the XOR, two configurations look the same, and the sabotage of the one that is gone goes on. |
| `operator` | a timed policy beside a plain one, and a plain one beside one the engine refuses; one lost POST, crash or engine restart | Applied means loaded until an engine restart; a finalizer is removed only when the engine has let go; deletions and creations go through unless a refused policy stays. |
| `operator_late_wake` | one timed policy | **Violated**: the time runs out between the two readings of the clock and no wake-up is scheduled. |
| `config_plane` | 2 callers, 3 updates, 1 request, 2 paths, a fleet of 4 configurations (invalid, in warmup, with 3 policies, with none); 119 304 states | The plane implements `AtomicEngine`; every request is answered and every update returns. |
| `config_plane_torn` | a reset and one configuration that protects a path | **Violated**: one request is judged by the reset at its first load and by the configuration at its second, and a protected path fails. |
| `remote_sources` | Redis: 2 messages, 2 outages or closed channels, SIGTERM at any time. ConfigMap: 3 versions of any kind, a flapping API server, 1 update by others. Pods: 2 pods, 2 changes, a watch that breaks off once, 3 streamers; 108 329 states | `wg.Wait()` waits for every acknowledgement launched; the Redis sensor comes back, and while the process runs what was applied is acknowledged. No version is applied twice or out of order, the last one is applied if it is valid. No pod is tailed twice or by a streamer nobody can detach, and a pod that runs for good gets a streamer. All goroutines end. |
| `traffic` | 3 commands (always, sometimes, never protected), any batch and driver, 3 configurations that replace each other at any time; gRPC streams and calls with 2 methods, 1 header and 3 configurations of 4 policies; a service that only calls, one that only serves, and one that does both at once (broker messages with one slow configuration, one method with a policy for each message); a ring of 3; 294 041 states | What chaos failed was not executed; protected commands are spared; a fault stays on the bus behind what streams write after it; `Snapshot` refines `RecentLog` before, at and after the wrap. A stream keeps its verdict on a policy, in both directions and across reconfigurations, and no direction waits for the delay of the other. |
| `pastaayctl` | each command, 5 files and 566 drafts at the boundaries of `Validate` and of the guard, 2 strikes, a ramp of 3 chances, 3 probes; a webhook that is open, closed or without a token; any network; 80 944 states | Every command ends unless it is killed (the process: `CommandEnds` says nothing of the attack). `halt`, `run`, `autopilot` and `strike --ttl` leave the engine at peace whichever way they end, if the network delivers. `autopilot` claims success only of chances that met a good probe, if the engine can run them. `validate` accepts what the webhook accepts, in both spellings. For `plan`, a policy more is never less of a risk. |
| `ctl_oversized` | a YAML file of more than 1 MiB | **Violated**: the webhook cuts it at 1 MiB, what is left is valid, and the engine runs it. |
| `sql_double_chaos` | one query, one configuration | **Violated**: the driver answers `ErrSkip`, and the prepared statement is struck again. |

The bounds are small because the hazards need few actors: two bodies to overlap, two leakers to race
for the last chunk (2 + 1 + 2 > 4), two policies to have one block the other, two updates around one
request, two messages to have one acknowledged late, two directions to meet one policy first, a broken
watch between two changes of a pod. A third generation gives each configuration a predecessor and a
successor; a second act on the file follows a first reload; three probes make a run that reaches the
threshold of two after a good probe. A third streamer is needed while a detached one has not ended yet.
The service that calls and serves at once is small because its states multiply; a delayed call and a
stream of several messages are what an overtaken entry needs, and a stream writes more than the ring
holds meanwhile. One trouble of the operator already meets every point of `Reconcile`; two are beyond five minutes.
`RiskGrows` is checked for up to two policies, which keeps the products within TLC's 32 bits, and proved
for any number of them.

Deadlock is checked for the watcher and the resources, whose models say when they are done, and for
the traffic, which takes call after call. The others stop when their bounds are used up.

Fairness. Goroutines that can run do run: weak fairness for each. Strong fairness is used where the
Go runtime or a library makes a choice again and again: `select` between a tick and a done context
(`ResourceChaos`; `Expire` of `Pastaayctl`), a starved waiter of `sync.Mutex` (`Lock` of `ConfigPlane`
and `GrpcStream`), the FIFO of the work queue (`Take`), an API server that answers again and again
(`Poll`, and `Watch` of `PodStreams`). Redis recovers, timers of the engine's own loops fire. Injected
delays are not assumed to end (`WaitOver` has no fairness), nor that users, the network, crashes,
SIGTERM or `cancel()` ever do anything.

### Disagreements with the documentation

The five violated runs are the findings of `PROJECT.json`: `ctl_oversized` (docs/remote_control.md:20),
`resource_doubled` (README.md:17), `operator_late_wake` (docs/architecture.md:246),
`config_plane_torn` (docs/configuration.md:16), `sql_double_chaos` (docs/architecture.md:186).

Further statements that do not hold, written down in the modules or here, without a run of their own.

Engine:

- `EngineFollowsFile` (Watcher; README.md:36), without the assumption that bodies do not overlap: a
  slow body installs the older version last, and no event is left to correct it.
- `WatchReattached` (Watcher; docs/configuration.md:198): after ten failed attempts in half a second
  the watch is not attached again.
- A file that is replaced between `LoadConfig` and the attachment of the watch
  (`examples/demo/main.go:78-83`) is not noticed until it changes again; events closer together than
  the debounce window put the reload off without end (`watcher.go:46`).
- `LiveUnderCeiling` (ResourceChaos): a leaker lowers the counter before it drops its memory, so
  the memory in use may exceed the ceiling for a moment.
- `FinalAckAttempted` (RedisSensor; docs/architecture.md:207): the sensor goroutine is not in
  `main`'s WaitGroup. The process may exit between `Update` and `sendAck`, or before an
  acknowledgement launched after `wg.Wait()` returned.
- `StatusRecovers` (ConfigMapSensor): a failed poll is reported in the status, its end is not until
  the version changes.
- `RunningPodStaysTailed` (PodStreams): a streamer that ends by itself stays registered, so its pod is
  not tailed again until the watch breaks off (`web/handler.go:144`). A watch that the API server
  closes at once is reopened at once, without the pause that a failed one gets (`web/handler.go:128`).
- `ShelteredIsExecuted` (Interceptors; docs/configuration.md:16): when a batch is aborted, its
  protected commands get no error and are not executed either. `Exec` returns the error of the batch,
  but a caller who looks at the protected command alone sees an empty success.
- `ObservedFaultAborts` (Interceptors; docs/architecture.md:188): the monitor reports an error and
  returns at once; the command goes on. Nothing blocks until the caller's context is cancelled.
- A query that falls back to a prepared statement, on a driver that cannot prepare or run statements
  with a context, ends with `ErrSkip` as its error (`connection.go:160`, `connection.go:197`), the
  result `errskip` of `Interceptors`: `database/sql` takes the fallback once, and the wrapper claims
  to prepare and run with a context.
- `Shutdown` does not cancel the contexts of requests that are being delayed
  (`examples/demo/main.go:200`), so the delays do not "abort instantly" (docs/architecture.md:182).
- The protection of a gRPC stream is fixed at its handshake (`interceptor.go:216`), its policies are
  not: a method that is ignored later is still sabotaged in streams that are open.
- docs/configuration.md:86 says that `stream_roll_mode` is "stream" by default and may be "message".
  `Validate` refuses "message", and an empty mode rolls for every message.
- `error_code` 100 to 199 passes `Validate`; `WriteHeader` of an informational status does not end a
  response (`middleware.go:94`), and the client sees 200.
- A camelCase key whose value is of the wrong type is warned about and left zero (`config.go:57`);
  the same key in snake_case fails the document.

Operator:

- `NoZombie` (docs/operator.md:154): `List` reads the cache. A resource released a moment
  ago may still be in it as live, without `deleting`, if it was deleted after the cache saw it live;
  the reconciliation of another policy posts it once more. It goes at the next reconciliation.
- `ExpiredIsRevoked`: the same with a policy just marked Expired.
- Exclusion is by name alone (`chaospolicy_controller.go:235`): the flush of `a/x` also drops `b/x`,
  which reads Applied. `Name` is a constant so that the case can be instantiated; the run uses
  different names.
- One resource the engine refuses blocks the whole set, deletions included
  (`chaospolicy_controller.go:170`). The liveness properties say "unless the set stays poisoned".
- The operator does not notice a restart of the engine (docs/operator.md:139); `AppliedIsLoaded` is
  stated for `restarts = 0`.

pastaayctl:

- docs/pastaayctl.md:38: only `strike` has `--ttl`, and the switch is in the client: when the session
  ends with SIGHUP, which `dispatch` does not catch (`attack.go:161`), nothing is rolled back.
- A halt whose POST fails or is not answered is not tried again (`attack.go:199`), and a POST given up
  earlier may be applied after it: the attack goes on. `QuietAfterExit` is stated without `trouble`.
- `halt` wipes all policies, those that others had loaded before included.
- `autopilot` takes the result of no POST into account (`autopilot.go:82`): for gRPC the code 503 it
  sends is refused by the engine, as is any chance above 1, and it claims success.
  `SuccessIsEarned` is stated for chances the engine accepts.
- `run` tolerates failures up to `--threshold`, 3 by default (`run.go:42`); docs/pastaayctl.md:63 speaks
  of an immediate rollback. A probe under way when the operator aborts counts as a failure.
- Only `autopilot` writes the history that docs/pastaayctl.md:87 says "records every chaos injection";
  two processes that write it at once lose an entry.
- The linter complains from 5 s and 1 GB on; docs/pastaayctl.md:48 says over 10 s and 4 GB, which
  `Validate` alone refuses (4 GB; latencies up to an hour pass). docs/architecture.md:202 puts the limit
  of a latency at 60 s; it is an hour (`config.go:16`), and no property is about it.
- `Analyze` compares with "resource" as it is spelled: a policy of type "Resource", which `Validate`
  accepts, has no RAM or CPU risk.

## 4. What is proved

TLAPS proves, for all values of the constants that satisfy the named assumptions:

- `WatcherProofs` (from `BodyAssumption`, `BoundAssumption`): `TypeOK`, `OneTimerArmed`,
  `QuietAfterCancel` and `NoReloadAfterCancel`, for any number of bodies, acts and attempts.
  `QuietAfterCancel` is not inductive: that `fireWG.Wait()` waits for the right bodies needs `Counted`
  (`fireWG` is the number of bodies in flight), that no body can be armed after the timer was stopped
  needs `NothingArmed` (`timerMu` keeps the loop from being between its check and its arming) and
  `LoopJoined`. `IInv` is their conjunction with the properties.
- `ResourceProofs` (from `ResourceAssumption`): `TypeOK`, `CeilingHonoured`, `OneGeneration`,
  `PoolBalanced` and `QuietAfterReturn`, for any configurations, ceiling and number of generations. The
  inductive invariant adds `Counted` (`wg` is the number of live goroutines), `LiveIsStarted` (each
  belongs to the running generation and to a policy that started) and `SwapFits` (what a leaker loaded
  leaves room for its chunk, so that a swap that succeeds respects the ceiling). On top of it `Books`:
  the pool is the sum of what the goroutines reserved, who holds nothing live holds no memory
  (`Emptied`), and after the return nobody is left (`ReturnedLast`). Each step changes the account of
  one goroutine, so the proof needs what a sum over a finite set is (`SumEmpty`, `SumRemove`,
  `SumChange`). The library's induction theorems cannot be used for that here; the lemmas are proved by
  least counterexamples instead (`Least`): proper inclusion of finite sets is well founded, so that the
  set of those for which a lemma fails has a smallest member.
- `InterceptorsProofs` (from `InterceptorAssumption` and `BusAssumption`): first the bus alone, `TypeOK`
  and `SnapshotIsRecent` for a ring of any size: the initial states map to the empty log and each `Emit`
  to a `Push`; the invariant adds `NotWrapped`, and lemmas give the index arithmetic modulo `Size`. The
  interceptors change the bus by `Emit` only, so `SnapshotIsRecent` holds of them too; `CallTypeOK`,
  `FaultIsNotExecuted`, `ShelteredIsSpared` and `FaultIsOnRecord` (no run checks the last; the
  composition's proof rests on its lemmas), for any commands, configurations and ring. The properties
  speak of calls that have ended; `CallInv` says why on the way: `Unexecuted`
  (nothing is executed before the last step), `Kinds` (a batch never reaches the sequential evaluator),
  `Batch` (no open command of a batch is sheltered) and `Exposed` (a call chaos looks at holds a command
  that is not sheltered; it is past `Protect`, and every snapshot ignores what is sheltered).
- `TrafficProofs` (from the assumptions of its parts): first a stream alone, `StreamTypeOK` and
  `FateIsKept`, for any methods, metadata and configurations. `FateIsKept` needs `Remembered` (what took
  effect is what the map says), and that needs `Exclusive`: whoever decides holds the mutex over the
  whole of lookup and decision, and a direction about to write found no verdict there. `InCall` ties the
  map to the open call. Then `Traffic`, calls and a stream on one bus: `TrafficInv` puts the three
  invariants together; `EachStep` says that a step is one of a side and leaves the other alone, so that
  `FaultIsNotExecuted`, `ShelteredIsSpared`, `FateIsKept`, the types and the refinement of `RecentLog`
  hold however the two take turns. `FaultStaysOnRecord` is what they share: a call writes its fault last
  (`RecordStep`), an entry of a stream moves it one place back (`RecordAges`), and index arithmetic
  modulo `Size` says that it is not overwritten before `Size` entries.
- `SourcesProofs` (from `SensorAssumption`, `SourcesAssumption`): `SourcesTypeOK`, `GraceRespected`,
  `AppliedOnceInOrder`, `NoOrphanStream`, for any numbers of messages, outages, versions, pods and
  streamers. The inductive invariant is one part per source. `Counted` (the WaitGroup is the number of
  acknowledgements under way, and one for the others) rests on `Unread`: no message is acknowledged
  twice, since it is ahead of the sensor or in its hands until then. `Seen`: what was applied is no
  newer than what was seen, an answer no older. `Registered`: who is not cancelled is registered.
- `ConfigPlaneProofs` (from `PlaneAssumption`): `TypeOK`, and that the plane implements `AtomicEngine`,
  for any callers, requests, paths and configurations. The invariant adds `Validated` (what a caller is
  about to publish is valid, so `Update`'s silent refusal never happens to a call that is answered
  "applied") and `Judged` (a request stands where its policies can have led it). The refinement is
  proved under `OneProtection`, the configurations in play together protect the same paths: then
  `Exposed` holds between the two loads of the snapshot. `config_plane_torn` is the counterexample
  without it.
- `OperatorProofs` (from `OperatorAssumption`): `TypeOK`, `ReleasedIsFlushed` and `AppliedIsLoaded`, for
  any policies, kinds and number of lost POSTs, crashes and restarts. Everything rests on one order,
  `Behind`: a resource only moves forward (none, live, deleting, gone, and a phase is not taken back),
  so what the worker read trails the cache (`ReadTrails`) and the cache trails the server (`Trails`).
  `Reads` says what the worker's place tells of its read, `Excluded` that a policy about to be released
  is neither sent nor loaded: that is `ReleasedIsFlushed`, and it holds even if policies share a name.
  `AppliedIsLoaded` needs `DistinctNames`. Its own invariant is `Loaded`: what is on its way to the
  engine holds everything that reads Applied (`Carried`), and if the write of the phase goes through,
  nothing had changed since the read, so that the policy was collected too.

- `PastaayctlProofs` (from `CtlAssumption`): all five invariants of the run `pastaayctl`, for any files,
  flags, ramps and thresholds. `CtlInv` has nine parts besides the types. `Standing` says where a
  command can be, and that what leads to the exit of one that halts is the payload of halt; `Awaited`,
  that without trouble a POST is on its way only while its sender waits for the answer. With
  `ResetServed` (the webhook accepts the payload of halt, and nothing is left) they make
  `QuietAfterExit` inductive. `Climbed` says that the chance is 5 percent and so many steps, and that
  each acceptable rung below was survived; it needs `Running` (what is probed is what runs), which
  `RampServed` and `Awaited` give. `Unbroken` and `AtTheTop` lead to the grade and the record. `Looked`
  says that the exit of a command that only looks is the verdict of `LoadConfig`. What is left are
  lemmas about the operators: `SpellingsAgree` (a well-typed policy decodes alike with its keys in
  camelCase) for `ValidateSpeaksForEngine` and `LessIsLess` for `PlanRiskGrows`, for lists of any
  length: those that remain collide with no policy that they did not collide with before
  (`CollidesStill`), so no risk is greater (`FactorsShrink`); products of factors that are no smaller are
  no smaller (`ChainsCompare`), and the factor left out was at most one (`LeftWithout`), so that no less
  survives (`Remaining`); rounding down keeps the order of the scores (`ScoresCompare`). The induction is
  over the steps of the product, as a set of numbers that is all of them (`Reaches`).

Every safety property that a passing run checks is proved, all of them invariants or action properties.
Model-checked only: the liveness properties (`CommandEnds` and the others; liveness under fairness is
beyond the prover). The guard's arithmetic is proved exact; the code has doubles, whose rounding is not
modelled.

## 5. Not modelled, and the plan

Not modelled: metrics and tracing (wrappers without state), the oracle (one HTTP exchange with a language
model), formatting and terminal output, the profiles, audit, telemetry, ask and registry commands of
pastaayctl (they print, or edit one file of the user), `snipe` (it asks for the flags of `strike`) and
`--broadcast` (it publishes what `RedisSensor` receives), the console's other handlers (they read, or ask
a third party), the legacy calls of the SQL wrapper without a context (`database/sql` does not use them on
it), leader election (it keeps the operator to one worker). The boot of the process is a precondition of
each module: the file was read and watched, the service account files were read. A POST of the operator
that times out takes effect at that moment or never, not later (`chaospolicy_controller.go:58`).

What could follow, in this order:

1. `Process`: boot and shutdown composed from watcher, sensors and daemon, with the window between
   `LoadConfig` and the watch, and requests that are being delayed during `Shutdown`.
2. Pure operators: `CleanSQLCommand` and the policy hash against reference definitions.
3. A network between operator and engine, that delays POSTs, and two keys with one name.
